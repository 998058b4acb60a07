----------------------------- MODULE JsonStream -----------------------------
(***************************************************************************)
(* JSON::OutputStream of src/zimcheck/json_tools.{h,cpp}. A stream is a    *)
(* record of the scopes that are open (m_nesting) and of the text that was *)
(* written. The text is not kept: it is abstracted to the state in which a *)
(* reader of the JSON grammar is after having read it, which is all that   *)
(* tells whether it is (the beginning of) a JSON document.                 *)
(***************************************************************************)
EXTENDS Integers, Sequences, SequencesExt

-----------------------------------------------------------------------------
(* The reader: what it expects next, and the objects and arrays that are   *)
(* open in what it has read. The tokens are the six structural ones of     *)
(* JSON ({ } [ ] : and the comma), "string", "literal" and "noise"         *)
(* (anything that JSON does not know).                                     *)

Expectations == {"value", "value_or_end", "key", "key_or_end", "colon",
                 "comma_or_end", "nothing", "error"}

Reader == [expects |-> "value", open |-> <<>>]

Closing(r, type) ==
    LET open == Front(r.open)
    IN  IF r.open # <<>> /\ Last(r.open) = type
          THEN [expects |-> IF open = <<>> THEN "nothing" ELSE "comma_or_end",
                open |-> open]
          ELSE [r EXCEPT !.expects = "error"]

Read(r, token) ==
    LET starts == r.expects \in {"value", "value_or_end"}
    IN  CASE token = "begin_object" /\ starts ->
                [expects |-> "key_or_end", open |-> Append(r.open, "OBJECT")]
          [] token = "begin_array" /\ starts ->
                [expects |-> "value_or_end", open |-> Append(r.open, "ARRAY")]
          [] token \in {"string", "literal"} /\ starts ->
                [r EXCEPT !.expects = IF r.open = <<>> THEN "nothing" ELSE "comma_or_end"]
          [] token = "string" /\ r.expects \in {"key", "key_or_end"} ->
                [r EXCEPT !.expects = "colon"]
          [] token = "colon" /\ r.expects = "colon" -> [r EXCEPT !.expects = "value"]
          [] token = "comma" /\ r.expects = "comma_or_end" ->
                [r EXCEPT !.expects = IF Last(r.open) = "OBJECT" THEN "key" ELSE "value"]
          [] token = "end_object" /\ r.expects \in {"key_or_end", "comma_or_end"} ->
                Closing(r, "OBJECT")
          [] token = "end_array" /\ r.expects \in {"value_or_end", "comma_or_end"} ->
                Closing(r, "ARRAY")
          [] OTHER -> [r EXCEPT !.expects = "error"]

-----------------------------------------------------------------------------
(* The stream. *)

ScopeInfo == [type : {"OBJECT", "ARRAY"}, hasData : BOOLEAN]

OutputStream == [nesting |-> <<>>, text |-> Reader]

Top(js) == Last(js.nesting)

Put(js, token) == [js EXCEPT !.text = Read(@, token)]

\* sep(), printed
Sep(js) == IF js.nesting # <<>> /\ Top(js).hasData THEN Put(js, "comma") ELSE js

\* What operator<<() prints before the elements of an array.
ElementSep(js) ==
    IF js.nesting # <<>> /\ Top(js).type = "ARRAY" THEN Sep(js) ELSE js

MarkData(js) ==
    IF js.nesting = <<>> THEN js
    ELSE [js EXCEPT !.nesting = Append(Front(@), [type |-> Top(js).type, hasData |-> TRUE])]

Push(js, type) ==
    [js EXCEPT !.nesting = Append(@, [type |-> type, hasData |-> FALSE])]

Pop(js) == [js EXCEPT !.nesting = Front(@)]

String(js) == MarkData(Put(ElementSep(js), "string"))

\* Unlike a string, a boolean does not set hasData: it occurs in properties only.
Bool(js) == Put(ElementSep(js), "literal")

StartObject(js) == Push(Put(ElementSep(js), "begin_object"), "OBJECT")

EndObject(js) == MarkData(Put(Pop(ElementSep(js)), "end_object"))

StartArray(js) == Push(Put(ElementSep(js), "begin_array"), "ARRAY")

\* An overload of operator<<() of its own, which prints no separator.
EndArray(js) == MarkData(Put(Pop(js), "end_array"))

Strings(js, n) ==
    LET written[i \in 0..n] == IF i = 0 THEN js ELSE String(written[i - 1])
    IN  written[n]

\* output(Property): the separator and the key; the value follows.
Key(js) == Put(String(MarkData(Sep(js))), "colon")

StringProperty(js) == String(Key(js))

BoolProperty(js) == Bool(Key(js))

ListProperty(js, n) == EndArray(Strings(StartArray(Key(js)), n))

=============================================================================
