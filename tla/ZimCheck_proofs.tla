--------------------------- MODULE ZimCheck_proofs ---------------------------
(***************************************************************************)
(* Proofs about ZimCheck, for every number of workers and every choice of  *)
(* options. The control invariant says who may be writing at which stage;  *)
(* it gives the exit status. The document invariant adds which part of the *)
(* JSON document is open, and rests on lemmas about what the operations of *)
(* JsonStream do to a well-formed document.                                *)
(***************************************************************************)
EXTENDS ZimCheck, WellFoundedInduction, FiniteSetTheorems, TLAPS

-----------------------------------------------------------------------------
(* JSON documents. *)

Types == {"OBJECT", "ARRAY"}

\* A scope without elements is "empty", any other "filled".
Scope(type, fill) == [type |-> type, hasData |-> fill = "filled"]

Fills == {"empty", "filled"}

\* What was read of a document, and a stream with innermost scope type.
Text(expects, open) == [expects |-> expects, open |-> open]

Stream(nesting, text) == [nesting |-> nesting, text |-> text]

Within(below, type, fill, text) == Stream(Append(below, Scope(type, fill)), text)

\* The document of which an object or array is being written, between two of
\* its elements, inside the scopes below.
Doc(below, open, type, fill) ==
    Within(below, type, fill,
           Text(IF fill = "filled" THEN "comma_or_end"
                ELSE IF type = "OBJECT" THEN "key_or_end" ELSE "value_or_end",
                Append(open, type)))

\* The same, after the key of a property.
AfterKey(below, open) ==
    Within(below, "OBJECT", "filled", Text("value", Append(open, "OBJECT")))

\* A document that is complete.
Complete == Stream(<<>>, Text("nothing", <<>>))

-----------------------------------------------------------------------------
(* Sequences and records. *)

LEMMA AppendFacts ==
    ASSUME NEW S, NEW s \in Seq(S), NEW x \in S
    PROVE  /\ Append(s, x) \in Seq(S) /\ Append(s, x) # <<>>
           /\ Len(Append(s, x)) = Len(s) + 1
           /\ Last(Append(s, x)) = x
           /\ Front(Append(s, x)) = s
<1>1. /\ Append(s, x) \in Seq(S) /\ Append(s, x) # <<>>
      /\ Len(Append(s, x)) = Len(s) + 1 /\ Len(s) \in Nat
      /\ Append(s, x)[Len(s) + 1] = x
      /\ \A i \in 1..Len(s) : Append(s, x)[i] = s[i]
  OBVIOUS
<1>2. Last(Append(s, x)) = x
  BY <1>1 DEF Last
<1>3. Front(Append(s, x)) = SubSeq(Append(s, x), 1, Len(s))
  BY <1>1 DEF Front
<1>4. SubSeq(Append(s, x), 1, Len(s)) = s
  BY <1>1
<1> QED
  BY <1>1, <1>2, <1>3, <1>4


LEMMA ScopeFacts ==
    ASSUME NEW type \in Types, NEW h \in Fills
    PROVE  /\ Scope(type, h) \in ScopeInfo
           /\ Scope(type, h).type = type
           /\ Scope(type, h).hasData = (h = "filled")
BY Zenon DEF Scope, ScopeInfo, Types

LEMMA RecordFacts ==
    ASSUME NEW nesting, NEW text, NEW new
    PROVE  /\ Stream(nesting, text).nesting = nesting
           /\ Stream(nesting, text).text = text
           /\ [Stream(nesting, text) EXCEPT !.nesting = new] = Stream(new, text)
           /\ Put(Stream(nesting, text), new) = Stream(nesting, Read(text, new))
BY DEF Put, Stream

LEMMA CompleteFacts == Complete.nesting = <<>> /\ Complete.text.expects = "nothing"
BY DEF Complete, Stream, Text

LEMMA PutWithin ==
    ASSUME NEW below, NEW type, NEW h, NEW text, NEW token
    PROVE  Put(Within(below, type, h, text), token)
             = Within(below, type, h, Read(text, token))
BY RecordFacts DEF Within

LEMMA PushStream ==
    ASSUME NEW s, NEW text, NEW new
    PROVE  Push(Stream(s, text), new) = Stream(Append(s, Scope(new, "empty")), text)
<1>1. [type |-> new, hasData |-> FALSE] = Scope(new, "empty")
  BY DEF Scope
<1>2. Stream(s, text).nesting = s
  BY RecordFacts
<1>3. Push(Stream(s, text), new)
        = [Stream(s, text) EXCEPT !.nesting = Append(s, Scope(new, "empty"))]
  BY Zenon, <1>1, <1>2 DEF Push
<1> QED
  BY <1>3 DEF Stream

LEMMA PushWithin ==
    ASSUME NEW below, NEW type, NEW h, NEW text, NEW new
    PROVE  Push(Within(below, type, h, text), new)
             = Within(Append(below, Scope(type, h)), new, "empty", text)
<1>1. PICK s : s = Append(below, Scope(type, h))
  BY Zenon
<1>2. Push(Stream(s, text), new) = Stream(Append(s, Scope(new, "empty")), text)
  BY PushStream
<1> QED
  BY Zenon, <1>1, <1>2 DEF Within

LEMMA HasDataFacts ==
    ASSUME NEW type, NEW scope
    PROVE  /\ scope = Scope(type, "filled") => scope.hasData
           /\ scope = Scope(type, "empty") => ~scope.hasData
<1>1. Scope(type, "filled").hasData /\ ~Scope(type, "empty").hasData
  BY Zenon DEF Scope
<1> QED
  BY Zenon, <1>1

\* The operations on a stream whose innermost scope is a given one.
LEMMA InScope ==
    ASSUME NEW below \in Seq(ScopeInfo), NEW type \in Types, NEW h \in Fills, NEW text
    PROVE  /\ MarkData(Within(below, type, h, text)) = Within(below, type, "filled", text)
           /\ Pop(Within(below, type, h, text)) = Stream(below, text)
           /\ h = "filled" => Sep(Within(below, type, h, text))
                            = Within(below, type, h, Read(text, "comma"))
           /\ h = "empty" => Sep(Within(below, type, h, text)) = Within(below, type, h, text)
           /\ type = "ARRAY" => ElementSep(Within(below, type, h, text))
                                  = Sep(Within(below, type, h, text))
           /\ type = "OBJECT" => ElementSep(Within(below, type, h, text))
                                   = Within(below, type, h, text)
<1>0. PICK js : js = Within(below, type, h, text)
  BY Zenon
<1>1. /\ js.nesting = Append(below, Scope(type, h)) /\ js.nesting # <<>>
      /\ Top(js) = Scope(type, h) /\ Front(js.nesting) = below
  <2>1. js.nesting = Append(below, Scope(type, h))
    BY Zenon, <1>0, RecordFacts DEF Within
  <2>2. Scope(type, h) \in ScopeInfo
    BY Zenon, ScopeFacts
  <2> QED
    BY Zenon, <2>1, <2>2, AppendFacts DEF Top
<1>2. \A new : [js EXCEPT !.nesting = new] = Stream(new, text)
  BY <1>0 DEF Within, Stream
<1>3. \A new : Put(js, new) = Within(below, type, h, Read(text, new))
  <2> TAKE new
  <2>1. Put(Stream(Append(below, Scope(type, h)), text), new)
          = Stream(Append(below, Scope(type, h)), Read(text, new))
    BY RecordFacts
  <2> QED
    BY Zenon, <1>0, <2>1 DEF Within
<1>4. MarkData(js) = Within(below, type, "filled", text)
  <2>1. [type |-> Top(js).type, hasData |-> TRUE] = Scope(type, "filled")
    BY Zenon, <1>1, ScopeFacts DEF Scope
  <2> QED
    BY Zenon, <1>1, <1>2, <2>1 DEF MarkData, Within
<1>5. Pop(js) = Stream(below, text)
  BY Zenon, <1>1, <1>2 DEF Pop
<1>6. h = "filled" => Sep(js) = Within(below, type, h, Read(text, "comma"))
  <2> SUFFICES ASSUME h = "filled"
               PROVE  Sep(js) = Within(below, type, h, Read(text, "comma"))
    OBVIOUS
  <2>1. Top(js).hasData
    BY Zenon, <1>1, HasDataFacts
  <2> QED
    BY Zenon, <1>1, <1>3, <2>1 DEF Sep
<1>7. h = "empty" => Sep(js) = js
  <2> SUFFICES ASSUME h = "empty"
               PROVE  Sep(js) = js
    OBVIOUS
  <2>1. ~Top(js).hasData
    BY Zenon, <1>1, HasDataFacts
  <2> QED
    BY Zenon, <2>1 DEF Sep
<1>8. /\ type = "ARRAY" => ElementSep(js) = Sep(js)
      /\ type = "OBJECT" => ElementSep(js) = js
  <2>1. Top(js).type = type
    BY <1>1, ScopeFacts
  <2> QED
    BY Zenon, <1>1, <2>1 DEF ElementSep
<1> QED
  BY Zenon, <1>0, <1>4, <1>5, <1>6, <1>7, <1>8

\* What the reader makes of separators and of the elements between them.
LEMMA ReadElement ==
    ASSUME NEW open \in Seq(Types)
    PROVE  /\ Read(Text("comma_or_end", Append(open, "OBJECT")), "comma")
                = Text("key", Append(open, "OBJECT"))
           /\ Read(Text("comma_or_end", Append(open, "ARRAY")), "comma")
                = Text("value", Append(open, "ARRAY"))
           /\ \A e \in {"key", "key_or_end"} :
                Read(Text(e, Append(open, "OBJECT")), "string")
                  = Text("colon", Append(open, "OBJECT"))
           /\ Read(Text("colon", Append(open, "OBJECT")), "colon")
                = Text("value", Append(open, "OBJECT"))
           /\ \A token \in {"string", "literal"} :
                Read(Text("value", Append(open, "OBJECT")), token)
                  = Text("comma_or_end", Append(open, "OBJECT"))
           /\ \A e \in {"value", "value_or_end"} :
                Read(Text(e, Append(open, "ARRAY")), "string")
                  = Text("comma_or_end", Append(open, "ARRAY"))
<1>0. PICK object, array : object = Append(open, "OBJECT") /\ array = Append(open, "ARRAY")
  BY Zenon
<1>1. /\ object # <<>> /\ Last(object) = "OBJECT"
      /\ array # <<>> /\ Last(array) = "ARRAY"
  BY <1>0, AppendFacts DEF Types
<1>2. \A e, s, new : /\ Text(e, s).expects = e /\ Text(e, s).open = s
                     /\ [Text(e, s) EXCEPT !.expects = new] = Text(new, s)
  BY DEF Text
<1>3. /\ Read(Text("comma_or_end", object), "comma") = Text("key", object)
      /\ Read(Text("comma_or_end", array), "comma") = Text("value", array)
  BY <1>1, <1>2 DEF Read
<1>4. \A e \in {"key", "key_or_end"} : Read(Text(e, object), "string") = Text("colon", object)
  BY <1>2 DEF Read
<1>5. Read(Text("colon", object), "colon") = Text("value", object)
  BY <1>2 DEF Read
<1>6. \A token \in {"string", "literal"} :
        Read(Text("value", object), token) = Text("comma_or_end", object)
  BY <1>1, <1>2 DEF Read
<1>7. \A e \in {"value", "value_or_end"} :
        Read(Text(e, array), "string") = Text("comma_or_end", array)
  BY <1>1, <1>2 DEF Read
<1> QED
  BY Zenon, <1>0, <1>3, <1>4, <1>5, <1>6, <1>7

\* The beginning and the end of an object or array.
LEMMA ReadBracket ==
    ASSUME NEW open \in Seq(Types)
    PROVE  /\ \A e \in {"value", "value_or_end"} :
                /\ Read(Text(e, open), "begin_object")
                     = Text("key_or_end", Append(open, "OBJECT"))
                /\ Read(Text(e, open), "begin_array")
                     = Text("value_or_end", Append(open, "ARRAY"))
           /\ \A e \in {"key_or_end", "comma_or_end"} :
                Read(Text(e, Append(open, "OBJECT")), "end_object")
                  = Text(IF open = <<>> THEN "nothing" ELSE "comma_or_end", open)
           /\ \A e \in {"value_or_end", "comma_or_end"} :
                Read(Text(e, Append(open, "ARRAY")), "end_array")
                  = Text(IF open = <<>> THEN "nothing" ELSE "comma_or_end", open)
<1>0. PICK object, array : object = Append(open, "OBJECT") /\ array = Append(open, "ARRAY")
  BY Zenon
<1>1. /\ object # <<>> /\ Last(object) = "OBJECT" /\ Front(object) = open
      /\ array # <<>> /\ Last(array) = "ARRAY" /\ Front(array) = open
  BY <1>0, AppendFacts DEF Types
<1>2. \A e, s : Text(e, s).expects = e /\ Text(e, s).open = s
  BY DEF Text
<1>3. \A e \in {"value", "value_or_end"} :
        /\ Read(Text(e, open), "begin_object")
             = [expects |-> "key_or_end", open |-> Append(open, "OBJECT")]
        /\ Read(Text(e, open), "begin_array")
             = [expects |-> "value_or_end", open |-> Append(open, "ARRAY")]
  BY <1>2 DEF Read
<1>4. \A e : /\ Closing(Text(e, object), "OBJECT")
                  = Text(IF open = <<>> THEN "nothing" ELSE "comma_or_end", open)
             /\ Closing(Text(e, array), "ARRAY")
                  = Text(IF open = <<>> THEN "nothing" ELSE "comma_or_end", open)
  <2> TAKE e
  <2>1. /\ Closing(Text(e, object), "OBJECT")
             = [expects |-> IF open = <<>> THEN "nothing" ELSE "comma_or_end", open |-> open]
        /\ Closing(Text(e, array), "ARRAY")
             = [expects |-> IF open = <<>> THEN "nothing" ELSE "comma_or_end", open |-> open]
    BY Zenon, <1>1, <1>2 DEF Closing
  <2> QED
    BY Zenon, <2>1 DEF Text
<1>5. \A e \in {"key_or_end", "comma_or_end"} :
        Read(Text(e, object), "end_object") = Closing(Text(e, object), "OBJECT")
  BY <1>2 DEF Read
<1>6. \A e \in {"value_or_end", "comma_or_end"} :
        Read(Text(e, array), "end_array") = Closing(Text(e, array), "ARRAY")
  BY <1>2 DEF Read
<1>7. \A e \in {"value", "value_or_end"} :
        /\ Read(Text(e, open), "begin_object") = Text("key_or_end", object)
        /\ Read(Text(e, open), "begin_array") = Text("value_or_end", array)
  BY Zenon, <1>0, <1>3 DEF Text
<1> QED
  BY Zenon, <1>0, <1>4, <1>5, <1>6, <1>7

-----------------------------------------------------------------------------
(* Properties of an object. *)

\* Key(): a comma if there is a property before, the key and the colon.
LEMMA KeyOfProperty ==
    ASSUME NEW below \in Seq(ScopeInfo), NEW open \in Seq(Types), NEW h \in Fills
    PROVE  Key(Doc(below, open, "OBJECT", h)) = AfterKey(below, open)
<1>1. "OBJECT" \in Types
  BY DEF Types
<1> DEFINE In(hd, e) == Within(below, "OBJECT", hd, Text(e, Append(open, "OBJECT")))
<1>2. PICK e \in {"key", "key_or_end"} : Sep(Doc(below, open, "OBJECT", h)) = In(h, e)
  <2>1. CASE h = "filled"
    <3>1. Doc(below, open, "OBJECT", h) = In(h, "comma_or_end")
      BY Zenon, <2>1 DEF Doc
    <3>2. Sep(In(h, "comma_or_end")) = In(h, "key")
      BY <1>1, <2>1, InScope, ReadElement
    <3> QED
      BY Zenon, <3>1, <3>2
  <2>2. CASE h = "empty"
    <3>1. Doc(below, open, "OBJECT", h) = In(h, "key_or_end")
      BY Zenon, <2>2 DEF Doc
    <3>2. Sep(In(h, "key_or_end")) = In(h, "key_or_end")
      BY Zenon, <1>1, <2>2, InScope
    <3> QED
      BY Zenon, <3>1, <3>2
  <2> QED
    BY <2>1, <2>2 DEF Fills
<1>3. MarkData(In(h, e)) = In("filled", e)
  BY Zenon, <1>1, InScope
<1>4. String(In("filled", e)) = In("filled", "colon")
  <2>1. ElementSep(In("filled", e)) = In("filled", e)
    BY <1>1, InScope DEF Fills
  <2>2. Put(In("filled", e), "string") = In("filled", "colon")
    BY <1>2, PutWithin, ReadElement
  <2>3. MarkData(In("filled", "colon")) = In("filled", "colon")
    BY <1>1, InScope DEF Fills
  <2> QED
    BY Zenon, <2>1, <2>2, <2>3 DEF String
<1>5. Put(In("filled", "colon"), "colon") = In("filled", "value")
  BY PutWithin, ReadElement
<1>6. In("filled", "value") = AfterKey(below, open)
  BY Zenon DEF AfterKey
<1> QED
  BY Zenon, <1>2, <1>3, <1>4, <1>5, <1>6 DEF Key

LEMMA ValueOfProperty ==
    ASSUME NEW below \in Seq(ScopeInfo), NEW open \in Seq(Types)
    PROVE  /\ String(AfterKey(below, open)) = Doc(below, open, "OBJECT", "filled")
           /\ Bool(AfterKey(below, open)) = Doc(below, open, "OBJECT", "filled")
           /\ StartArray(AfterKey(below, open))
                = Doc(Append(below, Scope("OBJECT", "filled")), Append(open, "OBJECT"),
                      "ARRAY", "empty")
<1> DEFINE In(e) == Within(below, "OBJECT", "filled", Text(e, Append(open, "OBJECT")))
<1>1. "OBJECT" \in Types /\ "ARRAY" \in Types /\ Append(open, "OBJECT") \in Seq(Types)
  BY DEF Types
<1>2. AfterKey(below, open) = In("value")
  BY Zenon DEF AfterKey
<1>3. Doc(below, open, "OBJECT", "filled") = In("comma_or_end")
  BY Zenon DEF Doc
<1>4. ElementSep(In("value")) = In("value")
  BY <1>1, InScope DEF Fills
<1>5. /\ Put(In("value"), "string") = In("comma_or_end")
      /\ Put(In("value"), "literal") = In("comma_or_end")
  BY PutWithin, ReadElement
<1>6. MarkData(In("comma_or_end")) = In("comma_or_end")
  BY <1>1, InScope DEF Fills
<1>7. StartArray(In("value")) = Doc(Append(below, Scope("OBJECT", "filled")),
                                    Append(open, "OBJECT"), "ARRAY", "empty")
  <2> DEFINE text == Text("value_or_end", Append(Append(open, "OBJECT"), "ARRAY"))
  <2>1. Put(In("value"), "begin_array") = Within(below, "OBJECT", "filled", text)
    <3>1. Read(Text("value", Append(open, "OBJECT")), "begin_array") = text
      BY <1>1, ReadBracket
    <3> QED
      BY <3>1, PutWithin
  <2>2. Push(Within(below, "OBJECT", "filled", text), "ARRAY")
          = Within(Append(below, Scope("OBJECT", "filled")), "ARRAY", "empty", text)
    BY PushWithin
  <2>3. Doc(Append(below, Scope("OBJECT", "filled")), Append(open, "OBJECT"), "ARRAY", "empty")
          = Within(Append(below, Scope("OBJECT", "filled")), "ARRAY", "empty", text)
    BY Zenon DEF Doc
  <2> QED
    BY Zenon, <1>4, <2>1, <2>2, <2>3 DEF StartArray
<1> QED
  BY Zenon, <1>2, <1>3, <1>4, <1>5, <1>6, <1>7 DEF String, Bool

\* output(Property) with a string or a Boolean: one more property.
LEMMA SimpleProperty ==
    ASSUME NEW below \in Seq(ScopeInfo), NEW open \in Seq(Types), NEW h \in Fills
    PROVE  /\ StringProperty(Doc(below, open, "OBJECT", h)) = Doc(below, open, "OBJECT", "filled")
           /\ BoolProperty(Doc(below, open, "OBJECT", h)) = Doc(below, open, "OBJECT", "filled")
BY Zenon, KeyOfProperty, ValueOfProperty DEF StringProperty, BoolProperty

-----------------------------------------------------------------------------
(* Arrays. *)

\* What precedes an element of an array.
LEMMA SepInArray ==
    ASSUME NEW below \in Seq(ScopeInfo), NEW open \in Seq(Types), NEW h \in Fills
    PROVE  \E e \in {"value", "value_or_end"} :
              ElementSep(Doc(below, open, "ARRAY", h))
                = Within(below, "ARRAY", h, Text(e, Append(open, "ARRAY")))
<1> DEFINE In(e) == Within(below, "ARRAY", h, Text(e, Append(open, "ARRAY")))
<1>1. "ARRAY" \in Types
  BY DEF Types
<1>2. CASE h = "filled"
  <2>1. Doc(below, open, "ARRAY", h) = In("comma_or_end")
    BY Zenon, <1>2 DEF Doc
  <2>2. ElementSep(In("comma_or_end")) = In("value")
    BY <1>1, <1>2, InScope, ReadElement
  <2> QED
    BY Zenon, <2>1, <2>2
<1>3. CASE h = "empty"
  <2>1. Doc(below, open, "ARRAY", h) = In("value_or_end")
    BY Zenon, <1>3 DEF Doc
  <2>2. ElementSep(In("value_or_end")) = In("value_or_end")
    BY <1>1, <1>3, InScope
  <2> QED
    BY Zenon, <2>1, <2>2
<1> QED
  BY <1>2, <1>3 DEF Fills

\* One more string in an array, after a comma unless it is the first.
LEMMA StringInArray ==
    ASSUME NEW below \in Seq(ScopeInfo), NEW open \in Seq(Types), NEW h \in Fills
    PROVE  String(Doc(below, open, "ARRAY", h)) = Doc(below, open, "ARRAY", "filled")
<1> DEFINE In(hd, e) == Within(below, "ARRAY", hd, Text(e, Append(open, "ARRAY")))
<1>1. "ARRAY" \in Types
  BY DEF Types
<1>2. PICK e \in {"value", "value_or_end"} :
         ElementSep(Doc(below, open, "ARRAY", h)) = In(h, e)
  BY Zenon, SepInArray
<1>3. Put(In(h, e), "string") = In(h, "comma_or_end")
  BY <1>2, PutWithin, ReadElement
<1>4. MarkData(In(h, "comma_or_end")) = In("filled", "comma_or_end")
  BY Zenon, <1>1, InScope
<1>5. In("filled", "comma_or_end") = Doc(below, open, "ARRAY", "filled")
  BY Zenon DEF Doc
<1> QED
  BY Zenon, <1>2, <1>3, <1>4, <1>5 DEF String

\* A set of numbers that is not empty has a least element: < is well-founded.
LEMMA LeastNumber ==
    ASSUME NEW S, S \subseteq Nat, S # {}
    PROVE  \E x \in S : \A y \in S : x <= y
<1> DEFINE R == {p \in Nat \X Nat : p[1] < p[2]}
<1>1. \E x \in S : \A y \in S : ~ (<<y, x>> \in R)
  <2>1. IsWellFoundedOn(R, Nat)
    BY NatLessThanWellFounded DEF OpToRel
  <2> QED  BY <2>1, WFMin, Zenon
<1>2. \A x, y \in Nat : y < x => <<y, x>> \in R
  OBVIOUS
<1> HIDE DEF R
<1>3. PICK x \in S : \A y \in S : ~ (y < x)
  BY <1>1, <1>2
<1> QED  BY <1>3

\* A list of strings: at most its first element changes the state.
LEMMA StringsInArray ==
    ASSUME NEW below \in Seq(ScopeInfo), NEW open \in Seq(Types), NEW n \in Nat
    PROVE  \E h \in Fills :
              Strings(Doc(below, open, "ARRAY", "empty"), n) = Doc(below, open, "ARRAY", h)
<1>1. PICK none, some : /\ none = Doc(below, open, "ARRAY", "empty")
                        /\ some = Doc(below, open, "ARRAY", "filled")
  BY Zenon
<1>2. String(none) = some /\ String(some) = some
  BY <1>1, StringInArray DEF Fills
<1> DEFINE F == [i \in 0..n |-> IF i = 0 THEN none ELSE some]
           Defines(f) == f = [i \in 0..n |-> IF i = 0 THEN none ELSE String(f[i - 1])]
           f == CHOOSE f : Defines(f)
<1>3. Defines(F)
  <2>1. \A i \in 0..n : F[i] = IF i = 0 THEN none ELSE String(F[i - 1])
    BY <1>2
  <2> QED
    BY <2>1
<1>4. Defines(f)
  BY Zenon, <1>3
<1>5. f[n] = none \/ f[n] = some
  <2>1. CASE n = 0
    BY <1>4, <2>1
  <2> HIDE DEF f
  <2>2. CASE n # 0
    <3> DEFINE Bad == {i \in 1..n : f[i] # some}
    <3>1. ASSUME Bad # {} PROVE FALSE
      <4>0. Bad \subseteq Nat
        OBVIOUS
      <4>1. PICK i \in Bad : \A j \in Bad : i <= j
        <5> HIDE DEF Bad
        <5> QED
          BY <3>1, <4>0, LeastNumber
      <4>2. i \in 1..n /\ f[i] = String(f[i - 1])
        BY <1>4, <4>1
      <4>3. f[i - 1] = IF i - 1 = 0 THEN none ELSE some
        <5>1. CASE i = 1
          <6>1. f[0] = none
            BY <1>4
          <6> QED
            BY <5>1, <6>1
        <5>2. CASE i # 1
          <6>1. i - 1 \in 1..n /\ i - 1 \notin Bad
            BY <4>0, <4>1, <4>2, <5>2
          <6>2. f[i - 1] = some
            BY <6>1
          <6> QED
            BY <4>2, <5>2, <6>2
        <5> QED
          BY <5>1, <5>2
      <4> QED
        BY <1>2, <4>1, <4>2, <4>3
    <3> QED
      BY <2>2, <3>1
  <2> QED
    BY <2>1, <2>2
<1>6. Strings(none, n) = f[n]
  BY Zenon DEF Strings
<1> QED
  BY <1>1, <1>5, <1>6 DEF Fills

\* The end of an array that is the value of a property.
LEMMA EndOfList ==
    ASSUME NEW below \in Seq(ScopeInfo), NEW open \in Seq(Types), NEW h \in Fills
    PROVE  EndArray(Doc(Append(below, Scope("OBJECT", "filled")), Append(open, "OBJECT"),
                        "ARRAY", h))
             = Doc(below, open, "OBJECT", "filled")
<1> DEFINE outer == Append(below, Scope("OBJECT", "filled"))
           scopes == Append(open, "OBJECT")
<1>1. PICK e \in {"value_or_end", "comma_or_end"} :
         Doc(outer, scopes, "ARRAY", h)
           = Within(outer, "ARRAY", h, Text(e, Append(scopes, "ARRAY")))
  <2>1. \/ Doc(outer, scopes, "ARRAY", h)
             = Within(outer, "ARRAY", h, Text("comma_or_end", Append(scopes, "ARRAY")))
        \/ Doc(outer, scopes, "ARRAY", h)
             = Within(outer, "ARRAY", h, Text("value_or_end", Append(scopes, "ARRAY")))
    BY Zenon DEF Doc
  <2> QED
    BY Zenon, <2>1
<1>2. /\ outer \in Seq(ScopeInfo) /\ scopes \in Seq(Types) /\ scopes # <<>>
      /\ "ARRAY" \in Types /\ "OBJECT" \in Types /\ "filled" \in Fills
  BY ScopeFacts DEF Types, Fills
<1>3. Pop(Doc(outer, scopes, "ARRAY", h)) = Stream(outer, Text(e, Append(scopes, "ARRAY")))
  <2> HIDE DEF outer, scopes
  <2> QED
    BY <1>1, <1>2, InScope
<1>4. Put(Stream(outer, Text(e, Append(scopes, "ARRAY"))), "end_array")
        = Stream(outer, Text("comma_or_end", scopes))
  <2> HIDE DEF outer, scopes
  <2>1. Read(Text(e, Append(scopes, "ARRAY")), "end_array") = Text("comma_or_end", scopes)
    BY <1>2, ReadBracket
  <2> QED
    BY <2>1, RecordFacts
<1>5. MarkData(Stream(outer, Text("comma_or_end", scopes)))
        = Within(below, "OBJECT", "filled", Text("comma_or_end", scopes))
  <2>1. Stream(outer, Text("comma_or_end", scopes))
          = Within(below, "OBJECT", "filled", Text("comma_or_end", scopes))
    BY Zenon DEF Within
  <2> HIDE DEF scopes, outer
  <2> QED
    BY <1>2, <2>1, InScope
<1>6. Doc(below, open, "OBJECT", "filled")
        = Within(below, "OBJECT", "filled", Text("comma_or_end", scopes))
  BY Zenon DEF Doc
<1> QED
  BY Zenon, <1>3, <1>4, <1>5, <1>6 DEF EndArray

\* A list is one more property.
LEMMA ListIsProperty ==
    ASSUME NEW below \in Seq(ScopeInfo), NEW open \in Seq(Types), NEW h \in Fills,
           NEW n \in Nat
    PROVE  ListProperty(Doc(below, open, "OBJECT", h), n)
             = Doc(below, open, "OBJECT", "filled")
<1> DEFINE outer == Append(below, Scope("OBJECT", "filled"))
           scopes == Append(open, "OBJECT")
<1>1. outer \in Seq(ScopeInfo) /\ scopes \in Seq(Types)
  BY ScopeFacts DEF Types, Fills
<1>2. Key(Doc(below, open, "OBJECT", h)) = AfterKey(below, open)
  BY KeyOfProperty
<1>3. StartArray(AfterKey(below, open)) = Doc(outer, scopes, "ARRAY", "empty")
  BY Zenon, ValueOfProperty
<1>4. PICK k \in Fills : Strings(Doc(outer, scopes, "ARRAY", "empty"), n)
                           = Doc(outer, scopes, "ARRAY", k)
  <2> HIDE DEF outer, scopes
  <2> QED
    BY Zenon, <1>1, StringsInArray
<1>5. EndArray(Doc(outer, scopes, "ARRAY", k)) = Doc(below, open, "OBJECT", "filled")
  BY Zenon, <1>4, EndOfList
<1> QED
  BY Zenon, <1>2, <1>3, <1>4, <1>5 DEF ListProperty

-----------------------------------------------------------------------------
(* Objects. *)

\* An object begins as an element of an array.
LEMMA ObjectInArray ==
    ASSUME NEW below \in Seq(ScopeInfo), NEW open \in Seq(Types), NEW h \in Fills
    PROVE  StartObject(Doc(below, open, "ARRAY", h))
             = Doc(Append(below, Scope("ARRAY", h)), Append(open, "ARRAY"),
                   "OBJECT", "empty")
<1> DEFINE outer == Append(below, Scope("ARRAY", h))
           scopes == Append(open, "ARRAY")
           text == Text("key_or_end", Append(scopes, "OBJECT"))
<1>1. PICK e \in {"value", "value_or_end"} :
         ElementSep(Doc(below, open, "ARRAY", h)) = Within(below, "ARRAY", h, Text(e, scopes))
  BY Zenon, SepInArray
<1>2. scopes \in Seq(Types)
  BY DEF Types
<1>3. Put(Within(below, "ARRAY", h, Text(e, scopes)), "begin_object")
        = Within(below, "ARRAY", h, text)
  <2>1. Read(Text(e, scopes), "begin_object") = text
    <3> HIDE DEF scopes
    <3> QED
      BY <1>2, ReadBracket
  <2> HIDE DEF text, scopes
  <2> QED
    BY <2>1, PutWithin
<1>4. Push(Within(below, "ARRAY", h, text), "OBJECT") = Within(outer, "OBJECT", "empty", text)
  <2> HIDE DEF text
  <2> QED
    BY PushWithin
<1>5. Doc(outer, scopes, "OBJECT", "empty") = Within(outer, "OBJECT", "empty", text)
  BY Zenon DEF Doc
<1> QED
  BY Zenon, <1>1, <1>3, <1>4, <1>5 DEF StartObject

\* What remains to be done when an object ends: the scope is closed.
LEMMA EndOfAnObject ==
    ASSUME NEW below \in Seq(ScopeInfo), NEW open \in Seq(Types), NEW h \in Fills
    PROVE  EndObject(Doc(below, open, "OBJECT", h))
             = MarkData(Stream(below, Text(IF open = <<>> THEN "nothing"
                                                          ELSE "comma_or_end", open)))
<1> DEFINE scopes == Append(open, "OBJECT")
           new == Text(IF open = <<>> THEN "nothing" ELSE "comma_or_end", open)
<1>1. PICK e \in {"key_or_end", "comma_or_end"} :
         Doc(below, open, "OBJECT", h) = Within(below, "OBJECT", h, Text(e, scopes))
  <2>1. \/ Doc(below, open, "OBJECT", h)
             = Within(below, "OBJECT", h, Text("comma_or_end", scopes))
        \/ Doc(below, open, "OBJECT", h)
             = Within(below, "OBJECT", h, Text("key_or_end", scopes))
    BY Zenon DEF Doc
  <2> QED
    BY Zenon, <2>1
<1>2. "OBJECT" \in Types
  BY DEF Types
<1>3. ElementSep(Within(below, "OBJECT", h, Text(e, scopes)))
        = Within(below, "OBJECT", h, Text(e, scopes))
  <2> HIDE DEF scopes
  <2> QED
    BY <1>2, InScope
<1>4. Pop(Within(below, "OBJECT", h, Text(e, scopes))) = Stream(below, Text(e, scopes))
  <2> HIDE DEF scopes
  <2> QED
    BY <1>2, InScope
<1>5. Put(Stream(below, Text(e, scopes)), "end_object") = Stream(below, new)
  <2>1. Read(Text(e, scopes), "end_object") = new
    BY Zenon, <1>1, ReadBracket
  <2> HIDE DEF scopes, new
  <2> QED
    BY <2>1, RecordFacts
<1> QED
  BY Zenon, <1>1, <1>3, <1>4, <1>5 DEF EndObject

\* The end of an object that is an element of an array ...
LEMMA EndInArray ==
    ASSUME NEW below \in Seq(ScopeInfo), NEW open \in Seq(Types),
           NEW h \in Fills, NEW k \in Fills
    PROVE  EndObject(Doc(Append(below, Scope("ARRAY", h)), Append(open, "ARRAY"), "OBJECT", k))
             = Doc(below, open, "ARRAY", "filled")
<1> DEFINE outer == Append(below, Scope("ARRAY", h))
           scopes == Append(open, "ARRAY")
<1>1. /\ outer \in Seq(ScopeInfo) /\ scopes \in Seq(Types) /\ scopes # <<>>
      /\ "ARRAY" \in Types
  <2>1. Scope("ARRAY", h) \in ScopeInfo
    BY ScopeFacts DEF Types
  <2>2. outer \in Seq(ScopeInfo)
    BY <2>1
  <2> QED
    BY <2>2 DEF Types
<1>2. EndObject(Doc(outer, scopes, "OBJECT", k))
        = MarkData(Stream(outer, Text("comma_or_end", scopes)))
  <2> HIDE DEF outer, scopes
  <2> QED
    BY Zenon, <1>1, EndOfAnObject
<1>3. MarkData(Stream(outer, Text("comma_or_end", scopes)))
        = Within(below, "ARRAY", "filled", Text("comma_or_end", scopes))
  <2>1. Stream(outer, Text("comma_or_end", scopes))
          = Within(below, "ARRAY", h, Text("comma_or_end", scopes))
    BY Zenon DEF Within
  <2> HIDE DEF outer, scopes
  <2> QED
    BY <1>1, <2>1, InScope
<1>4. Doc(below, open, "ARRAY", "filled")
        = Within(below, "ARRAY", "filled", Text("comma_or_end", scopes))
  BY Zenon DEF Doc
<1> QED
  BY Zenon, <1>2, <1>3, <1>4

\* ... and of the document.
LEMMA EndOfDocument ==
    ASSUME NEW h \in Fills
    PROVE  EndObject(Doc(<<>>, <<>>, "OBJECT", h)) = Complete
<1>0. <<>> \in Seq(ScopeInfo) /\ <<>> \in Seq(Types)
  OBVIOUS
<1>1. EndObject(Doc(<<>>, <<>>, "OBJECT", h)) = MarkData(Complete)
  BY Zenon, EndOfAnObject, <1>0 DEF Complete
<1> QED
  BY Zenon, <1>1, CompleteFacts DEF MarkData

\* The document before it is begun, and its beginning.
LEMMA BeginOfDocument ==
    /\ OutputStream.nesting = <<>>
    /\ StartObject(OutputStream) = Doc(<<>>, <<>>, "OBJECT", "empty")
<1>1. OutputStream = Stream(<<>>, Text("value", <<>>))
  BY DEF OutputStream, Stream, Reader, Text
<1>2. OutputStream.nesting = <<>>
  BY <1>1, RecordFacts
<1>3. ElementSep(OutputStream) = OutputStream
  BY Zenon, <1>2 DEF ElementSep
<1>4. Put(OutputStream, "begin_object")
        = Stream(<<>>, Text("key_or_end", Append(<<>>, "OBJECT")))
  <2>1. Read(Text("value", <<>>), "begin_object")
          = Text("key_or_end", Append(<<>>, "OBJECT"))
    <3>1. <<>> \in Seq(Types)
      OBVIOUS
    <3> QED
      BY Zenon, <3>1, ReadBracket
  <2> QED
    BY <1>1, <2>1, RecordFacts
<1>5. \A text : Push(Stream(<<>>, text), "OBJECT") = Within(<<>>, "OBJECT", "empty", text)
  BY PushStream DEF Within
<1>6. Doc(<<>>, <<>>, "OBJECT", "empty")
        = Within(<<>>, "OBJECT", "empty", Text("key_or_end", Append(<<>>, "OBJECT")))
  BY Zenon DEF Doc
<1> QED
  BY Zenon, <1>2, <1>3, <1>4, <1>5, <1>6 DEF StartObject

-----------------------------------------------------------------------------
(* The control invariant. *)

WriteOps == {"startObject", "endObject", "string", "list", "text"}

StageNames == {"checksum", "metadata", "favicon", "main_page", "articles", "redundant",
               "redirect", "end_logs"}

TypeControl ==
    /\ enabled_tests \in TestChoices
    /\ stage \in StageNames \cup
         {"header", "integrity", "open", "iterate", "join", "unwind", "status",
          "destroy", "exited", "terminated"}
    /\ status_code \in {"PASS", "FAIL", "EXCEPTION"}
    /\ wpc \in [Workers -> {"fetch", "check", "exited"}]
    /\ testStatus \in SUBSET TestTypes
    /\ msgMutex \in Threads \cup {Nobody}
    /\ toWrite \in [Threads -> Seq(WriteOps)]

\* Who has something to write holds the mutex.
Exclusive == \A t \in Threads : toWrite[t] # <<>> <=> msgMutex = t

\* Workers run only while the main thread iterates or waits for them, and
\* write only in check(); the main thread writes only in the tests.
Writers ==
    /\ \A w \in Workers :
          /\ wpc[w] # "exited" => stage \in {"iterate", "join", "unwind", "terminated"}
          /\ toWrite[w] # <<>> => wpc[w] = "check"
    /\ toWrite[Main] # <<>> => stage \in StageNames

\* The status is that of the tests, or of an exception.
StatusInv ==
    /\ stage = "unwind" => status_code = "EXCEPTION"
    /\ stage \in {"destroy", "exited"} =>
         status_code \in {"EXCEPTION", IF overallStatus THEN "PASS" ELSE "FAIL"}

\* The integrity test comes first, and nothing follows its failure.
Damage ==
    /\ stage \in {"header", "integrity"} => testStatus = TestTypes
    /\ "INTEGRITY" \notin testStatus =>
         /\ testStatus = TestTypes \ {"INTEGRITY"}
         /\ stage \in {"status", "destroy", "exited"}

Control == TypeControl /\ Exclusive /\ Writers /\ StatusInv /\ Damage

-----------------------------------------------------------------------------
(* Facts about the constants. *)

LEMMA ThreadFacts ==
    /\ Threads = Workers \cup {Main}
    /\ Main \notin Workers /\ Nobody \notin Threads
BY NumWorkersAssumption DEF Threads, Workers, Main, Nobody

LEMMA StageFacts ==
    /\ ToSet(Stages) = StageNames
    /\ DOMAIN Stages = 1..8 /\ Len(Stages) = 8 /\ Stages[8] = "end_logs"
    /\ \A i \in 1..8 : Stages[i] \in StageNames
BY DEF Stages, ToSet, StageNames

LEMMA MainMessageFacts ==
    /\ DOMAIN MainMessage = {"checksum", "metadata", "favicon", "main_page", "redundant", "redirect"}
    /\ \A s \in DOMAIN MainMessage : MainMessage[s] \in MsgIds
BY DEF MainMessage, MsgIds, msgTable

\* There is always a next stage: the end of the logs is never skipped.
LEMMA NextStage ==
    ASSUME NEW n \in 1..8
    PROVE  StageFrom(n) \in StageNames
<1> DEFINE Run == {i \in n..8 : IsRun(Stages[i])}
           First(i) == IsRun(Stages[i]) /\ \A j \in n..(i - 1) : ~IsRun(Stages[j])
<1>1. 8 \in Run
  <2>1. IsRun("end_logs")
    BY DEF IsRun
  <2> QED
    BY <2>1, StageFacts
<1>2. PICK i \in Run : \A j \in Run : i <= j
  <2>1. Run \subseteq Nat
    OBVIOUS
  <2> HIDE DEF Run
  <2> QED
    BY <1>1, <2>1, LeastNumber
<1>3. i \in n..8 /\ First(i)
  BY <1>2
<1>4. StageFrom(n) = Stages[CHOOSE k \in n..8 : First(k)]
  BY Zenon, StageFacts DEF StageFrom
<1>5. (CHOOSE k \in n..8 : First(k)) \in n..8
  <2> HIDE DEF First
  <2> QED
    BY Zenon, <1>3
<1> HIDE DEF First
<1>6. PICK k \in n..8 : StageFrom(n) = Stages[k]
  BY Zenon, <1>4, <1>5
<1> QED
  BY <1>6, StageFacts

LEMMA StageAfterFacts ==
    ASSUME NEW s \in StageNames \ {"end_logs"}
    PROVE  StageAfter(s) \in StageNames
<1>1. \E i \in DOMAIN Stages : Stages[i] = s
  BY DEF StageNames, Stages
<1>2. PICK i \in DOMAIN Stages : /\ Stages[i] = s
                                 /\ i = CHOOSE n \in DOMAIN Stages : Stages[n] = s
  BY Zenon, <1>1
<1>3. 1 + i \in 1..8
  <2>1. Stages[i] = s
    BY Zenon, <1>2
  <2>2. i \in 1..8 /\ i # 8
    BY <2>1, StageFacts
  <2> QED
    BY <2>2
<1>4. StageAfter(s) = StageFrom(1 + i)
  BY Zenon, <1>2 DEF StageAfter
<1> QED
  BY <1>3, <1>4, NextStage

\* No message is about the integrity of the archive.
LEMMA MessageChecks ==
    ASSUME NEW id \in MsgIds
    PROVE  msgTable[id].check \in TestTypes \ {"INTEGRITY"}
BY DEF MsgIds, msgTable, Message, TestTypes

LEMMA MessageParams ==
    ASSUME NEW id \in MsgIds
    PROVE  msgTable[id].params \in Seq({"string", "list"})
<1>1. msgTable[id].params \in {<<>>, <<"string">>, <<"string", "string">>,
                               <<"list", "string", "string">>}
  BY DEF MsgIds, msgTable, Message
<1>2. \A p \in {<<>>, <<"string">>, <<"string", "string">>, <<"list", "string", "string">>} :
        p \in Seq({"string", "list"})
  <2>1. <<>> \in Seq({"string", "list"})
    OBVIOUS
  <2>2. <<"string">> \in Seq({"string", "list"})
    OBVIOUS
  <2>3. <<"string", "string">> \in Seq({"string", "list"})
    OBVIOUS
  <2>4. <<"list", "string", "string">> \in Seq({"string", "list"})
    OBVIOUS
  <2> QED
    BY Zenon, <2>1, <2>2, <2>3, <2>4
<1> QED
  BY Zenon, <1>1, <1>2

\* What is left of a message in JSON: its operations, from the one that is
\* next; only the first may begin the object and only the last ends it.
Unwritten(ops) ==
    /\ ops \in Seq(WriteOps) /\ ops # <<>>
    /\ ops[Len(ops)] = "endObject"
    /\ \A i \in 2..(Len(ops) - 1) : ops[i] \in {"string", "list"}
    /\ Len(ops) > 1 => ops[1] \in {"startObject", "string", "list"}

LEMMA MessageIsUnwritten ==
    ASSUME NEW id \in MsgIds
    PROVE  /\ Unwritten(JsonMessage(id))
           /\ Len(JsonMessage(id)) > 1
           /\ JsonMessage(id)[1] = "startObject"
<1>1. PICK p \in Seq({"string", "list"}) :
         JsonMessage(id) = <<"startObject", "string", "string", "string">> \o p \o <<"endObject">>
  BY Zenon, MessageParams DEF JsonMessage
<1> DEFINE head == <<"startObject", "string", "string", "string">> \o p
           ops == head \o <<"endObject">>
<1>2. /\ head \in Seq(WriteOps) /\ Len(head) = 4 + Len(p) /\ Len(p) \in Nat
      /\ head[1] = "startObject"
      /\ \A i \in 2..Len(head) : head[i] \in {"string", "list"}
  <2>1. p \in Seq(WriteOps)
    BY DEF WriteOps
  <2>2. <<"startObject", "string", "string", "string">> \in Seq(WriteOps)
    BY DEF WriteOps
  <2>3. Len(head) = 4 + Len(p) /\ head \in Seq(WriteOps)
    BY <2>1, <2>2
  <2>4. \A i \in 1..4 : head[i] = <<"startObject", "string", "string", "string">>[i]
    BY <2>1, <2>2
  <2>5. \A i \in 5..Len(head) : head[i] = p[i - 4]
    BY <2>1, <2>2, <2>3
  <2>6. \A i \in 5..Len(head) : head[i] \in {"string", "list"}
    BY <2>3, <2>5
  <2> HIDE DEF head
  <2> QED
    BY <2>3, <2>4, <2>6
<1> HIDE DEF head
<1>3. /\ ops \in Seq(WriteOps) /\ Len(ops) = Len(head) + 1 /\ ops # <<>>
      /\ ops[Len(head) + 1] = "endObject"
      /\ \A i \in 1..Len(head) : ops[i] = head[i]
  <2>1. <<"endObject">> \in Seq(WriteOps)
    BY DEF WriteOps
  <2> QED
    BY <1>2, <2>1
<1> HIDE DEF ops
<1>4. Unwritten(ops) /\ Len(ops) > 1 /\ ops[1] = "startObject"
  BY <1>2, <1>3 DEF Unwritten
<1> QED
  BY Zenon, <1>1, <1>4 DEF ops, head

-----------------------------------------------------------------------------
(* The control invariant is inductive. *)

LEMMA ControlInit == Init => Control
<1> SUFFICES ASSUME Init PROVE Control
  OBVIOUS
<1>1. \A t \in Threads : toWrite[t] = <<>>
  BY DEF Init
<1>2. TypeControl
  <2>1. toWrite \in [Threads -> Seq(WriteOps)]
    BY DEF Init
  <2>2. wpc \in [Workers -> {"fetch", "check", "exited"}]
    BY DEF Init
  <2> QED
    BY Zenon, <2>1, <2>2 DEF Init, TypeControl
<1>3. Exclusive
  BY <1>1, ThreadFacts DEF Init, Exclusive
<1>4. Writers
  <2>1. \A w \in Workers : wpc[w] = "exited"
    BY DEF Init
  <2> QED
    BY <1>1, <2>1, ThreadFacts DEF Writers
<1>5. StatusInv
  BY DEF Init, StatusInv
<1>6. Damage
  BY DEF Init, Damage, TestTypes
<1> QED
  BY Zenon, <1>2, <1>3, <1>4, <1>5, <1>6 DEF Control

\* Where there are no workers and no messages of the main thread, nobody holds
\* the mutex.
LEMMA Quiet ==
    ASSUME Control
    PROVE  /\ \A w \in Workers : wpc[w] = "exited" => toWrite[w] = <<>>
           /\ stage \notin {"iterate", "join", "unwind", "terminated"} =>
                \A w \in Workers : wpc[w] = "exited" /\ toWrite[w] = <<>>
           /\ stage \notin StageNames => toWrite[Main] = <<>>
           /\ (\A t \in Threads : toWrite[t] = <<>>) <=> msgMutex = Nobody
<1>1. \A w \in Workers : wpc[w] = "exited" => toWrite[w] = <<>>
  BY DEF Control, Writers
<1>2. stage \notin {"iterate", "join", "unwind", "terminated"} =>
        \A w \in Workers : wpc[w] = "exited" /\ toWrite[w] = <<>>
  BY <1>1 DEF Control, Writers
<1>3. stage \notin StageNames => toWrite[Main] = <<>>
  BY DEF Control, Writers
<1>4. (\A t \in Threads : toWrite[t] = <<>>) <=> msgMutex = Nobody
  BY ThreadFacts DEF Control, Exclusive, TypeControl
<1> QED
  BY Zenon, <1>1, <1>2, <1>3, <1>4

LEMMA ArticleMessageFacts == ArticleMessages \subseteq MsgIds
BY DEF ArticleMessages, MsgIds, msgTable

\* addMsg() by a thread: what it does to the control state.
LEMMA Adding ==
    ASSUME Control, NEW t \in Threads, NEW id \in MsgIds, AddMsg(t, id)
    PROVE  /\ toWrite' \in [Threads -> Seq(WriteOps)] /\ toWrite'[t] # <<>>
           /\ \A u \in Threads \ {t} : toWrite'[u] = toWrite[u] /\ toWrite[u] = <<>>
           /\ msgMutex = Nobody /\ msgMutex' = t
           /\ testStatus' \in SUBSET TestTypes
           /\ "INTEGRITY" \in testStatus => "INTEGRITY" \in testStatus'
<1>1. PICK ops \in Seq(WriteOps) : /\ ops # <<>>
                                   /\ toWrite' = [toWrite EXCEPT ![t] = ops]
  <2>1. JsonMessage(id) \in Seq(WriteOps) /\ JsonMessage(id) # <<>>
    BY Zenon, MessageIsUnwritten DEF Unwritten
  <2>2. <<"text">> \in Seq(WriteOps) /\ <<"text">> # <<>>
    BY DEF WriteOps
  <2> QED
    BY Zenon, <2>1, <2>2 DEF AddMsg
<1>2. msgMutex = Nobody /\ msgMutex' = t /\ testStatus' = testStatus \ {msgTable[id].check}
  BY DEF AddMsg
<1>3. \A u \in Threads : toWrite[u] = <<>>
  BY Zenon, <1>2, Quiet
<1>4. toWrite \in [Threads -> Seq(WriteOps)] /\ testStatus \in SUBSET TestTypes
  BY DEF Control, TypeControl
<1>5. msgTable[id].check # "INTEGRITY"
  BY Zenon, MessageChecks
<1> QED
  BY <1>1, <1>2, <1>3, <1>4, <1>5

\* One operation of a message, and the last one frees the mutex.
LEMMA Writing ==
    ASSUME Control, NEW t \in Threads, WriteMsg(t)
    PROVE  /\ toWrite' \in [Threads -> Seq(WriteOps)]
           /\ toWrite[t] # <<>> /\ toWrite'[t] = Tail(toWrite[t])
           /\ \A u \in Threads \ {t} : toWrite'[u] = toWrite[u] /\ toWrite[u] = <<>>
           /\ msgMutex = t
           /\ toWrite'[t] = <<>> => msgMutex' = Nobody
           /\ toWrite'[t] # <<>> => msgMutex' = t
<1>1. /\ toWrite[t] # <<>> /\ toWrite' = [toWrite EXCEPT ![t] = Tail(toWrite[t])]
      /\ msgMutex' = IF Len(toWrite[t]) = 1 THEN Nobody ELSE msgMutex
  BY DEF WriteMsg
<1>2. toWrite \in [Threads -> Seq(WriteOps)]
  BY DEF Control, TypeControl
<1>3. msgMutex = t /\ \A u \in Threads \ {t} : toWrite[u] = <<>>
  BY <1>1 DEF Control, Exclusive
<1>4. PICK ops \in Seq(WriteOps) : ops = toWrite[t]
  BY <1>2
<1>5. Tail(ops) \in Seq(WriteOps) /\ (Tail(ops) = <<>> <=> Len(ops) = 1)
  <2>1. Len(ops) \in Nat \ {0}
    BY <1>1, <1>4
  <2>2. Tail(ops) \in Seq(WriteOps) /\ Len(Tail(ops)) = Len(ops) - 1
    BY <2>1
  <2> QED
    BY <2>1, <2>2
<1> QED
  BY <1>1, <1>2, <1>3, <1>4, <1>5

\* A step of the main thread between two stages without workers.
LEMMA MainStep ==
    ASSUME Control, ~Gone,
           stage \notin {"iterate", "join", "unwind"},
           toWrite[Main] = <<>>,
           stage' \in StageNames \cup
             {"header", "integrity", "open", "status", "destroy", "exited"},
           status_code' \in {"PASS", "FAIL", "EXCEPTION"},
           testStatus' \in SUBSET TestTypes,
           UNCHANGED <<enabled_tests, wpc, msgMutex, toWrite>>,
           StatusInv', Damage'
    PROVE  Control'
<1>1. TypeControl'
  BY DEF Control, TypeControl
<1>2. Exclusive'
  BY Zenon DEF Control, Exclusive
<1>3. \A w \in Workers : wpc[w] = "exited" /\ toWrite[w] = <<>>
  BY Quiet DEF Gone
<1>4. Writers'
  BY <1>3 DEF Writers
<1> QED
  BY Zenon, <1>1, <1>2, <1>4 DEF Control

\* A step of the main thread or of a worker among the stages with workers.
LEMMA WorkerStep ==
    ASSUME Control,
           stage \in {"iterate", "join", "unwind", "terminated"}, stage' = stage,
           wpc' \in [Workers -> {"fetch", "check", "exited"}],
           \A w \in Workers : toWrite[w] # <<>> => wpc'[w] = "check",
           UNCHANGED <<enabled_tests, status_code, testStatus, msgMutex, toWrite>>
    PROVE  Control'
<1>1. TypeControl'
  BY DEF Control, TypeControl
<1>2. Exclusive'
  BY Zenon DEF Control, Exclusive
<1>3. Writers'
  BY ThreadFacts DEF Control, Writers
<1>4. StatusInv' /\ Damage'
  BY DEF Control, StatusInv, Damage
<1> QED
  BY Zenon, <1>1, <1>2, <1>3, <1>4 DEF Control

LEMMA ControlHeader == Control /\ Header => Control'
<1> SUFFICES ASSUME Control, Header PROVE Control'
  OBVIOUS
<1>1. /\ stage = "header" /\ stage' \in {"integrity", "open"}
      /\ UNCHANGED <<enabled_tests, status_code, wpc, testStatus, msgMutex, toWrite>>
  BY Zenon DEF Header, Goto, options
<1>2. StatusInv' /\ Damage'
  BY <1>1 DEF Control, TypeControl, StatusInv, Damage
<1> QED
  BY <1>1, <1>2, MainStep, Quiet DEF Control, TypeControl, Gone, StageNames

LEMMA ControlTestIntegrity == Control /\ TestIntegrity => Control'
<1> SUFFICES ASSUME Control, TestIntegrity PROVE Control'
  OBVIOUS
<1>1. /\ stage = "integrity"
      /\ \/ stage' = "open" /\ testStatus' = testStatus
         \/ stage' = "status" /\ testStatus' = testStatus \ {"INTEGRITY"}
      /\ UNCHANGED <<enabled_tests, status_code, wpc, msgMutex, toWrite>>
  BY Zenon DEF TestIntegrity, Goto, options
<1>2. StatusInv' /\ Damage'
  BY <1>1 DEF Control, TypeControl, StatusInv, Damage, TestTypes
<1>3. testStatus' \in SUBSET TestTypes
  BY <1>1 DEF Control, TypeControl
<1> QED
  BY <1>1, <1>2, <1>3, MainStep, Quiet DEF Control, TypeControl, Gone, StageNames

LEMMA ControlOpenArchive == Control /\ OpenArchive => Control'
<1> SUFFICES ASSUME Control, OpenArchive PROVE Control'
  OBVIOUS
<1>1. /\ stage = "open" /\ stage' \in StageNames
      /\ UNCHANGED <<enabled_tests, status_code, wpc, testStatus, msgMutex, toWrite>>
  BY NextStage DEF OpenArchive, Goto, options
<1>2. StatusInv' /\ Damage'
  BY <1>1 DEF Control, TypeControl, StatusInv, Damage, StageNames
<1> QED
  BY <1>1, <1>2, MainStep, Quiet DEF Control, TypeControl, Gone, StageNames

LEMMA ControlMainReports == Control /\ MainReports => Control'
<1> SUFFICES ASSUME Control, MainReports PROVE Control'
  OBVIOUS
<1>1. /\ stage \in StageNames \ {"end_logs"} /\ stage' \in StageNames
      /\ UNCHANGED <<enabled_tests, status_code, wpc>>
  <2>1. stage \in StageNames \ {"end_logs"}
    BY MainMessageFacts DEF MainReports, StageNames
  <2> QED
    BY <2>1, StageAfterFacts DEF MainReports, Goto, options
<1>2. /\ toWrite' \in [Threads -> Seq(WriteOps)] /\ toWrite'[Main] # <<>>
      /\ \A u \in Threads \ {Main} : toWrite'[u] = toWrite[u] /\ toWrite[u] = <<>>
      /\ msgMutex' = Main
      /\ testStatus' \in SUBSET TestTypes
      /\ "INTEGRITY" \in testStatus => "INTEGRITY" \in testStatus'
  <2>1. Main \in Threads /\ MainMessage[stage] \in MsgIds /\ AddMsg(Main, MainMessage[stage])
    BY Zenon, ThreadFacts, MainMessageFacts DEF MainReports
  <2> QED
    BY Zenon, <2>1, Adding
<1>3. TypeControl'
  BY <1>1, <1>2, ThreadFacts DEF Control, TypeControl
<1>4. Exclusive'
  BY <1>2 DEF Exclusive
<1>5. \A w \in Workers : wpc[w] = "exited" /\ toWrite'[w] = <<>>
  BY <1>1, <1>2, Quiet, ThreadFacts DEF StageNames
<1>6. Writers'
  BY <1>1, <1>5 DEF Writers
<1>7. StatusInv' /\ Damage'
  BY <1>1, <1>2 DEF Control, StatusInv, Damage, StageNames
<1> QED
  BY Zenon, <1>3, <1>4, <1>6, <1>7 DEF Control

LEMMA ControlTestDone == Control /\ TestDone => Control'
<1> SUFFICES ASSUME Control, TestDone PROVE Control'
  OBVIOUS
<1>1. stage \in StageNames \ {"end_logs"}
  BY MainMessageFacts DEF TestDone, StageNames
<1>2. /\ stage' \in StageNames /\ toWrite[Main] = <<>>
      /\ UNCHANGED <<enabled_tests, status_code, wpc, testStatus, msgMutex, toWrite>>
  BY <1>1, StageAfterFacts DEF TestDone, Goto, options, logger
<1>3. StatusInv' /\ Damage'
  BY <1>1, <1>2 DEF Control, TypeControl, StatusInv, Damage, StageNames
<1> QED
  BY <1>1, <1>2, <1>3, MainStep DEF Control, TypeControl, Gone, StageNames

LEMMA ControlStartWorkers == Control /\ StartWorkers => Control'
<1> SUFFICES ASSUME Control, StartWorkers PROVE Control'
  OBVIOUS
<1>1. /\ stage = "articles" /\ stage' = "iterate" /\ toWrite[Main] = <<>>
      /\ wpc' = [w \in Workers |-> "fetch"]
      /\ UNCHANGED <<enabled_tests, status_code, testStatus, msgMutex, toWrite>>
  BY Zenon DEF StartWorkers, Goto, options, logger
<1>2. TypeControl'
  BY <1>1 DEF Control, TypeControl
<1>3. Exclusive'
  BY Zenon, <1>1 DEF Control, Exclusive
<1>4. \A w \in Workers : toWrite[w] = <<>>
  BY <1>1, Quiet
<1>5. Writers'
  BY <1>1, <1>4 DEF Writers
<1>6. StatusInv' /\ Damage'
  BY <1>1 DEF Control, StatusInv, Damage
<1> QED
  BY Zenon, <1>2, <1>3, <1>5, <1>6 DEF Control

LEMMA ControlEndOfEntries == Control /\ EndOfEntries => Control'
<1> SUFFICES ASSUME Control, EndOfEntries PROVE Control'
  OBVIOUS
<1>1. /\ stage = "iterate" /\ stage' = "join"
      /\ UNCHANGED <<enabled_tests, status_code, wpc, testStatus, msgMutex, toWrite>>
  BY Zenon DEF EndOfEntries, Goto, options, logger
<1>2. TypeControl' /\ Exclusive'
  BY <1>1 DEF Control, TypeControl, Exclusive
<1>3. Writers'
  BY <1>1, Quiet DEF Control, Writers, StageNames
<1>4. StatusInv' /\ Damage'
  BY <1>1 DEF Control, StatusInv, Damage
<1> QED
  BY Zenon, <1>2, <1>3, <1>4 DEF Control

\* Join and Unwind: all workers are gone.
LEMMA ControlJoin == Control /\ (Join \/ Unwind) => Control'
<1> SUFFICES ASSUME Control, Join \/ Unwind PROVE Control'
  OBVIOUS
<1>1. /\ \/ stage = "join" /\ stage' = StageAfter("articles")
         \/ stage = "unwind" /\ stage' = "destroy"
      /\ \A w \in Workers : wpc[w] = "exited"
      /\ UNCHANGED <<enabled_tests, status_code, wpc, testStatus, msgMutex, toWrite>>
  BY Zenon DEF Join, Unwind, Goto, options, logger, AllJoined
<1>2. StageAfter("articles") \in StageNames
  BY StageAfterFacts DEF StageNames
<1>3. TypeControl' /\ Exclusive'
  BY <1>1, <1>2 DEF Control, TypeControl, Exclusive
<1>4. Writers'
  BY <1>1, Quiet DEF Writers, StageNames
<1>5. StatusInv' /\ Damage'
  BY <1>1, <1>2 DEF Control, StatusInv, Damage, StageNames
<1> QED
  BY Zenon, <1>3, <1>4, <1>5 DEF Control

LEMMA ControlThrows == Control /\ Throws => Control'
<1> SUFFICES ASSUME Control, Throws PROVE Control'
  OBVIOUS
<1>1. /\ stage \in DOMAIN MainMessage \cup {"integrity", "open", "iterate"}
      /\ stage' = IF stage = "iterate" THEN "unwind" ELSE "destroy"
      /\ toWrite[Main] = <<>> /\ status_code' = "EXCEPTION"
      /\ UNCHANGED <<enabled_tests, wpc, testStatus, msgMutex, toWrite>>
  BY Zenon DEF Throws, Goto, options, logger
<1>2. StatusInv' /\ Damage'
  BY <1>1, MainMessageFacts DEF Control, StatusInv, Damage
<1>3. CASE stage = "iterate"
  <2>1. TypeControl' /\ Exclusive'
    BY <1>1, <1>3 DEF Control, TypeControl, Exclusive
  <2>2. Writers'
    BY <1>1, <1>3 DEF Control, Writers
  <2> QED
    BY Zenon, <1>2, <2>1, <2>2 DEF Control
<1>4. CASE stage # "iterate"
  BY <1>1, <1>2, <1>4, MainStep, MainMessageFacts DEF Control, TypeControl, Gone
<1> QED
  BY <1>3, <1>4

LEMMA ControlEnd == Control /\ (EndLogs \/ Status \/ Destroy) => Control'
<1> SUFFICES ASSUME Control, EndLogs \/ Status \/ Destroy PROVE Control'
  OBVIOUS
<1>1. /\ UNCHANGED <<enabled_tests, wpc, testStatus, msgMutex, toWrite>>
      /\ \/ /\ stage = "end_logs" /\ stage' = "status" /\ toWrite[Main] = <<>>
            /\ status_code' = status_code
         \/ /\ stage = "status" /\ stage' = "destroy"
            /\ status_code' = IF overallStatus THEN "PASS" ELSE "FAIL"
         \/ /\ stage = "destroy" /\ stage' = "exited"
            /\ status_code' = status_code
  BY Zenon DEF EndLogs, Status, Destroy, Goto, options
<1>2. StatusInv'
  BY <1>1 DEF Control, StatusInv, overallStatus
<1>3. Damage'
  BY <1>1 DEF Control, Damage
<1>4. stage \notin StageNames \/ stage = "end_logs"
  BY <1>1 DEF StageNames
<1> QED
  BY <1>1, <1>2, <1>3, <1>4, MainStep, Quiet DEF Control, TypeControl, Gone

LEMMA ControlWriteMsg == ASSUME NEW t \in Threads PROVE Control /\ WriteMsg(t) => Control'
<1> SUFFICES ASSUME Control, WriteMsg(t) PROVE Control'
  OBVIOUS
<1>1. /\ toWrite' \in [Threads -> Seq(WriteOps)]
      /\ toWrite[t] # <<>>
      /\ \A u \in Threads \ {t} : toWrite'[u] = toWrite[u] /\ toWrite[u] = <<>>
      /\ toWrite'[t] = <<>> => msgMutex' = Nobody
      /\ toWrite'[t] # <<>> => msgMutex' = t
  BY Writing
<1>2. UNCHANGED <<enabled_tests, stage, status_code, wpc, testStatus>>
  BY DEF WriteMsg, options
<1>3. TypeControl'
  BY <1>1, <1>2 DEF Control, TypeControl
<1>4. Exclusive'
  BY <1>1, ThreadFacts DEF Exclusive
<1>5. Writers'
  BY <1>1, <1>2, ThreadFacts DEF Control, Writers
<1>6. StatusInv' /\ Damage'
  BY <1>2 DEF Control, StatusInv, Damage, overallStatus
<1> QED
  BY Zenon, <1>3, <1>4, <1>5, <1>6 DEF Control

LEMMA ControlWorker ==
    ASSUME NEW w \in Workers
    PROVE  Control /\ (StartCheck(w) \/ EndCheck(w) \/ WorkerExits(w)) => Control'
<1> SUFFICES ASSUME Control, StartCheck(w) \/ EndCheck(w) \/ WorkerExits(w)
             PROVE  Control'
  OBVIOUS
<1>1. /\ UNCHANGED <<enabled_tests, stage, status_code, testStatus, msgMutex, toWrite>>
      /\ \/ wpc[w] = "fetch" /\ wpc' = [wpc EXCEPT ![w] = "check"]
         \/ /\ wpc[w] = "check" /\ wpc' = [wpc EXCEPT ![w] = "fetch"]
            /\ toWrite[w] = <<>>
         \/ wpc[w] = "fetch" /\ wpc' = [wpc EXCEPT ![w] = "exited"]
  BY Zenon DEF StartCheck, EndCheck, WorkerExits, options, logger
<1>2. stage \in {"iterate", "join", "unwind", "terminated"}
  BY <1>1 DEF Control, Writers
<1>3. wpc' \in [Workers -> {"fetch", "check", "exited"}]
  BY <1>1 DEF Control, TypeControl
<1>4. \A v \in Workers : toWrite[v] # <<>> => wpc'[v] = "check"
  BY <1>1 DEF Control, TypeControl, Writers
<1> QED
  BY <1>1, <1>2, <1>3, <1>4, WorkerStep

LEMMA ControlWorkerReports ==
    ASSUME NEW w \in Workers PROVE Control /\ WorkerReports(w) => Control'
<1> SUFFICES ASSUME Control, WorkerReports(w) PROVE Control'
  OBVIOUS
<1>1. /\ wpc[w] = "check"
      /\ UNCHANGED <<enabled_tests, stage, status_code, wpc>>
  BY DEF WorkerReports, options
<1>2. /\ toWrite' \in [Threads -> Seq(WriteOps)] /\ toWrite'[w] # <<>>
      /\ \A u \in Threads \ {w} : toWrite'[u] = toWrite[u] /\ toWrite[u] = <<>>
      /\ msgMutex' = w
      /\ testStatus' \in SUBSET TestTypes
      /\ "INTEGRITY" \in testStatus => "INTEGRITY" \in testStatus'
  <2>1. PICK id \in MsgIds : AddMsg(w, id)
    BY Zenon, ArticleMessageFacts DEF WorkerReports
  <2>2. w \in Threads
    BY ThreadFacts
  <2> QED
    BY Zenon, <2>1, <2>2, Adding
<1>3. TypeControl'
  BY <1>1, <1>2, ThreadFacts DEF Control, TypeControl
<1>4. Exclusive'
  BY <1>2, ThreadFacts DEF Exclusive
<1>5. Writers'
  BY <1>1, <1>2, ThreadFacts DEF Control, Writers
<1>6. stage \in {"iterate", "join", "unwind", "terminated"}
  BY <1>1 DEF Control, Writers
<1>7. StatusInv' /\ Damage'
  BY <1>1, <1>2, <1>6 DEF Control, StatusInv, Damage
<1> QED
  BY Zenon, <1>3, <1>4, <1>5, <1>7 DEF Control

LEMMA ControlWorkerThrows ==
    ASSUME NEW w \in Workers PROVE Control /\ WorkerThrows(w) => Control'
<1> SUFFICES ASSUME Control, WorkerThrows(w) PROVE Control'
  OBVIOUS
<1>1. /\ wpc[w] = "check" /\ stage' = "terminated"
      /\ UNCHANGED <<enabled_tests, status_code, wpc, testStatus, msgMutex, toWrite>>
  BY Zenon DEF WorkerThrows, Goto, options, logger
<1>2. stage \in {"iterate", "join", "unwind", "terminated"}
  BY <1>1 DEF Control, Writers
<1>3. TypeControl' /\ Exclusive'
  BY <1>1 DEF Control, TypeControl, Exclusive
<1>4. Writers'
  BY <1>1, <1>2, Quiet DEF Control, Writers, StageNames
<1>5. StatusInv' /\ Damage'
  BY <1>1, <1>2 DEF Control, StatusInv, Damage
<1> QED
  BY Zenon, <1>3, <1>4, <1>5 DEF Control

LEMMA ControlStep == Control /\ [Next]_vars => Control'
<1> SUFFICES ASSUME Control, [Next]_vars
             PROVE  Control'
  OBVIOUS
<1>1. CASE UNCHANGED vars
  BY Zenon, <1>1 DEF vars, Control, TypeControl, Exclusive, Writers, StatusInv, Damage,
                overallStatus
<1>2. CASE \E t \in Threads : WriteMsg(t)
  BY Zenon, <1>2, ControlWriteMsg
<1>3. CASE \E w \in Workers : \/ StartCheck(w) \/ WorkerReports(w) \/ EndCheck(w)
                              \/ WorkerThrows(w) \/ WorkerExits(w)
  BY Zenon, <1>3, ControlWorker, ControlWorkerReports, ControlWorkerThrows
<1>4. CASE \/ Header \/ TestIntegrity \/ OpenArchive \/ MainReports \/ TestDone
           \/ StartWorkers \/ EndOfEntries \/ Join \/ Throws \/ Unwind
           \/ EndLogs \/ Status \/ Destroy
  BY Zenon, <1>4, ControlHeader, ControlTestIntegrity, ControlOpenArchive,
     ControlMainReports, ControlTestDone, ControlStartWorkers, ControlEndOfEntries,
     ControlJoin, ControlThrows, ControlEnd
<1> QED
  BY Zenon, <1>1, <1>2, <1>3, <1>4 DEF Next, Finished

-----------------------------------------------------------------------------

LEMMA ControlHolds == Spec => []Control
<1> QED
  BY ControlInit, ControlStep, PTL DEF Spec

\* When zimcheck exits, nobody is writing a message any more and its status is
\* that of the tests: main() returns what errorLogger.overallStatus() says of
\* all the messages there have been, unless an exception came before.
THEOREM StatusOfTheTests == Spec => []StatusIsSound
<1>1. Control => StatusIsSound
  <2> SUFFICES ASSUME Control, stage = "exited" PROVE StatusIsSound
    BY DEF StatusIsSound
  <2>1. msgMutex = Nobody
    <3>1. \A t \in Threads : toWrite[t] = <<>>
      BY Quiet, ThreadFacts DEF StageNames
    <3> QED
      BY Zenon, <3>1, Quiet
  <2>2. ASSUME status_code = "PASS"
        PROVE  TestTypes \ testStatus \subseteq {"REDUNDANT", "URL_EMPTY"}
    <3>1. overallStatus
      BY <2>2 DEF Control, StatusInv
    <3> QED
      BY <3>1 DEF overallStatus, LogTag
  <2>3. ASSUME status_code = "FAIL"
        PROVE  \E test \in TestTypes \ testStatus : LogTag(test) = "ERROR"
    <3>1. ~overallStatus
      BY <2>3 DEF Control, StatusInv
    <3> QED
      BY <3>1 DEF overallStatus
  <2> QED
    BY Zenon, <2>1, <2>2, <2>3 DEF StatusIsSound
<1> QED
  BY ControlHolds, <1>1, PTL

\* An archive that fails the integrity test is not looked at any further.
THEOREM DamageStopsTheTests == Spec => []DamagedArchiveIsNotRead
<1>1. Control => DamagedArchiveIsNotRead
  BY DEF Control, Damage, DamagedArchiveIsNotRead
<1> QED
  BY ControlHolds, <1>1, PTL

-----------------------------------------------------------------------------
(* The document of zimcheck: its object, the array "logs" in it, and the   *)
(* object of a message in that array.                                      *)

RootScopes == Append(<<>>, Scope("OBJECT", "filled"))
RootOpen == Append(<<>>, "OBJECT")
LogScopes(h) == Append(RootScopes, Scope("ARRAY", h))
LogOpen == Append(RootOpen, "ARRAY")

AtRoot(js) == \E h \in Fills : js = Doc(<<>>, <<>>, "OBJECT", h)
AtLogs(js) == \E h \in Fills : js = Doc(RootScopes, RootOpen, "ARRAY", h)
AtMessage(js) == \E h, k \in Fills : js = Doc(LogScopes(h), LogOpen, "OBJECT", k)

LEMMA ScopesFacts ==
    /\ <<>> \in Seq(ScopeInfo) /\ <<>> \in Seq(Types)
    /\ RootScopes \in Seq(ScopeInfo) /\ RootOpen \in Seq(Types)
    /\ Len(RootScopes) = 1
    /\ \A h \in Fills : /\ LogScopes(h) \in Seq(ScopeInfo)
                        /\ Len(LogScopes(h)) = 2
                        /\ LogScopes(h)[2] = Scope("ARRAY", h)
    /\ LogOpen \in Seq(Types)
<1>1. /\ Scope("OBJECT", "filled") \in ScopeInfo
      /\ \A h \in Fills : Scope("ARRAY", h) \in ScopeInfo
  BY ScopeFacts DEF Types, Fills
<1>2. <<>> \in Seq(ScopeInfo) /\ <<>> \in Seq(Types)
  OBVIOUS
<1>3. RootScopes \in Seq(ScopeInfo) /\ Len(RootScopes) = 1
  BY <1>1 DEF RootScopes
<1>4. \A h \in Fills : /\ LogScopes(h) \in Seq(ScopeInfo)
                       /\ Len(LogScopes(h)) = 2
                       /\ LogScopes(h)[2] = Scope("ARRAY", h)
  <2> TAKE h \in Fills
  <2>1. PICK scope \in ScopeInfo : scope = Scope("ARRAY", h)
    BY Zenon, <1>1
  <2>2. /\ Append(RootScopes, scope) \in Seq(ScopeInfo)
        /\ Len(Append(RootScopes, scope)) = 2
        /\ Append(RootScopes, scope)[2] = scope
    BY <1>3
  <2> QED
    BY Zenon, <2>1, <2>2 DEF LogScopes
<1>5. RootOpen \in Seq(Types) /\ LogOpen \in Seq(Types)
  BY DEF RootOpen, LogOpen, Types
<1> QED
  BY Zenon, <1>2, <1>3, <1>4, <1>5

LEMMA RootSteps ==
    ASSUME NEW js, AtRoot(js)
    PROVE  /\ AtRoot(StringProperty(js)) /\ AtRoot(BoolProperty(js))
           /\ \A n \in Nat : AtRoot(ListProperty(js, n))
           /\ AtLogs(StartArray(Key(js)))
           /\ EndObject(js) = Complete
<1>1. PICK h \in Fills : js = Doc(<<>>, <<>>, "OBJECT", h)
  BY Zenon DEF AtRoot
<1>2. "empty" \in Fills /\ "filled" \in Fills
  BY DEF Fills
<1>3. /\ StringProperty(js) = Doc(<<>>, <<>>, "OBJECT", "filled")
      /\ BoolProperty(js) = Doc(<<>>, <<>>, "OBJECT", "filled")
      /\ \A n \in Nat : ListProperty(js, n) = Doc(<<>>, <<>>, "OBJECT", "filled")
      /\ Key(js) = AfterKey(<<>>, <<>>)
  BY Zenon, <1>1, ScopesFacts, SimpleProperty, ListIsProperty, KeyOfProperty
<1>4. StartArray(AfterKey(<<>>, <<>>)) = Doc(RootScopes, RootOpen, "ARRAY", "empty")
  BY Zenon, ScopesFacts, ValueOfProperty DEF RootScopes, RootOpen
<1>5. EndObject(js) = Complete
  BY Zenon, <1>1, EndOfDocument
<1> QED
  BY Zenon, <1>2, <1>3, <1>4, <1>5 DEF AtRoot, AtLogs

LEMMA LogsSteps ==
    ASSUME NEW js, AtLogs(js)
    PROVE  AtMessage(StartObject(js)) /\ AtRoot(EndArray(js))
<1>1. PICK h \in Fills : js = Doc(RootScopes, RootOpen, "ARRAY", h)
  BY Zenon DEF AtLogs
<1>2. "empty" \in Fills /\ "filled" \in Fills
  BY DEF Fills
<1>3. StartObject(js) = Doc(LogScopes(h), LogOpen, "OBJECT", "empty")
  BY Zenon, <1>1, ScopesFacts, ObjectInArray DEF LogScopes, LogOpen
<1>4. EndArray(js) = Doc(<<>>, <<>>, "OBJECT", "filled")
  BY Zenon, <1>1, ScopesFacts, EndOfList DEF RootScopes, RootOpen
<1> QED
  BY Zenon, <1>2, <1>3, <1>4 DEF AtMessage, AtRoot

LEMMA MessageSteps ==
    ASSUME NEW js, AtMessage(js)
    PROVE  /\ AtMessage(StringProperty(js))
           /\ \A n \in Nat : AtMessage(ListProperty(js, n))
           /\ AtLogs(EndObject(js))
<1>1. PICK h \in Fills, k \in Fills : js = Doc(LogScopes(h), LogOpen, "OBJECT", k)
  BY Zenon DEF AtMessage
<1>2. "filled" \in Fills
  BY DEF Fills
<1>3. /\ StringProperty(js) = Doc(LogScopes(h), LogOpen, "OBJECT", "filled")
      /\ \A n \in Nat : ListProperty(js, n) = Doc(LogScopes(h), LogOpen, "OBJECT", "filled")
  BY Zenon, <1>1, ScopesFacts, SimpleProperty, ListIsProperty
<1>4. EndObject(js) = Doc(RootScopes, RootOpen, "ARRAY", "filled")
  BY Zenon, <1>1, ScopesFacts, EndInArray DEF LogScopes, LogOpen
<1> QED
  BY Zenon, <1>2, <1>3, <1>4 DEF AtMessage, AtLogs

\* The shape of a document at each of the three.
LEMMA DocShape ==
    ASSUME NEW below \in Seq(ScopeInfo), NEW open \in Seq(Types), NEW type \in Types,
           NEW h \in Fills
    PROVE  /\ Doc(below, open, type, h).nesting = Append(below, Scope(type, h))
           /\ Doc(below, open, type, h).nesting \in Seq(ScopeInfo)
           /\ Doc(below, open, type, h).text.expects \in Expectations \ {"error"}
<1>1. PICK e \in {"comma_or_end", "key_or_end", "value_or_end"} :
         Doc(below, open, type, h) = Within(below, type, h, Text(e, Append(open, type)))
  <2> DEFINE In(e) == Within(below, type, h, Text(e, Append(open, type)))
  <2>1. \/ Doc(below, open, type, h) = In("comma_or_end")
        \/ Doc(below, open, type, h) = In("key_or_end")
        \/ Doc(below, open, type, h) = In("value_or_end")
    BY Zenon DEF Doc
  <2> QED
    BY Zenon, <2>1
<1>2. /\ Doc(below, open, type, h).nesting = Append(below, Scope(type, h))
      /\ Doc(below, open, type, h).text = Text(e, Append(open, type))
  BY <1>1 DEF Within, Stream
<1>3. Append(below, Scope(type, h)) \in Seq(ScopeInfo)
  BY ScopeFacts
<1>4. Text(e, Append(open, type)).expects = e
  BY DEF Text
<1>5. e \in Expectations \ {"error"}
  BY <1>1 DEF Expectations
<1> QED
  BY Zenon, <1>2, <1>3, <1>4, <1>5

InLogs(js) == Len(js.nesting) >= 2 /\ js.nesting[2].type = "ARRAY"

LEMMA AtShapes ==
    ASSUME NEW js
    PROVE  /\ AtRoot(js) \/ AtLogs(js) \/ AtMessage(js) =>
                /\ js.nesting \in Seq(ScopeInfo)
                /\ js.text.expects \in Expectations \ {"error"}
           /\ AtRoot(js) => ~InLogs(js)
           /\ AtLogs(js) \/ AtMessage(js) => InLogs(js)
<1>1. ASSUME AtRoot(js)
      PROVE  /\ js.nesting \in Seq(ScopeInfo)
             /\ js.text.expects \in Expectations \ {"error"}
             /\ ~InLogs(js)
  <2>1. PICK h \in Fills : js = Doc(<<>>, <<>>, "OBJECT", h)
    BY Zenon, <1>1 DEF AtRoot
  <2>2. "OBJECT" \in Types
    BY DEF Types
  <2>3. /\ js.nesting = Append(<<>>, Scope("OBJECT", h))
        /\ js.nesting \in Seq(ScopeInfo)
        /\ js.text.expects \in Expectations \ {"error"}
    <3>1. PICK below \in Seq(ScopeInfo), open \in Seq(Types) : below = <<>> /\ open = <<>>
      BY Zenon, ScopesFacts
    <3>2. js = Doc(below, open, "OBJECT", h)
      BY Zenon, <2>1, <3>1
    <3>3. /\ js.nesting = Append(below, Scope("OBJECT", h))
          /\ js.nesting \in Seq(ScopeInfo)
          /\ js.text.expects \in Expectations \ {"error"}
      BY <2>2, <3>2, DocShape
    <3> QED
      BY Zenon, <3>1, <3>3
  <2>4. Len(js.nesting) = 1
    BY <2>3
  <2> QED
    BY <2>3, <2>4 DEF InLogs
<1>2. ASSUME AtLogs(js)
      PROVE  /\ js.nesting \in Seq(ScopeInfo)
             /\ js.text.expects \in Expectations \ {"error"}
             /\ InLogs(js)
  <2>1. PICK h \in Fills : js = Doc(RootScopes, RootOpen, "ARRAY", h)
    BY Zenon, <1>2 DEF AtLogs
  <2>2. "ARRAY" \in Types
    BY DEF Types
  <2>3. /\ js.nesting = LogScopes(h)
        /\ js.nesting \in Seq(ScopeInfo)
        /\ js.text.expects \in Expectations \ {"error"}
    BY <2>1, <2>2, ScopesFacts, DocShape DEF LogScopes
  <2>4. Len(js.nesting) = 2 /\ js.nesting[2].type = "ARRAY"
    BY <2>2, <2>3, ScopesFacts, ScopeFacts
  <2> QED
    BY <2>3, <2>4 DEF InLogs
<1>3. ASSUME AtMessage(js)
      PROVE  /\ js.nesting \in Seq(ScopeInfo)
             /\ js.text.expects \in Expectations \ {"error"}
             /\ InLogs(js)
  <2>1. PICK h \in Fills, k \in Fills : js = Doc(LogScopes(h), LogOpen, "OBJECT", k)
    BY Zenon, <1>3 DEF AtMessage
  <2>2. "OBJECT" \in Types /\ "ARRAY" \in Types
    BY DEF Types
  <2>3. /\ js.nesting = Append(LogScopes(h), Scope("OBJECT", k))
        /\ js.nesting \in Seq(ScopeInfo)
        /\ js.text.expects \in Expectations \ {"error"}
    BY <2>1, <2>2, ScopesFacts, DocShape
  <2>4. Scope("OBJECT", k) \in ScopeInfo
    BY <2>2, ScopeFacts
  <2>5. /\ LogScopes(h) \in Seq(ScopeInfo) /\ Len(LogScopes(h)) = 2
        /\ LogScopes(h)[2].type = "ARRAY"
    BY <2>2, ScopesFacts, ScopeFacts
  <2>6. Len(js.nesting) = 3 /\ js.nesting[2] = LogScopes(h)[2]
    <3>1. PICK scope \in ScopeInfo, scopes \in Seq(ScopeInfo) :
             scope = Scope("OBJECT", k) /\ scopes = LogScopes(h)
      BY Zenon, <2>4, <2>5
    <3>2. Len(scopes) = 2 /\ js.nesting = Append(scopes, scope)
      BY Zenon, <2>3, <2>5, <3>1
    <3>3. Len(Append(scopes, scope)) = 3 /\ Append(scopes, scope)[2] = scopes[2]
      <4>1. /\ Len(Append(scopes, scope)) = Len(scopes) + 1
            /\ \A i \in 1..Len(scopes) : Append(scopes, scope)[i] = scopes[i]
        OBVIOUS
      <4>2. Len(scopes) = 2
        BY <3>2
      <4> QED
        BY <4>1, <4>2
    <3> QED
      BY Zenon, <3>1, <3>2, <3>3
  <2> QED
    BY <2>3, <2>5, <2>6 DEF InLogs
<1> QED
  BY Zenon, <1>1, <1>2, <1>3

-----------------------------------------------------------------------------
(* The document invariant. *)

Json == output.json
Open == logStreamOpen

\* Only the progress of -B is printed past the logger, and is no JSON.
NoNoise == \A o \in OutputChoices : ~(o.json /\ o.progress)

\* What is left of a message is the rest of an object, which has been begun
\* unless its first operation is next.
Rest(ops, js) ==
    /\ Unwritten(ops)
    /\ IF ops[1] = "startObject" THEN AtLogs(js) ELSE AtMessage(js)

Document ==
    /\ stage \in {"header", "integrity", "open", "status"} => ~Open
    /\ stage \in StageNames \cup {"iterate", "join", "unwind", "terminated"} => Open
    /\ stage = "exited" => ~Open /\ jsonOutputStream = Complete
    /\ stage # "exited" /\ ~Open => AtRoot(jsonOutputStream)
    /\ Open /\ msgMutex = Nobody => AtLogs(jsonOutputStream)
    /\ \A t \in Threads : toWrite[t] # <<>> => Rest(toWrite[t], jsonOutputStream)

NoDocument ==
    /\ jsonOutputStream = OutputStream /\ ~Open
    /\ \A t \in Threads : toWrite[t] # <<>> => toWrite[t] = <<"text">>

DocInv ==
    /\ output \in OutputChoices /\ logStreamOpen \in BOOLEAN
    /\ Json => Document
    /\ ~Json => NoDocument

\* The first of the operations that are left, and those after it.
LEMMA RestFacts ==
    ASSUME NEW ops, Unwritten(ops)
    PROVE  /\ Head(ops) = ops[1]
           /\ \/ Head(ops) = "endObject" /\ Tail(ops) = <<>>
              \/ /\ Head(ops) \in {"startObject", "string", "list"}
                 /\ Unwritten(Tail(ops)) /\ Tail(ops)[1] # "startObject"
<1>1. /\ ops \in Seq(WriteOps) /\ Len(ops) \in Nat \ {0} /\ Head(ops) = ops[1]
      /\ ops[Len(ops)] = "endObject"
      /\ \A i \in 2..(Len(ops) - 1) : ops[i] \in {"string", "list"}
      /\ Len(ops) > 1 => ops[1] \in {"startObject", "string", "list"}
  BY DEF Unwritten
<1>2. /\ Tail(ops) \in Seq(WriteOps) /\ Len(Tail(ops)) = Len(ops) - 1
      /\ \A i \in 1..(Len(ops) - 1) : Tail(ops)[i] = ops[i + 1]
  BY <1>1
<1>3. CASE Len(ops) = 1
  <2>1. Tail(ops) = <<>>
    <3>1. PICK rest \in Seq(WriteOps) : rest = Tail(ops) /\ Len(rest) = Len(ops) - 1
      BY Zenon, <1>2
    <3>2. Len(rest) = 0
      BY <1>3, <3>1
    <3>3. rest = <<>>
      BY <3>2
    <3> QED
      BY Zenon, <3>1, <3>3
  <2> QED
    BY <1>1, <1>3, <2>1
<1>4. CASE Len(ops) > 1
  <2>1. PICK rest \in Seq(WriteOps) :
           /\ rest = Tail(ops) /\ Len(rest) = Len(ops) - 1
           /\ \A i \in 1..(Len(ops) - 1) : rest[i] = ops[i + 1]
    BY Zenon, <1>2
  <2>2. /\ rest # <<>> /\ rest[Len(rest)] = "endObject"
        /\ \A i \in 1..(Len(rest) - 1) : rest[i] \in {"string", "list"}
    <3>1. Len(rest) \in Nat \ {0} /\ Len(ops) = Len(rest) + 1
      BY <1>1, <1>4, <2>1
    <3>2. rest # <<>>
      BY <3>1
    <3>3. rest[Len(rest)] = "endObject"
      BY <1>1, <2>1, <3>1
    <3>4. \A i \in 1..(Len(rest) - 1) : rest[i] \in {"string", "list"}
      BY <1>1, <2>1, <3>1
    <3> QED
      BY Zenon, <3>2, <3>3, <3>4
  <2>3. rest[1] # "startObject"
    BY <1>1, <1>4, <2>1, <2>2
  <2>4. Unwritten(rest)
    BY <2>2 DEF Unwritten
  <2> QED
    BY Zenon, <1>1, <1>4, <2>1, <2>3, <2>4
<1> QED
  BY <1>1, <1>3, <1>4

\* One operation of a message takes the document to where the rest begins.
LEMMA RestStep ==
    ASSUME NEW ops, NEW js, Rest(ops, js)
    PROVE  IF Tail(ops) = <<>> THEN AtLogs(Write(js, Head(ops)))
                               ELSE Rest(Tail(ops), Write(js, Head(ops)))
<1>0. Unwritten(ops)
  BY Zenon DEF Rest
<1>1. Unwritten(Tail(ops)) => Tail(ops) # <<>>
  BY Zenon DEF Unwritten
<1>2. CASE Head(ops) = "endObject" /\ Tail(ops) = <<>>
  <2>1. AtMessage(js)
    BY Zenon, <1>0, <1>2, RestFacts DEF Rest
  <2>2. Write(js, Head(ops)) = EndObject(js)
    BY <1>2 DEF Write
  <2> QED
    BY Zenon, <1>2, <2>1, <2>2, MessageSteps
<1>3. CASE /\ Head(ops) = "startObject"
           /\ Unwritten(Tail(ops)) /\ Tail(ops)[1] # "startObject"
  <2>1. AtLogs(js)
    BY Zenon, <1>0, <1>3, RestFacts DEF Rest
  <2>2. Write(js, Head(ops)) = StartObject(js)
    BY <1>3 DEF Write
  <2>3. AtMessage(Write(js, Head(ops)))
    BY Zenon, <2>1, <2>2, LogsSteps
  <2> QED
    BY Zenon, <1>1, <1>3, <2>3 DEF Rest
<1>4. CASE /\ Head(ops) \in {"string", "list"}
           /\ Unwritten(Tail(ops)) /\ Tail(ops)[1] # "startObject"
  <2>1. AtMessage(js)
    BY Zenon, <1>0, <1>4, RestFacts DEF Rest
  <2>2. Write(js, Head(ops)) \in {StringProperty(js), ListProperty(js, 2)}
    BY <1>4 DEF Write
  <2>3. 2 \in Nat
    OBVIOUS
  <2>4. AtMessage(Write(js, Head(ops)))
    BY Zenon, <2>1, <2>2, <2>3, MessageSteps
  <2> QED
    BY Zenon, <1>1, <1>4, <2>4 DEF Rest
<1> QED
  BY Zenon, <1>0, <1>2, <1>3, <1>4, RestFacts

LEMMA DocumentInit == Init => DocInv
<1> SUFFICES ASSUME Init PROVE DocInv
  OBVIOUS
<1>1. output \in OutputChoices /\ logStreamOpen = FALSE
  BY Zenon DEF Init
<1>2. ~Open /\ logStreamOpen \in BOOLEAN
  BY Zenon, <1>1 DEF Open
<1>3. Json => jsonOutputStream = Doc(<<>>, <<>>, "OBJECT", "empty")
  BY Zenon, BeginOfDocument DEF Init, Json
<1>4. ~Json => jsonOutputStream = OutputStream
  BY Zenon DEF Init, Json
<1>5. \A t \in Threads : toWrite[t] = <<>>
  BY DEF Init
<1>6. AtRoot(Doc(<<>>, <<>>, "OBJECT", "empty"))
  BY Zenon DEF AtRoot, Fills
<1>7. stage = "header"
  BY Zenon DEF Init
<1>8. Json => Document
  BY <1>2, <1>3, <1>5, <1>6, <1>7 DEF Document, StageNames
<1> QED
  BY Zenon, <1>1, <1>2, <1>4, <1>5, <1>8 DEF DocInv, NoDocument

LEMMA CountOfTests ==
    ASSUME Control PROVE Cardinality(enabled_tests) \in Nat
<1>1. TestTypes = {} \cup {"CHECKSUM"} \cup {"INTEGRITY"} \cup {"EMPTY"} \cup {"METADATA"}
                    \cup {"FAVICON"} \cup {"MAIN_PAGE"} \cup {"REDUNDANT"}
                    \cup {"URL_INTERNAL"} \cup {"URL_EXTERNAL"} \cup {"URL_EMPTY"}
                    \cup {"REDIRECT"}
  BY DEF TestTypes
<1>2. IsFiniteSet(TestTypes)
  <2>1. \A S, a, b, c, d : IsFiniteSet(S) => IsFiniteSet(S \cup {a} \cup {b} \cup {c} \cup {d})
    BY Zenon, FS_AddElement
  <2>2. PICK S : S = {} \cup {"CHECKSUM"} \cup {"INTEGRITY"} \cup {"EMPTY"} \cup {"METADATA"}
    BY Zenon
  <2>3. PICK T : T = S \cup {"FAVICON"} \cup {"MAIN_PAGE"} \cup {"REDUNDANT"} \cup {"URL_INTERNAL"}
    BY Zenon
  <2>4. TestTypes = T \cup {"URL_EXTERNAL"} \cup {"URL_EMPTY"} \cup {"REDIRECT"} \cup {"REDIRECT"}
    BY <1>1, <2>2, <2>3
  <2>5. IsFiniteSet(S)
    BY Zenon, <2>1, <2>2, FS_EmptySet
  <2>6. IsFiniteSet(T)
    BY Zenon, <2>1, <2>3, <2>5
  <2> QED
    BY Zenon, <2>1, <2>4, <2>6
<1>3. enabled_tests \subseteq TestTypes
  BY TestAssumption DEF Control, TypeControl
<1> QED
  BY Zenon, <1>2, <1>3, FS_Subset, FS_CardinalityType

\* The options never change, and the flag of the logs is one.
LEMMA SameOptions ==
    ASSUME [Next]_vars, output \in OutputChoices, logStreamOpen \in BOOLEAN
    PROVE  output' = output /\ logStreamOpen' \in BOOLEAN
<1>1. output.json \in BOOLEAN
  BY Zenon, OutputAssumption
<1>2. CASE Next
  BY Zenon, <1>1, <1>2 DEF Next, Finished, vars, options, logger, Header, TestIntegrity,
     OpenArchive, MainReports, TestDone, StartWorkers, EndOfEntries, Join, Throws, Unwind,
     EndLogs, Status, Destroy, WriteMsg, StartCheck, WorkerReports, AddMsg, EndCheck,
     WorkerThrows, WorkerExits
<1>3. CASE UNCHANGED vars
  BY Zenon, <1>3 DEF vars
<1> QED
  BY Zenon, <1>2, <1>3

-----------------------------------------------------------------------------
(* Without --json there is no document. *)

LEMMA NoDocumentStep ==
    ASSUME [Next]_vars, ~Json, NoDocument, Control
    PROVE  NoDocument'
<1>1. ~output.json /\ ~logStreamOpen
  BY Zenon DEF Json, NoDocument, Open
<1>2. ASSUME UNCHANGED <<toWrite, jsonOutputStream>>, ~Open'
      PROVE  NoDocument'
  BY Zenon, <1>2 DEF NoDocument
<1>3. ASSUME NEW t \in Threads, NEW id \in MsgIds, AddMsg(t, id)
      PROVE  NoDocument'
  <2>1. toWrite' = [toWrite EXCEPT ![t] = <<"text">>]
    BY Zenon, <1>1, <1>3 DEF AddMsg
  <2>2. \A u \in Threads : toWrite'[u] # <<>> => toWrite'[u] = <<"text">>
    BY <2>1 DEF Control, TypeControl, NoDocument
  <2>3. ~Open' /\ jsonOutputStream' = OutputStream
    BY Zenon, <1>1, <1>3 DEF AddMsg, Open, NoDocument
  <2> QED
    BY Zenon, <2>2, <2>3 DEF NoDocument
<1>4. ASSUME NEW t \in Threads, WriteMsg(t)
      PROVE  NoDocument'
  <2>1. /\ toWrite[t] # <<>> /\ toWrite'[t] = Tail(toWrite[t])
        /\ \A u \in Threads \ {t} : toWrite'[u] = toWrite[u]
    BY Zenon, <1>4, Writing
  <2>2. toWrite[t] = <<"text">>
    BY Zenon, <2>1 DEF NoDocument
  <2>3. Head(toWrite[t]) = "text" /\ toWrite'[t] = <<>>
    BY <2>1, <2>2
  <2>4. jsonOutputStream' = jsonOutputStream
    BY <1>4, <2>3 DEF WriteMsg, Write
  <2>5. ~Open'
    BY Zenon, <1>1, <1>4 DEF WriteMsg, Open
  <2> QED
    BY Zenon, <2>1, <2>3, <2>4, <2>5 DEF NoDocument
<1>5. CASE UNCHANGED vars
  BY Zenon, <1>1, <1>2, <1>5 DEF vars, Open
<1>6. CASE MainReports
  <2>1. Main \in Threads /\ MainMessage[stage] \in MsgIds /\ AddMsg(Main, MainMessage[stage])
    BY Zenon, <1>6, ThreadFacts, MainMessageFacts DEF MainReports
  <2> QED
    BY Zenon, <1>3, <2>1
<1>7. ASSUME NEW w \in Workers, WorkerReports(w)
      PROVE  NoDocument'
  <2>1. w \in Threads /\ \E id \in MsgIds : AddMsg(w, id)
    BY Zenon, <1>7, ThreadFacts, ArticleMessageFacts DEF WorkerReports
  <2> QED
    BY Zenon, <1>3, <2>1
<1>8. CASE \/ Header \/ TestIntegrity \/ OpenArchive \/ TestDone \/ StartWorkers
           \/ EndOfEntries \/ Join \/ Throws \/ Unwind \/ EndLogs \/ Status \/ Destroy
  BY Zenon, <1>1, <1>2, <1>8 DEF Header, TestIntegrity, OpenArchive, TestDone, StartWorkers,
     EndOfEntries, Join, Throws, Unwind, EndLogs, Status, Destroy, logger, Open, LogsEnded
<1>9. ASSUME NEW w \in Workers,
             StartCheck(w) \/ EndCheck(w) \/ WorkerThrows(w) \/ WorkerExits(w)
      PROVE  NoDocument'
  BY Zenon, <1>1, <1>2, <1>9 DEF StartCheck, EndCheck, WorkerThrows, WorkerExits, logger, Open
<1> QED
  BY Zenon, <1>4, <1>5, <1>6, <1>7, <1>8, <1>9 DEF Next, Finished

-----------------------------------------------------------------------------
(* With --json the document is where the stage says. *)

\* Nobody writes: while the main thread is between two of its messages and
\* there are no workers, or when it has joined them.
LEMMA NobodyWrites ==
    ASSUME Control, toWrite[Main] = <<>>, \A w \in Workers : wpc[w] = "exited"
    PROVE  (\A t \in Threads : toWrite[t] = <<>>) /\ msgMutex = Nobody
<1>1. \A t \in Threads : toWrite[t] = <<>>
  BY Quiet, ThreadFacts
<1> QED
  BY Zenon, <1>1, Quiet

LEMMA MainIsAlone ==
    ASSUME Control, toWrite[Main] = <<>> \/ stage \notin StageNames,
           stage \notin {"iterate", "join", "unwind", "terminated"}
    PROVE  (\A t \in Threads : toWrite[t] = <<>>) /\ msgMutex = Nobody
<1>1. toWrite[Main] = <<>> /\ \A w \in Workers : wpc[w] = "exited"
  BY Quiet
<1> QED
  BY Zenon, <1>1, NobodyWrites

\* Where the document may be at a stage when nobody writes.
Resting(s, open, js) ==
    \/ s \in {"header", "integrity", "open", "status", "destroy"} /\ ~open /\ AtRoot(js)
    \/ /\ s \in StageNames \cup {"iterate", "join", "unwind", "terminated", "destroy"}
       /\ open /\ AtLogs(js)
    \/ s = "exited" /\ ~open /\ js = Complete

LEMMA ToRest ==
    ASSUME \A t \in Threads : toWrite'[t] = <<>>, Resting(stage', Open', jsonOutputStream')
    PROVE  Document'
BY DEF Document, Resting, StageNames

LEMMA AtRest ==
    ASSUME Control, Document, msgMutex = Nobody
    PROVE  Resting(stage, Open, jsonOutputStream)
BY DEF Document, Resting, Control, TypeControl

LEMMA DocHeader == Control /\ Document /\ Json /\ Header => Document'
<1> SUFFICES ASSUME Control, Document, Json, Header PROVE Document'
  OBVIOUS
<1> DEFINE js == jsonOutputStream
           n == Cardinality(enabled_tests)
<1>1. /\ stage = "header" /\ stage' \in {"integrity", "open"}
      /\ logStreamOpen' = logStreamOpen /\ toWrite' = toWrite
      /\ \/ js' = StringProperty(ListProperty(StringProperty(js), n))
         \/ js' = StringProperty(BoolProperty(ListProperty(StringProperty(js), n)))
  BY Zenon DEF Header, Goto, Json
<1>2. (Open' <=> Open) /\ ~Open /\ AtRoot(js)
  <2>1. Open' <=> Open
    BY Zenon, <1>1 DEF Open
  <2> QED
    BY <1>1, <2>1 DEF Document
<1>3. \A t \in Threads : toWrite'[t] = <<>>
  <2>1. \A t \in Threads : toWrite[t] = <<>>
    BY <1>1, MainIsAlone DEF StageNames
  <2> QED
    BY Zenon, <1>1, <2>1
<1>4. AtRoot(js')
  <2>1. AtRoot(ListProperty(StringProperty(js), n))
    BY Zenon, <1>2, CountOfTests, RootSteps
  <2> QED
    BY Zenon, <1>1, <2>1, RootSteps
<1>5. Resting(stage', Open', js')
  BY <1>1, <1>2, <1>4 DEF Resting
<1> QED
  BY Zenon, <1>3, <1>5, ToRest

LEMMA DocTestIntegrity == Control /\ Document /\ Json /\ TestIntegrity => Document'
<1> SUFFICES ASSUME Control, Document, Json, TestIntegrity PROVE Document'
  OBVIOUS
<1> DEFINE js == jsonOutputStream
<1>1. stage = "integrity" /\ logStreamOpen' = logStreamOpen /\ toWrite' = toWrite
  BY Zenon DEF TestIntegrity
<1>2. (Open' <=> Open) /\ ~Open /\ AtRoot(js)
  <2>1. Open' <=> Open
    BY Zenon, <1>1 DEF Open
  <2> QED
    BY <1>1, <2>1 DEF Document
<1>3. \/ stage' = "open" /\ js' = js
      \/ stage' = "status" /\ js' = EndArray(StartArray(Key(js)))
  BY Zenon, <1>2 DEF TestIntegrity, Goto, Json, LogsStarted, Open
<1>4. \A t \in Threads : toWrite'[t] = <<>>
  <2>1. \A t \in Threads : toWrite[t] = <<>>
    BY <1>1, MainIsAlone DEF StageNames
  <2> QED
    BY Zenon, <1>1, <2>1
<1>5. AtRoot(js')
  BY Zenon, <1>2, <1>3, RootSteps, LogsSteps
<1>6. Resting(stage', Open', js')
  BY <1>2, <1>3, <1>5 DEF Resting
<1> QED
  BY Zenon, <1>4, <1>6, ToRest

LEMMA DocOpenArchive == Control /\ Document /\ Json /\ OpenArchive => Document'
<1> SUFFICES ASSUME Control, Document, Json, OpenArchive PROVE Document'
  OBVIOUS
<1> DEFINE js == jsonOutputStream
<1>1. /\ stage = "open" /\ stage' = StageFrom(1)
      /\ toWrite' = toWrite
  BY Zenon DEF OpenArchive, Goto
<1>2. ~Open /\ AtRoot(js)
  BY <1>1 DEF Document
<1>3. Open' /\ js' = StartArray(Key(StringProperty(js)))
  BY Zenon, <1>2 DEF OpenArchive, Json, LogsStarted, Open
<1>4. \A t \in Threads : toWrite'[t] = <<>>
  <2>1. \A t \in Threads : toWrite[t] = <<>>
    BY <1>1, MainIsAlone DEF StageNames
  <2> QED
    BY Zenon, <1>1, <2>1
<1>5. AtLogs(js')
  BY Zenon, <1>2, <1>3, RootSteps
<1>6. stage' \in StageNames
  BY <1>1, NextStage
<1>7. Resting(stage', Open', js')
  BY <1>3, <1>5, <1>6 DEF Resting
<1> QED
  BY Zenon, <1>4, <1>7, ToRest

\* addMsg() in the array "logs": the whole message is left to be written.
LEMMA DocAddMsg ==
    ASSUME Control, Document, Json, NEW t \in Threads, NEW id \in MsgIds, AddMsg(t, id),
           stage \in StageNames \cup {"iterate", "join", "unwind", "terminated"},
           stage' \in StageNames \/ stage' = stage
    PROVE  Document'
<1>1. /\ msgMutex = Nobody /\ msgMutex' = t
      /\ logStreamOpen' = logStreamOpen /\ jsonOutputStream' = jsonOutputStream
      /\ toWrite' = [toWrite EXCEPT ![t] = JsonMessage(id)]
  BY Zenon DEF AddMsg, Json
<1>2. Open /\ AtLogs(jsonOutputStream)
  BY <1>1 DEF Document
<1>3. Open'
  BY Zenon, <1>1, <1>2 DEF Open
<1>4. Rest(JsonMessage(id), jsonOutputStream)
  BY Zenon, <1>2, MessageIsUnwritten DEF Rest
<1>5. \A u \in Threads : toWrite'[u] # <<>> => Rest(toWrite'[u], jsonOutputStream')
  <2>1. toWrite'[t] = JsonMessage(id)
    BY <1>1 DEF Control, TypeControl
  <2>2. \A u \in Threads \ {t} : toWrite'[u] = <<>>
    BY Zenon, Adding
  <2> QED
    BY Zenon, <1>1, <1>4, <2>1, <2>2
<1>6. msgMutex' # Nobody
  BY <1>1, ThreadFacts
<1>7. stage' \in StageNames \cup {"iterate", "join", "unwind", "terminated"}
  OBVIOUS
<1> QED
  BY <1>3, <1>5, <1>6, <1>7 DEF Document, StageNames

LEMMA DocReports ==
    /\ Control /\ Document /\ Json /\ MainReports => Document'
    /\ \A w \in Workers : Control /\ Document /\ Json /\ WorkerReports(w) => Document'
<1>1. ASSUME Control, Document, Json, MainReports PROVE Document'
  <2>1. stage \in StageNames \ {"end_logs"}
    BY <1>1, MainMessageFacts DEF MainReports, StageNames
  <2>2. stage' \in StageNames
    BY <1>1, <2>1, StageAfterFacts DEF MainReports, Goto
  <2>3. Main \in Threads /\ MainMessage[stage] \in MsgIds /\ AddMsg(Main, MainMessage[stage])
    BY Zenon, <1>1, ThreadFacts, MainMessageFacts DEF MainReports
  <2>4. stage \in StageNames \cup {"iterate", "join", "unwind", "terminated"}
    BY <2>1
  <2> QED
    BY Zenon, <1>1, <2>2, <2>3, <2>4, DocAddMsg
<1>2. ASSUME NEW w \in Workers, Control, Document, Json, WorkerReports(w) PROVE Document'
  <2>1. w \in Threads /\ \E id \in MsgIds : AddMsg(w, id)
    BY Zenon, <1>2, ThreadFacts, ArticleMessageFacts DEF WorkerReports
  <2>2. wpc[w] = "check" /\ stage' = stage
    BY <1>2 DEF WorkerReports
  <2>3. stage \in StageNames \cup {"iterate", "join", "unwind", "terminated"}
    BY <1>2, <2>2 DEF Control, Writers
  <2> QED
    BY Zenon, <1>2, <2>1, <2>2, <2>3, DocAddMsg
<1> QED
  BY Zenon, <1>1, <1>2

LEMMA DocWriteMsg ==
    ASSUME NEW t \in Threads
    PROVE  Control /\ Document /\ Json /\ WriteMsg(t) => Document'
<1> SUFFICES ASSUME Control, Document, Json, WriteMsg(t) PROVE Document'
  OBVIOUS
<1> DEFINE js == jsonOutputStream
<1>1. /\ toWrite[t] # <<>> /\ toWrite'[t] = Tail(toWrite[t])
      /\ \A u \in Threads \ {t} : toWrite'[u] = toWrite[u] /\ toWrite[u] = <<>>
      /\ toWrite'[t] # <<>> => msgMutex' = t
  BY Zenon, Writing
<1>2. /\ js' = Write(js, Head(toWrite[t])) /\ stage' = stage
      /\ logStreamOpen' = logStreamOpen
  BY Zenon DEF WriteMsg
<1>3. Rest(toWrite[t], js)
  BY Zenon, <1>1 DEF Document
<1>4. stage \in StageNames \cup {"iterate", "join", "unwind", "terminated"}
  BY <1>1, ThreadFacts DEF Control, Writers, TypeControl
<1>5. Open'
  <2>1. Open
    BY <1>4 DEF Document
  <2> QED
    BY Zenon, <1>2, <2>1 DEF Open
<1>6. IF toWrite'[t] = <<>> THEN AtLogs(js') ELSE Rest(toWrite'[t], js')
  BY Zenon, <1>1, <1>2, <1>3, RestStep
<1>7. \A u \in Threads : toWrite'[u] # <<>> => Rest(toWrite'[u], js')
  BY Zenon, <1>1, <1>6
<1>8. msgMutex' = Nobody => AtLogs(js')
  BY Zenon, <1>1, <1>6, ThreadFacts
<1> QED
  BY <1>2, <1>4, <1>5, <1>7, <1>8 DEF Document, StageNames

\* Steps among the stages in which the array "logs" is open.
DuringLogs == StageNames \cup {"iterate", "join", "unwind", "terminated"}

LEMMA DocDuringLogs ==
    ASSUME Document, stage \in DuringLogs, stage' \in DuringLogs,
           logStreamOpen' = logStreamOpen, jsonOutputStream' = jsonOutputStream,
           msgMutex' = msgMutex, toWrite' = toWrite
    PROVE  Document'
<1>1. Open' <=> Open
  BY Zenon DEF Open
<1>2. Open
  BY DEF Document, DuringLogs
<1>3. \A t \in Threads : toWrite'[t] # <<>> => Rest(toWrite'[t], jsonOutputStream')
  BY Zenon DEF Document
<1>4. msgMutex' = Nobody => AtLogs(jsonOutputStream')
  BY Zenon, <1>2 DEF Document
<1> QED
  BY <1>1, <1>2, <1>3, <1>4 DEF Document, DuringLogs, StageNames

LEMMA DocStages ==
    ASSUME Control, Document,
           \/ TestDone \/ StartWorkers \/ EndOfEntries \/ Join
           \/ Throws /\ stage = "iterate"
    PROVE  Document'
<1>1. logStreamOpen' = logStreamOpen /\ jsonOutputStream' = jsonOutputStream
      /\ msgMutex' = msgMutex /\ toWrite' = toWrite
  BY Zenon DEF TestDone, StartWorkers, EndOfEntries, Join, Throws, logger
<1>2. \/ stage \in DOMAIN MainMessage /\ stage' = StageAfter(stage)
      \/ stage = "articles" /\ stage' = "iterate"
      \/ stage = "iterate" /\ stage' = "join"
      \/ stage = "join" /\ stage' = StageAfter("articles")
      \/ stage = "iterate" /\ stage' = "unwind"
  BY Zenon DEF TestDone, StartWorkers, EndOfEntries, Join, Throws, Goto
<1>3. "articles" \in StageNames \ {"end_logs"}
      /\ DOMAIN MainMessage \subseteq StageNames \ {"end_logs"}
  BY MainMessageFacts DEF StageNames
<1>4. stage \in DuringLogs /\ stage' \in DuringLogs
  BY <1>2, <1>3, StageAfterFacts DEF DuringLogs
<1> QED
  BY Zenon, <1>1, <1>4, DocDuringLogs

LEMMA DocWorkers ==
    ASSUME NEW w \in Workers, Control, Document, Json, NoNoise, output \in OutputChoices,
           StartCheck(w) \/ EndCheck(w) \/ WorkerThrows(w) \/ WorkerExits(w)
    PROVE  Document'
<1>1. ~output.progress
  BY Zenon DEF NoNoise, Json
<1>2. logStreamOpen' = logStreamOpen /\ jsonOutputStream' = jsonOutputStream
      /\ msgMutex' = msgMutex /\ toWrite' = toWrite
  BY Zenon, <1>1 DEF StartCheck, EndCheck, WorkerThrows, WorkerExits, logger
<1>3. /\ wpc[w] \in {"fetch", "check"}
      /\ stage' = stage \/ stage' = "terminated"
  BY Zenon DEF StartCheck, EndCheck, WorkerThrows, WorkerExits, Goto
<1>4. stage \in {"iterate", "join", "unwind", "terminated"}
  BY <1>3 DEF Control, Writers
<1>5. stage \in DuringLogs /\ stage' \in DuringLogs
  BY <1>3, <1>4 DEF DuringLogs
<1> QED
  BY Zenon, <1>2, <1>5, DocDuringLogs

\* An exception leaves the array as it is; ~ErrorLogger() will close it.
LEMMA DocThrows ==
    ASSUME Control, Document, Unwind \/ (Throws /\ stage # "iterate")
    PROVE  Document'
<1>1. logStreamOpen' = logStreamOpen /\ jsonOutputStream' = jsonOutputStream
      /\ toWrite' = toWrite /\ stage' = "destroy"
  BY Zenon DEF Unwind, Throws, Goto, logger
<1>2. (\A t \in Threads : toWrite[t] = <<>>) /\ msgMutex = Nobody /\ stage # "exited"
  <2>1. CASE Unwind
    <3>1. stage = "unwind" /\ \A w \in Workers : wpc[w] = "exited"
      BY Zenon, <2>1 DEF Unwind, AllJoined
    <3>2. toWrite[Main] = <<>>
      BY <3>1, Quiet DEF StageNames
    <3> QED
      BY <3>1, <3>2, NobodyWrites
  <2>2. CASE Throws /\ stage # "iterate"
    <3>1. toWrite[Main] = <<>> /\ stage \in DOMAIN MainMessage \cup {"integrity", "open"}
      BY Zenon, <2>2 DEF Throws
    <3> QED
      BY <3>1, MainIsAlone, MainMessageFacts
  <2> QED
    BY <2>1, <2>2
<1>3. Resting(stage, Open, jsonOutputStream)
  BY Zenon, <1>2, AtRest
<1>4. Open' <=> Open
  BY Zenon, <1>1 DEF Open
<1>5. Resting(stage', Open', jsonOutputStream')
  BY <1>1, <1>2, <1>3, <1>4 DEF Resting
<1>6. \A t \in Threads : toWrite'[t] = <<>>
  BY Zenon, <1>1, <1>2
<1> QED
  BY Zenon, <1>5, <1>6, ToRest

LEMMA DocEnd ==
    ASSUME Control, Document, Json, EndLogs \/ Status \/ Destroy
    PROVE  Document'
<1> DEFINE js == jsonOutputStream
<1>1. /\ toWrite' = toWrite
      /\ stage \in {"end_logs", "status", "destroy"}
      /\ stage = "end_logs" => toWrite[Main] = <<>>
  BY Zenon DEF EndLogs, Status, Destroy
<1>2. (\A t \in Threads : toWrite[t] = <<>>) /\ msgMutex = Nobody
  BY <1>1, MainIsAlone DEF StageNames
<1>3. Resting(stage, Open, js)
  BY Zenon, <1>2, AtRest
<1>4. \A t \in Threads : toWrite'[t] = <<>>
  BY Zenon, <1>1, <1>2
<1>5. CASE EndLogs
  <2>1. Open /\ AtLogs(js)
    <3>1. stage = "end_logs"
      BY Zenon, <1>5 DEF EndLogs
    <3> QED
      BY <1>3, <3>1 DEF Resting
  <2>2. stage' = "status" /\ ~Open' /\ js' = EndArray(js)
    BY Zenon, <1>5, <2>1 DEF EndLogs, Goto, LogsEnded, Open, Json
  <2>3. AtRoot(js')
    BY Zenon, <2>1, <2>2, LogsSteps
  <2> QED
    BY <1>4, <2>2, <2>3, ToRest DEF Resting
<1>6. CASE Status
  <2>1. ~Open /\ AtRoot(js)
    <3>1. stage = "status"
      BY Zenon, <1>6 DEF Status
    <3> QED
      BY <1>3, <3>1 DEF Resting, StageNames
  <2>2. stage' = "destroy" /\ ~Open' /\ js' = BoolProperty(js)
    BY Zenon, <1>6, <2>1 DEF Status, Goto, Open, Json
  <2>3. AtRoot(js')
    BY Zenon, <2>1, <2>2, RootSteps
  <2> QED
    BY <1>4, <2>2, <2>3, ToRest DEF Resting
<1>7. CASE Destroy
  <2>1. stage = "destroy"
    BY Zenon, <1>7 DEF Destroy
  <2>2. stage' = "exited" /\ ~Open' /\ js' = EndObject(LogsEnded(js))
    BY Zenon, <1>7 DEF Destroy, Goto, Open, Json
  <2>3. AtRoot(LogsEnded(js))
    <3>1. CASE Open
      <4>1. AtLogs(js)
        BY <1>3, <2>1, <3>1 DEF Resting
      <4>2. LogsEnded(js) = EndArray(js)
        BY Zenon, <3>1 DEF LogsEnded, Open, Json
      <4> QED
        BY Zenon, <4>1, <4>2, LogsSteps
    <3>2. CASE ~Open
      <4>1. AtRoot(js)
        BY <1>3, <2>1, <3>2 DEF Resting
      <4>2. LogsEnded(js) = js
        BY Zenon, <3>2 DEF LogsEnded, Open, Json
      <4> QED
        BY Zenon, <4>1, <4>2
    <3> QED
      BY Zenon, <3>1, <3>2
  <2>4. js' = Complete
    BY Zenon, <2>2, <2>3, RootSteps
  <2> QED
    BY <1>4, <2>2, <2>4, ToRest DEF Resting
<1> QED
  BY Zenon, <1>5, <1>6, <1>7

LEMMA DocumentStep ==
    ASSUME NoNoise, Control, DocInv, [Next]_vars
    PROVE  DocInv'
<1>1. output \in OutputChoices /\ output' = output /\ logStreamOpen' \in BOOLEAN
  BY Zenon, SameOptions DEF DocInv
<1>2. Json' <=> Json
  BY Zenon, <1>1 DEF Json
<1>3. ASSUME Json PROVE Document'
  <2>1. Document
    BY Zenon, <1>3 DEF DocInv
  <2>2. CASE UNCHANGED vars
    BY Zenon, <2>1, <2>2 DEF vars, Document, Open
  <2>3. CASE \E t \in Threads : WriteMsg(t)
    BY Zenon, <1>3, <2>1, <2>3, DocWriteMsg
  <2>4. CASE \E w \in Workers : \/ StartCheck(w) \/ WorkerReports(w) \/ EndCheck(w)
                                \/ WorkerThrows(w) \/ WorkerExits(w)
    BY Zenon, <1>1, <1>3, <2>1, <2>4, DocWorkers, DocReports
  <2>5. CASE Header \/ TestIntegrity \/ OpenArchive \/ MainReports
    BY Zenon, <1>3, <2>1, <2>5, DocHeader, DocTestIntegrity, DocOpenArchive, DocReports
  <2>6. CASE TestDone \/ StartWorkers \/ EndOfEntries \/ Join \/ Throws \/ Unwind
    BY Zenon, <2>1, <2>6, DocStages, DocThrows
  <2>7. CASE EndLogs \/ Status \/ Destroy
    BY Zenon, <1>3, <2>1, <2>7, DocEnd
  <2> QED
    BY Zenon, <2>2, <2>3, <2>4, <2>5, <2>6, <2>7 DEF Next, Finished
<1>4. ASSUME ~Json PROVE NoDocument'
  BY Zenon, <1>4, NoDocumentStep DEF DocInv
<1> QED
  BY Zenon, <1>1, <1>2, <1>3, <1>4 DEF DocInv

-----------------------------------------------------------------------------

LEMMA DocumentHolds == ASSUME NoNoise PROVE Spec => [](Control /\ DocInv)
<1>1. Init => Control /\ DocInv
  BY Zenon, ControlInit, DocumentInit
<1>2. Control /\ DocInv /\ [Next]_vars => (Control /\ DocInv)'
  BY Zenon, ControlStep, DocumentStep
<1> QED
  BY <1>1, <1>2, PTL DEF Spec

LEMMA WhereItIs ==
    ASSUME Control, Document, stage # "exited"
    PROVE  /\ ~Open => AtRoot(jsonOutputStream)
           /\ Open => AtLogs(jsonOutputStream) \/ AtMessage(jsonOutputStream)
<1>1. CASE msgMutex = Nobody
  BY Zenon, <1>1 DEF Document
<1>2. CASE msgMutex # Nobody
  <2>1. PICK t \in Threads : toWrite[t] # <<>>
    BY Zenon, <1>2, Quiet
  <2>2. Rest(toWrite[t], jsonOutputStream)
    BY Zenon, <2>1 DEF Document
  <2> QED
    BY Zenon, <2>2 DEF Rest, Document
<1> QED
  BY Zenon, <1>1, <1>2

\* Unless progress is printed too, what zimcheck --json writes is the
\* beginning of a JSON document at any time, and a whole one when it exits.
THEOREM JsonIsWellFormed == ASSUME NoNoise PROVE Spec => []OutputIsJson
<1>1. Control /\ DocInv => OutputIsJson
  <2> SUFFICES ASSUME Control, Document, Json
               PROVE  /\ jsonOutputStream.text.expects # "error"
                      /\ stage = "exited" => jsonOutputStream.text.expects = "nothing"
    BY Zenon DEF OutputIsJson, DocInv, Json
  <2>1. CASE stage = "exited"
    <3>1. jsonOutputStream = Complete
      BY <2>1 DEF Document
    <3>2. Complete.text.expects = "nothing"
      BY CompleteFacts
    <3> QED
      BY <3>1, <3>2
  <2>2. CASE stage # "exited"
    <3>1. AtRoot(jsonOutputStream) \/ AtLogs(jsonOutputStream) \/ AtMessage(jsonOutputStream)
      BY <2>2, WhereItIs
    <3>2. jsonOutputStream.text.expects \in Expectations \ {"error"}
      BY Zenon, <3>1, AtShapes
    <3> QED
      BY <2>2, <3>2
  <2> QED
    BY <2>1, <2>2
<1> QED
  BY DocumentHolds, <1>1, PTL

\* Messages are written into the array "logs" only, and the flag of the logger
\* says whether it is open.
THEOREM MessagesInLogs == ASSUME NoNoise PROVE Spec => []MessagesGoToLogs
<1>1. Control /\ DocInv => MessagesGoToLogs
  <2> SUFFICES ASSUME Control, Document, Json
               PROVE  /\ logStreamOpen <=> InLogs(jsonOutputStream)
                      /\ msgMutex # Nobody => InLogs(jsonOutputStream)
    BY Zenon DEF MessagesGoToLogs, DocInv, Json, InLogs
  <2>1. ASSUME Open PROVE InLogs(jsonOutputStream)
    <3>1. stage # "exited"
      BY Zenon, <2>1 DEF Document
    <3> QED
      BY Zenon, <2>1, <3>1, WhereItIs, AtShapes
  <2>2. ASSUME ~Open PROVE ~InLogs(jsonOutputStream) /\ msgMutex = Nobody
    <3>1. msgMutex = Nobody
      BY <2>2, Quiet, MainIsAlone DEF Document
    <3>2. CASE stage = "exited"
      <4>1. jsonOutputStream.nesting = <<>>
        BY Zenon, <3>2, CompleteFacts DEF Document
      <4> QED
        BY <3>1, <4>1 DEF InLogs
    <3>3. CASE stage # "exited"
      BY Zenon, <2>2, <3>1, <3>3, AtShapes DEF Document
    <3> QED
      BY <3>2, <3>3
  <2> QED
    BY Zenon, <2>1, <2>2 DEF Open
<1> QED
  BY DocumentHolds, <1>1, PTL

\* Type correctness.
THEOREM TypeCorrect == ASSUME NoNoise PROVE Spec => []TypeOK
<1>1. Control /\ DocInv => TypeOK
  <2> SUFFICES ASSUME Control, DocInv PROVE TypeOK
    OBVIOUS
  <2>1. /\ jsonOutputStream.nesting \in Seq(ScopeInfo)
        /\ jsonOutputStream.text.expects \in Expectations
    <3>1. CASE Json /\ stage = "exited"
      <4>1. jsonOutputStream = Complete
        BY <3>1 DEF DocInv, Document
      <4>2. Complete.nesting \in Seq(ScopeInfo) /\ Complete.text.expects \in Expectations
        BY CompleteFacts DEF Expectations
      <4> QED
        BY <4>1, <4>2
    <3>2. CASE Json /\ stage # "exited"
      BY Zenon, <3>2, WhereItIs, AtShapes DEF DocInv
    <3>3. CASE ~Json
      <4>1. jsonOutputStream = OutputStream
        BY Zenon, <3>3 DEF DocInv, NoDocument
      <4> QED
        BY <4>1 DEF OutputStream, Reader, Expectations
    <3> QED
      BY Zenon, <3>1, <3>2, <3>3
  <2> QED
    BY Zenon, <2>1, StageFacts DEF Control, TypeControl, DocInv, TypeOK, WriteOps
<1> QED
  BY DocumentHolds, <1>1, PTL

=============================================================================
