-------------------------------- MODULE Links --------------------------------
(***************************************************************************)
(* Links of HTML pages in src/tools.cpp: generic_getLinks() that collects  *)
(* them, detectUriKind() and the InternalLinkResolver.                     *)
(*                                                                         *)
(* A link is a record of its scheme ("" if it has none, in lower case),    *)
(* whether an authority follows ("//"), the components of its path and the *)
(* sequence of the characters # and ? behind it; what stands between and   *)
(* after these is left out. A page is a sequence of elements, whose tokens *)
(* are what the scanner looks for.                                         *)
(***************************************************************************)
EXTENDS Paths

CONSTANT Encoded    \* percent-encoded components -> what they stand for

\* The elements of s that are in S, in the order of s.
Kept(s, S) ==
    LET kept[n \in 0..Len(s)] ==
            IF n = 0 THEN <<>>
            ELSE IF s[n] \in S THEN Append(kept[n - 1], s[n]) ELSE kept[n - 1]
    IN  kept[Len(s)]

Dots == {".", ".."}

IsEmptyLink(url) == url = [scheme |-> "", authority |-> FALSE, path |-> EmptyPath,
                           marks |-> <<>>]

StartsWithMark(url) ==
    url.scheme = "" /\ ~url.authority /\ url.path = EmptyPath /\ url.marks # <<>>

SpecialSchemes == {"javascript", "mailto", "tel", "sip", "geo", "data", "xmpp",
                   "news", "urn"}

\* A text before ":" that is no valid scheme is part of the path here.
UriKind(url) ==
    IF url.scheme = ""
      THEN IF url.authority THEN "PROTOCOL_RELATIVE" ELSE "OTHER"
      ELSE IF url.scheme \in SpecialSchemes /\ ~url.authority
             THEN url.scheme ELSE "GENERIC_URI"

IsExternalUrl(url) == UriKind(url) \notin {"OTHER", "data"}
IsInternalUrl(url) == UriKind(url) = "OTHER"

\* Cuts at the last # or ?; the ones before remain in the last component.
StripFragmentAndOrSearchComponent(url) ==
    IF Len(url.marks) < 2 THEN url.path
    ELSE [url.path EXCEPT ![Len(url.path)] = FoldLeft(\o, @, Front(url.marks))]

DecodeUrl(path) ==
    [n \in DOMAIN path |->
        IF path[n] \in DOMAIN Encoded THEN Encoded[path[n]] ELSE path[n]]

Resolved(path) == [error |-> "none", path |-> path]
Unresolved(error) == [error |-> error, path |-> EmptyPath]

\* One component of the link: `ends` says that the path terminator is a slash.
ResolveComponent(r, component) ==
    LET isAtRoot == r.path \in {<<>>, EmptyPath}
    IN  IF r.error # "none" THEN r
        ELSE CASE component = "." -> [r EXCEPT !.ends = TRUE]
               [] component = ".." /\ isAtRoot -> [r EXCEPT !.error = "OutOfBoundsURL"]
               [] component = ".." /\ ~isAtRoot -> [r EXCEPT !.path = Front(@), !.ends = TRUE]
               [] component \notin Dots -> [r EXCEPT !.path = Append(@, component), !.ends = FALSE]

ResolveLinkTarget(url, zimPath) ==
    LET path == StripFragmentAndOrSearchComponent(url)
        components == DecodeUrl(path)
        resolve[n \in 0..Len(components)] ==
            IF n = 0 THEN [error |-> "none", path |-> Front(zimPath), ends |-> FALSE]
            ELSE ResolveComponent(resolve[n - 1], components[n])
        r == resolve[Len(components)]
    IN  CASE path = EmptyPath -> Resolved(zimPath)
          [] path # EmptyPath /\ Head(path) = "" -> Unresolved("AbsolutePathURL")
          [] OTHER ->
                CASE r.error # "none" -> Unresolved(r.error)
                  [] r.error = "none" /\ r.path = <<>> -> Resolved(EmptyPath)
                  [] r.error = "none" /\ r.path # <<>> ->
                        Resolved(IF r.ends THEN Append(r.path, "") ELSE r.path)

-----------------------------------------------------------------------------
(* Pages. An attribute is a record of its name ("href" or "src") and link. *)
(* The other tokens are "<" and ">", the "<" of a script tag and the end   *)
(* of a script ("<" and ">" at once), the begin and the end of a comment.  *)

Tag(attributes) == [tag |-> "tag", attributes |-> attributes, text |-> <<>>]
Script(attributes, text) == [tag |-> "script", attributes |-> attributes, text |-> text]
Comment(text) == [tag |-> "comment", attributes |-> <<>>, text |-> text]
Text(text) == [tag |-> "text", attributes |-> <<>>, text |-> text]

Char(c) == [token |-> c]
Attribute(name, url) == [token |-> "attribute", name |-> name, url |-> url]

ElementTokens(e) ==
    CASE e.tag = "tag" -> <<Char("lt")>> \o e.attributes \o <<Char("gt")>>
      [] e.tag = "script" ->
            <<Char("script_begin")>> \o e.attributes \o <<Char("gt")>> \o e.text
                \o <<Char("script_end")>>
      [] e.tag = "comment" -> <<Char("comment_begin")>> \o e.text \o <<Char("comment_end")>>
      [] e.tag = "text" -> e.text

Urls == [scheme : STRING, authority : BOOLEAN, path : Seq(STRING),
         marks : Seq({"#", "?"})]
Chars == {Char(c) : c \in {"lt", "gt", "script_begin", "script_end",
                          "comment_begin", "comment_end"}}
Attributes == [token : {"attribute"}, name : {"href", "src"}, url : Urls]
Elements == [tag : {"tag", "script", "comment", "text"},
             attributes : Seq(Attributes),
             text : Seq(Chars \cup Attributes)]

Tokens(page) == FlattenSeq([n \in DOMAIN page |-> ElementTokens(page[n])])

\* One step of the scanner: `skip` is the token it skips to, `after` the one it
\* will skip to when the tag has ended (processingAScriptTag).
Scan(s, t) ==
    CASE s.skip # "nothing" -> IF t.token = s.skip THEN [s EXCEPT !.skip = "nothing"] ELSE s
      [] s.skip = "nothing" /\ t.token = "comment_begin" -> [s EXCEPT !.skip = "comment_end"]
      [] s.skip = "nothing" /\ t.token = "lt" -> [s EXCEPT !.balance = @ + 1]
      [] s.skip = "nothing" /\ t.token = "script_begin" ->
            [s EXCEPT !.balance = @ + 1, !.after = "script_end"]
      [] s.skip = "nothing" /\ t.token \in {"gt", "comment_end", "script_end"} ->
            [s EXCEPT !.balance = IF t.token = "script_end" THEN @ ELSE @ - 1,
                      !.after = "nothing", !.skip = s.after]
      [] s.skip = "nothing" /\ t.token = "attribute" ->
            IF s.balance = 1 THEN [s EXCEPT !.links = Append(@, t)] ELSE s

NothingScanned == [balance |-> 0, skip |-> "nothing", after |-> "nothing", links |-> <<>>]

GetLinks(page) ==
    LET tokens == Tokens(page)
        scan[n \in 0..Len(tokens)] ==
            IF n = 0 THEN NothingScanned ELSE Scan(scan[n - 1], tokens[n])
    IN  scan[Len(tokens)].links

-----------------------------------------------------------------------------
(* What links mean, independently of any scanning or folding.              *)

\* The attributes of the tags of a page.
LinksOfPage(page) == FlattenSeq([n \in DOMAIN page |-> page[n].attributes])

Steps(url, zimPath) == Front(zimPath) \o DecodeUrl(url.path)

IsName(component) == component \notin Dots \cup {""}

\* More components of S are up than are names.
Rises(steps, S) ==
    Cardinality({k \in S : steps[k] = ".."}) > Cardinality({k \in S : IsName(steps[k])})

LeadsOutside(url, zimPath) ==
    LET steps == Steps(url, zimPath) IN \E j \in DOMAIN steps : Rises(steps, 1..j)

\* Where steps lead: a name remains unless what follows goes up above it.
Destination(steps) ==
    LET remaining == {i \in DOMAIN steps :
                        /\ IsName(steps[i])
                        /\ \A j \in i + 1..Len(steps) : ~Rises(steps, i + 1..j)}
        positions == Kept([i \in 1..Len(steps) |-> i], remaining)
        names == [n \in DOMAIN positions |-> steps[positions[n]]]
    IN  IF names = <<>> THEN EmptyPath
        ELSE IF IsName(Last(steps)) THEN names ELSE Append(names, "")

Target(url, zimPath) == Destination(Steps(url, zimPath))

-----------------------------------------------------------------------------
(* Proper pages, links and paths: those the code reads as they are meant.  *)

\* Elements in which brackets stand only where they have a meaning.
ProperElements ==
    {e \in Elements :
        /\ e.tag \in {"comment", "text"} => e.attributes = <<>>
        /\ e.tag = "text" => e.text \in Seq(Attributes \cup {Char("script_end")})
        /\ e.tag = "comment" => \A n \in 1..Len(e.text) : e.text[n].token # "comment_end"
        /\ e.tag = "script" => \A n \in 1..Len(e.text) : e.text[n].token # "script_end"}

\* Links with a fragment or a search component but not both, and without two
\* slashes in a row inside of a relative path.
ProperUrls ==
    {url \in Urls :
        /\ url.path # <<>>
        /\ Len(url.marks) < 2
        /\ Head(url.path) = "" \/
             \A n \in 1..(Len(url.path) - 1) : DecodeUrl(url.path)[n] # ""}

\* Paths of entries whose directories have names.
ProperPaths ==
    {path \in Seq(STRING) : path # <<>> /\ \A n \in 1..(Len(path) - 1) : IsName(path[n])}
=============================================================================
