-------------------------- MODULE MCArticleChecker --------------------------
(***************************************************************************)
(* An archive in which every branch of the checks is taken by one or two   *)
(* workers, and pages that link to every short relative path.              *)
(***************************************************************************)
EXTENDS ArticleChecker

Path(components) == [scheme |-> "", authority |-> FALSE, path |-> components,
                     marks |-> <<>>]
Marked(components, mark) == [Path(components) EXCEPT !.marks = <<mark>>]
Remote(scheme, authority) ==
    [Path(EmptyPath) EXCEPT !.scheme = scheme, !.authority = authority]

Href(url) == Attribute("href", url)
Src(url) == Attribute("src", url)

MCEncoded == [c \in {"%2E%2E", "%61"} |-> IF c = "%61" THEN "a" ELSE ".."]

Item(path, content, blob, page) ==
    [kind |-> "item", ns |-> "C", path |-> path, page |-> page, html |-> page # <<>>,
     size |-> IF content = "void" THEN 0 ELSE 1, content |-> content, blob |-> blob]

Redirect(path) == [kind |-> "redirect", ns |-> "C", path |-> path]

MCTests == {"EMPTY", "REDUNDANT", "URL_INTERNAL", "URL_EXTERNAL"}
MCOptions ==
    {[tests |-> MCTests, quick |-> q] : q \in BOOLEAN}
        \cup {[tests |-> {"URL_INTERNAL"}, quick |-> FALSE],
              [tests |-> {"EMPTY", "URL_EXTERNAL"}, quick |-> TRUE]}

RunsOf(archives, choices, counts) ==
    [archive : archives, options : choices, threads : counts]

\* Page d/a has a dangling link, an absolute and an external one. The next
\* three items have the same content, the last two being aliases; the hash of
\* the page is theirs. d/r is a redirect and d/v is empty.
MCArchive == <<
    Item(<<"d", "a">>, "page", 1,
         <<Tag(<<Href(Path(<<"x">>)), Href(Path(<<"", "b">>)), Src(Remote("http", TRUE))>>)>>),
    Item(<<"d", "b">>, "copy", 2, <<>>),
    Item(<<"d", "c">>, "copy", 3, <<>>),
    Item(<<"d", "e">>, "copy", 3, <<>>),
    Redirect(<<"d", "r">>),
    Item(<<"d", "v">>, "void", 4, <<>>) >>

\* A page with links of every kind, some of them twice, a script, a comment and
\* a text with what looks like tags and links.
MCPage == <<
    Tag(<<Href(Path(EmptyPath)), Href(Path(<<"x">>))>>),
    Text(<<Href(Path(<<"text">>)), Char("script_end")>>),
    Tag(<<Href(Marked(<<"b">>, "#")), Href(Path(<<".", "y", "..", "x">>))>>),
    Comment(<<Char("lt"), Href(Path(<<"comment">>)), Char("script_begin"), Char("lt")>>),
    Script(<<Src(Remote("http", TRUE))>>,
           <<Char("lt"), Char("lt"), Href(Path(<<"script">>)), Char("gt"), Char("comment_begin")>>),
    Tag(<<Href(Path(<<"", "b">>)), Href(Marked(EmptyPath, "?")), Href(Path(<<"", "b">>)),
          Src(Remote("data", FALSE)), Src(Remote("", TRUE)), Href(Remote("mailto", FALSE))>>),
    Tag(<<Href(Path(<<"..", "..", "b">>)), Href(Path(EmptyPath)), Href(Path(<<"z">>))>>) >>

MCPages == {<<Item(<<"d", "a">>, "page", 1, MCPage), Redirect(<<"d", "b">>)>>}

\* Links to the paths of one to four components with a given beginning.
MCComponents == {"a", "b", ".", "..", "%2E%2E", "%61"}
MCLinksFrom(c, d) ==
    <<Href(Marked(<<c>>, "#")), Href(Path(<<c, d>>)), Href(Marked(<<c, d, "">>, "?")),
      Href(Path(<<c, d, "a">>)), Href(Path(<<c, d, ".">>)), Href(Path(<<c, d, "..">>)),
      Href(Path(<<c, d, "..", "">>)), Href(Path(<<c, d, "..", "b">>))>>

\* A page with these links at some place in the archive; a, b and a/b exist.
PageAt(path, c, d) ==
    <<Item(path, "page", 1, <<Tag(MCLinksFrom(c, d))>>)>>
        \o [n \in 1..3 |-> Redirect(<< <<"a">>, <<"b">>, <<"a", "b">> >>[n])]

MCPlaces == {<<"p">>, <<"a", "p">>, <<"a", "b", "p">>, <<"a", "">>}

MCRuns ==
    RunsOf({MCArchive}, MCOptions, {1, 2})
        \cup RunsOf(MCPages, MCOptions, {1})
        \cup RunsOf({PageAt(path, c, d) : path \in MCPlaces, c, d \in MCComponents},
                    {[tests |-> {"URL_INTERNAL"}, quick |-> FALSE]}, {1})

\* For --quick alone.
MCQuickRuns == RunsOf(MCPages, {[tests |-> {"URL_INTERNAL"}, quick |-> TRUE]}, {1})

\* For the search of redundant items alone.
MCRedundantRuns ==
    RunsOf({SubSeq(MCArchive, 2, 4)}, {[tests |-> {"REDUNDANT"}, quick |-> FALSE]}, {2})

MCHash == [c \in {"page", "copy", "void"} |-> IF c = "void" THEN 1 ELSE 2]

\* What the proofs suppose of archives is true of these.
ASSUME MCProper == ProperRuns
=============================================================================
