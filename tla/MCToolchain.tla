----------------------------- MODULE MCToolchain -----------------------------
EXTENDS Toolchain

MCEncoded == ("b%20" :> "b ")
MCBase == <<"html">>
MCLongNames == ("long-1" :> "long") @@ ("long-2" :> "long")

MCContent(id, html, refresh, links) ==
    [id |-> id, html |-> html, refresh |-> refresh, links |-> links]
MCPage(id) == MCContent(id, TRUE, <<>>, <<>>)
MCRefresh(to) == MCContent("refresh", TRUE, to, <<>>)
MCImage == MCContent("png", FALSE, <<>>, <<>>)
MCItem(content) == [kind |-> "item", content |-> content]
MCRedirect(to) == [kind |-> "redirect", to |-> to]

MCArchive(scheme, entries, main, metadata) ==
    [scheme |-> scheme, entries |-> entries, main |-> main, metadata |-> metadata]

-----------------------------------------------------------------------------
(* Arguments. *)

MCText(length, size) == [length |-> length, size |-> size, matches |-> TRUE]
MCTexts ==
    [name \in {"Creator", "Name", "Publisher", "Description", "Language", "Title"} |->
        MCText(3, 3)]

MCArguments ==
    [symlinks |-> FALSE, knowsTypes |-> TRUE, redirects |-> <<>>,
     dontCheckArgs |-> FALSE, texts |-> MCTexts, welcome |-> <<"p">>,
     illustration |-> <<"i">>, zimDirectory |-> <<>>, zimExists |-> FALSE,
     magicLoads |-> TRUE, continueWithoutMagic |-> FALSE]

MCScenario(programs, archive0, world0, arguments0) ==
    [plan |-> programs, archive |-> archive0, world |-> world0] @@ arguments0

MCRoot == (<<>> :> Directory)

-----------------------------------------------------------------------------
(* Archives to recreate: each page has links of all kinds. *)

MCLinks1 == << <<"..", "I", "x">>, <<"d", "q">>, <<"..", "A", "d", "q">>, <<"..", "-", "s">> >>
MCLinks2 == << <<"..", "..", "I", "x">>, <<"..", "p">>, <<"..", "..", "A", "p">>,
               <<"..", "..", "-", "s">>, <<"..", "I", "x">> >>
MCLinks3 == << <<"..", "..", "..", "I", "x">>, <<"..", "q">> >>

MCOldEntries ==
    (<<"A", "p">> :> MCItem(MCContent("p", TRUE, <<>>, MCLinks1)))
    @@ (<<"A", "d", "q">> :> MCItem(MCContent("q", TRUE, <<>>, MCLinks2)))
    @@ (<<"A", "d", "e", "r">> :> MCItem(MCContent("r", TRUE, <<>>, MCLinks3)))
    @@ (<<"I", "x">> :> MCItem(MCImage))
    @@ (<<"-", "s">> :> MCRedirect(<<"A", "p">>))
    @@ (<<"A", "x">> :> MCRedirect(<<"A", "d", "q">>))
    @@ (<<"A", "I", "x">> :> MCItem(MCPage("x")))
    @@ (<<"Z", "index">> :> MCItem(MCImage))

MCMetadata == ("Title" :> Pack!Value(MCText(3, 3), "text/plain"))
              @@ ("Counter" :> Pack!Value(MCText(3, 3), "text/plain"))

\* The old archives of some of the entries, and one of the new scheme.
MCArchivesToRecreate ==
    {MCArchive("old", Finished(Restrict(MCOldEntries, paths)),
               IF <<"-", "s">> \in paths THEN <<"-", "s">> ELSE NoPath, MCMetadata) :
        paths \in {S \in SUBSET DOMAIN MCOldEntries : {<<"A", "p">>, <<"A", "d", "q">>} \subseteq S}}
    \cup {MCArchive("new", Restrict(MCOldEntries, {<<"A", "p">>, <<"-", "s">>}), <<"-", "s">>,
                    MCMetadata)}

-----------------------------------------------------------------------------
(* Archives to dump. *)

MCDumpPaths == {<<"p">>, <<"d", "a">>, <<"p", "c">>, <<"d", "e", "b ">>, <<"d", "">>,
                <<"long-1">>, <<"long-2">>, <<"long~1">>}

\* All sets of at most three entries; redirects lead to items.
MCArchivesToDump ==
    LET Entry(p) == {MCItem(MCContent(ToString(p), html, <<>>, <<>>)) : html \in BOOLEAN}
                        \cup {MCItem(MCRefresh(<<"a">>))}
                        \cup {MCRedirect(q) : q \in {<<"d", "a">>, <<"d", "e", "b ">>}}
        Sets == {S \in SUBSET MCDumpPaths : Cardinality(S) \in 1..3}
        All == UNION {{f \in [S -> UNION {Entry(p) : p \in S}] :
                         /\ \A p \in S : f[p] \in Entry(p)
                         /\ \A p \in S : IsRedirect(f[p]) =>
                                f[p].to \in S /\ ~IsRedirect(f[f[p].to])} : S \in Sets}
    IN  {MCArchive("new", entries, NoPath, NoEntries) : entries \in All}

-----------------------------------------------------------------------------
(* Directories to pack: a link, a page and a refresh page that vary. *)

MCWorld(link, refresh) ==
    MCRoot @@ (MCBase :> Directory)
    @@ (<<"outside">> :> File(MCPage("outside")))
    @@ (<<"html2">> :> Directory)
    @@ (<<"html2", "x">> :> File(MCPage("x")))
    @@ (<<"html", "p">> :> File(MCPage("p")))
    @@ (<<"html", "i">> :> File(MCImage))
    @@ (<<"html", "d">> :> Directory)
    @@ (<<"html", "d", "link">> :> Symlink(link))
    @@ (<<"html", "d", "b ">> :> File(MCRefresh(refresh)))
    @@ (<<"html", "link">> :> Symlink(<<"d", "link">>))

MCSmallWorld ==
    Restrict(MCWorld(<<>>, <<>>),
             {<<>>, MCBase, <<"html2">>, <<"html", "p">>, <<"html", "i">>, <<"html", "d">>})
    @@ (<<"html", "fifo">> :> SpecialFile)

MCTargets == {<<"..", "p">>, <<"b%20">>, <<"b ">>, <<"link">>, <<"..", "link">>, <<"..", "d">>,
              <<"..", "..", "outside">>, <<"missing">>, <<"..", "..", "html2", "x">>, <<"..", "">>,
              <<"..">>}

MCRedirectLines ==
    LET Line(path, target) == [valid |-> TRUE, path |-> path, target |-> target]
    IN  {<<>>, <<Line(<<"new">>, <<"p">>), Line(<<"lost">>, <<"missing">>)>>,
         <<Line(<<"p">>, <<"i">>)>>, <<[Line(<<>>, <<>>) EXCEPT !.valid = FALSE]>>}

MCPackScenarios ==
    {MCScenario(<<"zimwriterfs">>, NoArchive, MCWorld(link, refresh),
                [MCArguments EXCEPT !.welcome = <<"d", "b ">>]) :
        link \in MCTargets, refresh \in MCTargets \cup {<<>>, <<"link", "p">>}}
    \cup {MCScenario(<<"zimwriterfs">>, NoArchive, world0, [MCArguments EXCEPT !.knowsTypes = FALSE]) :
        world0 \in {MCWorld(link, refresh) :
                        link \in {<<"..", "p">>, <<"..", "..", "html2">>, <<"missing">>},
                        refresh \in {<<>>, <<"link">>, <<"..", "p">>}}
                    \cup {MCSmallWorld @@ (<<"html", "d", "loop">> :> Symlink(<<".">>))}}
    \cup {MCScenario(<<"zimwriterfs">>, NoArchive, MCSmallWorld,
                     [MCArguments EXCEPT !.redirects = lines0]) : lines0 \in MCRedirectLines}

\* Arguments and metadata that vary.
MCArgumentScenarios ==
    LET Varied(args) == MCScenario(<<"zimwriterfs">>, NoArchive, MCSmallWorld, args)
        LongText(l) == ("LongDescription" :> l) @@ MCTexts
    IN  {Varied([MCArguments EXCEPT !.dontCheckArgs = dont, !.welcome = welcome,
                                    !.illustration = illustration, !.texts = texts]) :
            dont \in BOOLEAN, welcome \in {NoPath, <<"p">>, <<"d">>, <<"missing">>},
            illustration \in {NoPath, <<"i">>, <<"p">>, <<"d">>, <<"missing">>},
            texts \in {MCTexts, NoEntries, LongText(MCText(2, 4)), LongText(MCText(1, 2)),
                       LongText(MCText(4001, 4001)), LongText(MCText(0, 0))}
                \cup {[MCTexts EXCEPT ![name] = text] :
                        name \in {"Title", "Language", "Description"},
                        text \in {MCText(0, 0), MCText(2, 2), MCText(30, 60), MCText(31, 31),
                                  MCText(81, 81), [MCText(3, 3) EXCEPT !.matches = FALSE]}}}
        \cup {Varied([MCArguments EXCEPT !.zimDirectory = directory, !.zimExists = exists,
                                         !.magicLoads = loads, !.continueWithoutMagic = goOn]) :
                directory \in {<<>>, MCBase, <<"html", "d">>, <<"html2">>, <<"missing">>},
                exists \in BOOLEAN, loads \in BOOLEAN, goOn \in BOOLEAN}

-----------------------------------------------------------------------------

\* A directory that an earlier dump with symbolic links has left.
MCOldDump == MCRoot @@ (MCBase :> Directory) @@ (<<"html", "p">> :> Symlink(<<"q">>))
             @@ (<<"html", "_exceptions">> :> File(MCImage))

MCRoundTrip ==
    [p \in {<<"p">>, <<"i">>, <<"d", "a">>, <<"d", "b ">>} |->
        CASE p = <<"p">> -> MCItem(MCPage("p"))
          [] p = <<"i">> -> MCItem(MCImage)
          [] p = <<"d", "a">> -> MCRedirect(<<"d", "b ">>)
          [] p = <<"d", "b ">> -> MCItem(MCPage("b"))]

MCScenarios ==
    {MCScenario(<<"zimrecreate">>, archive0, MCRoot, MCArguments) :
        archive0 \in MCArchivesToRecreate}
    \cup {MCScenario(<<"zimdump">>, archive0, world0, [MCArguments EXCEPT !.symlinks = links]) :
        archive0 \in MCArchivesToDump, world0 \in {MCRoot, MCOldDump}, links \in BOOLEAN}
    \cup {MCScenario(<<"zimrecreate", "zimdump", "zimwriterfs">>,
                     MCArchive("old",
                        [p \in {<<"A">> \o q : q \in DOMAIN MCRoundTrip} |->
                            LET e == MCRoundTrip[Tail(p)]
                            IN  IF IsRedirect(e) THEN MCRedirect(<<"A">> \o e.to) ELSE e],
                        <<"A", "p">>, MCMetadata),
                     MCRoot, [MCArguments EXCEPT !.symlinks = links]) : links \in BOOLEAN}
    \cup MCPackScenarios \cup MCArgumentScenarios
=============================================================================
