----------------------------- MODULE MCZimUpdate -----------------------------
EXTENDS ZimUpdate, FiniteSets

MCItem(data, about) == [kind |-> "item", data |-> data, about |-> about]
MCRedirect(to, about) == [kind |-> "redirect", to |-> to, about |-> about]

\* All sets of entries at some of the paths, without redirects in a circle.
MCEntries(paths, data, abouts) ==
    LET Choice(p) == {MCItem(d, a) : d \in data, a \in abouts}
                        \cup {MCRedirect(q, a) : q \in paths \ {p}, a \in abouts}
        Choices == UNION {Choice(p) : p \in paths}
        LeadsOn(entries, p) ==
            IsRedirect(entries[p]) /\ entries[p].to \in DOMAIN entries
                /\ IsRedirect(entries[entries[p].to])
    IN  {entries \in UNION {[some -> Choices] : some \in SUBSET paths} :
            \A p \in DOMAIN entries :
                /\ entries[p] \in Choice(p)
                /\ IsRedirect(entries[p]) => entries[p].to \in DOMAIN entries
                /\ LeadsOn(entries, p) => ~LeadsOn(entries, entries[p].to)}

\* Two bytes stand for the sixteen of a UID.
MCUids == << <<0, 127>>, <<128, 255>>, <<128, 0>> >>

\* The n-th release has its main page at the n-th path, if there is an entry.
MCPaths == <<"a", "b", "c">>
MCRelease(n, entries) ==
    [uid |-> MCUids[n], entries |-> entries,
     main |-> IF MCPaths[n] \in DOMAIN entries THEN MCPaths[n] ELSE NoMain]

MCPairs(all) == {<<MCRelease(1, e), MCRelease(2, f)>> : e, f \in all}
MCTriples(all) ==
    {<<MCRelease(1, e), MCRelease(2, f), MCRelease(3, g)>> : e, f, g \in all}

MCHistories ==
    MCPairs(MCEntries({"a", "b"}, {1, 2}, {"x", "y"}))
        \cup MCPairs(MCEntries({"a", "b", "c"}, {1}, {"x"}))
        \cup MCTriples(MCEntries({"a", "b"}, {1, 2}, {"x"}))

MCOneStep == MCPairs({[p \in {"a"} |-> MCItem(d, "x")] : d \in {1, 2}})
=============================================================================
