----------------------- MODULE ArticleChecker_proofs ------------------------
(***************************************************************************)
(* What the run of ArticleChecker checks on a small archive, proved for    *)
(* any archives, options and numbers of threads: the types, that the       *)
(* search for redundant items is exact, and, where pages, links and paths  *)
(* are proper ones, that so are the messages of the items.                 *)
(***************************************************************************)
EXTENDS ArticleChecker, Links_proofs

-----------------------------------------------------------------------------
(* Types. *)

Setup == \E run \in Runs : /\ archive = run.archive
                           /\ options = run.options
                           /\ threads = 1..run.threads

ItemMessages == [id : ItemMessageIds, path : Entries, what : SUBSET Nat]

\* What the check of an item reports.
MessagesOf(e) == IF archive[e].size = 0 THEN EmptyItemMessages(e) ELSE LinkMessages(e)

LEMMA SetupTypes ==
    ASSUME Setup
    PROVE  /\ archive \in Seq(Items \cup Redirects)
           /\ Entries = 1..Len(archive)
           /\ \A e \in Entries : IsExamined(e) => archive[e] \in Items
           /\ threads \subseteq Workers
           /\ threads \in {1..n : n \in Workers}
<1>1. PICK run \in Runs : archive = run.archive /\ threads = 1..run.threads
  BY DEF Setup
<1>2. /\ run.archive \in Seq(Items \cup Redirects)
      /\ run.threads \in Nat \ {0}
  BY RunsAssumption
<1>3. archive \in Seq(Items \cup Redirects)
  BY <1>1, <1>2
<1>4. Entries = 1..Len(archive)
  BY <1>3 DEF Entries
<1>5. \A e \in Entries : archive[e] \in Items \cup Redirects
  BY <1>3, <1>4, SeqElements
<1>6. \A e \in Entries : IsExamined(e) => archive[e] \in Items
  <2>1. \A x \in Redirects : x.kind = "redirect"
    BY DEF Redirects
  <2> QED  BY <1>5, <2>1 DEF IsExamined
<1>7. threads \subseteq Workers /\ run.threads \in Workers
  BY <1>1, <1>2 DEF Workers
<1> QED
  BY <1>1, <1>3, <1>4, <1>6, <1>7

LEMMA PositionsTypes ==
    ASSUME NEW T, NEW links \in Seq(T), NEW S
    PROVE  /\ Positions(links, S) \in Seq(Nat)
           /\ ToSet(Positions(links, S)) \subseteq S
           /\ NoneTwice(Positions(links, S))
<1> DEFINE all == [n \in 1..Len(links) |-> n]
<1>1. Len(links) \in Nat
  BY SeqElements
<1>2. all \in [1..Len(links) -> Nat]
  OBVIOUS
<1>3. all \in Seq(Nat) /\ NoneTwice(all)
  BY <1>1, <1>2, SeqOfFunction DEF NoneTwice
<1> HIDE DEF all
<1>4. /\ Kept(all, S) \in Seq(Nat)
      /\ ToSet(Kept(all, S)) \subseteq S
      /\ NoneTwice(Kept(all, S))
  BY <1>3, KeptElements
<1> QED
  BY <1>4 DEF Positions, all

MessagesAbout(e, ids) == [id : ids, path : {e}, what : SUBSET Nat]

\* msgs are different messages about e.
Reports(msgs, e, ids) ==
    /\ msgs \in Seq(ItemMessages)
    /\ NoneTwice(msgs)
    /\ \A m \in ToSet(msgs) : m.path = e /\ m.id \in ids

\* The messages differ in the links that they are about.
LEMMA MessagesOfLinks ==
    ASSUME NEW e \in Entries, NEW ids \in SUBSET ItemMessageIds, NEW N \in Nat,
           NEW msgs \in [1..N -> MessagesAbout(e, ids)],
           \A i, j \in 1..N : msgs[i].what = msgs[j].what => i = j
    PROVE  Reports(msgs, e, ids)
<1>1. MessagesAbout(e, ids) \subseteq ItemMessages
  BY DEF MessagesAbout, ItemMessages
<1>2. \A i \in 1..N : msgs[i] \in MessagesAbout(e, ids)
  OBVIOUS
<1>3. msgs \in [1..N -> ItemMessages]
  BY <1>1
<1>4. msgs \in Seq(ItemMessages)
  BY <1>3, SeqOfFunction
<1>5. NoneTwice(msgs)
  BY DEF NoneTwice
<1>6. \A m \in ToSet(msgs) : m \in MessagesAbout(e, ids)
  BY <1>2 DEF ToSet
<1> QED
  BY <1>4, <1>5, <1>6 DEF Reports, MessagesAbout

LEMMA NoMessages ==
    ASSUME NEW e, NEW ids
    PROVE  Reports(<<>>, e, ids)
  BY DEF Reports, NoneTwice, ToSet

LEMMA OneMessage ==
    ASSUME NEW e \in Entries, NEW id \in ItemMessageIds, NEW what \in SUBSET Nat
    PROVE  Reports(<<Message(id, e, what)>>, e, {id})
<1> DEFINE m == Message(id, e, what)
<1>1. m \in ItemMessages /\ m.path = e /\ m.id = id
  BY DEF Message, ItemMessages
<1> HIDE DEF m
<1>2. <<m>> \in Seq(ItemMessages) /\ NoneTwice(<<m>>) /\ ToSet(<<m>>) = {m}
  BY <1>1 DEF NoneTwice, ToSet
<1> QED
  BY <1>1, <1>2 DEF Reports, m

LEMMA MessageForEachType ==
    ASSUME NEW id \in ItemMessageIds, NEW e \in Entries, NEW s \in Seq(Nat), NoneTwice(s)
    PROVE  Reports(MessageForEach(id, e, s), e, {id})
<1> DEFINE msgs == [n \in DOMAIN s |-> Message(id, e, {s[n]})]
<1>1. DOMAIN s = 1..Len(s) /\ Len(s) \in Nat /\ \A n \in 1..Len(s) : s[n] \in Nat
  BY SeqElements
<1>2. \A n \in 1..Len(s) : Message(id, e, {s[n]}) \in MessagesAbout(e, {id})
  BY <1>1 DEF Message, MessagesAbout
<1>3. msgs \in [1..Len(s) -> MessagesAbout(e, {id})]
  BY <1>1, <1>2
<1>4. \A i, j \in 1..Len(s) : msgs[i].what = msgs[j].what => i = j
  BY <1>1 DEF NoneTwice, Message
<1> HIDE DEF msgs
<1>5. Reports(msgs, e, {id})
  BY <1>1, <1>3, <1>4, MessagesOfLinks
<1> QED
  BY <1>5 DEF MessageForEach, msgs

LEMMA FirstIfQuickType ==
    ASSUME NEW e, NEW ids, NEW msgs, Reports(msgs, e, ids)
    PROVE  Reports(FirstIfQuick(msgs), e, ids)
<1>1. ASSUME msgs # <<>> PROVE Reports(<<Head(msgs)>>, e, ids)
  <2> DEFINE m == Head(msgs)
  <2>1. m \in ItemMessages /\ m \in ToSet(msgs)
    BY <1>1 DEF Reports, ToSet
  <2> HIDE DEF m
  <2>2. <<m>> \in Seq(ItemMessages) /\ NoneTwice(<<m>>) /\ ToSet(<<m>>) = {m}
    BY <2>1 DEF NoneTwice, ToSet
  <2> QED  BY <2>1, <2>2 DEF Reports, m
<1> QED
  BY <1>1 DEF FirstIfQuick

LEMMA UnresolvableType ==
    ASSUME NEW T, NEW links \in Seq(T), NEW e \in Entries, NEW resolved
    PROVE  Reports(UnresolvableMessages(e, links, resolved), e,
                   {"ABSPATH_LINK", "OUTOFBOUNDS_LINK"})
<1> DEFINE S == {n \in DOMAIN resolved : resolved[n].error # "none"}
           bad == Positions(links, S)
           ids == {"ABSPATH_LINK", "OUTOFBOUNDS_LINK"}
           Id(i) == IF resolved[bad[i]].error = "AbsolutePathURL"
                      THEN "ABSPATH_LINK" ELSE "OUTOFBOUNDS_LINK"
           msgs == [i \in DOMAIN bad |-> Message(Id(i), e, {bad[i]})]
<1>1. bad \in Seq(Nat) /\ NoneTwice(bad)
  <2> HIDE DEF S
  <2> QED  BY PositionsTypes
<1>2. UnresolvableMessages(e, links, resolved) = msgs
  BY DEF UnresolvableMessages
<1> HIDE DEF bad
<1>3. Len(bad) \in Nat /\ DOMAIN bad = 1..Len(bad) /\ \A n \in 1..Len(bad) : bad[n] \in Nat
  BY <1>1
<1>4. (\A i : Id(i) \in ids) /\ ids \in SUBSET ItemMessageIds
  BY DEF ItemMessageIds
<1> HIDE DEF Id, ids
<1>5. \A n \in 1..Len(bad) : Message(Id(n), e, {bad[n]}) \in MessagesAbout(e, ids)
  BY <1>3, <1>4 DEF Message, MessagesAbout
<1>6. msgs \in [1..Len(bad) -> MessagesAbout(e, ids)]
  BY <1>3, <1>5
<1>7. \A i, j \in 1..Len(bad) : msgs[i].what = msgs[j].what => i = j
  BY <1>1, <1>3 DEF NoneTwice, Message
<1>8. Reports(msgs, e, ids)
  <2> HIDE DEF msgs
  <2> QED  BY <1>3, <1>4, <1>6, <1>7, MessagesOfLinks
<1> QED
  BY <1>2, <1>8 DEF ids

LEMMA EmptyLinkType ==
    ASSUME NEW T, NEW links \in Seq(T), NEW e \in Entries
    PROVE  Reports(EmptyLinkMessages(e, links), e, {"EMPTY_LINKS"})
<1> DEFINE empty == {n \in DOMAIN links : IsEmptyLink(links[n].url)}
<1>1. empty \in SUBSET Nat
  OBVIOUS
<1>2. "EMPTY_LINKS" \in ItemMessageIds
  BY DEF ItemMessageIds
<1> HIDE DEF empty
<1>3. Reports(<<Message("EMPTY_LINKS", e, empty)>>, e, {"EMPTY_LINKS"})
  BY <1>1, <1>2, OneMessage
<1> QED
  BY <1>3, NoMessages DEF EmptyLinkMessages, empty

LEMMA DanglingType ==
    ASSUME NEW T, NEW links \in Seq(T), NEW e \in Entries,
           NEW resolved, DOMAIN resolved \subseteq Nat
    PROVE  Reports(DanglingMessages(e, links, resolved), e, {"DANGLING_LINKS"})
<1> DEFINE dangling == DanglingLinks(resolved)
           Group(m) == {n \in dangling : resolved[m].path = resolved[n].path}
           S == {n \in dangling : n = Min(Group(n))}
           first == Positions(links, S)
           id == "DANGLING_LINKS"
           msgs == [i \in DOMAIN first |-> Message(id, e, Group(first[i]))]
<1>1. DanglingMessages(e, links, resolved) = FirstIfQuick(msgs)
  BY DEF DanglingMessages
<1>2. first \in Seq(Nat) /\ NoneTwice(first) /\ ToSet(first) \subseteq S
  <2> HIDE DEF S
  <2> QED  BY PositionsTypes
<1>3. \A m : Group(m) \in SUBSET Nat
  BY DEF DanglingLinks
<1>4. {id} \in SUBSET ItemMessageIds
  <2> HIDE DEF Group, dangling, S, first, msgs
  <2> QED  BY DEF ItemMessageIds
<1>a. \A m, n \in S : Group(m) = Group(n) => m = n
  BY Zenon
<1> HIDE DEF first, Group, S
<1>5. Len(first) \in Nat /\ DOMAIN first = 1..Len(first)
  BY <1>2
<1>6. \A n \in 1..Len(first) : Message(id, e, Group(first[n])) \in MessagesAbout(e, {id})
  BY <1>3 DEF Message, MessagesAbout
<1>7. msgs \in [1..Len(first) -> MessagesAbout(e, {id})]
  BY <1>5, <1>6
<1>8. \A i, j \in 1..Len(first) : msgs[i].what = msgs[j].what => i = j
  <2>1. \A i \in 1..Len(first) : first[i] \in S /\ msgs[i].what = Group(first[i])
    BY <1>2, <1>5 DEF ToSet, Message
  <2> HIDE DEF msgs
  <2> QED  BY <1>2, <1>5, <1>a, <2>1 DEF NoneTwice
<1> HIDE DEF msgs, id
<1>9. Reports(msgs, e, {id})
  BY <1>4, <1>5, <1>7, <1>8, MessagesOfLinks
<1> QED
  BY <1>1, <1>9, FirstIfQuickType DEF id

LEMMA JoinedReports ==
    ASSUME NEW e, NEW ids, NEW a, NEW more, NEW b,
           Reports(a, e, ids), Reports(b, e, more), ids \cap more = {}
    PROVE  Reports(a \o b, e, ids \cup more)
<1> DEFINE r == a \o b
<1>1. a \in Seq(ItemMessages) /\ b \in Seq(ItemMessages)
  BY DEF Reports
<1>2. r \in Seq(ItemMessages) /\ Len(r) = Len(a) + Len(b) /\ Len(a) \in Nat /\ Len(b) \in Nat
  BY <1>1
<1>3. /\ \A n \in 1..Len(a) : r[n] = a[n]
      /\ \A n \in (Len(a) + 1)..(Len(a) + Len(b)) : r[n] = b[n - Len(a)]
  BY <1>1
<1>4. /\ DOMAIN r = 1..(Len(a) + Len(b))
      /\ DOMAIN a = 1..Len(a)
      /\ DOMAIN b = 1..Len(b)
  BY <1>1, <1>2
<1> HIDE DEF r
<1>5. \A n \in 1..Len(a) : r[n].path = e /\ r[n].id \in ids
  BY <1>3, <1>4 DEF Reports, ToSet
<1>6. \A n \in (Len(a) + 1)..(Len(a) + Len(b)) :
         n - Len(a) \in 1..Len(b) /\ r[n].path = e /\ r[n].id \in more
  <2> SUFFICES ASSUME NEW n \in (Len(a) + 1)..(Len(a) + Len(b))
               PROVE  n - Len(a) \in 1..Len(b) /\ r[n].path = e /\ r[n].id \in more
    OBVIOUS
  <2>1. n - Len(a) \in 1..Len(b)
    BY <1>2
  <2> QED  BY <1>3, <1>4, <2>1 DEF Reports, ToSet
<1>7. \A n \in DOMAIN r : \/ n \in 1..Len(a)
                          \/ n \in (Len(a) + 1)..(Len(a) + Len(b))
  BY <1>2, <1>4
<1>8. \A m \in ToSet(r) : m.path = e /\ m.id \in ids \cup more
  BY <1>5, <1>6, <1>7 DEF ToSet
<1>9. ASSUME NEW i \in DOMAIN r, NEW j \in DOMAIN r, r[i] = r[j]
      PROVE  i = j
  <2>1. CASE i \in 1..Len(a) /\ j \in 1..Len(a)
    BY <1>3, <1>4, <1>9, <2>1 DEF Reports, NoneTwice
  <2>2. CASE i \notin 1..Len(a) /\ j \notin 1..Len(a)
    <3>1. b[i - Len(a)] = b[j - Len(a)]
      BY <1>3, <1>7, <1>9, <2>2
    <3>2. i - Len(a) = j - Len(a)
      BY <1>4, <1>6, <1>7, <2>2, <3>1 DEF Reports, NoneTwice
    <3> QED  BY <1>2, <1>4, <3>2
  <2>3. CASE (i \in 1..Len(a)) # (j \in 1..Len(a))
    BY <1>5, <1>6, <1>7, <1>9, <2>3
  <2> QED  BY <2>1, <2>2, <2>3
<1> QED
  BY <1>2, <1>8, <1>9 DEF Reports, NoneTwice, r

\* The check of an item reports different messages, which are about the item.
LEMMA MessagesTypes ==
    ASSUME Setup, NEW e \in Entries, IsExamined(e)
    PROVE  Reports(MessagesOf(e), e, ItemMessageIds)
<1> DEFINE links == GetLinks(archive[e].page)
           resolved == ResolvedLinks(e, links)
           external == {n \in DOMAIN links : links[n].name = "src"
                                               /\ IsExternalUrl(links[n].url)}
           internalIds == {"ABSPATH_LINK", "OUTOFBOUNDS_LINK", "EMPTY_LINKS", "DANGLING_LINKS"}
<1>1. archive[e] \in Items
  BY SetupTypes
<1>2. links \in Seq(Attributes)
  <2>1. archive[e].page \in Seq(Elements)
    BY <1>1 DEF Items
  <2> QED  BY <2>1, GetLinksTypes
<1>3. DOMAIN resolved \subseteq Nat
  BY <1>2 DEF ResolvedLinks, Followed
<1>4. Reports(InternalLinkMessages(e, links), e, internalIds)
  <2> HIDE DEF links, resolved
  <2> DEFINE a == UnresolvableMessages(e, links, resolved)
             b == EmptyLinkMessages(e, links)
             c == DanglingMessages(e, links, resolved)
             A == {"ABSPATH_LINK", "OUTOFBOUNDS_LINK"}
             B == {"EMPTY_LINKS"}
             C == {"DANGLING_LINKS"}
  <2>1. Reports(a, e, A) /\ Reports(b, e, B) /\ Reports(c, e, C)
    BY <1>2, <1>3, UnresolvableType, EmptyLinkType, DanglingType
  <2>2. A \cap B = {} /\ (A \cup B) \cap C = {} /\ (A \cup B) \cup C = internalIds
    OBVIOUS
  <2>3. InternalLinkMessages(e, links) = (a \o b) \o c
    BY DEF InternalLinkMessages, resolved
  <2> HIDE DEF a, b, c, A, B, C, internalIds
  <2>4. Reports(a \o b, e, A \cup B)
    BY <2>1, <2>2, JoinedReports
  <2>5. Reports((a \o b) \o c, e, (A \cup B) \cup C)
    BY <2>1, <2>2, <2>4, JoinedReports
  <2> QED  BY <2>2, <2>3, <2>5
<1>5. Reports(ExternalLinkMessages(e, links), e, {"EXTERNAL_LINK"})
  <2> DEFINE s == Positions(links, external)
             msgs == MessageForEach("EXTERNAL_LINK", e, s)
  <2>0. ExternalLinkMessages(e, links) = FirstIfQuick(msgs)
    BY DEF ExternalLinkMessages
  <2> HIDE DEF links, external
  <2>1. s \in Seq(Nat) /\ NoneTwice(s)
    BY <1>2, PositionsTypes
  <2>2. "EXTERNAL_LINK" \in ItemMessageIds
    BY DEF ItemMessageIds
  <2> HIDE DEF s
  <2>3. Reports(msgs, e, {"EXTERNAL_LINK"})
    BY <2>1, <2>2, MessageForEachType
  <2> HIDE DEF msgs
  <2> QED  BY <2>0, <2>3, FirstIfQuickType
<1>6. ASSUME NEW ids, NEW msgs, Reports(msgs, e, ids), ids \subseteq ItemMessageIds
      PROVE  Reports(msgs, e, ItemMessageIds)
  BY <1>6 DEF Reports
<1> HIDE DEF links, resolved, external
<1>7. Reports(LinkMessages(e), e, ItemMessageIds)
  <2> DEFINE X == {"EXTERNAL_LINK"}
             a == IF IsEnabled("URL_INTERNAL") THEN InternalLinkMessages(e, links) ELSE <<>>
             b == IF IsEnabled("URL_EXTERNAL") THEN ExternalLinkMessages(e, links) ELSE <<>>
  <2>1. Reports(a, e, internalIds) /\ Reports(b, e, X)
    BY <1>4, <1>5, NoMessages
  <2>2. internalIds \cap X = {} /\ internalIds \cup X \subseteq ItemMessageIds
    BY DEF ItemMessageIds
  <2>3. LinkMessages(e) = IF ~archive[e].html THEN <<>> ELSE a \o b
    BY DEF LinkMessages, links
  <2> HIDE DEF a, b, internalIds, X
  <2>4. Reports(a \o b, e, internalIds \cup X)
    BY <2>1, <2>2, JoinedReports
  <2>5. Reports(a \o b, e, ItemMessageIds) /\ Reports(<<>>, e, ItemMessageIds)
    BY <1>6, <2>2, <2>4, NoMessages
  <2> QED  BY <2>3, <2>5, Zenon
<1>8. Reports(EmptyItemMessages(e), e, ItemMessageIds)
  <2>1. "EMPTY_ENTRY" \in ItemMessageIds /\ {} \in SUBSET Nat
    BY DEF ItemMessageIds
  <2>2. Reports(<<Message("EMPTY_ENTRY", e, {})>>, e, {"EMPTY_ENTRY"})
    BY <2>1, OneMessage
  <2>3. Reports(<<Message("EMPTY_ENTRY", e, {})>>, e, ItemMessageIds)
    BY <1>6, <2>1, <2>2
  <2> QED  BY <2>3, NoMessages DEF EmptyItemMessages
<1> QED
  BY <1>7, <1>8 DEF MessagesOf

LEMMA BagWith ==
    ASSUME NEW B, NEW S
    PROVE  BagToSet(B (+) SetToBag(S)) = BagToSet(B) \cup S
  BY DEF BagToSet, SetToBag, (+)

LogMessages ==
    [id : ItemMessageIds \cup {"REDUNDANT_ITEMS"}, path : Entries, what : SUBSET Nat]

WorkerTypes ==
    /\ wpc \in [Workers -> {"idle", "read", "write", "report"}]
    /\ item \in [Workers -> Entries \cup {NoItem}]
    /\ bucket \in [Workers -> Seq(Entries)]
    /\ toReport \in [Workers -> Seq(ItemMessages)]

\* A worker is at an item that is to be checked.
AtItems ==
    \A w \in Workers :
        /\ wpc[w] # "idle" => item[w] \in Entries /\ IsExamined(item[w])
        /\ wpc[w] \in {"read", "write"} => IsHashed(item[w])

SharedTypes ==
    /\ pending \in SUBSET Entries
    /\ hash_main \in [Hashes -> Seq(Entries)]
    /\ mpc \in {"check", "detect", "done"}
    /\ hashes \in SUBSET Hashes
    /\ l \in Seq(Entries)

LogTypes ==
    /\ BagToSet(log) \subseteq LogMessages
    /\ failed \in SUBSET Tests

TypeInv == Setup /\ WorkerTypes /\ AtItems /\ SharedTypes /\ LogTypes

LEMMA TypeInvInit == Init => TypeInv
<1> SUFFICES ASSUME Init PROVE TypeInv
  OBVIOUS
<1>1. Setup
  BY DEF Init, Setup
<1>2. WorkerTypes
  <2>1. <<>> \in Seq(Entries) /\ <<>> \in Seq(ItemMessages)
    OBVIOUS
  <2> QED  BY <2>1 DEF Init, WorkerTypes
<1>3. AtItems
  BY DEF Init, AtItems
<1>4. SharedTypes
  BY DEF Init, SharedTypes
<1>5. LogTypes
  BY DEF Init, LogTypes, EmptyBag, SetToBag, BagToSet
<1> QED
  BY <1>1, <1>2, <1>3, <1>4, <1>5 DEF TypeInv

\* Where an examined item is recorded.
LEMMA HashOfItem ==
    ASSUME Setup, NEW e \in Entries, IsExamined(e)
    PROVE  Hash[archive[e].content] \in Hashes
<1>1. archive[e] \in Items
  BY SetupTypes
<1>2. archive[e].content \in DOMAIN Hash
  BY <1>1 DEF Items
<1> QED
  BY <1>2 DEF Hashes

\* addMsg() keeps the types of what it changes.
LEMMA AddMsgsTypes ==
    ASSUME LogTypes, NEW msgs, msgs \subseteq LogMessages, AddMsgs(msgs)
    PROVE  /\ BagToSet(log') = BagToSet(log) \cup msgs
           /\ BagToSet(log') \subseteq LogMessages
           /\ failed' \in SUBSET Tests
<1>1. BagToSet(log') = BagToSet(log) \cup msgs
  BY BagWith DEF AddMsgs
<1>2. \A m \in LogMessages : TestOf(m.id) \in Tests
  <2>1. \A m \in LogMessages :
          m.id \in {"EMPTY_ENTRY", "ABSPATH_LINK", "OUTOFBOUNDS_LINK", "EMPTY_LINKS",
                    "DANGLING_LINKS", "EXTERNAL_LINK", "REDUNDANT_ITEMS"}
    BY DEF LogMessages, ItemMessageIds
  <2> QED  BY <2>1 DEF TestOf, Tests
<1>3. failed' \in SUBSET Tests
  BY <1>2 DEF AddMsgs, LogTypes
<1> QED
  BY <1>1, <1>3 DEF LogTypes

\* The messages of one round of the search for redundant items.
RoundMessages ==
    LET e1 == Head(l)
        others == {f \in ToSet(Tail(l)) : ~AreAliases(e1, f)}
    IN  {Message("REDUNDANT_ITEMS", e1, {f}) :
            f \in {g \in others : archive[g].content = archive[e1].content}}

LEMMA ListParts ==
    ASSUME NEW T, NEW s \in Seq(T), s # <<>>
    PROVE  /\ Head(s) \in T
           /\ Tail(s) \in Seq(T)
           /\ ToSet(s) = {Head(s)} \cup ToSet(Tail(s))
           /\ ToSet(s) \subseteq T
<1>1. Len(s) \in Nat /\ Len(s) # 0
  OBVIOUS
<1>2. Head(s) = s[1] /\ Head(s) \in T /\ Tail(s) \in Seq(T)
  BY <1>1
<1>3. DOMAIN s = 1..Len(s) /\ DOMAIN Tail(s) = 1..(Len(s) - 1)
  BY <1>1
<1>4. \A n \in 1..(Len(s) - 1) : Tail(s)[n] = s[n + 1]
  BY <1>1
<1>5. \A n \in 1..Len(s) : s[n] \in T
  OBVIOUS
<1>6. ToSet(s) \subseteq T
  BY <1>3, <1>5 DEF ToSet
<1>7. ToSet(s) \subseteq {Head(s)} \cup ToSet(Tail(s))
  <2> SUFFICES ASSUME NEW n \in 1..Len(s)
               PROVE  s[n] \in {Head(s)} \cup ToSet(Tail(s))
    BY <1>3 DEF ToSet
  <2>1. CASE n = 1
    BY <1>2, <2>1
  <2>2. CASE n # 1
    <3>1. n - 1 \in 1..(Len(s) - 1) /\ (n - 1) + 1 = n
      BY <1>1, <2>2
    <3>2. Tail(s)[n - 1] = s[n]
      BY <1>4, <3>1
    <3> QED  BY <1>3, <3>1, <3>2 DEF ToSet
  <2> QED  BY <2>1, <2>2
<1>8. {Head(s)} \cup ToSet(Tail(s)) \subseteq ToSet(s)
  <2>1. 1 \in 1..Len(s) /\ \A n \in 1..(Len(s) - 1) : n + 1 \in 1..Len(s)
    BY <1>1
  <2> QED  BY <1>2, <1>3, <1>4, <2>1 DEF ToSet
<1> QED
  BY <1>2, <1>6, <1>7, <1>8

LEMMA RoundTypes ==
    ASSUME TypeInv, CompareWithFirst
    PROVE  /\ AddMsgs(RoundMessages)
           /\ RoundMessages \subseteq LogMessages
           /\ Head(l) \in Entries
           /\ l' \in Seq(Entries)
           /\ ToSet(l') = {f \in ToSet(Tail(l)) :
                             /\ ~AreAliases(Head(l), f)
                             /\ archive[f].content # archive[Head(l)].content}
<1> DEFINE rest == Tail(l)
           S == {f \in {g \in ToSet(rest) : ~AreAliases(Head(l), g)} :
                    ~(archive[f].content = archive[Head(l)].content)}
<1>1. l \in Seq(Entries) /\ l # <<>>
  BY DEF TypeInv, SharedTypes, CompareWithFirst
<1>2. Head(l) \in Entries /\ rest \in Seq(Entries) /\ ToSet(rest) \subseteq Entries
  BY <1>1, ListParts
<1>3. AddMsgs(RoundMessages) /\ l' = Kept(rest, S)
  BY DEF CompareWithFirst, RoundMessages
<1>4. Entries \subseteq Nat
  BY SetupTypes DEF TypeInv
<1>5. RoundMessages \subseteq LogMessages
  <2>1. \A e, f \in Entries : Message("REDUNDANT_ITEMS", e, {f}) \in LogMessages
    BY <1>4 DEF LogMessages, Message
  <2> HIDE DEF rest, S
  <2> QED  BY <1>2, <2>1 DEF RoundMessages, rest
<1>6. l' \in Seq(Entries) /\ ToSet(l') = ToSet(rest) \cap S
  <2> HIDE DEF rest, S
  <2> QED  BY <1>2, <1>3, KeptElements
<1> QED
  BY <1>2, <1>3, <1>5, <1>6

LEMMA TypeInvNext == TypeInv /\ [Next]_vars => TypeInv'
<1> SUFFICES ASSUME TypeInv, [Next]_vars PROVE TypeInv'
  OBVIOUS
<1> USE DEF setup, workerVars, mainVars, reporter
<1>t. /\ Setup
      /\ threads \subseteq Workers
      /\ \A e \in Entries : IsExamined(e) => archive[e] \in Items
  BY SetupTypes DEF TypeInv
<1>h. \A e \in Entries : IsExamined(e) => Hash[archive[e].content] \in Hashes
  BY <1>t, HashOfItem
<1>1. ASSUME NEW w \in threads, NEW e \in Entries, Skip(w, e) PROVE TypeInv'
  <2>1. UNCHANGED <<setup, workerVars, hash_main, mainVars, reporter>>
    BY <1>1 DEF Skip
  <2>2. pending' \in SUBSET Entries
    BY <1>1 DEF Skip, TypeInv, SharedTypes
  <2>3. SharedTypes'
    BY <2>1, <2>2 DEF TypeInv, SharedTypes, Entries
  <2>4. Setup' /\ WorkerTypes' /\ AtItems' /\ LogTypes'
    BY <2>1 DEF TypeInv, Setup, WorkerTypes, AtItems, LogTypes, ItemMessages, LogMessages,
                Entries, IsExamined, IsHashed
  <2> QED  BY <2>3, <2>4 DEF TypeInv
<1>2. ASSUME NEW w \in threads, NEW e \in Entries, CheckItem(w, e) PROVE TypeInv'
  <2>1. UNCHANGED <<setup, bucket, hash_main, mainVars, reporter>>
    BY <1>2 DEF CheckItem
  <2>2. MessagesOf(e) \in Seq(ItemMessages) /\ IsExamined(e) /\ w \in Workers
    BY <1>t, <1>2, MessagesTypes DEF CheckItem, Reports
  <2>3. /\ toReport' = [toReport EXCEPT ![w] = MessagesOf(e)]
        /\ item' = [item EXCEPT ![w] = e]
        /\ pending' = pending \ {e}
    BY <1>2 DEF CheckItem, MessagesOf
  <2>4. \E pc \in {"read", "report"} : /\ wpc' = [wpc EXCEPT ![w] = pc]
                                       /\ pc = "read" => IsHashed(e)
    <3>1. CASE archive[e].size = 0
      BY <1>2, <3>1 DEF CheckItem
    <3>2. CASE archive[e].size # 0
      <4>1. wpc' = [wpc EXCEPT ![w] = IF IsEnabled("REDUNDANT") THEN "read" ELSE "report"]
        BY <1>2, <3>2 DEF CheckItem
      <4> QED  BY <2>2, <3>2, <4>1 DEF IsHashed
    <3> QED  BY <3>1, <3>2
  <2>5. Entries' = Entries /\ ItemMessages' = ItemMessages /\ LogMessages' = LogMessages
    BY <2>1 DEF Entries, ItemMessages, LogMessages
  <2>6. WorkerTypes'
    BY <2>1, <2>2, <2>3, <2>4, <2>5 DEF TypeInv, WorkerTypes
  <2>7. AtItems'
    <3> SUFFICES ASSUME NEW v \in Workers
                 PROVE  /\ wpc'[v] # "idle" => item'[v] \in Entries /\ IsExamined(item'[v])
                        /\ wpc'[v] \in {"read", "write"} => IsHashed(item'[v])
      BY <2>1, <2>5 DEF AtItems, IsHashed, IsExamined
    <3>1. CASE v = w
      BY <2>2, <2>3, <2>4, <3>1 DEF TypeInv, WorkerTypes
    <3>2. CASE v # w
      <4>1. wpc'[v] = wpc[v] /\ item'[v] = item[v]
        BY <2>2, <2>3, <2>4, <3>2 DEF TypeInv, WorkerTypes
      <4> QED  BY <4>1 DEF TypeInv, AtItems
    <3> QED  BY <3>1, <3>2
  <2>8. SharedTypes'
    BY <2>1, <2>3, <2>5 DEF TypeInv, SharedTypes
  <2>9. Setup' /\ LogTypes'
    BY <2>1, <2>5 DEF TypeInv, Setup, LogTypes
  <2> QED  BY <2>6, <2>7, <2>8, <2>9 DEF TypeInv
<1>3. ASSUME NEW w \in threads, ReadBucket(w) PROVE TypeInv'
  <2> DEFINE h == Hash[archive[item[w]].content]
  <2>1. /\ UNCHANGED <<setup, pending, item, toReport, hash_main, mainVars, reporter>>
        /\ bucket' = [bucket EXCEPT ![w] = hash_main[h]]
        /\ wpc' = [wpc EXCEPT ![w] = "write"]
        /\ wpc[w] = "read"
    BY <1>3 DEF ReadBucket
  <2>2. w \in Workers /\ item[w] \in Entries /\ IsExamined(item[w]) /\ IsHashed(item[w])
    BY <1>t, <2>1 DEF TypeInv, AtItems
  <2>3. hash_main[h] \in Seq(Entries)
    BY <1>h, <2>2 DEF TypeInv, SharedTypes
  <2> HIDE DEF h
  <2>5. Entries' = Entries /\ ItemMessages' = ItemMessages /\ LogMessages' = LogMessages
    BY <2>1 DEF Entries, ItemMessages, LogMessages
  <2>6. WorkerTypes'
    BY <2>1, <2>2, <2>3, <2>5 DEF TypeInv, WorkerTypes
  <2>7. AtItems'
    BY <2>1, <2>2, <2>5 DEF TypeInv, AtItems, WorkerTypes, IsHashed, IsExamined
  <2>8. SharedTypes' /\ Setup' /\ LogTypes'
    BY <2>1, <2>5 DEF TypeInv, SharedTypes, Setup, LogTypes
  <2> QED  BY <2>6, <2>7, <2>8 DEF TypeInv
<1>4. ASSUME NEW w \in threads, WriteBucket(w) PROVE TypeInv'
  <2> DEFINE h == Hash[archive[item[w]].content]
  <2>1. /\ UNCHANGED <<setup, pending, item, toReport, mainVars, reporter>>
        /\ hash_main' = [hash_main EXCEPT ![h] = Append(bucket[w], item[w])]
        /\ bucket' = [bucket EXCEPT ![w] = <<>>]
        /\ wpc' = [wpc EXCEPT ![w] = "report"]
        /\ wpc[w] = "write"
    BY <1>4 DEF WriteBucket
  <2>2. w \in Workers /\ item[w] \in Entries /\ IsExamined(item[w])
    BY <1>t, <2>1 DEF TypeInv, AtItems
  <2>3. bucket[w] \in Seq(Entries)
    BY <2>2 DEF TypeInv, WorkerTypes
  <2>4. Append(bucket[w], item[w]) \in Seq(Entries) /\ <<>> \in Seq(Entries)
    BY <2>2, <2>3, AppendedSet
  <2> HIDE DEF h
  <2>5. Entries' = Entries /\ ItemMessages' = ItemMessages /\ LogMessages' = LogMessages
    BY <2>1 DEF Entries, ItemMessages, LogMessages
  <2>6. WorkerTypes'
    BY <2>1, <2>4, <2>5 DEF TypeInv, WorkerTypes
  <2>7. AtItems'
    BY <2>1, <2>2, <2>5 DEF TypeInv, AtItems, WorkerTypes, IsHashed, IsExamined
  <2>8. SharedTypes'
    BY <2>1, <2>4, <2>5 DEF TypeInv, SharedTypes
  <2>9. Setup' /\ LogTypes'
    BY <2>1, <2>5 DEF TypeInv, Setup, LogTypes
  <2> QED  BY <2>6, <2>7, <2>8, <2>9 DEF TypeInv
<1>5. ASSUME NEW w \in threads, ReportNext(w) PROVE TypeInv'
  <2> DEFINE msgs == {Head(toReport[w])}
  <2>1. /\ UNCHANGED <<setup, pending, wpc, item, bucket, hash_main, mainVars>>
        /\ toReport' = [toReport EXCEPT ![w] = Tail(toReport[w])]
        /\ toReport[w] # <<>>
        /\ AddMsgs(msgs)
    BY <1>5 DEF ReportNext
  <2>2. w \in Workers /\ toReport[w] \in Seq(ItemMessages)
    BY <1>t DEF TypeInv, WorkerTypes
  <2>3. Head(toReport[w]) \in ItemMessages /\ Tail(toReport[w]) \in Seq(ItemMessages)
    BY <2>1, <2>2, ListParts
  <2>4. msgs \subseteq LogMessages
    BY <2>3 DEF ItemMessages, LogMessages
  <2> HIDE DEF msgs
  <2>5. Entries' = Entries /\ ItemMessages' = ItemMessages /\ LogMessages' = LogMessages
    BY <2>1 DEF Entries, ItemMessages, LogMessages
  <2>6. LogTypes'
    BY <2>1, <2>4, <2>5, AddMsgsTypes DEF TypeInv, LogTypes
  <2>7. WorkerTypes'
    BY <2>1, <2>3, <2>5 DEF TypeInv, WorkerTypes
  <2>8. AtItems' /\ SharedTypes' /\ Setup'
    BY <2>1, <2>5 DEF TypeInv, AtItems, SharedTypes, Setup, IsHashed, IsExamined
  <2> QED  BY <2>6, <2>7, <2>8 DEF TypeInv
<1>6. ASSUME NEW w \in threads, EndCheck(w) PROVE TypeInv'
  <2>1. /\ UNCHANGED <<setup, pending, bucket, toReport, hash_main, mainVars, reporter>>
        /\ wpc' = [wpc EXCEPT ![w] = "idle"]
        /\ item' = [item EXCEPT ![w] = NoItem]
    BY <1>6 DEF EndCheck
  <2>5. Entries' = Entries /\ ItemMessages' = ItemMessages /\ LogMessages' = LogMessages
    BY <2>1 DEF Entries, ItemMessages, LogMessages
  <2>6. WorkerTypes'
    BY <2>1, <2>5 DEF TypeInv, WorkerTypes
  <2>7. AtItems'
    <3> SUFFICES ASSUME NEW v \in Workers
                 PROVE  /\ wpc'[v] # "idle" => item'[v] \in Entries /\ IsExamined(item'[v])
                        /\ wpc'[v] \in {"read", "write"} => IsHashed(item'[v])
      BY <2>1, <2>5 DEF AtItems, IsHashed, IsExamined
    <3>1. CASE v = w
      BY <2>1, <3>1 DEF TypeInv, WorkerTypes
    <3>2. CASE v # w
      <4>1. wpc'[v] = wpc[v] /\ item'[v] = item[v]
        BY <2>1, <3>2 DEF TypeInv, WorkerTypes
      <4> QED  BY <4>1 DEF TypeInv, AtItems
    <3> QED  BY <3>1, <3>2
  <2>8. SharedTypes' /\ Setup' /\ LogTypes'
    BY <2>1, <2>5 DEF TypeInv, SharedTypes, Setup, LogTypes
  <2> QED  BY <2>6, <2>7, <2>8 DEF TypeInv
<1>7. CASE AllChecked
  <2>1. /\ UNCHANGED <<setup, pending, workerVars, hash_main, l, reporter>>
        /\ mpc' \in {"detect", "done"}
        /\ hashes' \in SUBSET Hashes
    BY <1>7 DEF AllChecked, TypeInv, SharedTypes
  <2> QED
    BY <2>1 DEF TypeInv, Setup, WorkerTypes, AtItems, SharedTypes, LogTypes, ItemMessages,
                LogMessages, Entries, IsExamined, IsHashed
<1>8. CASE NextBucket
  <2>1. /\ UNCHANGED <<setup, pending, workerVars, hash_main, mpc, reporter>>
        /\ l' = hash_main[Min(hashes)]
        /\ hashes' \subseteq hashes
        /\ hashes # {}
    BY <1>8 DEF NextBucket
  <2>2. hashes \subseteq Hashes
    BY DEF TypeInv, SharedTypes
  <2>3. hashes \subseteq Nat
    BY <2>2, HashAssumption DEF Hashes
  <2>4. Min(hashes) \in Hashes
    BY <2>1, <2>2, <2>3, MinOfNumbers
  <2>5. l' \in Seq(Entries) /\ hashes' \in SUBSET Hashes
    BY <2>1, <2>2, <2>4 DEF TypeInv, SharedTypes
  <2>6. SharedTypes'
    BY <2>1, <2>5 DEF TypeInv, SharedTypes, Entries
  <2>7. Setup' /\ WorkerTypes' /\ AtItems' /\ LogTypes'
    BY <2>1 DEF TypeInv, Setup, WorkerTypes, AtItems, LogTypes, ItemMessages, LogMessages,
                Entries, IsExamined, IsHashed
  <2> QED  BY <2>6, <2>7 DEF TypeInv
<1>9. CASE CompareWithFirst
  <2>1. UNCHANGED <<setup, pending, workerVars, hash_main, mpc, hashes>>
    BY <1>9 DEF CompareWithFirst
  <2>2. AddMsgs(RoundMessages) /\ RoundMessages \subseteq LogMessages /\ l' \in Seq(Entries)
    BY <1>9, RoundTypes
  <2>3. LogTypes'
    BY <2>1, <2>2, AddMsgsTypes DEF TypeInv, LogTypes, LogMessages, Entries
  <2>4. SharedTypes'
    BY <2>1, <2>2 DEF TypeInv, SharedTypes, Entries
  <2>5. Setup' /\ WorkerTypes' /\ AtItems'
    BY <2>1 DEF TypeInv, Setup, WorkerTypes, AtItems, ItemMessages, Entries, IsExamined,
                IsHashed
  <2> QED  BY <2>3, <2>4, <2>5 DEF TypeInv
<1>10. CASE EndOfDetection \/ Done \/ UNCHANGED vars
  <2>1. /\ UNCHANGED <<setup, pending, workerVars, hash_main, hashes, l, reporter>>
        /\ mpc' = mpc \/ mpc' = "done"
    BY <1>10 DEF EndOfDetection, Done, vars
  <2> QED
    BY <2>1 DEF TypeInv, Setup, WorkerTypes, AtItems, SharedTypes, LogTypes, ItemMessages,
                LogMessages, Entries, IsExamined, IsHashed
<1> QED
  BY <1>1, <1>2, <1>3, <1>4, <1>5, <1>6, <1>7, <1>8, <1>9, <1>10
  DEF Next, Worker, Main

LEMMA TypeInvariant == Spec => []TypeInv
  BY TypeInvInit, TypeInvNext, PTL DEF Spec

\* The types, of any number of workers on any archive: a worker holds a bucket
\* and messages about entries of the archive, and what is recorded and searched
\* for redundant items are its entries.
THEOREM TypeCorrect == Spec => []TypeOK
<1>1. TypeInv => TypeOK
  <2> SUFFICES ASSUME TypeInv PROVE TypeOK
    OBVIOUS
  <2>1. options.quick \in BOOLEAN
    <3>1. PICK run \in Runs : options = run.options
      BY DEF TypeInv, Setup
    <3>2. run.options \in [tests : SUBSET Tests, quick : BOOLEAN]
      BY RunsAssumption, Zenon
    <3> QED  BY <3>1, <3>2, Zenon
  <2>2. threads \in {1..n : n \in Workers}
    BY SetupTypes DEF TypeInv
  <2> QED
    BY <2>1, <2>2 DEF TypeInv, WorkerTypes, SharedTypes, LogTypes, TypeOK
<1> QED
  BY <1>1, TypeInvariant, PTL

-----------------------------------------------------------------------------
(* The search for redundant items.                                         *)

\* The reports are right, however many workers have filled the buckets.
ReportsRight ==
    \A m \in BagToSet(log) : m.id = "REDUNDANT_ITEMS" =>
        \A f \in m.what :
            archive[m.path].content = archive[f].content /\ ~AreAliases(m.path, f)

\* Only items are in the buckets and are searched.
OnlyItems ==
    /\ \A h \in Hashes : \A e \in ToSet(hash_main[h]) : IsHashed(e)
    /\ \A w \in Workers : \A e \in ToSet(bucket[w]) : IsHashed(e)
    /\ \A e \in ToSet(l) : IsHashed(e)

\* The search begins when no worker works any more.
AllIdle == mpc # "check" => pending = {} /\ \A w \in threads : wpc[w] = "idle"

SearchInv == ReportsRight /\ OnlyItems /\ AllIdle

LEMMA ReportsInvariant ==
    ASSUME TypeInv, SearchInv, [Next]_vars
    PROVE  SearchInv'
<1> USE DEF setup, workerVars, mainVars, reporter
<1>t. threads \subseteq Workers
  BY SetupTypes DEF TypeInv
<1>a. ASSUME UNCHANGED archive, NEW msgs, BagToSet(log') = BagToSet(log) \cup msgs,
             \A m \in msgs : m.id = "REDUNDANT_ITEMS" => \A f \in m.what :
                 archive[m.path].content = archive[f].content /\ ~AreAliases(m.path, f)
      PROVE  ReportsRight'
  BY <1>a DEF SearchInv, ReportsRight, AreAliases
<1>1. ASSUME NEW w \in threads, NEW e \in Entries, Skip(w, e) PROVE SearchInv'
  BY <1>1 DEF Skip, SearchInv, ReportsRight, OnlyItems, AllIdle, AreAliases, IsExamined, IsHashed
<1>2. ASSUME NEW w \in threads, NEW e \in Entries, CheckItem(w, e) PROVE SearchInv'
  BY <1>2 DEF CheckItem, SearchInv, ReportsRight, OnlyItems, AllIdle, AreAliases, IsExamined, IsHashed
<1>3. ASSUME NEW w \in threads, ReadBucket(w) PROVE SearchInv'
  <2> DEFINE h == Hash[archive[item[w]].content]
  <2>1. /\ UNCHANGED <<setup, pending, item, toReport, hash_main, mainVars, reporter>>
        /\ bucket' = [bucket EXCEPT ![w] = hash_main[h]]
        /\ wpc[w] = "read"
    BY <1>3 DEF ReadBucket
  <2>2. h \in Hashes
    BY <1>t, <2>1, HashOfItem DEF TypeInv, AtItems
  <2> HIDE DEF h
  <2>3. \A v \in Workers : bucket'[v] = bucket[v] \/ bucket'[v] = hash_main[h]
    BY <2>1 DEF TypeInv, WorkerTypes
  <2>4. OnlyItems'
    BY <2>1, <2>2, <2>3 DEF SearchInv, OnlyItems, IsExamined, IsHashed
  <2>5. mpc = "check"
    BY <2>1 DEF SearchInv, AllIdle
  <2> QED  BY <2>1, <2>4, <2>5 DEF SearchInv, ReportsRight, AllIdle, AreAliases
<1>4. ASSUME NEW w \in threads, WriteBucket(w) PROVE SearchInv'
  <2> DEFINE h == Hash[archive[item[w]].content]
             new == Append(bucket[w], item[w])
  <2>1. /\ UNCHANGED <<setup, pending, item, toReport, mainVars, reporter>>
        /\ hash_main' = [hash_main EXCEPT ![h] = new]
        /\ bucket' = [bucket EXCEPT ![w] = <<>>]
        /\ wpc[w] = "write"
    BY <1>4 DEF WriteBucket
  <2>2. /\ w \in Workers
        /\ item[w] \in Entries
        /\ IsHashed(item[w])
        /\ bucket[w] \in Seq(Entries)
    BY <1>t, <2>1 DEF TypeInv, AtItems, WorkerTypes
  <2>3. ToSet(new) = ToSet(bucket[w]) \cup {item[w]}
    BY <2>2, AppendedSet
  <2>4. \A e \in ToSet(new) : IsHashed(e)
    BY <2>2, <2>3 DEF SearchInv, OnlyItems
  <2>5. ToSet(<<>>) = {}
    BY DEF ToSet
  <2> HIDE DEF h, new
  <2>6. \A g \in Hashes : hash_main'[g] = hash_main[g] \/ hash_main'[g] = new
    BY <2>1 DEF TypeInv, SharedTypes
  <2>7. \A v \in Workers : bucket'[v] = bucket[v] \/ bucket'[v] = <<>>
    BY <2>1 DEF TypeInv, WorkerTypes
  <2>8. OnlyItems'
    BY <2>1, <2>4, <2>5, <2>6, <2>7 DEF SearchInv, OnlyItems, IsExamined, IsHashed
  <2>9. mpc = "check"
    BY <2>1 DEF SearchInv, AllIdle
  <2> QED  BY <2>1, <2>8, <2>9 DEF SearchInv, ReportsRight, AllIdle, AreAliases
<1>5. ASSUME NEW w \in threads, ReportNext(w) PROVE SearchInv'
  <2>1. /\ UNCHANGED <<setup, pending, wpc, item, bucket, hash_main, mainVars>>
        /\ toReport[w] # <<>>
        /\ AddMsgs({Head(toReport[w])})
    BY <1>5 DEF ReportNext
  <2>2. toReport[w] \in Seq(ItemMessages)
    BY <1>t DEF TypeInv, WorkerTypes
  <2>3. Head(toReport[w]) \in ItemMessages
    BY <2>1, <2>2, ListParts
  <2>4. Head(toReport[w]).id # "REDUNDANT_ITEMS"
    BY <2>3 DEF ItemMessages, ItemMessageIds
  <2>5. BagToSet(log') = BagToSet(log) \cup {Head(toReport[w])}
    BY <2>1, BagWith DEF AddMsgs
  <2>6. ReportsRight'
    BY <2>1, <2>4, <2>5 DEF SearchInv, ReportsRight, AreAliases
  <2> QED  BY <2>1, <2>6 DEF SearchInv, OnlyItems, AllIdle, IsExamined, IsHashed
<1>6. ASSUME NEW w \in threads, EndCheck(w) PROVE SearchInv'
  <2>1. mpc = "check"
    BY <1>6 DEF EndCheck, SearchInv, AllIdle
  <2> QED
    BY <1>6, <2>1 DEF EndCheck, SearchInv, ReportsRight, OnlyItems, AllIdle, AreAliases,
       IsExamined, IsHashed
<1>7. CASE AllChecked
  BY <1>7 DEF AllChecked, SearchInv, ReportsRight, OnlyItems, AllIdle, AreAliases, IsExamined, IsHashed
<1>8. CASE NextBucket
  <2>1. /\ UNCHANGED <<setup, pending, workerVars, hash_main, mpc, reporter>>
        /\ l' = hash_main[Min(hashes)]
        /\ hashes # {}
    BY <1>8 DEF NextBucket
  <2>2. hashes \subseteq Hashes /\ hashes \subseteq Nat
    BY HashAssumption DEF TypeInv, SharedTypes, Hashes
  <2>3. Min(hashes) \in Hashes
    BY <2>1, <2>2, MinOfNumbers
  <2> QED
    BY <2>1, <2>3 DEF SearchInv, ReportsRight, OnlyItems, AllIdle, AreAliases, IsExamined, IsHashed
<1>9. CASE CompareWithFirst
  <2>1. UNCHANGED <<setup, pending, workerVars, hash_main, mpc, hashes>> /\ l # <<>>
    BY <1>9 DEF CompareWithFirst
  <2>2. /\ AddMsgs(RoundMessages)
        /\ ToSet(l') = {f \in ToSet(Tail(l)) :
                          /\ ~AreAliases(Head(l), f)
                          /\ archive[f].content # archive[Head(l)].content}
    BY <1>9, RoundTypes
  <2>3. BagToSet(log') = BagToSet(log) \cup RoundMessages
    BY <2>2, BagWith DEF AddMsgs
  <2>4. \A m \in RoundMessages : m.id = "REDUNDANT_ITEMS" => \A f \in m.what :
          archive[m.path].content = archive[f].content /\ ~AreAliases(m.path, f)
    BY DEF RoundMessages, Message
  <2>5. ReportsRight'
    BY <1>a, <2>1, <2>3, <2>4
  <2>6. l \in Seq(Entries)
    BY DEF TypeInv, SharedTypes
  <2>7. ToSet(Tail(l)) \subseteq ToSet(l)
    BY <2>1, <2>6, ListParts
  <2>8. OnlyItems'
    BY <2>1, <2>2, <2>7 DEF SearchInv, OnlyItems, IsExamined, IsHashed
  <2> QED  BY <2>1, <2>5, <2>8 DEF SearchInv, AllIdle
<1>10. CASE EndOfDetection \/ Done \/ UNCHANGED vars
  <2>1. /\ UNCHANGED <<setup, pending, workerVars, hash_main, hashes, l, reporter>>
        /\ mpc = "check" => mpc' = "check"
    BY <1>10 DEF EndOfDetection, Done, vars
  <2> QED
    BY <2>1 DEF SearchInv, ReportsRight, OnlyItems, AllIdle, AreAliases, IsExamined, IsHashed
<1> QED
  BY <1>1, <1>2, <1>3, <1>4, <1>5, <1>6, <1>7, <1>8, <1>9, <1>10
  DEF Next, Worker, Main

LEMMA SearchInvariant == Spec => []SearchInv
<1>1. Init => SearchInv
  <2> SUFFICES ASSUME Init PROVE SearchInv
    OBVIOUS
  <2>1. ToSet(<<>>) = {} /\ BagToSet(EmptyBag) = {}
    BY DEF ToSet, EmptyBag, SetToBag, BagToSet
  <2> QED  BY <2>1 DEF Init, SearchInv, ReportsRight, OnlyItems, AllIdle
<1>2. TypeInv /\ SearchInv /\ [Next]_vars => SearchInv'
  BY ReportsInvariant
<1> QED
  BY <1>1, <1>2, TypeInvariant, PTL DEF Spec

\* Two items that are reported as redundant have the same content and are not
\* one item under two paths; no race of the workers can change that.
THEOREM ReportedItemsAreRedundant == Spec => []ReportsRight
  BY SearchInvariant, PTL DEF SearchInv

\* One worker leaves no item out of its bucket.
OneWorker == threads = {1}

Recorded(e) == e \in ToSet(hash_main[Hash[archive[e].content]])

RecordedOrAhead ==
    /\ wpc[1] = "write" => bucket[1] = hash_main[Hash[archive[item[1]].content]]
    /\ \A e \in Entries : IsHashed(e) =>
         \/ e \in pending
         \/ Recorded(e)
         \/ item[1] = e /\ wpc[1] \in {"read", "write"}

WorkerInv == OneWorker /\ IsEnabled("REDUNDANT") => RecordedOrAhead

LEMMA WorkerInvariant == Spec => []WorkerInv
<1> USE DEF setup, workerVars, mainVars, reporter
<1>1. Init => WorkerInv
  BY DEF Init, WorkerInv, RecordedOrAhead, OneWorker, Workers
<1>2. TypeInv /\ WorkerInv /\ [Next]_vars => WorkerInv'
  <2> SUFFICES ASSUME TypeInv, WorkerInv, [Next]_vars, OneWorker', IsEnabled("REDUNDANT")'
               PROVE  RecordedOrAhead'
    BY DEF WorkerInv
  <2>0. UNCHANGED setup
    BY Zenon DEF Next, Worker, Main, Done, Skip, CheckItem, ReadBucket, WriteBucket, ReportNext,
       EndCheck, AllChecked, NextBucket, CompareWithFirst, EndOfDetection, vars
  <2>1. OneWorker /\ IsEnabled("REDUNDANT") /\ Entries' = Entries /\ archive' = archive
    BY <2>0 DEF OneWorker, IsEnabled, Entries
  <2>2. RecordedOrAhead
    BY <2>1 DEF WorkerInv
  <2>3. 1 \in Workers /\ threads = {1}
    BY <2>1, SetupTypes DEF TypeInv, OneWorker
  <2>t. /\ wpc \in [Workers -> {"idle", "read", "write", "report"}]
        /\ item \in [Workers -> Entries \cup {NoItem}]
        /\ bucket \in [Workers -> Seq(Entries)]
        /\ hash_main \in [Hashes -> Seq(Entries)]
    BY DEF TypeInv, WorkerTypes, SharedTypes
  <2>4. ASSUME NEW e \in Entries, Skip(1, e) PROVE RecordedOrAhead'
    BY <2>1, <2>2, <2>4 DEF Skip, RecordedOrAhead, Recorded, IsHashed, IsExamined
  <2>5. ASSUME NEW e \in Entries, CheckItem(1, e) PROVE RecordedOrAhead'
    <3>1. /\ UNCHANGED <<setup, bucket, hash_main, mainVars, reporter>>
          /\ item' = [item EXCEPT ![1] = e]
          /\ pending' = pending \ {e}
          /\ wpc[1] = "idle"
          /\ IF archive[e].size = 0 THEN wpc' = [wpc EXCEPT ![1] = "report"]
                                    ELSE wpc' = [wpc EXCEPT ![1] = "read"]
      BY <2>1, <2>5 DEF CheckItem
    <3>2. item'[1] = e /\ wpc'[1] # "write" /\ (archive[e].size # 0 => wpc'[1] = "read")
      BY <2>3, <2>t, <3>1
    <3>3. ASSUME NEW f \in Entries, IsHashed(f)
          PROVE  f \in pending' \/ Recorded(f)' \/ (item'[1] = f /\ wpc'[1] \in {"read", "write"})
      <4>1. f \in pending \/ Recorded(f)
        BY <2>2, <3>1, <3>3 DEF RecordedOrAhead
      <4>2. CASE f = e
        BY <3>2, <3>3, <4>2 DEF IsHashed
      <4>3. CASE f # e
        <5>1. f \in pending => f \in pending'
          BY <3>1, <4>3
        <5>2. Recorded(f) => Recorded(f)'
          BY <2>1, <3>1 DEF Recorded
        <5> QED  BY <4>1, <5>1, <5>2
      <4> QED  BY <4>2, <4>3
    <3> QED  BY <2>1, <3>1, <3>2, <3>3 DEF RecordedOrAhead, IsHashed, IsExamined
  <2>6. CASE ReadBucket(1)
    <3>1. wpc'[1] = "write" /\ bucket'[1] = hash_main[Hash[archive[item[1]].content]]
      BY <2>3, <2>6, <2>t DEF ReadBucket
    <3> QED
      BY <2>1, <2>2, <2>6, <3>1 DEF ReadBucket, RecordedOrAhead, Recorded, IsHashed, IsExamined
  <2>7. CASE WriteBucket(1)
    <3> DEFINE h == Hash[archive[item[1]].content]
               new == Append(bucket[1], item[1])
    <3>1. /\ UNCHANGED <<setup, pending, item, toReport, mainVars, reporter>>
          /\ hash_main' = [hash_main EXCEPT ![h] = new]
          /\ wpc' = [wpc EXCEPT ![1] = "report"]
          /\ wpc[1] = "write"
      BY <2>7 DEF WriteBucket
    <3>2. item[1] \in Entries /\ IsExamined(item[1]) /\ h \in Hashes
      BY <2>3, <3>1, HashOfItem DEF TypeInv, AtItems
    <3>3. ToSet(new) = ToSet(hash_main[h]) \cup {item[1]}
      <4>1. bucket[1] = hash_main[h] /\ bucket[1] \in Seq(Entries)
        BY <2>2, <2>3, <2>t, <3>1 DEF RecordedOrAhead
      <4> QED  BY <3>2, <4>1, AppendedSet
    <3>4. wpc'[1] = "report"
      BY <2>3, <2>t, <3>1
    <3>5. ASSUME NEW f \in Entries, IsHashed(f) PROVE f \in pending' \/ Recorded(f)'
      <4>1. Hash[archive[f].content] \in Hashes
        BY <3>5, HashOfItem DEF TypeInv, IsHashed
      <4>2. Recorded(f) \/ item[1] = f \/ f \in pending
        BY <2>2, <3>5 DEF RecordedOrAhead
      <4>3. hash_main'[h] = new /\ \A g \in Hashes : g # h => hash_main'[g] = hash_main[g]
        BY <2>t, <3>1, <3>2
      <4>4. CASE Hash[archive[f].content] = h
        <5>1. f \in pending \/ f \in ToSet(new)
          BY <3>3, <4>2, <4>4 DEF Recorded
        <5> QED  BY <2>1, <3>1, <4>3, <4>4, <5>1 DEF Recorded
      <4>5. CASE Hash[archive[f].content] # h
        BY <2>1, <3>1, <4>1, <4>2, <4>3, <4>5 DEF Recorded
      <4> QED  BY <4>4, <4>5
    <3> QED  BY <2>1, <3>4, <3>5 DEF RecordedOrAhead, IsHashed, IsExamined
  <2>8. CASE ReportNext(1)
    BY <2>1, <2>2, <2>8 DEF ReportNext, RecordedOrAhead, Recorded, IsHashed, IsExamined
  <2>9. CASE EndCheck(1)
    <3>1. wpc[1] = "report" /\ wpc'[1] = "idle"
      BY <2>3, <2>9, <2>t DEF EndCheck
    <3> QED
      BY <2>1, <2>2, <2>9, <3>1 DEF EndCheck, RecordedOrAhead, Recorded, IsHashed, IsExamined
  <2>10. CASE Main \/ Done \/ UNCHANGED vars
    <3>1. UNCHANGED <<setup, pending, workerVars, hash_main>>
      BY <2>10 DEF Main, Done, AllChecked, NextBucket, CompareWithFirst, EndOfDetection, vars
    <3> QED  BY <2>1, <2>2, <3>1 DEF RecordedOrAhead, Recorded, IsHashed, IsExamined
  <2>11. CASE Worker(1)
    BY <2>1, <2>4, <2>5, <2>6, <2>7, <2>8, <2>9, <2>11 DEF Worker
  <2> QED  BY <2>3, <2>10, <2>11 DEF Next
<1> QED
  BY <1>1, <1>2, TypeInvariant, PTL DEF Spec

\* The items of one content.
Same(c) == {e \in Entries : IsHashed(e) /\ archive[e].content = c}

Settled(c) == \E r \in Same(c) : \A e \in Same(c) : AreAliases(r, e) \/ Redundant(r, e)

\* During the search, the items of one content are in a bucket that has still to
\* be visited, or all in the list, or connected by the reports.
Searched ==
    \A c \in DOMAIN Hash : Same(c) # {} =>
        \/ mpc = "detect" /\ Hash[c] \in hashes
        \/ mpc = "detect" /\ Same(c) \subseteq ToSet(l)
        \/ Settled(c)

FoundInv ==
    mpc # "check" /\ OneWorker /\ IsEnabled("REDUNDANT") =>
        /\ \A e \in Entries : IsHashed(e) => Recorded(e)
        /\ Searched

\* One place in the archive has one content.
LEMMA AliasesAreCopies ==
    ASSUME Setup, NEW e \in Entries, NEW f \in Entries,
           archive[e].kind = "item", archive[f].kind = "item",
           archive[e].blob = archive[f].blob
    PROVE  archive[e].content = archive[f].content
<1>1. PICK run \in Runs : archive = run.archive
  BY DEF Setup
<1>2. archive[e] \in ToSet(archive) /\ archive[f] \in ToSet(archive)
  BY DEF Entries, ToSet
<1> QED
  BY <1>1, <1>2, AliasAssumption

LEMMA FoundStep ==
    ASSUME TypeInv, SearchInv, WorkerInv, FoundInv, [Next]_vars,
           mpc' # "check", OneWorker', IsEnabled("REDUNDANT")'
    PROVE  /\ \A e \in Entries' : IsHashed(e)' => Recorded(e)'
           /\ Searched'
<1> USE DEF setup, workerVars, mainVars, reporter
<1>0. UNCHANGED setup
  BY DEF Next, Worker, Main, Done, Skip, CheckItem, ReadBucket, WriteBucket, ReportNext,
     EndCheck, AllChecked, NextBucket, CompareWithFirst, EndOfDetection, vars
<1>1. /\ OneWorker /\ IsEnabled("REDUNDANT") /\ Entries' = Entries /\ archive' = archive
      /\ \A e : IsHashed(e)' = IsHashed(e)
      /\ \A c : Same(c)' = Same(c)
  BY <1>0 DEF OneWorker, IsEnabled, Entries, IsHashed, IsExamined, Same
<1>2. 1 \in threads /\ RecordedOrAhead
  BY <1>1 DEF OneWorker, WorkerInv
<1>3. CASE AllChecked
  <2>1. /\ UNCHANGED <<setup, pending, workerVars, hash_main, l, reporter>>
        /\ pending = {} /\ wpc[1] = "idle"
        /\ mpc' = "detect"
        /\ hashes' = {h \in Hashes : hash_main[h] # <<>>}
    BY <1>1, <1>2, <1>3 DEF AllChecked
  <2>2. \A e \in Entries : IsHashed(e) => Recorded(e)
    BY <1>2, <2>1 DEF RecordedOrAhead
  <2>3. ASSUME NEW c \in DOMAIN Hash, Same(c) # {} PROVE Hash[c] \in hashes'
    <3>1. PICK e \in Entries : IsHashed(e) /\ archive[e].content = c
      BY <2>3 DEF Same
    <3>2. e \in ToSet(hash_main[Hash[c]])
      BY <2>2, <3>1 DEF Recorded
    <3>3. ToSet(<<>>) = {}
      BY DEF ToSet
    <3>4. hash_main[Hash[c]] # <<>>
      BY <3>2, <3>3
    <3> QED  BY <2>1, <3>4 DEF Hashes
  <2> QED  BY <1>1, <2>1, <2>2, <2>3 DEF Searched, Recorded
<1>4. CASE mpc = "check" /\ ~AllChecked
  <2>1. mpc' = mpc
    BY <1>4 DEF Next, Worker, Main, Done, Skip, CheckItem, ReadBucket, WriteBucket,
       ReportNext, EndCheck, NextBucket, CompareWithFirst, EndOfDetection, vars
  <2> QED  BY <1>4, <2>1
<1>5. CASE mpc # "check"
  <2>1. (\A e \in Entries : IsHashed(e) => Recorded(e)) /\ Searched
    BY <1>1, <1>5 DEF FoundInv
  <2>2. pending = {} /\ \A w \in threads : wpc[w] = "idle"
    BY <1>5 DEF SearchInv, AllIdle
  <2>3. hash_main' = hash_main
    BY <1>5, <2>2 DEF Next, Worker, Main, Done, Skip, CheckItem, ReadBucket, WriteBucket,
       ReportNext, EndCheck, AllChecked, NextBucket, CompareWithFirst, EndOfDetection, vars
  <2>4. \A e \in Entries' : IsHashed(e)' => Recorded(e)'
    BY <1>1, <2>1, <2>3 DEF Recorded
  <2>5. ASSUME NEW c \in DOMAIN Hash, Settled(c), BagToSet(log) \subseteq BagToSet(log')
        PROVE  Settled(c)'
    <3>1. \A r, e : Redundant(r, e) => Redundant(r, e)'
      BY <2>5 DEF Redundant, Message
    <3>2. \A r, e : AreAliases(r, e) = AreAliases(r, e)'
      BY <1>1 DEF AreAliases
    <3> QED  BY <1>1, <2>5, <3>1, <3>2 DEF Settled
  <2>6. CASE NextBucket
    <3>1. /\ UNCHANGED <<setup, pending, workerVars, hash_main, mpc, reporter>>
          /\ mpc = "detect"
          /\ l = <<>>
          /\ l' = hash_main[Min(hashes)]
          /\ hashes' = hashes \ {Min(hashes)}
      BY <2>6 DEF NextBucket
    <3>2. ASSUME NEW c \in DOMAIN Hash, Same(c) # {}
          PROVE  \/ Hash[c] \in hashes'
                 \/ Same(c) \subseteq ToSet(l')
                 \/ Settled(c)'
      <4>1. \A e \in Same(c) : e \in ToSet(hash_main[Hash[c]])
        BY <2>1 DEF Same, Recorded
      <4>2. CASE Hash[c] \in hashes
        BY <3>1, <4>1, <4>2
      <4>3. CASE Same(c) \subseteq ToSet(l)
        BY <3>1, <3>2, <4>3 DEF ToSet
      <4>4. CASE Settled(c)
        BY <2>5, <3>1, <4>4
      <4> QED  BY <2>1, <3>2, <4>2, <4>3, <4>4 DEF Searched
    <3> QED  BY <1>1, <2>4, <3>1, <3>2 DEF Searched
  <2>7. CASE CompareWithFirst
    <3> DEFINE e1 == Head(l)
    <3>1. UNCHANGED <<setup, pending, workerVars, hash_main, mpc, hashes>>
          /\ mpc = "detect" /\ l # <<>>
      BY <2>7 DEF CompareWithFirst
    <3>2. /\ AddMsgs(RoundMessages)
          /\ ToSet(l') = {f \in ToSet(Tail(l)) :
                            ~AreAliases(e1, f) /\ archive[f].content # archive[e1].content}
      BY <2>7, RoundTypes
    <3>3. BagToSet(log') = BagToSet(log) \cup RoundMessages
      BY <3>2, BagWith DEF AddMsgs
    <3>4. ToSet(l) = {e1} \cup ToSet(Tail(l)) /\ e1 \in Entries
      BY <3>1, ListParts DEF TypeInv, SharedTypes
    <3> HIDE DEF e1
    <3>5. ASSUME NEW c \in DOMAIN Hash, Same(c) # {}, Same(c) \subseteq ToSet(l)
          PROVE  Same(c) \subseteq ToSet(l') \/ Settled(c)'
      <4>1. CASE e1 \in Same(c)
        <5>1. ASSUME NEW e \in Same(c), ~AreAliases(e1, e)
              PROVE  Message("REDUNDANT_ITEMS", e1, {e}) \in BagToSet(log')
          <6>1. e # e1
            BY <5>1 DEF AreAliases
          <6>2. e \in ToSet(Tail(l))
            BY <3>4, <3>5, <6>1
          <6>3. archive[e].content = archive[e1].content
            BY <4>1 DEF Same
          <6>4. Message("REDUNDANT_ITEMS", e1, {e}) \in RoundMessages
            BY <5>1, <6>2, <6>3 DEF RoundMessages, e1
          <6> QED  BY <3>3, <6>4
        <5>2. Settled(c)' <=> \E r \in Same(c) : \A e \in Same(c) :
                 archive[r].blob = archive[e].blob
                   \/ Message("REDUNDANT_ITEMS", r, {e}) \in BagToSet(log')
          BY <1>1 DEF Settled, AreAliases, Redundant, Message
        <5> QED  BY <4>1, <5>1, <5>2 DEF AreAliases
      <4>2. CASE e1 \notin Same(c)
        <5>1. SUFFICES ASSUME NEW e \in Same(c) PROVE e \in ToSet(l')
          OBVIOUS
        <5>2. e \in ToSet(Tail(l))
          BY <3>4, <3>5, <4>2
        <5>3. IsHashed(e1) /\ IsExamined(e1) /\ IsExamined(e) /\ e \in Entries
              /\ archive[e].content = c
          BY <3>4 DEF SearchInv, OnlyItems, Same, IsHashed
        <5>4. archive[e1].content # c
          BY <3>4, <4>2, <5>3 DEF Same
        <5>5. ~AreAliases(e1, e)
          BY <3>4, <5>3, <5>4, AliasesAreCopies DEF TypeInv, IsExamined, AreAliases
        <5> QED  BY <3>2, <5>2, <5>3, <5>4, <5>5
      <4> QED  BY <4>1, <4>2
    <3> QED  BY <1>1, <2>1, <2>4, <2>5, <3>1, <3>3, <3>5 DEF Searched
  <2>8. CASE EndOfDetection
    <3>1. /\ UNCHANGED <<setup, pending, workerVars, hash_main, hashes, l, reporter>>
          /\ l = <<>>
          /\ hashes = {}
      BY <2>8 DEF EndOfDetection
    <3>2. ASSUME NEW c \in DOMAIN Hash, Same(c) # {} PROVE Settled(c)'
      <4>1. ~(Same(c) \subseteq ToSet(l))
        BY <3>1, <3>2 DEF ToSet
      <4>2. Settled(c)
        BY <2>1, <3>1, <3>2, <4>1 DEF Searched
      <4> QED  BY <2>5, <3>1, <4>2
    <3> QED  BY <1>1, <2>4, <3>2 DEF Searched
  <2>9. CASE Done \/ UNCHANGED vars
    <3>1. UNCHANGED <<mpc, hashes, l, log>>
      BY <2>9 DEF Done, vars
    <3> QED  BY <1>1, <2>1, <2>4, <2>5, <3>1 DEF Searched
  <2>10. ASSUME NEW w \in threads, Worker(w)
         PROVE  FALSE
    BY Zenon, <2>2, <2>10 DEF Worker, Skip, CheckItem, ReadBucket, WriteBucket, ReportNext, EndCheck
  <2> QED
    BY Zenon, <1>5, <2>6, <2>7, <2>8, <2>9, <2>10 DEF Next, Main, AllChecked
<1> QED
  BY <1>3, <1>4, <1>5

LEMMA FoundInvariant == Spec => []FoundInv
<1>1. Init => FoundInv
  BY DEF Init, FoundInv
<1>2. TypeInv /\ SearchInv /\ WorkerInv /\ FoundInv /\ [Next]_vars => FoundInv'
  BY FoundStep DEF FoundInv
<1> QED
  BY <1>1, <1>2, TypeInvariant, SearchInvariant, WorkerInvariant, PTL DEF Spec

LEMMA OneOfOne ==
    ASSUME Setup, Cardinality(threads) = 1
    PROVE  OneWorker
<1>1. PICK run \in Runs : threads = 1..run.threads
  BY DEF Setup
<1>2. run.threads \in Nat \ {0}
  BY RunsAssumption
<1>3. Cardinality(1..run.threads) = run.threads
  BY <1>2, FS_Interval
<1> QED
  BY <1>1, <1>3 DEF OneWorker

\* With one worker, on any archive and with any hash function, the search for
\* redundant items is exact: what it reports is right, and items of the same
\* content are all connected with one of them.
THEOREM SearchIsExact == Spec => []RedundancyExact
<1>1. TypeInv /\ SearchInv /\ FoundInv => RedundancyExact
  <2> SUFFICES ASSUME TypeInv, SearchInv, FoundInv,
                      mpc = "done", IsEnabled("REDUNDANT"), Cardinality(threads) = 1
               PROVE  /\ ReportsRight
                      /\ \A c \in DOMAIN Hash : Same(c) # {} => Settled(c)
    BY DEF RedundancyExact, ReportsRight, Same, Settled
  <2>1. OneWorker
    BY OneOfOne DEF TypeInv
  <2>2. Searched
    BY <2>1 DEF FoundInv
  <2> QED  BY <2>2 DEF SearchInv, Searched
<1> QED
  BY <1>1, TypeInvariant, SearchInvariant, FoundInvariant, PTL

-----------------------------------------------------------------------------
(* The messages of the items.                                              *)


Examined == {e \in Entries : IsExamined(e)}

MessageSet(e) == ToSet(MessagesOf(e))

Working(w) == wpc[w] # "idle"

\* A worker has its item for itself, and of its messages those to report.
OwnItem ==
    \A w \in Workers :
        /\ ~Working(w) => toReport[w] = <<>>
        /\ Working(w) => /\ item[w] \notin pending
                         /\ NoneTwice(toReport[w])
                         /\ ToSet(toReport[w]) \subseteq MessageSet(item[w])
                         /\ \A v \in Workers : Working(v) /\ item[v] = item[w] => v = w

\* The messages in the log are messages of items that have been taken, and are
\* no more to be reported.
Reported ==
    \A m \in BagToSet(log) : m.id # "REDUNDANT_ITEMS" =>
        /\ \E e \in Examined : e \notin pending /\ m \in MessageSet(e)
        /\ \A w \in Workers : m \notin ToSet(toReport[w])

\* No message gets lost.
Covered ==
    \A e \in Examined : e \in pending
        \/ \A m \in MessageSet(e) : \/ m \in BagToSet(log)
                                    \/ \E w \in threads : m \in ToSet(toReport[w])

CollectInv == OwnItem /\ Reported /\ Covered

LEMMA HeadOnce ==
    ASSUME NEW T, NEW s \in Seq(T), s # <<>>, NoneTwice(s)
    PROVE  Head(s) \notin ToSet(Tail(s)) /\ NoneTwice(Tail(s))
<1>1. Len(s) \in Nat /\ Len(s) # 0 /\ Head(s) = s[1] /\ Tail(s) \in Seq(T)
  OBVIOUS
<1>2. DOMAIN s = 1..Len(s) /\ DOMAIN Tail(s) = 1..(Len(s) - 1)
  BY <1>1
<1>3. \A n \in 1..(Len(s) - 1) : Tail(s)[n] = s[n + 1]
  BY <1>1
<1>4. 1 \in 1..Len(s) /\ \A n \in 1..(Len(s) - 1) : n + 1 \in 1..Len(s) /\ n + 1 # 1
  BY <1>1
<1>5. \A n \in 1..(Len(s) - 1) : Tail(s)[n] # Head(s)
  BY <1>1, <1>2, <1>3, <1>4 DEF NoneTwice
<1>6. NoneTwice(Tail(s))
  BY <1>2, <1>3, <1>4 DEF NoneTwice
<1> QED
  BY <1>2, <1>5, <1>6 DEF ToSet

\* Messages of one item are about it.
LEMMA MessageSetPath ==
    ASSUME Setup, NEW e \in Examined, NEW m \in MessageSet(e)
    PROVE  m.path = e /\ m \in ItemMessages /\ m.id # "REDUNDANT_ITEMS"
<1>1. Reports(MessagesOf(e), e, ItemMessageIds)
  BY MessagesTypes DEF Examined
<1>2. m.path = e /\ m.id \in ItemMessageIds
  BY <1>1 DEF Reports, MessageSet
<1>3. m \in ItemMessages
  BY <1>1 DEF Reports, MessageSet, ToSet
<1> QED
  BY <1>2, <1>3 DEF ItemMessageIds

\* The log a worker has written to: its message was not yet in it.
LEMMA NewInLog ==
    ASSUME TypeInv, CollectInv, NEW w \in threads, ReportNext(w)
    PROVE  /\ Head(toReport[w]) \notin BagToSet(log)
           /\ BagToSet(log') = BagToSet(log) \cup {Head(toReport[w])}
           /\ Working(w)
           /\ Head(toReport[w]) \in MessageSet(item[w])
           /\ ToSet(toReport[w]) = {Head(toReport[w])} \cup ToSet(Tail(toReport[w]))
           /\ Head(toReport[w]) \notin ToSet(Tail(toReport[w]))
           /\ NoneTwice(Tail(toReport[w]))
           /\ Head(toReport[w]) \in ItemMessages
           /\ Head(toReport[w]).id # "REDUNDANT_ITEMS"
<1> DEFINE m == Head(toReport[w])
<1>1. toReport[w] # <<>> /\ wpc[w] = "report" /\ AddMsgs({m})
  BY DEF ReportNext
<1>2. w \in Workers /\ toReport[w] \in Seq(ItemMessages)
  BY SetupTypes DEF TypeInv, WorkerTypes
<1>3. Working(w)
  BY <1>1 DEF Working
<1>4. NoneTwice(toReport[w]) /\ ToSet(toReport[w]) \subseteq MessageSet(item[w])
  BY <1>2, <1>3 DEF CollectInv, OwnItem
<1>5. /\ m \in ItemMessages
      /\ ToSet(toReport[w]) = {m} \cup ToSet(Tail(toReport[w]))
  BY <1>1, <1>2, ListParts
<1>6. m \notin ToSet(Tail(toReport[w])) /\ NoneTwice(Tail(toReport[w]))
  BY <1>1, <1>2, <1>4, HeadOnce
<1>7. BagToSet(log') = BagToSet(log) \cup {m}
  BY <1>1, BagWith DEF AddMsgs
<1>8. m.id # "REDUNDANT_ITEMS"
  BY <1>5 DEF ItemMessages, ItemMessageIds
<1>9. m \notin BagToSet(log)
  BY <1>2, <1>5, <1>8 DEF CollectInv, Reported
<1> QED
  BY <1>3, <1>4, <1>5, <1>6, <1>7, <1>8, <1>9

LEMMA CollectStep ==
    ASSUME TypeInv, CollectInv, [Next]_vars
    PROVE  CollectInv'
<1> USE DEF setup, workerVars, mainVars, reporter
<1>0. UNCHANGED setup
  BY DEF Next, Worker, Main, Done, Skip, CheckItem, ReadBucket, WriteBucket, ReportNext,
     EndCheck, AllChecked, NextBucket, CompareWithFirst, EndOfDetection, vars
<1>1. /\ threads' = threads
      /\ Examined' = Examined
      /\ \A e : MessageSet(e)' = MessageSet(e)
  BY <1>0 DEF Examined, IsExamined, Entries, MessageSet, MessagesOf, EmptyItemMessages,
     LinkMessages, InternalLinkMessages, ExternalLinkMessages, UnresolvableMessages,
     EmptyLinkMessages, DanglingMessages, DanglingLinks, ResolvedLinks, FirstIfQuick,
     PathsInArchive, IsEnabled
<1>t. /\ threads \subseteq Workers
      /\ wpc \in [Workers -> {"idle", "read", "write", "report"}]
      /\ item \in [Workers -> Entries \cup {NoItem}]
      /\ toReport \in [Workers -> Seq(ItemMessages)]
      /\ \A w \in Workers : Working(w) => item[w] \in Examined
  BY SetupTypes DEF TypeInv, WorkerTypes, AtItems, Examined, Working
<1>i. OwnItem /\ Reported /\ Covered
  BY DEF CollectInv
<1>2. ASSUME NEW w \in threads, NEW e \in Entries, Skip(w, e) PROVE CollectInv'
  <2>1. /\ UNCHANGED <<setup, workerVars, reporter>>
        /\ pending' = pending \ {e}
        /\ e \notin Examined
    BY <1>2 DEF Skip, Examined
  <2>2. OwnItem'
    BY <1>1, <1>i, <2>1 DEF OwnItem, Working
  <2>3. Reported'
    BY <1>1, <1>i, <2>1 DEF Reported
  <2>4. Covered'
    BY <1>1, <1>i, <2>1 DEF Covered
  <2> QED  BY <2>2, <2>3, <2>4 DEF CollectInv
<1>3. ASSUME NEW w \in threads, NEW e \in Entries, CheckItem(w, e) PROVE CollectInv'
  <2> DEFINE msgs == MessagesOf(e)
  <2>1. /\ UNCHANGED <<setup, bucket, hash_main, mainVars, reporter>>
        /\ toReport' = [toReport EXCEPT ![w] = msgs]
        /\ item' = [item EXCEPT ![w] = e]
        /\ pending' = pending \ {e}
        /\ wpc[w] = "idle"
        /\ \E pc \in {"read", "report"} : wpc' = [wpc EXCEPT ![w] = pc]
        /\ e \in Examined
        /\ e \in pending
    BY <1>3 DEF CheckItem, MessagesOf, Examined
  <2>2. NoneTwice(msgs) /\ ToSet(msgs) = MessageSet(e)
    BY <2>1, MessagesTypes DEF Reports, TypeInv, Examined, MessageSet
  <2>3. w \in Workers
    BY <1>t
  <2> HIDE DEF msgs
  <2>4. /\ toReport'[w] = msgs /\ item'[w] = e /\ Working(w)' /\ ~Working(w)
        /\ \A v \in Workers : v # w =>
             toReport'[v] = toReport[v] /\ item'[v] = item[v] /\ Working(v)' = Working(v)
    BY <1>t, <2>1, <2>3 DEF Working
  <2>5. OwnItem'
    <3> SUFFICES ASSUME NEW v \in Workers
                 PROVE  /\ ~Working(v)' => toReport'[v] = <<>>
                        /\ Working(v)' =>
                             /\ item'[v] \notin pending'
                             /\ NoneTwice(toReport'[v])
                             /\ ToSet(toReport'[v]) \subseteq MessageSet(item'[v])
                             /\ \A u \in Workers : Working(u)' /\ item'[u] = item'[v] => u = v
      BY <1>1 DEF OwnItem, NoneTwice, Working
    <3>1. \A u \in Workers : Working(u) => item[u] # e
      BY <1>i, <2>1 DEF OwnItem
    <3>2. CASE v = w
      BY <2>1, <2>2, <2>4, <3>1, <3>2
    <3>3. CASE v # w
      BY <1>i, <2>1, <2>4, <3>1, <3>3 DEF OwnItem
    <3> QED  BY <3>2, <3>3
  <2>6. Reported'
    <3>1. \A m \in BagToSet(log) : m.id # "REDUNDANT_ITEMS" => m.path \notin pending
      BY <1>i, MessageSetPath DEF Reported, TypeInv
    <3>2. \A m \in MessageSet(e) : m.path = e
      BY <2>1, MessageSetPath DEF TypeInv
    <3>3. \A m \in BagToSet(log) : m.id # "REDUNDANT_ITEMS" => m \notin MessageSet(e)
      BY <2>1, <3>1, <3>2
    <3> QED  BY <1>1, <1>i, <2>1, <2>2, <2>4, <3>3 DEF Reported
  <2>7. Covered'
    <3> SUFFICES ASSUME NEW f \in Examined, f \notin pending', NEW m \in MessageSet(f),
                        m \notin BagToSet(log)
                 PROVE  \E v \in threads : m \in ToSet(toReport'[v])
      BY <1>1, <2>1 DEF Covered
    <3>1. CASE f = e
      BY <2>2, <2>4, <3>1
    <3>2. CASE f # e
      <4>1. PICK v \in threads : m \in ToSet(toReport[v])
        BY <1>i, <2>1, <3>2 DEF Covered
      <4>2. ToSet(<<>>) = {}
        BY DEF ToSet
      <4>3. v # w
        BY <1>i, <2>3, <2>4, <4>1, <4>2 DEF OwnItem
      <4> QED  BY <1>t, <2>4, <4>1, <4>3
    <3> QED  BY <3>1, <3>2
  <2> QED  BY <2>5, <2>6, <2>7 DEF CollectInv
<1>4. ASSUME NEW w \in threads, ReadBucket(w) \/ WriteBucket(w) PROVE CollectInv'
  <2>1. /\ UNCHANGED <<setup, pending, item, toReport, reporter>>
        /\ wpc[w] # "idle"
        /\ \E pc \in {"write", "report"} : wpc' = [wpc EXCEPT ![w] = pc]
    BY <1>4 DEF ReadBucket, WriteBucket
  <2>2. \A v \in Workers : Working(v)' = Working(v)
    BY <1>t, <2>1 DEF Working
  <2>3. OwnItem'
    BY <1>1, <1>i, <2>1, <2>2 DEF OwnItem, NoneTwice
  <2>4. Reported' /\ Covered'
    BY <1>1, <1>i, <2>1 DEF Reported, Covered
  <2> QED  BY <2>3, <2>4 DEF CollectInv
<1>5. ASSUME NEW w \in threads, ReportNext(w) PROVE CollectInv'
  <2> DEFINE m == Head(toReport[w])
             rest == Tail(toReport[w])
  <2>1. /\ UNCHANGED <<setup, pending, wpc, item, bucket, hash_main, mainVars>>
        /\ toReport' = [toReport EXCEPT ![w] = rest]
    BY <1>5 DEF ReportNext
  <2>2. /\ m \notin BagToSet(log)
        /\ BagToSet(log') = BagToSet(log) \cup {m}
        /\ Working(w)
        /\ m \in MessageSet(item[w])
        /\ ToSet(toReport[w]) = {m} \cup ToSet(rest)
        /\ m \notin ToSet(rest)
        /\ NoneTwice(rest)
    BY <1>5, NewInLog
  <2> HIDE DEF m, rest
  <2>3. /\ w \in Workers
        /\ toReport'[w] = rest
        /\ \A v \in Workers : v # w => toReport'[v] = toReport[v]
        /\ \A v \in Workers : Working(v)' = Working(v)
    BY <1>t, <2>1 DEF Working
  <2>4. OwnItem'
    <3> SUFFICES ASSUME NEW v \in Workers
                 PROVE  /\ ~Working(v) => toReport'[v] = <<>>
                        /\ Working(v) =>
                             /\ item[v] \notin pending
                             /\ NoneTwice(toReport'[v])
                             /\ ToSet(toReport'[v]) \subseteq MessageSet(item[v])
                             /\ \A u \in Workers : Working(u) /\ item[u] = item[v] => u = v
      BY <1>1, <2>1, <2>3 DEF OwnItem, NoneTwice
    <3>1. CASE v = w
      BY <1>i, <2>2, <2>3, <3>1 DEF OwnItem
    <3>2. CASE v # w
      BY <1>i, <2>3, <3>2 DEF OwnItem
    <3> QED  BY <3>1, <3>2
  <2>5. Reported'
    <3>1. \A v \in Workers : ToSet(toReport'[v]) \subseteq ToSet(toReport[v])
      BY <2>2, <2>3
    <3>2. \A v \in Workers : m \notin ToSet(toReport'[v])
      <4> SUFFICES ASSUME NEW v \in Workers, v # w, m \in ToSet(toReport[v])
                   PROVE  FALSE
        BY <2>2, <2>3
      <4>1. ToSet(<<>>) = {}
        BY DEF ToSet
      <4>2. Working(v)
        BY <1>i, <4>1 DEF OwnItem
      <4>3. m \in MessageSet(item[v])
        BY <1>i, <4>2 DEF OwnItem
      <4>4. m.path = item[v] /\ m.path = item[w]
        BY <1>t, <2>2, <2>3, <4>2, <4>3, MessageSetPath DEF TypeInv
      <4> QED  BY <1>i, <2>2, <2>3, <4>2, <4>4 DEF OwnItem
    <3>3. \E e \in Examined : e \notin pending /\ m \in MessageSet(e)
      BY <1>i, <1>t, <2>2, <2>3 DEF OwnItem
    <3> QED  BY <1>1, <1>i, <2>1, <2>2, <3>1, <3>2, <3>3 DEF Reported
  <2>6. Covered'
    <3> SUFFICES ASSUME NEW f \in Examined, f \notin pending, NEW n \in MessageSet(f),
                        n \notin BagToSet(log')
                 PROVE  \E v \in threads : n \in ToSet(toReport'[v])
      BY <1>1, <2>1 DEF Covered
    <3>1. PICK v \in threads : n \in ToSet(toReport[v])
      BY <1>i, <2>2 DEF Covered
    <3>2. n # m
      BY <2>2
    <3> QED  BY <1>t, <2>2, <2>3, <3>1, <3>2
  <2> QED  BY <2>4, <2>5, <2>6 DEF CollectInv
<1>6. ASSUME NEW w \in threads, EndCheck(w) PROVE CollectInv'
  <2>1. /\ UNCHANGED <<setup, pending, bucket, toReport, hash_main, mainVars, reporter>>
        /\ wpc' = [wpc EXCEPT ![w] = "idle"]
        /\ item' = [item EXCEPT ![w] = NoItem]
        /\ toReport[w] = <<>>
    BY <1>6 DEF EndCheck
  <2>2. /\ w \in Workers
        /\ ~Working(w)'
        /\ \A v \in Workers : v # w => item'[v] = item[v] /\ Working(v)' = Working(v)
    BY <1>t, <2>1 DEF Working
  <2>3. OwnItem'
    <3> SUFFICES ASSUME NEW v \in Workers
                 PROVE  /\ ~Working(v)' => toReport[v] = <<>>
                        /\ Working(v)' =>
                             /\ item'[v] \notin pending
                             /\ NoneTwice(toReport[v])
                             /\ ToSet(toReport[v]) \subseteq MessageSet(item'[v])
                             /\ \A u \in Workers : Working(u)' /\ item'[u] = item'[v] => u = v
      BY <1>1, <2>1 DEF OwnItem, NoneTwice, Working
    <3>1. CASE v = w
      BY <2>1, <2>2, <3>1
    <3>2. CASE v # w
      BY <1>i, <2>2, <3>2 DEF OwnItem
    <3> QED  BY <3>1, <3>2
  <2>4. Reported' /\ Covered'
    BY <1>1, <1>i, <2>1 DEF Reported, Covered
  <2> QED  BY <2>3, <2>4 DEF CollectInv
<1>7. ASSUME UNCHANGED <<pending, workerVars>>, NEW msgs,
             BagToSet(log') = BagToSet(log) \cup msgs,
             \A m \in msgs : m.id = "REDUNDANT_ITEMS"
      PROVE  CollectInv'
  <2>1. OwnItem'
    BY <1>1, <1>i, <1>7 DEF OwnItem, NoneTwice, Working
  <2>2. Reported' /\ Covered'
    BY <1>1, <1>i, <1>7 DEF Reported, Covered
  <2> QED  BY <2>1, <2>2 DEF CollectInv
<1>8. CASE CompareWithFirst
  <2>1. UNCHANGED <<pending, workerVars>>
    BY <1>8 DEF CompareWithFirst
  <2>2. AddMsgs(RoundMessages)
    BY <1>8, RoundTypes
  <2>3. BagToSet(log') = BagToSet(log) \cup RoundMessages
    BY <2>2, BagWith DEF AddMsgs
  <2>4. \A m \in RoundMessages : m.id = "REDUNDANT_ITEMS"
    BY DEF RoundMessages, Message
  <2> QED  BY <1>7, <2>1, <2>3, <2>4
<1>9. CASE AllChecked \/ NextBucket \/ EndOfDetection \/ Done \/ UNCHANGED vars
  <2>1. UNCHANGED <<pending, workerVars, log>>
    BY <1>9 DEF AllChecked, NextBucket, EndOfDetection, Done, vars
  <2> DEFINE none == {}
  <2>2. /\ BagToSet(log') = BagToSet(log) \cup none
        /\ \A m \in none : m.id = "REDUNDANT_ITEMS"
    BY <2>1
  <2> HIDE DEF none
  <2> QED  BY <1>7, <2>1, <2>2
<1> QED
  BY Zenon, <1>2, <1>3, <1>4, <1>5, <1>6, <1>8, <1>9 DEF Next, Worker, Main

LEMMA CollectInvariant == Spec => []CollectInv
<1>1. Init => CollectInv
  <2> SUFFICES ASSUME Init PROVE CollectInv
    OBVIOUS
  <2>1. BagToSet(EmptyBag) = {}
    BY DEF EmptyBag, SetToBag, BagToSet
  <2> QED
    BY <2>1 DEF Init, CollectInv, OwnItem, Reported, Covered, Working, Examined
<1>2. TypeInv /\ CollectInv /\ [Next]_vars => CollectInv'
  BY CollectStep
<1> QED
  BY <1>1, <1>2, TypeInvariant, PTL DEF Spec

\* When all is checked, the log has of the items what the check of each of them
\* makes of it, and no more: how many workers there were, which of them took
\* which item and in what order they reported has left no trace.
LogOfTheItems ==
    mpc # "check" =>
        {m \in BagToSet(log) : m.id # "REDUNDANT_ITEMS"} = UNION {MessageSet(e) : e \in Examined}

THEOREM LogIsThatOfTheItems == Spec => []LogOfTheItems
<1>1. TypeInv /\ SearchInv /\ CollectInv => LogOfTheItems
  <2> SUFFICES ASSUME TypeInv, SearchInv, CollectInv, mpc # "check"
               PROVE  {m \in BagToSet(log) : m.id # "REDUNDANT_ITEMS"}
                         = UNION {MessageSet(e) : e \in Examined}
    BY DEF LogOfTheItems
  <2>1. threads \subseteq Workers
    BY SetupTypes DEF TypeInv
  <2>2. pending = {} /\ \A w \in threads : toReport[w] = <<>>
    BY <2>1 DEF SearchInv, AllIdle, CollectInv, OwnItem, Working
  <2>3. ToSet(<<>>) = {}
    BY DEF ToSet
  <2>4. ASSUME NEW e \in Examined, NEW m \in MessageSet(e)
        PROVE  m \in BagToSet(log) /\ m.id # "REDUNDANT_ITEMS"
    <3>1. m \in BagToSet(log)
      BY <2>2, <2>3, <2>4 DEF CollectInv, Covered
    <3> QED  BY <2>4, <3>1, MessageSetPath DEF TypeInv
  <2>5. ASSUME NEW m \in BagToSet(log), m.id # "REDUNDANT_ITEMS"
        PROVE  \E e \in Examined : m \in MessageSet(e)
    BY <2>5 DEF CollectInv, Reported
  <2> QED  BY <2>4, <2>5
<1> QED
  BY <1>1, TypeInvariant, SearchInvariant, CollectInvariant, PTL

\* An item is recorded once, under the hash of its content.
RecordedOnce(s, h) ==
    /\ NoneTwice(s)
    /\ \A e \in ToSet(s) : /\ Hash[archive[e].content] = h
                           /\ e \notin pending
                           /\ \A w \in Workers : item[w] = e => wpc[w] \notin {"read", "write"}

Buckets ==
    /\ \A h \in Hashes : RecordedOnce(hash_main[h], h)
    /\ \A w \in Workers : wpc[w] = "write" =>
         RecordedOnce(bucket[w], Hash[archive[item[w]].content])

\* Items that are reported as redundant are no more in the list, nor in a bucket
\* that has still to be visited.
Rounds ==
    /\ NoneTwice(l)
    /\ mpc = "check" => l = <<>>
    /\ \A e \in ToSet(l) : Hash[archive[e].content] \notin hashes
    /\ \A m \in BagToSet(log) : m.id = "REDUNDANT_ITEMS" =>
         /\ mpc # "check"
         /\ m.path \notin ToSet(l)
         /\ Hash[archive[m.path].content] \notin hashes

LoggedOnce == \A m \in BagToSet(log) : log[m] = 1

OnceInv == Buckets /\ Rounds /\ LoggedOnce

LEMMA BagOnce ==
    ASSUME NEW B, NEW S, \A m \in BagToSet(B) : B[m] = 1, S \cap BagToSet(B) = {}
    PROVE  \A m \in BagToSet(B (+) SetToBag(S)) : (B (+) SetToBag(S))[m] = 1
  BY DEF BagToSet, SetToBag, (+)

LEMMA OnceStep ==
    ASSUME TypeInv, SearchInv, CollectInv, OnceInv, [Next]_vars
    PROVE  OnceInv'
<1> USE DEF setup, workerVars, mainVars, reporter
<1>0. UNCHANGED setup
  BY DEF Next, Worker, Main, Done, Skip, CheckItem, ReadBucket, WriteBucket, ReportNext,
     EndCheck, AllChecked, NextBucket, CompareWithFirst, EndOfDetection, vars
<1>t. /\ threads \subseteq Workers
      /\ wpc \in [Workers -> {"idle", "read", "write", "report"}]
      /\ item \in [Workers -> Entries \cup {NoItem}]
      /\ bucket \in [Workers -> Seq(Entries)]
      /\ hash_main \in [Hashes -> Seq(Entries)]
      /\ l \in Seq(Entries)
  BY SetupTypes DEF TypeInv, WorkerTypes, SharedTypes
<1>i. Buckets /\ Rounds /\ LoggedOnce
  BY DEF OnceInv
<1>r. ASSUME UNCHANGED <<l, mpc, hashes, log>> PROVE Rounds' /\ LoggedOnce'
  BY <1>0, <1>i, <1>r DEF Rounds, LoggedOnce, NoneTwice
<1> DEFINE After(s, h) ==
             /\ NoneTwice(s)
             /\ \A e \in ToSet(s) :
                  /\ Hash[archive'[e].content] = h
                  /\ e \notin pending'
                  /\ \A w \in Workers : item'[w] = e => wpc'[w] \notin {"read", "write"}
<1>b. ASSUME \A h \in Hashes : After(hash_main'[h], h),
             \A w \in Workers : wpc'[w] = "write" =>
                 After(bucket'[w], Hash[archive'[item'[w]].content])
      PROVE  Buckets'
  BY <1>b DEF Buckets, RecordedOnce, NoneTwice
<1>o. ASSUME NEW s, NEW h, RecordedOnce(s, h), pending' \subseteq pending,
             \A e \in ToSet(s), w \in Workers :
                 item'[w] = e => wpc'[w] \notin {"read", "write"}
      PROVE  After(s, h)
  BY <1>0, <1>o DEF RecordedOnce
<1> HIDE DEF After
<1>2. ASSUME NEW w \in threads, NEW e \in Entries, Skip(w, e) PROVE OnceInv'
  <2>1. /\ UNCHANGED <<setup, workerVars, hash_main, mainVars, reporter>>
        /\ pending' \subseteq pending
    BY <1>2 DEF Skip
  <2>2. ASSUME NEW s, NEW h, RecordedOnce(s, h) PROVE After(s, h)
    BY <1>o, <2>1, <2>2 DEF RecordedOnce
  <2>3. Buckets'
    BY <1>b, <1>i, <2>1, <2>2 DEF Buckets
  <2> QED  BY <1>r, <2>1, <2>3 DEF OnceInv
<1>3. ASSUME NEW w \in threads, NEW e \in Entries, CheckItem(w, e) PROVE OnceInv'
  <2>1. /\ UNCHANGED <<setup, bucket, hash_main, mainVars, reporter>>
        /\ item' = [item EXCEPT ![w] = e]
        /\ pending' = pending \ {e}
        /\ wpc[w] = "idle"
        /\ \E pc \in {"read", "report"} : wpc' = [wpc EXCEPT ![w] = pc]
        /\ e \in pending
    BY <1>3 DEF CheckItem
  <2>2. /\ item'[w] = e /\ wpc'[w] # "write"
        /\ \A v \in Workers : v # w => item'[v] = item[v] /\ wpc'[v] = wpc[v]
    BY <1>t, <2>1
  <2>3. ASSUME NEW s, NEW h, RecordedOnce(s, h) PROVE After(s, h)
    <3>1. \A f \in ToSet(s) : f # e
      BY <2>1, <2>3 DEF RecordedOnce
    <3>2. \A f \in ToSet(s), v \in Workers : item'[v] = f => wpc'[v] \notin {"read", "write"}
      BY <2>2, <2>3, <3>1 DEF RecordedOnce
    <3> QED  BY <1>o, <2>1, <2>3, <3>2
  <2>4. \A h \in Hashes : After(hash_main'[h], h)
    BY <1>i, <2>1, <2>3 DEF Buckets
  <2>5. \A v \in Workers : wpc'[v] = "write" =>
          After(bucket'[v], Hash[archive'[item'[v]].content])
    BY <1>0, <1>i, <2>1, <2>2, <2>3 DEF Buckets
  <2> QED  BY <1>b, <1>r, <2>1, <2>4, <2>5 DEF OnceInv
<1>4. ASSUME NEW w \in threads, ReadBucket(w) PROVE OnceInv'
  <2> DEFINE h0 == Hash[archive[item[w]].content]
  <2>1. /\ UNCHANGED <<setup, pending, item, toReport, hash_main, mainVars, reporter>>
        /\ bucket' = [bucket EXCEPT ![w] = hash_main[h0]]
        /\ wpc' = [wpc EXCEPT ![w] = "write"]
        /\ wpc[w] = "read"
    BY <1>4 DEF ReadBucket
  <2>2. h0 \in Hashes /\ w \in Workers
    BY <1>t, <2>1, HashOfItem DEF TypeInv, AtItems
  <2>3. /\ bucket'[w] = hash_main[h0] /\ item'[w] = item[w]
        /\ \A v \in Workers : v # w => bucket'[v] = bucket[v] /\ wpc'[v] = wpc[v]
        /\ \A v \in Workers : wpc[v] \notin {"read", "write"} => wpc'[v] \notin {"read", "write"}
    BY <1>t, <2>1, <2>2
  <2>4. ASSUME NEW s, NEW h, RecordedOnce(s, h) PROVE After(s, h)
    <3>1. \A f \in ToSet(s), v \in Workers : item'[v] = f => wpc'[v] \notin {"read", "write"}
      BY <2>1, <2>3, <2>4 DEF RecordedOnce
    <3> QED  BY <1>o, <2>1, <2>4, <3>1
  <2>5. \A h \in Hashes : After(hash_main'[h], h)
    BY <1>i, <2>1, <2>4 DEF Buckets
  <2>6. \A v \in Workers : wpc'[v] = "write" =>
          After(bucket'[v], Hash[archive'[item'[v]].content])
    <3> SUFFICES ASSUME NEW v \in Workers, wpc'[v] = "write"
                 PROVE  After(bucket'[v], Hash[archive'[item'[v]].content])
      OBVIOUS
    <3>1. CASE v = w
      <4>1. Hash[archive'[item'[v]].content] = h0
        BY <1>0, <2>1, <3>1
      <4> HIDE DEF h0
      <4> QED  BY <2>1, <2>2, <2>3, <2>5, <3>1, <4>1
    <3>2. CASE v # w
      BY <1>0, <1>i, <2>1, <2>3, <2>4, <3>2 DEF Buckets
    <3> QED  BY <3>1, <3>2
  <2> QED  BY <1>b, <1>r, <2>1, <2>5, <2>6 DEF OnceInv
<1>5. ASSUME NEW w \in threads, WriteBucket(w) PROVE OnceInv'
  <2> DEFINE h0 == Hash[archive[item[w]].content]
             new == Append(bucket[w], item[w])
  <2>1. /\ UNCHANGED <<setup, pending, item, toReport, mainVars, reporter>>
        /\ hash_main' = [hash_main EXCEPT ![h0] = new]
        /\ bucket' = [bucket EXCEPT ![w] = <<>>]
        /\ wpc' = [wpc EXCEPT ![w] = "report"]
        /\ wpc[w] = "write"
    BY <1>5 DEF WriteBucket
  <2>2. w \in Workers /\ item[w] \in Entries /\ bucket[w] \in Seq(Entries)
    BY <1>t, <2>1 DEF TypeInv, AtItems
  <2>3. /\ wpc'[w] = "report"
        /\ \A v \in Workers : v # w => bucket'[v] = bucket[v] /\ wpc'[v] = wpc[v]
        /\ \A v \in Workers : wpc[v] \notin {"read", "write"} => wpc'[v] \notin {"read", "write"}
    BY <1>t, <2>1, <2>2
  <2>4. ASSUME NEW s, NEW h, RecordedOnce(s, h) PROVE After(s, h)
    <3>1. \A f \in ToSet(s), v \in Workers : item'[v] = f => wpc'[v] \notin {"read", "write"}
      BY <2>1, <2>3, <2>4 DEF RecordedOnce
    <3> QED  BY <1>o, <2>1, <2>4, <3>1
  <2>5. RecordedOnce(bucket[w], h0)
    BY <1>i, <2>1, <2>2 DEF Buckets
  <2>6. /\ ToSet(new) = ToSet(bucket[w]) \cup {item[w]}
        /\ item[w] \notin ToSet(bucket[w])
        /\ NoneTwice(new)
    <3>1. item[w] \notin ToSet(bucket[w])
      BY <2>1, <2>2, <2>5 DEF RecordedOnce
    <3> QED  BY <2>2, <2>5, <3>1, AppendedSet, AppendedOnce DEF RecordedOnce
  <2>7. After(new, h0)
    <3>1. After(bucket[w], h0)
      BY <2>4, <2>5
    <3>2. item[w] \notin pending'
      BY <2>1, <2>2 DEF CollectInv, OwnItem, Working
    <3>3. \A v \in Workers : item'[v] = item[w] => wpc'[v] \notin {"read", "write"}
      <4> SUFFICES ASSUME NEW v \in Workers, item[v] = item[w], v # w,
                          wpc[v] \in {"read", "write"}
                   PROVE  FALSE
        BY <2>1, <2>3
      <4> QED  BY <2>1, <2>2 DEF CollectInv, OwnItem, Working
    <3>4. Hash[archive'[item[w]].content] = h0
      BY <1>0
    <3> HIDE DEF new, h0
    <3> QED  BY <2>6, <3>1, <3>2, <3>3, <3>4 DEF After
  <2> HIDE DEF new, h0
  <2>8. \A h \in Hashes : After(hash_main'[h], h)
    <3> SUFFICES ASSUME NEW h \in Hashes PROVE After(hash_main'[h], h)
      OBVIOUS
    <3>1. CASE h = h0
      BY <1>t, <2>1, <2>7, <3>1
    <3>2. CASE h # h0
      <4>1. hash_main'[h] = hash_main[h]
        BY <1>t, <2>1, <3>2
      <4> QED  BY <1>i, <2>4, <4>1 DEF Buckets
    <3> QED  BY <3>1, <3>2
  <2>9. \A v \in Workers : wpc'[v] = "write" =>
          After(bucket'[v], Hash[archive'[item'[v]].content])
    BY <1>0, <1>i, <2>1, <2>3, <2>4 DEF Buckets
  <2> QED  BY <1>b, <1>r, <2>1, <2>8, <2>9 DEF OnceInv
<1>6. ASSUME NEW w \in threads, ReportNext(w) PROVE OnceInv'
  <2> DEFINE m == Head(toReport[w])
             msgs == {m}
  <2>1. /\ UNCHANGED <<setup, pending, wpc, item, bucket, hash_main, mainVars>>
        /\ log' = log (+) SetToBag(msgs)
    BY <1>6 DEF ReportNext, AddMsgs
  <2>2. /\ m \notin BagToSet(log)
        /\ BagToSet(log') = BagToSet(log) \cup {m}
        /\ m.id # "REDUNDANT_ITEMS"
    BY <1>6, NewInLog
  <2> HIDE DEF m
  <2>3. Buckets'
    BY <1>i, <2>1 DEF Buckets, RecordedOnce, NoneTwice
  <2>4. Rounds'
    BY <1>i, <2>1, <2>2 DEF Rounds, NoneTwice
  <2>5. msgs \cap BagToSet(log) = {}
    BY <2>2
  <2> HIDE DEF msgs
  <2>6. LoggedOnce'
    BY <1>i, <2>1, <2>5, BagOnce DEF LoggedOnce
  <2> QED  BY <2>3, <2>4, <2>6 DEF OnceInv
<1>7. ASSUME NEW w \in threads, EndCheck(w) PROVE OnceInv'
  <2>1. /\ UNCHANGED <<setup, pending, bucket, toReport, hash_main, mainVars, reporter>>
        /\ wpc' = [wpc EXCEPT ![w] = "idle"]
        /\ item' = [item EXCEPT ![w] = NoItem]
    BY <1>7 DEF EndCheck
  <2>2. /\ wpc'[w] = "idle"
        /\ \A v \in Workers : v # w => item'[v] = item[v] /\ wpc'[v] = wpc[v]
    BY <1>t, <2>1
  <2>3. ASSUME NEW s, NEW h, RecordedOnce(s, h) PROVE After(s, h)
    <3>1. \A f \in ToSet(s), v \in Workers : item'[v] = f => wpc'[v] \notin {"read", "write"}
      BY <2>2, <2>3 DEF RecordedOnce
    <3> QED  BY <1>o, <2>1, <2>3, <3>1
  <2>4. \A h \in Hashes : After(hash_main'[h], h)
    BY <1>i, <2>1, <2>3 DEF Buckets
  <2>5. \A v \in Workers : wpc'[v] = "write" =>
          After(bucket'[v], Hash[archive'[item'[v]].content])
    BY <1>0, <1>i, <2>1, <2>2, <2>3 DEF Buckets
  <2> QED  BY <1>b, <1>r, <2>1, <2>4, <2>5 DEF OnceInv
<1>8. CASE AllChecked
  <2>1. /\ UNCHANGED <<setup, pending, workerVars, hash_main, l, reporter>>
        /\ mpc = "check"
    BY <1>8 DEF AllChecked
  <2>2. Buckets'
    BY <1>i, <2>1 DEF Buckets, RecordedOnce, NoneTwice
  <2>3. l = <<>> /\ ToSet(<<>>) = {} /\ \A m \in BagToSet(log) : m.id # "REDUNDANT_ITEMS"
    BY <1>i, <2>1 DEF Rounds, ToSet
  <2>4. Rounds'
    BY <2>1, <2>3, <1>i DEF Rounds, NoneTwice
  <2>5. LoggedOnce'
    BY <1>i, <2>1 DEF LoggedOnce
  <2> QED  BY <2>2, <2>4, <2>5 DEF OnceInv
<1>9. CASE NextBucket
  <2> DEFINE h0 == Min(hashes)
  <2>1. /\ UNCHANGED <<setup, pending, workerVars, hash_main, mpc, reporter>>
        /\ l' = hash_main[h0]
        /\ hashes # {}
        /\ hashes' = hashes \ {h0}
        /\ mpc = "detect"
    BY <1>9 DEF NextBucket
  <2>2. hashes \subseteq Hashes /\ hashes \subseteq Nat
    BY HashAssumption DEF TypeInv, SharedTypes, Hashes
  <2>3. h0 \in hashes
    BY <2>1, <2>2, MinOfNumbers
  <2> HIDE DEF h0
  <2>4. RecordedOnce(hash_main[h0], h0)
    BY <1>i, <2>2, <2>3 DEF Buckets
  <2>5. NoneTwice(l') /\ \A e \in ToSet(l') : Hash[archive[e].content] = h0
    BY <2>1, <2>4 DEF RecordedOnce
  <2>6. \A m \in BagToSet(log) : m.id = "REDUNDANT_ITEMS" =>
          m.path \notin ToSet(l') /\ Hash[archive[m.path].content] \notin hashes'
    BY <1>i, <2>1, <2>3, <2>5 DEF Rounds
  <2>7. Rounds'
    BY <2>1, <2>5, <2>6 DEF Rounds, NoneTwice
  <2>8. Buckets' /\ LoggedOnce'
    BY <1>i, <2>1 DEF Buckets, RecordedOnce, NoneTwice, LoggedOnce
  <2> QED  BY <2>7, <2>8 DEF OnceInv
<1>10. CASE CompareWithFirst
  <2> DEFINE e1 == Head(l)
             S == {f \in {g \in ToSet(Tail(l)) : ~AreAliases(e1, g)} :
                    ~(archive[f].content = archive[e1].content)}
  <2>1. /\ UNCHANGED <<setup, pending, workerVars, hash_main, mpc, hashes>>
        /\ mpc = "detect"
        /\ l # <<>>
        /\ l' = Kept(Tail(l), S)
    BY <1>10 DEF CompareWithFirst
  <2>2. AddMsgs(RoundMessages) /\ ToSet(l') \subseteq ToSet(Tail(l))
    BY <1>10, RoundTypes
  <2>3. /\ BagToSet(log') = BagToSet(log) \cup RoundMessages
        /\ log' = log (+) SetToBag(RoundMessages)
    BY <2>2, BagWith DEF AddMsgs
  <2>4. \A m \in RoundMessages : m.path = e1
    BY DEF RoundMessages, Message
  <2>5. /\ Tail(l) \in Seq(Entries)
        /\ ToSet(l) = {e1} \cup ToSet(Tail(l))
        /\ e1 \notin ToSet(Tail(l))
        /\ NoneTwice(Tail(l))
    BY <1>i, <1>t, <2>1, ListParts, HeadOnce DEF Rounds
  <2> HIDE DEF e1, S
  <2>6. NoneTwice(l')
    BY <2>1, <2>5, KeptElements
  <2>7. \A m \in RoundMessages : m.id = "REDUNDANT_ITEMS"
    BY DEF RoundMessages, Message
  <2>8. RoundMessages \cap BagToSet(log) = {}
    BY <1>i, <2>4, <2>5, <2>7 DEF Rounds
  <2>9. LoggedOnce'
    BY <1>i, <2>3, <2>8, BagOnce DEF LoggedOnce
  <2>10. \A m \in BagToSet(log') : m.id = "REDUNDANT_ITEMS" =>
           m.path \notin ToSet(l') /\ Hash[archive[m.path].content] \notin hashes
    BY <1>i, <2>2, <2>3, <2>4, <2>5 DEF Rounds
  <2>11. \A e \in ToSet(l') : Hash[archive[e].content] \notin hashes
    BY <1>i, <2>2, <2>5 DEF Rounds
  <2>12. Rounds'
    BY <2>1, <2>6, <2>10, <2>11 DEF Rounds, NoneTwice
  <2>13. Buckets'
    BY <1>i, <2>1 DEF Buckets, RecordedOnce, NoneTwice
  <2> QED  BY <2>9, <2>12, <2>13 DEF OnceInv
<1>11. CASE EndOfDetection \/ Done \/ UNCHANGED vars
  <2>1. /\ UNCHANGED <<setup, pending, workerVars, hash_main, hashes, l, reporter>>
        /\ mpc # "check" \/ mpc' = mpc
        /\ mpc = "check" => mpc' = "check"
        /\ mpc' = "check" => mpc = "check"
    BY <1>11 DEF EndOfDetection, Done, vars
  <2>2. Buckets'
    BY <1>i, <2>1 DEF Buckets, RecordedOnce, NoneTwice
  <2>3. Rounds' /\ LoggedOnce'
    BY <1>i, <2>1 DEF Rounds, LoggedOnce, NoneTwice
  <2> QED  BY <2>2, <2>3 DEF OnceInv
<1> QED
  BY Zenon, <1>2, <1>3, <1>4, <1>5, <1>6, <1>7, <1>8, <1>9, <1>10, <1>11 DEF Next, Worker, Main

\* No message is twice in the log, whatever the workers race for.
THEOREM NoMessageTwice == Spec => []LoggedOnce
<1>1. Init => OnceInv
  <2> SUFFICES ASSUME Init PROVE OnceInv
    OBVIOUS
  <2>1. BagToSet(EmptyBag) = {} /\ ToSet(<<>>) = {} /\ NoneTwice(<<>>)
    BY DEF EmptyBag, SetToBag, BagToSet, ToSet, NoneTwice
  <2> QED
    BY <2>1 DEF Init, OnceInv, Buckets, RecordedOnce, Rounds, LoggedOnce
<1>2. TypeInv /\ SearchInv /\ CollectInv /\ OnceInv /\ [Next]_vars => OnceInv'
  BY OnceStep
<1> QED
  BY <1>1, <1>2, TypeInvariant, SearchInvariant, CollectInvariant, PTL DEF Spec, OnceInv

-----------------------------------------------------------------------------
(* What messages say: the links that those with a given id are about.      *)

Said(msgs, id) == {m.what : m \in {x \in ToSet(msgs) : x.id = id}}

LEMMA SaidJoined ==
    ASSUME NEW T, NEW a \in Seq(T), NEW b \in Seq(T), NEW id
    PROVE  Said(a \o b, id) = Said(a, id) \cup Said(b, id)
<1> DEFINE r == a \o b
<1>1. /\ Len(a) \in Nat /\ Len(b) \in Nat /\ r \in Seq(T) /\ Len(r) = Len(a) + Len(b)
      /\ \A i \in 1..Len(a) : r[i] = a[i]
      /\ \A n \in 1..Len(b) : r[Len(a) + n] = b[n]
  BY ConcatenationOf
<1>2. DOMAIN a = 1..Len(a) /\ DOMAIN b = 1..Len(b) /\ DOMAIN r = 1..Len(r)
  BY <1>1
<1> HIDE DEF r
<1>3. ASSUME NEW k \in 1..Len(r) PROVE k \in 1..Len(a) \/ \E n \in 1..Len(b) : k = Len(a) + n
  <2>1. CASE k <= Len(a)
    BY <1>1, <2>1
  <2>2. CASE ~ (k <= Len(a))
    <3>1. k - Len(a) \in 1..Len(b) /\ k = Len(a) + (k - Len(a))
      BY <1>1, <2>2
    <3> QED  BY <3>1
  <2> QED  BY <2>1, <2>2
<1>4. /\ \A i \in 1..Len(a) : i \in 1..Len(r)
      /\ \A n \in 1..Len(b) : Len(a) + n \in 1..Len(r)
  BY <1>1
<1>5. ToSet(r) \subseteq ToSet(a) \cup ToSet(b)
  <2>1. ASSUME NEW k \in 1..Len(r) PROVE r[k] \in ToSet(a) \cup ToSet(b)
    <3>1. CASE k \in 1..Len(a)
      BY <1>1, <1>2, <3>1 DEF ToSet
    <3>2. CASE \E n \in 1..Len(b) : k = Len(a) + n
      <4>1. PICK n \in 1..Len(b) : k = Len(a) + n
        BY <3>2
      <4>2. r[k] = b[n] /\ n \in DOMAIN b
        BY <1>1, <1>2, <4>1
      <4> QED  BY <4>2 DEF ToSet
    <3> QED  BY <1>3, <3>1, <3>2
  <2> QED  BY <1>2, <2>1 DEF ToSet
<1>6. ToSet(a) \subseteq ToSet(r) /\ ToSet(b) \subseteq ToSet(r)
  BY <1>1, <1>2, <1>4 DEF ToSet
<1>7. ToSet(r) = ToSet(a) \cup ToSet(b)
  BY <1>5, <1>6
<1> QED
  BY <1>7 DEF Said, r

LEMMA SaidByNone ==
    ASSUME NEW id
    PROVE  Said(<<>>, id) = {}
<1>1. ToSet(<<>>) = {}
  BY DEF ToSet
<1> QED
  BY <1>1 DEF Said

LEMMA SaidByOne ==
    ASSUME NEW id, NEW e, NEW what
    PROVE  Said(<<Message(id, e, what)>>, id) = {what}
<1> DEFINE m == Message(id, e, what)
<1>1. m.id = id /\ m.what = what
  BY DEF Message
<1> HIDE DEF m
<1>2. ToSet(<<m>>) = {m}
  BY DEF ToSet
<1> QED
  BY <1>1, <1>2 DEF Said, m

LEMMA SaidByOthers ==
    ASSUME NEW msgs, NEW e, NEW ids, Reports(msgs, e, ids), NEW id, id \notin ids
    PROVE  Said(msgs, id) = {}
  BY DEF Said, Reports

LEMMA PositionsSet ==
    ASSUME NEW T, NEW links \in Seq(T), NEW S \in SUBSET DOMAIN links
    PROVE  Positions(links, S) \in Seq(Nat) /\ ToSet(Positions(links, S)) = S
<1>1. Len(links) \in Nat /\ DOMAIN links = 1..Len(links)
  OBVIOUS
<1>2. /\ Positions(links, S) \in Seq(Nat)
      /\ ToSet(Positions(links, S)) = (1..Len(links)) \cap S
  BY <1>1, KeptPositions DEF Positions
<1> QED
  BY <1>1, <1>2

\* All that is due is reported or, by --quick, one thing of it.
Judged(reported, due, quick) ==
    IF quick THEN reported \subseteq due /\ Cardinality(reported) = (IF due = {} THEN 0 ELSE 1)
    ELSE reported = due

LEMMA SaidAtFirst ==
    ASSUME NEW msgs, NEW e, NEW id, Reports(msgs, e, {id})
    PROVE  Judged(Said(FirstIfQuick(msgs), id), Said(msgs, id), options.quick)
<1>1. msgs \in Seq(ItemMessages) /\ \A m \in ToSet(msgs) : m.id = id
  BY DEF Reports
<1>2. CASE options.quick /\ msgs # <<>>
  <2> DEFINE m == Head(msgs)
  <2>1. m \in ToSet(msgs)
    BY <1>1, <1>2 DEF ToSet
  <2>2. FirstIfQuick(msgs) = <<m>>
    BY <1>2 DEF FirstIfQuick
  <2> HIDE DEF m
  <2>3. ToSet(<<m>>) = {m}
    BY DEF ToSet
  <2>4. Said(<<m>>, id) = {m.what} /\ m.what \in Said(msgs, id)
    BY <1>1, <2>1, <2>3 DEF Said
  <2>5. Cardinality({m.what}) = 1
    BY FS_Singleton
  <2> QED  BY <1>2, <2>2, <2>4, <2>5 DEF Judged
<1>3. CASE options.quick /\ msgs = <<>>
  <2>1. FirstIfQuick(msgs) = <<>>
    BY <1>3 DEF FirstIfQuick
  <2>2. Said(<<>>, id) = {} /\ Cardinality({}) = 0
    BY SaidByNone, FS_EmptySet
  <2> QED  BY <1>3, <2>1, <2>2 DEF Judged
<1>4. CASE ~options.quick
  BY <1>4 DEF FirstIfQuick, Judged
<1> QED
  BY <1>2, <1>3, <1>4

LEMMA SaidOfUnresolvable ==
    ASSUME NEW T, NEW links \in Seq(T), NEW e, NEW resolved, DOMAIN resolved \subseteq DOMAIN links
    PROVE  /\ Said(UnresolvableMessages(e, links, resolved), "ABSPATH_LINK")
                 = {{n} : n \in {k \in DOMAIN resolved :
                                   resolved[k].error = "AbsolutePathURL"}}
           /\ Said(UnresolvableMessages(e, links, resolved), "OUTOFBOUNDS_LINK")
                 = {{n} : n \in {k \in DOMAIN resolved :
                                   resolved[k].error \notin {"none", "AbsolutePathURL"}}}
<1> DEFINE D == DOMAIN resolved
           S == {n \in D : resolved[n].error # "none"}
           bad == Positions(links, S)
           Id == [n \in D |-> IF resolved[n].error = "AbsolutePathURL"
                                THEN "ABSPATH_LINK" ELSE "OUTOFBOUNDS_LINK"]
           What == [n \in D |-> {n}]
           msgs == UnresolvableMessages(e, links, resolved)
<1>1. bad \in Seq(Nat) /\ ToSet(bad) = S
  <2>1. S \in SUBSET DOMAIN links
    OBVIOUS
  <2> HIDE DEF S
  <2> QED  BY <2>1, PositionsSet
<1>2. \A i \in DOMAIN bad : bad[i] \in S /\ bad[i] \in D
  <2> HIDE DEF bad
  <2> QED  BY <1>1 DEF ToSet
<1>3. /\ DOMAIN msgs = DOMAIN bad
      /\ \A i \in DOMAIN bad : msgs[i].id = Id[bad[i]] /\ msgs[i].what = What[bad[i]]
  <2>1. msgs = [i \in DOMAIN bad |->
                 Message(IF resolved[bad[i]].error = "AbsolutePathURL"
                           THEN "ABSPATH_LINK" ELSE "OUTOFBOUNDS_LINK", e, {bad[i]})]
    BY Zenon DEF UnresolvableMessages
  <2> HIDE DEF bad, msgs
  <2> QED  BY <1>2, <2>1 DEF Message
<1> HIDE DEF bad, msgs
<1>4. \A id : Said(msgs, id) = {What[n] : n \in {k \in S : Id[k] = id}}
  <2> HIDE DEF Id, What, S
  <2>1. ASSUME NEW id
        PROVE  Said(msgs, id) = {What[n] : n \in {k \in S : Id[k] = id}}
    <3>1. \A w : w \in Said(msgs, id) <=>
                   \E n \in ToSet(bad) : Id[n] = id /\ w = What[n]
      BY <1>3 DEF Said, ToSet
    <3> QED  BY <1>1, <3>1
  <2> QED  BY <2>1
<1>5. \A n \in S : /\ What[n] = {n}
                   /\ Id[n] = "ABSPATH_LINK" <=> resolved[n].error = "AbsolutePathURL"
                   /\ Id[n] = "OUTOFBOUNDS_LINK" <=> resolved[n].error # "AbsolutePathURL"
  OBVIOUS
<1> HIDE DEF Id, What
<1>6. Said(msgs, "ABSPATH_LINK") = {{n} : n \in {k \in D : resolved[k].error = "AbsolutePathURL"}}
  <2> DEFINE P == {k \in D : resolved[k].error = "AbsolutePathURL"}
  <2>1. {k \in S : Id[k] = "ABSPATH_LINK"} = P /\ \A n \in P : What[n] = {n}
    BY <1>5
  <2>2. Said(msgs, "ABSPATH_LINK") = {What[n] : n \in P}
    BY <1>4, <2>1
  <2> HIDE DEF P
  <2>3. {What[n] : n \in P} = {{n} : n \in P}
    BY <2>1
  <2> QED  BY <2>2, <2>3 DEF P
<1>7. Said(msgs, "OUTOFBOUNDS_LINK")
        = {{n} : n \in {k \in D : resolved[k].error \notin {"none", "AbsolutePathURL"}}}
  <2> DEFINE P == {k \in D : resolved[k].error \notin {"none", "AbsolutePathURL"}}
  <2>1. {k \in S : Id[k] = "OUTOFBOUNDS_LINK"} = P /\ \A n \in P : What[n] = {n}
    BY <1>5
  <2>2. Said(msgs, "OUTOFBOUNDS_LINK") = {What[n] : n \in P}
    BY <1>4, <2>1
  <2> HIDE DEF P
  <2>3. {What[n] : n \in P} = {{n} : n \in P}
    BY <2>1
  <2> QED  BY <2>2, <2>3 DEF P
<1> QED
  BY <1>6, <1>7 DEF msgs

LEMMA SaidOfEmptyLinks ==
    ASSUME NEW e, NEW links
    PROVE  Said(EmptyLinkMessages(e, links), "EMPTY_LINKS")
             = {{n \in DOMAIN links : IsEmptyLink(links[n].url)}} \ {{}}
<1> DEFINE empty == {n \in DOMAIN links : IsEmptyLink(links[n].url)}
<1>1. EmptyLinkMessages(e, links) =
        IF empty = {} THEN <<>> ELSE <<Message("EMPTY_LINKS", e, empty)>>
  BY DEF EmptyLinkMessages
<1> HIDE DEF empty
<1>2. CASE empty = {}
  BY <1>1, <1>2, SaidByNone DEF empty
<1>3. CASE empty # {}
  <2>1. Said(EmptyLinkMessages(e, links), "EMPTY_LINKS") = {empty}
    BY <1>1, <1>3, SaidByOne
  <2>2. {empty} = {empty} \ {{}}
    BY <1>3
  <2> QED  BY <2>1, <2>2 DEF empty
<1> QED
  BY <1>2, <1>3

LEMMA SaidForEach ==
    ASSUME NEW s \in Seq(Nat), NEW e, NEW id
    PROVE  Said(MessageForEach(id, e, s), id) = {{n} : n \in ToSet(s)}
<1> DEFINE msgs == MessageForEach(id, e, s)
           ids == [n \in ToSet(s) |-> id]
           whats == [n \in ToSet(s) |-> {n}]
<1>1. /\ DOMAIN msgs = DOMAIN s
      /\ \A i \in DOMAIN s : s[i] \in ToSet(s) /\ msgs[i].id = id /\ msgs[i].what = {s[i]}
  BY DEF MessageForEach, Message, ToSet
<1>2. \A n \in ToSet(s) : ids[n] = id /\ whats[n] = {n}
  OBVIOUS
<1> HIDE DEF msgs, ids, whats
<1>3. \A i \in DOMAIN s : msgs[i].id = ids[s[i]] /\ msgs[i].what = whats[s[i]]
  BY <1>1, <1>2
<1>a. DOMAIN msgs = DOMAIN s
  BY <1>1
<1>4. \A w : w \in Said(msgs, id) <=> \E n \in ToSet(s) : ids[n] = id /\ w = whats[n]
  BY <1>3, <1>a DEF Said, ToSet
<1>5. ASSUME NEW w
      PROVE  w \in Said(msgs, id) <=> \E n \in ToSet(s) : w = {n}
  <2>1. w \in Said(msgs, id) <=> \E n \in ToSet(s) : ids[n] = id /\ w = whats[n]
    BY <1>4
  <2> QED  BY <1>2, <2>1
<1> QED
  BY <1>5 DEF msgs

\* The links that dangle together with the link m.
GroupOf(resolved, m) == {n \in DanglingLinks(resolved) : resolved[m].path = resolved[n].path}

LEMMA SaidOfDangling ==
    ASSUME NEW T, NEW links \in Seq(T), NEW e \in Entries,
           NEW resolved, DOMAIN resolved \subseteq DOMAIN links
    PROVE  Judged(Said(DanglingMessages(e, links, resolved), "DANGLING_LINKS"),
                  {GroupOf(resolved, m) : m \in DanglingLinks(resolved)}, options.quick)
<1> DEFINE D == DanglingLinks(resolved)
           Group(m) == {n \in D : resolved[m].path = resolved[n].path}
           S == {n \in D : n = Min(Group(n))}
           first == Positions(links, S)
           id == "DANGLING_LINKS"
           msgs == [i \in DOMAIN first |-> Message(id, e, Group(first[i]))]
           ids == [n \in S |-> id]
           whats == [n \in S |-> Group(n)]
<1>1. DanglingMessages(e, links, resolved) = FirstIfQuick(msgs)
  BY DEF DanglingMessages
<1>2. D \subseteq DOMAIN links /\ D \subseteq Nat
  <2>1. DOMAIN links \subseteq Nat
    OBVIOUS
  <2> QED  BY <2>1 DEF DanglingLinks
<1>3. first \in Seq(Nat) /\ ToSet(first) = S /\ NoneTwice(first)
  <2>1. S \in SUBSET DOMAIN links
    BY <1>2
  <2> HIDE DEF S
  <2> QED  BY <2>1, PositionsSet, PositionsTypes
<1>4. /\ DOMAIN msgs = DOMAIN first
      /\ \A i \in DOMAIN first : first[i] \in S /\ msgs[i].id = id
                                   /\ msgs[i].what = Group(first[i])
  <2>1. \A i \in DOMAIN first : first[i] \in S
    <3> HIDE DEF first
    <3> QED  BY <1>3 DEF ToSet
  <2> HIDE DEF first, S, Group, id
  <2> QED  BY <2>1 DEF Message
<1>5. \A n \in S : ids[n] = id /\ whats[n] = Group(n)
  <2> HIDE DEF S, Group
  <2> QED  OBVIOUS
<1> HIDE DEF msgs, ids, whats, first
<1>6. \A i \in DOMAIN first : msgs[i].id = ids[first[i]] /\ msgs[i].what = whats[first[i]]
  <2> HIDE DEF S, Group, id
  <2> QED  BY <1>4, <1>5
<1>7. \A w : w \in Said(msgs, id) <=> \E n \in S : w = Group(n)
  <2> HIDE DEF S, Group, id
  <2>1. \A w : w \in Said(msgs, id) <=> \E n \in ToSet(first) : ids[n] = id /\ w = whats[n]
    <3>1. DOMAIN msgs = DOMAIN first
      BY Zenon, <1>4
    <3> QED  BY <1>6, <3>1 DEF Said, ToSet
  <2> QED  BY <1>3, <1>5, <2>1
<1>8. ASSUME NEW m \in D PROVE \E n \in S : Group(m) = Group(n)
  <2> DEFINE n == Min(Group(m))
  <2>1. m \in Group(m) /\ Group(m) \subseteq Nat
    BY <1>2
  <2>2. n \in Group(m)
    <3> HIDE DEF Group
    <3> QED  BY <2>1, MinOfNumbers
  <2> HIDE DEF n
  <2>3. n \in D /\ Group(n) = Group(m)
    BY <2>2
  <2>4. n = Min(Group(n))
    BY <2>3 DEF n
  <2> QED  BY Zenon, <2>3, <2>4
<1>9. Said(msgs, id) = {GroupOf(resolved, m) : m \in D}
  <2>1. \A m : GroupOf(resolved, m) = Group(m)
    BY DEF GroupOf
  <2>2. S \subseteq D
    OBVIOUS
  <2> HIDE DEF Group, S, D, id
  <2> QED  BY <1>7, <1>8, <2>1, <2>2
<1>10. Reports(msgs, e, {id})
  <2>1. DOMAIN links \subseteq Nat /\ DOMAIN first = 1..Len(first) /\ Len(first) \in Nat
    BY <1>3
  <2>2. \A m : Group(m) \in SUBSET Nat
    BY <1>2
  <2>3. \A m, n \in S : Group(m) = Group(n) => m = n
    BY Zenon
  <2>4. {id} \in SUBSET ItemMessageIds
    BY DEF ItemMessageIds
  <2> HIDE DEF S, Group, id
  <2>5. \A n \in 1..Len(first) : Message(id, e, Group(first[n])) \in MessagesAbout(e, {id})
    BY <2>2 DEF Message, MessagesAbout
  <2>6. msgs \in [1..Len(first) -> MessagesAbout(e, {id})]
    BY <2>1, <2>5 DEF msgs
  <2>7. \A i, j \in 1..Len(first) : msgs[i].what = msgs[j].what => i = j
    <3> SUFFICES ASSUME NEW i \in 1..Len(first), NEW j \in 1..Len(first),
                        msgs[i].what = msgs[j].what
                 PROVE  i = j
      OBVIOUS
    <3>1. i \in DOMAIN first /\ j \in DOMAIN first
      BY <2>1
    <3>2. first[i] \in S /\ first[j] \in S /\ Group(first[i]) = Group(first[j])
      BY <1>4, <3>1
    <3>3. first[i] = first[j]
      BY <2>3, <3>2
    <3> QED  BY <1>3, <3>1, <3>3 DEF NoneTwice
  <2> QED  BY Zenon, <2>1, <2>4, <2>6, <2>7, MessagesOfLinks
<1>11. Judged(Said(FirstIfQuick(msgs), id), Said(msgs, id), options.quick)
  BY <1>10, SaidAtFirst
<1> QED
  BY <1>1, <1>9, <1>11

LEMMA ExternalType ==
    ASSUME NEW T, NEW links \in Seq(T), NEW e \in Entries
    PROVE  Reports(ExternalLinkMessages(e, links), e, {"EXTERNAL_LINK"})
<1> DEFINE S == {n \in DOMAIN links : links[n].name = "src" /\ IsExternalUrl(links[n].url)}
           s == Positions(links, S)
           msgs == MessageForEach("EXTERNAL_LINK", e, s)
<1>1. ExternalLinkMessages(e, links) = FirstIfQuick(msgs)
  BY DEF ExternalLinkMessages
<1> HIDE DEF S
<1>2. s \in Seq(Nat) /\ NoneTwice(s)
  BY PositionsTypes
<1>3. "EXTERNAL_LINK" \in ItemMessageIds
  BY DEF ItemMessageIds
<1> HIDE DEF s
<1>4. Reports(msgs, e, {"EXTERNAL_LINK"})
  BY <1>2, <1>3, MessageForEachType
<1> HIDE DEF msgs
<1> QED
  BY <1>1, <1>4, FirstIfQuickType

LEMMA SaidOfExternal ==
    ASSUME NEW T, NEW links \in Seq(T), NEW e \in Entries
    PROVE  Judged(Said(ExternalLinkMessages(e, links), "EXTERNAL_LINK"),
                  {{n} : n \in {k \in DOMAIN links : /\ links[k].name = "src"
                                                     /\ IsExternalUrl(links[k].url)}},
                  options.quick)
<1> DEFINE S == {n \in DOMAIN links : links[n].name = "src" /\ IsExternalUrl(links[n].url)}
           s == Positions(links, S)
           id == "EXTERNAL_LINK"
           msgs == MessageForEach(id, e, s)
<1>1. ExternalLinkMessages(e, links) = FirstIfQuick(msgs)
  BY DEF ExternalLinkMessages
<1>2. s \in Seq(Nat) /\ ToSet(s) = S /\ NoneTwice(s)
  <2>1. S \in SUBSET DOMAIN links
    OBVIOUS
  <2> HIDE DEF S
  <2> QED  BY <2>1, PositionsSet, PositionsTypes
<1>3. id \in ItemMessageIds
  BY DEF ItemMessageIds
<1> HIDE DEF s, id
<1>4. Reports(msgs, e, {id})
  BY <1>2, <1>3, MessageForEachType
<1>5. Said(msgs, id) = {{n} : n \in S}
  BY <1>2, SaidForEach
<1> HIDE DEF msgs, S
<1>6. Judged(Said(FirstIfQuick(msgs), id), Said(msgs, id), options.quick)
  BY <1>4, SaidAtFirst
<1> QED
  BY <1>1, <1>5, <1>6 DEF id, S

-----------------------------------------------------------------------------
(* The links of an item, sorted by what is due about them.                 *)

IsRemote(url) == url.scheme # "" \/ url.authority
InsideLinks(links) ==
    {n \in DOMAIN links : ~IsRemote(links[n].url) /\ links[n].url.path # EmptyPath}
AbsoluteLinks(links) == {n \in InsideLinks(links) : Head(links[n].url.path) = ""}
OutsideLinks(links, path) ==
    {n \in InsideLinks(links) \ AbsoluteLinks(links) : LeadsOutside(links[n].url, path)}
Landing(links, path) ==
    InsideLinks(links) \ (AbsoluteLinks(links) \cup OutsideLinks(links, path))

ProperLinks(links) ==
    links \in Seq(Attributes) /\ \A n \in DOMAIN links : links[n].url \in ProperUrls

LEMMA KindOfUrl ==
    ASSUME NEW url \in Urls
    PROVE  /\ IsInternalUrl(url) <=> ~IsRemote(url)
           /\ IsExternalUrl(url) <=> IsRemote(url) /\ (url.scheme # "data" \/ url.authority)
           /\ ~IsEmptyLink(url) /\ ~StartsWithMark(url) /\ IsInternalUrl(url) <=>
                ~IsRemote(url) /\ url.path # EmptyPath
<1>1. url = [scheme |-> url.scheme, authority |-> url.authority, path |-> url.path,
             marks |-> url.marks]
      /\ url.authority \in BOOLEAN
  BY DEF Urls
<1>2. IsInternalUrl(url) <=> ~IsRemote(url)
  BY <1>1 DEF IsInternalUrl, UriKind, IsRemote, SpecialSchemes
<1>3. IsExternalUrl(url) <=> IsRemote(url) /\ (url.scheme # "data" \/ url.authority)
  BY <1>1 DEF IsExternalUrl, UriKind, IsRemote, SpecialSchemes
<1>4. ASSUME ~IsRemote(url)
      PROVE  ~IsEmptyLink(url) /\ ~StartsWithMark(url) <=> url.path # EmptyPath
  <2>1. url.scheme = "" /\ url.authority = FALSE
    BY <1>1, <1>4 DEF IsRemote
  <2>2. IsEmptyLink(url) <=> url.path = EmptyPath /\ url.marks = <<>>
    <3>1. ASSUME IsEmptyLink(url) PROVE url.path = EmptyPath /\ url.marks = <<>>
      BY <3>1 DEF IsEmptyLink
    <3>2. ASSUME url.path = EmptyPath, url.marks = <<>> PROVE IsEmptyLink(url)
      <4>1. url = [scheme |-> "", authority |-> FALSE, path |-> EmptyPath, marks |-> <<>>]
        BY <1>1, <2>1, <3>2
      <4> QED  BY <4>1 DEF IsEmptyLink
    <3> QED  BY <3>1, <3>2
  <2>3. StartsWithMark(url) <=> url.path = EmptyPath /\ url.marks # <<>>
    BY <2>1 DEF StartsWithMark
  <2> QED  BY <2>2, <2>3
<1> QED
  BY <1>2, <1>3, <1>4

LEMMA ResolvedAsDue ==
    ASSUME NEW e, NEW links, ProperLinks(links), archive[e].path \in ProperPaths
    PROVE  LET resolved == ResolvedLinks(e, links)
               path == archive[e].path
           IN  /\ DOMAIN resolved = InsideLinks(links)
               /\ \A n \in AbsoluteLinks(links) : resolved[n] = Unresolved("AbsolutePathURL")
               /\ \A n \in OutsideLinks(links, path) :
                    resolved[n] = Unresolved("OutOfBoundsURL")
               /\ \A n \in Landing(links, path) :
                    resolved[n] = Resolved(Target(links[n].url, path))
<1> DEFINE resolved == ResolvedLinks(e, links)
           path == archive[e].path
<1>1. \A n \in DOMAIN links : links[n].url \in ProperUrls /\ links[n].url \in Urls
  BY DEF ProperLinks, ProperUrls
<1>2. Followed(links) = InsideLinks(links)
  BY <1>1, KindOfUrl DEF Followed, InsideLinks
<1>3. /\ DOMAIN resolved = InsideLinks(links)
      /\ \A n \in InsideLinks(links) : resolved[n] = ResolveLinkTarget(links[n].url, path)
  BY <1>2 DEF ResolvedLinks
<1> HIDE DEF resolved, path
<1>4. ASSUME NEW n \in AbsoluteLinks(links)
      PROVE  resolved[n] = Unresolved("AbsolutePathURL")
  <2> DEFINE url == links[n].url
  <2>1. n \in InsideLinks(links) /\ n \in DOMAIN links
        /\ url.path # EmptyPath /\ Head(url.path) = "" /\ Len(url.marks) < 2
    BY <1>1 DEF AbsoluteLinks, InsideLinks, ProperUrls
  <2> HIDE DEF url
  <2>2. StripFragmentAndOrSearchComponent(url) = url.path
    BY <2>1 DEF StripFragmentAndOrSearchComponent
  <2>3. ResolveLinkTarget(url, path) = Unresolved("AbsolutePathURL")
    BY <2>1, <2>2 DEF ResolveLinkTarget
  <2> QED  BY <1>3, <2>1, <2>3 DEF url
<1>5. ASSUME NEW n \in InsideLinks(links) \ AbsoluteLinks(links)
      PROVE  resolved[n] = IF LeadsOutside(links[n].url, path)
                             THEN Unresolved("OutOfBoundsURL")
                             ELSE Resolved(Target(links[n].url, path))
  <2> DEFINE url == links[n].url
  <2>1. n \in InsideLinks(links) /\ url \in ProperUrls /\ IsRelative(url)
    BY <1>1 DEF AbsoluteLinks, InsideLinks, IsRelative
  <2> HIDE DEF url
  <2>2. path \in ProperPaths
    BY DEF path
  <2>3. ResolveLinkTarget(url, path) = IF LeadsOutside(url, path)
                                         THEN Unresolved("OutOfBoundsURL")
                                         ELSE Resolved(Target(url, path))
    BY <2>1, <2>2, ResolverIsExact
  <2> QED  BY <1>3, <2>1, <2>3 DEF url
<1>6. \A n \in OutsideLinks(links, path) : resolved[n] = Unresolved("OutOfBoundsURL")
  BY <1>5 DEF OutsideLinks
<1>7. \A n \in Landing(links, path) : resolved[n] = Resolved(Target(links[n].url, path))
  BY <1>5 DEF OutsideLinks, Landing
<1> QED
  BY <1>3, <1>4, <1>6, <1>7 DEF resolved, path

\* The links that have no file to lead to.
DanglingOf(links, path) == {n \in Landing(links, path) :
                              Target(links[n].url, path) \notin PathsInArchive}

LEMMA SortedLinks ==
    ASSUME NEW e, NEW links, ProperLinks(links), archive[e].path \in ProperPaths
    PROVE  LET resolved == ResolvedLinks(e, links)
               path == archive[e].path
               D == DOMAIN resolved
           IN  /\ {k \in D : resolved[k].error = "AbsolutePathURL"} = AbsoluteLinks(links)
               /\ {k \in D : resolved[k].error \notin {"none", "AbsolutePathURL"}}
                    = OutsideLinks(links, path)
               /\ DanglingLinks(resolved) = DanglingOf(links, path)
               /\ \A n \in DanglingLinks(resolved) :
                    resolved[n].path = Target(links[n].url, path)
<1> DEFINE resolved == ResolvedLinks(e, links)
           path == archive[e].path
           D == InsideLinks(links)
           A == AbsoluteLinks(links)
           O == OutsideLinks(links, path)
           L == Landing(links, path)
<1>1. /\ DOMAIN resolved = D
      /\ \A n \in A : resolved[n] = Unresolved("AbsolutePathURL")
      /\ \A n \in O : resolved[n] = Unresolved("OutOfBoundsURL")
      /\ \A n \in L : resolved[n] = Resolved(Target(links[n].url, path))
  BY ResolvedAsDue
<1>2. D = A \cup O \cup L
  BY DEF AbsoluteLinks, OutsideLinks, Landing
<1> HIDE DEF resolved, path, D, A, O, L
<1>3. /\ \A n \in A : resolved[n].error = "AbsolutePathURL"
      /\ \A n \in O : resolved[n].error = "OutOfBoundsURL"
      /\ \A n \in L : /\ resolved[n].error = "none"
                      /\ resolved[n].path = Target(links[n].url, path)
  <2>1. \A n \in A : resolved[n].error = "AbsolutePathURL"
    BY <1>1 DEF Unresolved
  <2>2. \A n \in O : resolved[n].error = "OutOfBoundsURL"
    BY <1>1 DEF Unresolved
  <2>3. ASSUME NEW n \in L
        PROVE  resolved[n].error = "none" /\ resolved[n].path = Target(links[n].url, path)
    <3> DEFINE t == Target(links[n].url, path)
    <3>1. resolved[n] = Resolved(t)
      BY <1>1
    <3> HIDE DEF t
    <3>2. resolved[n].error = "none" /\ resolved[n].path = t
      BY <3>1 DEF Resolved
    <3> QED  BY <3>2 DEF t
  <2> QED  BY <2>1, <2>2, <2>3
<1>4. \A k \in D : resolved[k].error = "AbsolutePathURL" <=> k \in A
  BY <1>2, <1>3
<1>5. \A k \in D : resolved[k].error \notin {"none", "AbsolutePathURL"} <=> k \in O
  BY <1>2, <1>3
<1>6. \A k \in D : resolved[k].error = "none" <=> k \in L
  BY <1>2, <1>3
<1>7. DanglingLinks(resolved) = {n \in L : Target(links[n].url, path) \notin PathsInArchive}
  BY <1>1, <1>2, <1>3, <1>6 DEF DanglingLinks
<1>8. A \subseteq D /\ O \subseteq D
  BY <1>2
<1> QED
  BY <1>1, <1>3, <1>4, <1>5, <1>7, <1>8 DEF DanglingOf, resolved, path, D, A, O, L

-----------------------------------------------------------------------------
(* What is due, in terms of the sorted links.                              *)

LinksOf(e) == LinksOfPage(archive[e].page)
WithLinks(e, test) == archive[e].size # 0 /\ archive[e].html /\ IsEnabled(test)

LEMMA DueEmptyEntry ==
    ASSUME NEW e
    PROVE  Due(e, "EMPTY_ENTRY") = IF archive[e].size = 0 /\ archive[e].ns \in {"C", "A", "I"}
                                        /\ IsEnabled("EMPTY") THEN {{}} ELSE {}
  BY DEF Due

LEMMA DueExternal ==
    ASSUME NEW e
    PROVE  Due(e, "EXTERNAL_LINK") =
             IF WithLinks(e, "URL_EXTERNAL")
               THEN {{n} : n \in {k \in DOMAIN LinksOf(e) :
                                    /\ LinksOf(e)[k].name = "src"
                                    /\ IsRemote(LinksOf(e)[k].url)
                                    /\ \/ LinksOf(e)[k].url.scheme # "data"
                                       \/ LinksOf(e)[k].url.authority}}
               ELSE {}
<1> DEFINE links == LinksOf(e)
           S == {k \in {n \in DOMAIN links : IsRemote(links[n].url)} :
                  links[k].name = "src" /\ (links[k].url.scheme # "data" \/ links[k].url.authority)}
<1>1. Due(e, "EXTERNAL_LINK") = IF WithLinks(e, "URL_EXTERNAL") THEN {{n} : n \in S} ELSE {}
  BY DEF Due, LinksOf, WithLinks, IsRemote
<1>2. S = {k \in DOMAIN links : links[k].name = "src" /\ IsRemote(links[k].url)
                                  /\ (links[k].url.scheme # "data" \/ links[k].url.authority)}
  OBVIOUS
<1> HIDE DEF S, links
<1> QED
  BY <1>1, <1>2 DEF links

LEMMA DueInternal ==
    ASSUME NEW e
    PROVE  LET links == LinksOf(e)
               path == archive[e].path
               enabled == WithLinks(e, "URL_INTERNAL")
           IN  /\ Due(e, "ABSPATH_LINK") =
                    IF enabled THEN {{n} : n \in AbsoluteLinks(links)} ELSE {}
               /\ Due(e, "OUTOFBOUNDS_LINK") =
                    IF enabled THEN {{n} : n \in OutsideLinks(links, path)} ELSE {}
               /\ Due(e, "EMPTY_LINKS") =
                    IF enabled
                      THEN {{n \in DOMAIN links : IsEmptyLink(links[n].url)}} \ {{}} ELSE {}
<1> DEFINE links == LinksOf(e)
           path == archive[e].path
           At(n) == links[n].url
           remote == {n \in DOMAIN links : At(n).scheme # "" \/ At(n).authority}
           inside == {n \in DOMAIN links \ remote : At(n).path # EmptyPath}
           absolute == {n \in inside : Head(At(n).path) = ""}
           outside == {n \in inside \ absolute : LeadsOutside(At(n), path)}
           enabled == WithLinks(e, "URL_INTERNAL")
<1>1. Due(e, "ABSPATH_LINK") = IF enabled THEN {{n} : n \in absolute} ELSE {}
  BY DEF Due, LinksOf, WithLinks
<1>2. Due(e, "OUTOFBOUNDS_LINK") = IF enabled THEN {{n} : n \in outside} ELSE {}
  BY DEF Due, LinksOf, WithLinks
<1>3. Due(e, "EMPTY_LINKS") =
        IF enabled THEN {{n \in DOMAIN links : IsEmptyLink(links[n].url)}} \ {{}} ELSE {}
  BY DEF Due, LinksOf, WithLinks
<1>4. inside = InsideLinks(links)
  BY DEF InsideLinks, IsRemote
<1>5. absolute = AbsoluteLinks(links)
  <2> HIDE DEF inside, links
  <2> QED  BY <1>4 DEF AbsoluteLinks
<1>6. outside = OutsideLinks(links, path)
  <2> HIDE DEF inside, absolute, links, path
  <2> QED  BY <1>4, <1>5 DEF OutsideLinks
<1> HIDE DEF inside, absolute, outside, links, path, enabled
<1> QED
  BY <1>1, <1>2, <1>3, <1>5, <1>6 DEF links, path, enabled

\* The links that dangle, grouped by where they lead.
GroupsOf(links, path) ==
    {{n \in DanglingOf(links, path) : Target(links[m].url, path) = Target(links[n].url, path)} :
        m \in DanglingOf(links, path)}

LEMMA DueDangling ==
    ASSUME NEW e
    PROVE  Due(e, "DANGLING_LINKS") =
             IF WithLinks(e, "URL_INTERNAL") THEN GroupsOf(LinksOf(e), archive[e].path) ELSE {}
<1> DEFINE links == LinksOf(e)
           path == archive[e].path
           At(n) == links[n].url
           remote == {n \in DOMAIN links : At(n).scheme # "" \/ At(n).authority}
           inside == {n \in DOMAIN links \ remote : At(n).path # EmptyPath}
           absolute == {n \in inside : Head(At(n).path) = ""}
           outside == {n \in inside \ absolute : LeadsOutside(At(n), path)}
           targets == {[link |-> n, path |-> Target(At(n), path)] :
                          n \in inside \ (absolute \cup outside)}
           dangling == {t \in targets : t.path \notin PathsInArchive}
           groups == {{t.link : t \in {d \in dangling : d.path = p}} :
                        p \in {t.path : t \in dangling}}
           L == Landing(links, path)
           D == DanglingOf(links, path)
           To(n) == Target(links[n].url, path)
<1>1. Due(e, "DANGLING_LINKS") = IF WithLinks(e, "URL_INTERNAL") THEN groups ELSE {}
  BY Zenon DEF Due, LinksOf, WithLinks
<1>2. inside \ (absolute \cup outside) = L
  <2>1. inside = InsideLinks(links)
    BY DEF InsideLinks, IsRemote
  <2>2. absolute = AbsoluteLinks(links)
    <3> HIDE DEF inside, links
    <3> QED  BY <2>1 DEF AbsoluteLinks
  <2>3. outside = OutsideLinks(links, path)
    <3> HIDE DEF inside, absolute, links, path
    <3> QED  BY <2>1, <2>2 DEF OutsideLinks
  <2> HIDE DEF inside, absolute, outside, links, path
  <2> QED  BY <2>1, <2>2, <2>3 DEF Landing
<1>3. targets = {[link |-> n, path |-> To(n)] : n \in L}
  <2> HIDE DEF inside, absolute, outside, links, path
  <2> QED  BY <1>2
<1>4. D = {n \in L : To(n) \notin PathsInArchive}
  BY DEF DanglingOf
<1> HIDE DEF targets, L, D, To, links, path
<1> DEFINE Arrow(n) == [link |-> n, path |-> To(n)]
           P == {t.path : t \in dangling}
           G(p) == {t.link : t \in {d \in dangling : d.path = p}}
<1>a. \A n : Arrow(n).link = n /\ Arrow(n).path = To(n)
  OBVIOUS
<1>b. targets = {Arrow(n) : n \in L}
  BY <1>3
<1> HIDE DEF Arrow
<1>5. dangling = {Arrow(n) : n \in D}
  BY <1>4, <1>a, <1>b
<1>c. groups = {G(p) : p \in P}
  OBVIOUS
<1> HIDE DEF dangling, groups
<1>6. P = {To(n) : n \in D}
  BY <1>5, <1>a
<1>7. ASSUME NEW p
      PROVE  G(p) = {n \in D : p = To(n)}
  BY <1>5, <1>a
<1> HIDE DEF P, G
<1>8. groups = {{n \in D : To(m) = To(n)} : m \in D}
  <2>1. ASSUME NEW g \in groups PROVE \E m \in D : g = {n \in D : To(m) = To(n)}
    <3>1. PICK p \in P : g = G(p)
      BY <1>c
    <3>2. PICK m \in D : p = To(m)
      BY <1>6
    <3> QED  BY <1>7, <3>1, <3>2
  <2>2. ASSUME NEW m \in D PROVE {n \in D : To(m) = To(n)} \in groups
    <3>1. To(m) \in P /\ G(To(m)) = {n \in D : To(m) = To(n)}
      BY <1>6, <1>7
    <3> QED  BY <1>c, <3>1
  <2> QED  BY <2>1, <2>2
<1>9. groups = GroupsOf(links, path)
  BY <1>8 DEF GroupsOf, D, To
<1> QED
  BY Zenon, <1>1, <1>9 DEF links, path

-----------------------------------------------------------------------------
(* What the check of an item reports is what is due.                       *)

LEMMA ProperEntries ==
    ASSUME Setup, ProperRuns, NEW e \in Entries, IsExamined(e)
    PROVE  /\ GetLinks(archive[e].page) = LinksOf(e)
           /\ ProperLinks(LinksOf(e))
           /\ archive[e].path \in ProperPaths
<1>1. PICK run \in Runs : archive = run.archive
  BY DEF Setup
<1>2. archive[e] \in ToSet(run.archive) /\ archive[e].kind = "item"
  BY <1>1 DEF Entries, ToSet, IsExamined
<1>3. ProperItem(archive[e])
  BY <1>1, <1>2 DEF ProperRuns
<1>4. GetLinks(archive[e].page) = LinksOf(e) /\ archive[e].page \in Seq(ProperElements)
  BY <1>3, ScannerIsExact DEF ProperItem, LinksOf
<1>5. archive[e].page \in Seq(Elements)
  BY SetupTypes DEF Items
<1>6. LinksOf(e) \in Seq(Attributes)
  BY <1>4, <1>5, GetLinksTypes
<1> QED
  BY <1>3, <1>4, <1>6 DEF ProperItem, ProperLinks, LinksOf

LEMMA SaidOfInternal ==
    ASSUME NEW e \in Entries, NEW links, ProperLinks(links), archive[e].path \in ProperPaths
    PROVE  LET msgs == InternalLinkMessages(e, links)
               path == archive[e].path
           IN  /\ msgs \in Seq(ItemMessages)
               /\ Said(msgs, "ABSPATH_LINK") = {{n} : n \in AbsoluteLinks(links)}
               /\ Said(msgs, "OUTOFBOUNDS_LINK") = {{n} : n \in OutsideLinks(links, path)}
               /\ Said(msgs, "EMPTY_LINKS")
                    = {{n \in DOMAIN links : IsEmptyLink(links[n].url)}} \ {{}}
               /\ Judged(Said(msgs, "DANGLING_LINKS"), GroupsOf(links, path), options.quick)
               /\ \A id \in {"EMPTY_ENTRY", "EXTERNAL_LINK"} : Said(msgs, id) = {}
<1> DEFINE resolved == ResolvedLinks(e, links)
           path == archive[e].path
           a == UnresolvableMessages(e, links, resolved)
           b == EmptyLinkMessages(e, links)
           c == DanglingMessages(e, links, resolved)
           A == {"ABSPATH_LINK", "OUTOFBOUNDS_LINK"}
           B == {"EMPTY_LINKS"}
           C == {"DANGLING_LINKS"}
           msgs == InternalLinkMessages(e, links)
           D == DOMAIN resolved
<1>1. links \in Seq(Attributes)
  BY DEF ProperLinks
<1>2. /\ {k \in D : resolved[k].error = "AbsolutePathURL"} = AbsoluteLinks(links)
      /\ {k \in D : resolved[k].error \notin {"none", "AbsolutePathURL"}}
           = OutsideLinks(links, path)
      /\ DanglingLinks(resolved) = DanglingOf(links, path)
      /\ \A n \in DanglingLinks(resolved) : resolved[n].path = Target(links[n].url, path)
  BY SortedLinks
<1>3. D \subseteq DOMAIN links /\ DOMAIN links \subseteq Nat
  <2>1. D \subseteq DOMAIN links
    BY DEF ResolvedLinks, Followed
  <2>2. DOMAIN links \subseteq Nat
    BY <1>1
  <2> QED  BY <2>1, <2>2
<1>4. msgs = (a \o b) \o c
  BY DEF InternalLinkMessages
<1> HIDE DEF resolved, path
<1>5. Reports(a, e, A) /\ Reports(b, e, B) /\ Reports(c, e, C)
  <2>1. DOMAIN resolved \subseteq Nat
    BY <1>3
  <2> QED  BY <1>1, <2>1, UnresolvableType, EmptyLinkType, DanglingType
<1>6. /\ Said(a, "ABSPATH_LINK") = {{n} : n \in AbsoluteLinks(links)}
      /\ Said(a, "OUTOFBOUNDS_LINK") = {{n} : n \in OutsideLinks(links, path)}
  <2>1. /\ Said(a, "ABSPATH_LINK") = {{n} : n \in {k \in D : resolved[k].error = "AbsolutePathURL"}}
        /\ Said(a, "OUTOFBOUNDS_LINK")
             = {{n} : n \in {k \in D : resolved[k].error \notin {"none", "AbsolutePathURL"}}}
    BY <1>1, <1>3, SaidOfUnresolvable
  <2> HIDE DEF a
  <2> QED  BY <1>2, <2>1
<1>7. Said(b, "EMPTY_LINKS") = {{n \in DOMAIN links : IsEmptyLink(links[n].url)}} \ {{}}
  BY SaidOfEmptyLinks
<1>8. Judged(Said(c, "DANGLING_LINKS"), GroupsOf(links, path), options.quick)
  <2>1. Judged(Said(c, "DANGLING_LINKS"),
               {GroupOf(resolved, m) : m \in DanglingLinks(resolved)}, options.quick)
    BY <1>1, <1>3, SaidOfDangling
  <2>2. \A m \in DanglingLinks(resolved) : GroupOf(resolved, m) =
          {n \in DanglingOf(links, path) : Target(links[m].url, path) = Target(links[n].url, path)}
    BY <1>2 DEF GroupOf
  <2>3. {GroupOf(resolved, m) : m \in DanglingLinks(resolved)} = GroupsOf(links, path)
    <3> DEFINE X == DanglingOf(links, path)
               G(m) == {n \in X : Target(links[m].url, path) = Target(links[n].url, path)}
    <3>1. DanglingLinks(resolved) = X /\ \A m \in X : GroupOf(resolved, m) = G(m)
      BY <1>2, <2>2
    <3>2. GroupsOf(links, path) = {G(m) : m \in X}
      BY DEF GroupsOf
    <3> HIDE DEF X, G
    <3> QED  BY <3>1, <3>2
  <2> HIDE DEF c
  <2> QED  BY <2>1, <2>3
<1>9. a \in Seq(ItemMessages) /\ b \in Seq(ItemMessages) /\ c \in Seq(ItemMessages)
  BY <1>5 DEF Reports
<1> HIDE DEF a, b, c, msgs
<1>10. msgs \in Seq(ItemMessages)
       /\ \A id : Said(msgs, id) = Said(a, id) \cup Said(b, id) \cup Said(c, id)
  <2>1. a \o b \in Seq(ItemMessages) /\ (a \o b) \o c \in Seq(ItemMessages)
    BY <1>9
  <2>2. ASSUME NEW id PROVE Said(msgs, id) = Said(a, id) \cup Said(b, id) \cup Said(c, id)
    <3>1. Said(a \o b, id) = Said(a, id) \cup Said(b, id)
      BY <1>9, SaidJoined
    <3>2. Said((a \o b) \o c, id) = Said(a \o b, id) \cup Said(c, id)
      <4> DEFINE q == a \o b
      <4>1. q \in Seq(ItemMessages) /\ c \in Seq(ItemMessages)
        BY <1>9, <2>1
      <4> HIDE DEF q
      <4>2. Said(q \o c, id) = Said(q, id) \cup Said(c, id)
        BY <4>1, SaidJoined
      <4> QED  BY <4>2 DEF q
    <3> QED  BY <1>4, <3>1, <3>2
  <2> QED  BY <1>4, <2>1, <2>2
<1>11. /\ \A id : id \notin A => Said(a, id) = {}
       /\ \A id : id \notin B => Said(b, id) = {}
       /\ \A id : id \notin C => Said(c, id) = {}
  <2> HIDE DEF A, B, C
  <2> QED  BY <1>5, SaidByOthers
<1>12. /\ Said(msgs, "ABSPATH_LINK") = Said(a, "ABSPATH_LINK")
       /\ Said(msgs, "OUTOFBOUNDS_LINK") = Said(a, "OUTOFBOUNDS_LINK")
       /\ Said(msgs, "EMPTY_LINKS") = Said(b, "EMPTY_LINKS")
       /\ Said(msgs, "DANGLING_LINKS") = Said(c, "DANGLING_LINKS")
       /\ \A id \in {"EMPTY_ENTRY", "EXTERNAL_LINK"} : Said(msgs, id) = {}
  BY <1>10, <1>11
<1> QED
  BY <1>6, <1>7, <1>8, <1>10, <1>12 DEF msgs, path

IsQuick(id) == options.quick /\ id \in {"DANGLING_LINKS", "EXTERNAL_LINK"}

LEMMA NothingDue ==
    ASSUME NEW quick
    PROVE  Judged({}, {}, quick)
  BY FS_EmptySet DEF Judged

LEMMA ItemJudged ==
    ASSUME Setup, ProperRuns, NEW e \in Entries, IsExamined(e), NEW id \in ItemMessageIds
    PROVE  Judged(Said(MessagesOf(e), id), Due(e, id), IsQuick(id))
<1> DEFINE links == LinksOf(e)
           path == archive[e].path
           empty == archive[e].size = 0
           html == archive[e].html
           x == IF IsEnabled("URL_INTERNAL") THEN InternalLinkMessages(e, links) ELSE <<>>
           y == IF IsEnabled("URL_EXTERNAL") THEN ExternalLinkMessages(e, links) ELSE <<>>
<1>1. /\ GetLinks(archive[e].page) = links
      /\ ProperLinks(links)
      /\ path \in ProperPaths
  BY ProperEntries
<1>2. MessagesOf(e) = IF empty THEN EmptyItemMessages(e)
                      ELSE IF html THEN x \o y ELSE <<>>
  BY <1>1 DEF MessagesOf, LinkMessages
<1>3. id \in {"EMPTY_ENTRY", "ABSPATH_LINK", "OUTOFBOUNDS_LINK", "EMPTY_LINKS",
              "DANGLING_LINKS", "EXTERNAL_LINK"}
  BY DEF ItemMessageIds
<1>4. /\ Due(e, "EMPTY_ENTRY") = IF empty /\ archive[e].ns \in {"C", "A", "I"}
                                     /\ IsEnabled("EMPTY") THEN {{}} ELSE {}
      /\ empty \/ ~html => \A i \in ItemMessageIds \ {"EMPTY_ENTRY"} : Due(e, i) = {}
  <2>1. empty \/ ~html => ~WithLinks(e, "URL_INTERNAL") /\ ~WithLinks(e, "URL_EXTERNAL")
    BY DEF WithLinks
  <2>2. ASSUME empty \/ ~html, NEW i \in ItemMessageIds \ {"EMPTY_ENTRY"} PROVE Due(e, i) = {}
    <3>1. i \in {"ABSPATH_LINK", "OUTOFBOUNDS_LINK", "EMPTY_LINKS", "DANGLING_LINKS",
                 "EXTERNAL_LINK"}
      BY DEF ItemMessageIds
    <3>2. CASE i = "EXTERNAL_LINK"
      BY <2>1, <2>2, <3>2, DueExternal
    <3>3. CASE i = "DANGLING_LINKS"
      BY <2>1, <2>2, <3>3, DueDangling
    <3>4. CASE i \in {"ABSPATH_LINK", "OUTOFBOUNDS_LINK", "EMPTY_LINKS"}
      BY <2>1, <2>2, <3>4, DueInternal
    <3> QED  BY <3>1, <3>2, <3>3, <3>4
  <2> QED  BY <2>2, DueEmptyEntry
<1> HIDE DEF links, path, x, y, html, empty
<1>5. CASE empty
  <2>1. MessagesOf(e) = EmptyItemMessages(e)
    BY <1>2, <1>5
  <2>2. CASE id = "EMPTY_ENTRY"
    <3>1. Said(<<Message("EMPTY_ENTRY", e, {})>>, id) = {{}} /\ Said(<<>>, id) = {}
      BY <2>2, SaidByOne, SaidByNone
    <3>2. Said(MessagesOf(e), id) = Due(e, id) /\ ~IsQuick(id)
      BY <1>4, <1>5, <2>1, <2>2, <3>1 DEF EmptyItemMessages, IsQuick
    <3> QED  BY <3>2 DEF Judged
  <2>3. CASE id # "EMPTY_ENTRY"
    <3>1. Reports(<<Message("EMPTY_ENTRY", e, {})>>, e, {"EMPTY_ENTRY"})
      <4>1. "EMPTY_ENTRY" \in ItemMessageIds /\ {} \in SUBSET Nat
        BY DEF ItemMessageIds
      <4> QED  BY <4>1, OneMessage
    <3>2. Said(<<Message("EMPTY_ENTRY", e, {})>>, id) = {} /\ Said(<<>>, id) = {}
      BY <2>3, <3>1, SaidByOthers, SaidByNone
    <3>3. Said(MessagesOf(e), id) = {} /\ Due(e, id) = {}
      BY <1>4, <1>5, <2>1, <2>3, <3>2 DEF EmptyItemMessages
    <3> QED  BY <3>3, NothingDue
  <2> QED  BY <2>2, <2>3
<1>6. CASE ~empty /\ ~html
  <2>1. Said(MessagesOf(e), id) = {}
    BY <1>2, <1>6, SaidByNone
  <2>2. Due(e, id) = {}
    BY <1>4, <1>6
  <2> QED  BY <2>1, <2>2, NothingDue
<1>7. CASE ~empty /\ html
  <2>1. MessagesOf(e) = x \o y
    BY <1>2, <1>7
  <2>2. /\ WithLinks(e, "URL_INTERNAL") <=> IsEnabled("URL_INTERNAL")
        /\ WithLinks(e, "URL_EXTERNAL") <=> IsEnabled("URL_EXTERNAL")
    BY <1>7 DEF WithLinks, empty, html
  <2>3. /\ InternalLinkMessages(e, links) \in Seq(ItemMessages)
        /\ Said(InternalLinkMessages(e, links), "ABSPATH_LINK")
             = {{n} : n \in AbsoluteLinks(links)}
        /\ Said(InternalLinkMessages(e, links), "OUTOFBOUNDS_LINK")
             = {{n} : n \in OutsideLinks(links, path)}
        /\ Said(InternalLinkMessages(e, links), "EMPTY_LINKS")
             = {{n \in DOMAIN links : IsEmptyLink(links[n].url)}} \ {{}}
        /\ Judged(Said(InternalLinkMessages(e, links), "DANGLING_LINKS"),
                  GroupsOf(links, path), options.quick)
        /\ \A i \in {"EMPTY_ENTRY", "EXTERNAL_LINK"} :
             Said(InternalLinkMessages(e, links), i) = {}
    BY <1>1, SaidOfInternal DEF path
  <2>4. x \in Seq(ItemMessages)
    BY <2>3 DEF x
  <2>5. Reports(ExternalLinkMessages(e, links), e, {"EXTERNAL_LINK"})
    BY <1>1, ExternalType DEF ProperLinks
  <2>6. y \in Seq(ItemMessages) /\ (id # "EXTERNAL_LINK" => Said(y, id) = {})
    <3>1. Reports(y, e, {"EXTERNAL_LINK"})
      BY <2>5, NoMessages DEF y
    <3>2. y \in Seq(ItemMessages)
      BY <3>1 DEF Reports
    <3>3. ASSUME id # "EXTERNAL_LINK" PROVE Said(y, id) = {}
      <4>1. id \notin {"EXTERNAL_LINK"}
        BY <3>3
      <4> QED  BY <3>1, <4>1, SaidByOthers
    <3> QED  BY <3>2, <3>3
  <2>7. Said(MessagesOf(e), id) = Said(x, id) \cup Said(y, id)
    BY <2>1, <2>4, <2>6, SaidJoined
  <2>8. ASSUME ~IsEnabled("URL_INTERNAL") PROVE Said(x, id) = {}
    BY <2>8, SaidByNone DEF x
  <2>9. CASE id = "EXTERNAL_LINK"
    <3>1. Said(x, id) = {}
      BY <2>3, <2>8, <2>9 DEF x
    <3>2. CASE IsEnabled("URL_EXTERNAL")
      <4> DEFINE S == {k \in DOMAIN links : links[k].name = "src" /\ IsExternalUrl(links[k].url)}
                 Z == {k \in DOMAIN links : /\ links[k].name = "src"
                                            /\ IsRemote(links[k].url)
                                            /\ \/ links[k].url.scheme # "data"
                                               \/ links[k].url.authority}
      <4>1. Judged(Said(ExternalLinkMessages(e, links), "EXTERNAL_LINK"),
                   {{n} : n \in S}, options.quick)
        BY <1>1, SaidOfExternal DEF ProperLinks
      <4>2. S = Z
        <5>1. \A k \in DOMAIN links : links[k].url \in Urls
          BY <1>1 DEF ProperLinks, ProperUrls
        <5> QED  BY <5>1, KindOfUrl
      <4>3. Due(e, "EXTERNAL_LINK") = {{n} : n \in Z}
        BY <2>2, <3>2, DueExternal DEF links
      <4> HIDE DEF S, Z
      <4>4. y = ExternalLinkMessages(e, links) /\ (IsQuick(id) <=> options.quick)
        BY <2>9, <3>2 DEF y, IsQuick
      <4>5. Said(MessagesOf(e), id) = Said(ExternalLinkMessages(e, links), "EXTERNAL_LINK")
        BY <2>7, <2>9, <3>1, <4>4
      <4>6. Judged(Said(MessagesOf(e), id), Due(e, id), options.quick)
        BY <2>9, <4>1, <4>2, <4>3, <4>5
      <4> QED  BY <4>4, <4>6 DEF Judged
    <3>3. CASE ~IsEnabled("URL_EXTERNAL")
      <4>1. Said(y, id) = {}
        BY <3>3, SaidByNone DEF y
      <4>2. Due(e, id) = {}
        BY <2>2, <2>9, <3>3, DueExternal
      <4> QED  BY <2>7, <3>1, <4>1, <4>2, NothingDue
    <3> QED  BY <3>2, <3>3
  <2>10. CASE id # "EXTERNAL_LINK"
    <3>1. Said(MessagesOf(e), id) = Said(x, id)
      BY <2>6, <2>7, <2>10
    <3>2. CASE ~IsEnabled("URL_INTERNAL") /\ id # "EMPTY_ENTRY"
      <4>1. Due(e, id) = {}
        BY <1>3, <2>2, <2>10, <3>2, DueInternal, DueDangling
      <4> QED  BY <2>8, <3>1, <3>2, <4>1, NothingDue
    <3>3. CASE IsEnabled("URL_INTERNAL") /\ id = "DANGLING_LINKS"
      <4>1. Due(e, id) = GroupsOf(links, path) /\ (IsQuick(id) <=> options.quick)
        BY <2>2, <3>3, DueDangling DEF IsQuick, links, path
      <4>2. Said(MessagesOf(e), id) = Said(InternalLinkMessages(e, links), "DANGLING_LINKS")
        BY <3>1, <3>3 DEF x
      <4>3. Judged(Said(MessagesOf(e), id), Due(e, id), options.quick)
        BY <2>3, <4>1, <4>2
      <4> QED  BY <4>1, <4>3 DEF Judged
    <3>4. CASE /\ IsEnabled("URL_INTERNAL")
               /\ id \in {"ABSPATH_LINK", "OUTOFBOUNDS_LINK", "EMPTY_LINKS"}
      <4>1. x = InternalLinkMessages(e, links) /\ ~IsQuick(id)
        BY <3>4 DEF x, IsQuick
      <4>2. Said(MessagesOf(e), id) = Due(e, id)
        <5>1. /\ Due(e, "ABSPATH_LINK") = {{n} : n \in AbsoluteLinks(links)}
              /\ Due(e, "OUTOFBOUNDS_LINK") = {{n} : n \in OutsideLinks(links, path)}
              /\ Due(e, "EMPTY_LINKS")
                   = {{n \in DOMAIN links : IsEmptyLink(links[n].url)}} \ {{}}
          BY <2>2, <3>4, DueInternal DEF links, path
        <5> QED  BY <2>3, <3>1, <3>4, <4>1, <5>1
      <4> QED  BY <4>1, <4>2 DEF Judged
    <3>5. CASE id = "EMPTY_ENTRY"
      <4>1. Said(x, id) = {} /\ Due(e, id) = {}
        BY <1>4, <1>7, <2>3, <2>8, <3>5 DEF x
      <4> QED  BY <3>1, <4>1, NothingDue
    <3> QED  BY <1>3, <2>10, <3>2, <3>3, <3>4, <3>5
  <2> QED  BY <2>9, <2>10
<1> QED
  BY <1>5, <1>6, <1>7

\* An empty item and a page with empty links each call for one message.
LEMMA DueOnce ==
    ASSUME NEW e, NEW id \in {"EMPTY_ENTRY", "EMPTY_LINKS"}
    PROVE  Cardinality(Due(e, id)) <= 1
<1> DEFINE D == Due(e, id)
           empty == {n \in DOMAIN LinksOf(e) : IsEmptyLink(LinksOf(e)[n].url)}
<1>1. D \subseteq {{}} \/ D \subseteq {empty}
  <2>1. CASE id = "EMPTY_ENTRY"
    BY <2>1, DueEmptyEntry
  <2>2. CASE id = "EMPTY_LINKS"
    BY <2>2, DueInternal
  <2> QED  BY <2>1, <2>2
<1> HIDE DEF D, empty
<1>2. PICK x : D \subseteq {x}
  BY <1>1
<1>3. D = {} \/ D = {x}
  BY <1>2
<1>4. Cardinality(D) = 0 \/ Cardinality(D) = 1
  BY <1>3, FS_EmptySet, FS_Singleton, Zenon
<1> QED  BY <1>4 DEF D

\* Whatever the archive and however many workers: each link of each item is
\* judged as RFC 3986 has it, and the log says so, once. With --quick it says so
\* of at least one link for each kind of message, and of only one for the kinds
\* that --quick cuts short.
THEOREM MessagesAreExact ==
    ASSUME ProperRuns
    PROVE  Spec => []MessagesExact
<1>1. TypeInv /\ LogOfTheItems /\ LoggedOnce => MessagesExact
  <2> SUFFICES ASSUME TypeInv, LogOfTheItems, LoggedOnce, mpc # "check",
                      NEW e \in Entries, NEW id \in ItemMessageIds
               PROVE  LET due == IF IsExamined(e) THEN Due(e, id) ELSE {}
                          reported == {m.what : m \in {x \in BagToSet(log) :
                                                         x.path = e /\ x.id = id}}
                      IN  /\ ~options.quick => reported = due
                          /\ options.quick =>
                               /\ reported \subseteq due
                               /\ due # {} => reported # {}
                               /\ id \notin {"ABSPATH_LINK", "OUTOFBOUNDS_LINK"}
                                    => Cardinality(reported) <= 1
    BY DEF MessagesExact, LoggedOnce
  <2> DEFINE due == IF IsExamined(e) THEN Due(e, id) ELSE {}
             own == {x \in BagToSet(log) : x.path = e /\ x.id = id}
             reported == {m.what : m \in own}
  <2>1. Setup /\ id # "REDUNDANT_ITEMS"
    BY DEF TypeInv, ItemMessageIds
  <2>2. {m \in BagToSet(log) : m.id # "REDUNDANT_ITEMS"} = UNION {MessageSet(f) : f \in Examined}
    BY DEF LogOfTheItems
  <2>3. \A f \in Examined : \A m \in MessageSet(f) : m.path = f
    BY <2>1, MessageSetPath
  <2>4. own = {m \in UNION {MessageSet(f) : f \in Examined} : m.path = e /\ m.id = id}
    BY <2>1, <2>2
  <2>5. e \in Examined <=> IsExamined(e)
    BY DEF Examined
  <2>6. own = IF IsExamined(e) THEN {m \in MessageSet(e) : m.id = id} ELSE {}
    <3> HIDE DEF own
    <3> QED  BY <2>3, <2>4, <2>5
  <2>7. reported = IF IsExamined(e) THEN Said(MessagesOf(e), id) ELSE {}
    <3> HIDE DEF own
    <3> QED  BY <2>6 DEF Said, MessageSet
  <2>8. Judged(reported, due, IsQuick(id))
    <3> HIDE DEF reported
    <3>1. CASE IsExamined(e)
      BY <2>1, <2>7, <3>1, ItemJudged
    <3>2. CASE ~IsExamined(e)
      BY <2>7, <3>2, NothingDue
    <3> QED  BY <3>1, <3>2
  <2> HIDE DEF due, reported
  <2>9. id \in {"EMPTY_ENTRY", "EMPTY_LINKS"} => Cardinality(due) <= 1
    <3> DEFINE D == Due(e, id)
    <3>1. ASSUME id \in {"EMPTY_ENTRY", "EMPTY_LINKS"} PROVE Cardinality(D) <= 1
      BY <3>1, DueOnce
    <3> HIDE DEF D
    <3>2. due = D \/ due = {}
      BY DEF due, D
    <3> HIDE DEF due
    <3> QED  BY <3>1, <3>2, FS_EmptySet
  <2> HIDE DEF due, reported
  <2>10. CASE IsQuick(id)
    <3>1. /\ reported \subseteq due
          /\ Cardinality(reported) = (IF due = {} THEN 0 ELSE 1)
      BY <2>8, <2>10 DEF Judged
    <3>2. due # {} => reported # {}
      BY <3>1, FS_EmptySet
    <3> QED  BY <2>10, <3>1, <3>2 DEF IsQuick, due, reported
  <2>11. CASE ~IsQuick(id)
    <3>1. reported = due
      BY <2>8, <2>11 DEF Judged
    <3>2. options.quick /\ id \notin {"ABSPATH_LINK", "OUTOFBOUNDS_LINK"}
            => Cardinality(reported) <= 1
      BY <2>9, <2>11, <3>1 DEF IsQuick, ItemMessageIds
    <3> QED  BY <3>1, <3>2 DEF due, reported
  <2> QED  BY <2>10, <2>11
<1> QED
  BY <1>1, TypeInvariant, LogIsThatOfTheItems, NoMessageTwice, PTL

=============================================================================
