--------------------------- MODULE PageStoreProofs ---------------------------
(***************************************************************************)
(* StoreSafe holds of every behaviour of the page store, for any number of *)
(* pages, host blocks and values, both eviction policies, any queue depth  *)
(* and any number of writers.  The holder's view rests on pages that are   *)
(* not in use being empty, the files' on the order in which the writers    *)
(* take tasks: for every page the last task on its way carries the last    *)
(* value that was persisted, and one writer has it.                        *)
(***************************************************************************)
EXTENDS PageStore, WellFoundedInduction, TLAPS

Contents == PageValues \cup {Zero, Gone}
PageRecords == [used : BOOLEAN, ref : 0 .. 2, data : Contents, dirty : BOOLEAN, bit : BOOLEAN]
Tasks == StorePages \X Contents

PageTypes ==
  /\ setup \in StoreConfigs /\ hand \in StorePages /\ writes \in 0 .. MaxWrites
  /\ page \in [StorePages -> PageRecords] /\ expect \in [StorePages -> Contents]
  /\ host \in [Hosts -> [used : BOOLEAN, data : Contents]]

\* Every page is somewhere in the order of use.
RecencyTypes ==
  /\ recency \in [1 .. NStore -> StorePages]
  /\ \A p \in StorePages : \E i \in 1 .. NStore : recency[i] = p

WriterTypes ==
  /\ files \in [StorePages -> Contents] /\ sent \in [StorePages -> Contents]
  /\ tasks \in Seq(Tasks) /\ persisting \in Tasks \cup {NoTask}
  /\ holding \in [1 .. setup.workers -> Tasks \cup {NoTask}]
  /\ behind \subseteq StorePages /\ QueueWithinDepth

\* A page in use holds what its holder put there, and no other page holds anything.
PageInv ==
  /\ \A p \in StorePages : IF page[p].used THEN page[p].data = expect[p] /\ page[p].data # Gone
                           ELSE page[p].data = Gone
  /\ \A h \in Hosts : host[h].used => host[h].data # Gone

\* Page p has no task in the queue after the i-th.
LastFrom(p, i) == \A j \in 1 .. Len(tasks) : j > i => tasks[j][1] # p

\* Unless the page is behind one writer at a time has it, and with it, or on the device,
\* the last value persisted.
LoneWriter(p) ==
  p \notin behind =>
    \A v, w \in 1 .. setup.workers : holding[v][1] = p /\ holding[w][1] = p => v = w
Written(p) ==
  p \notin behind =>
    /\ \A w \in 1 .. setup.workers : holding[w][1] = p => holding[w][2] = sent[p]
    /\ (\A w \in 1 .. setup.workers : holding[w][1] # p) => files[p] = sent[p]

\* The last task for a page carries the last value persisted for it: it is the one that
\* waits for room, the last of the queue, a writer's, or done.
SentInv(p) ==
  /\ persisting[1] = p => persisting[2] = sent[p]
  /\ persisting[1] # p =>
       /\ \A i \in 1 .. Len(tasks) : tasks[i][1] = p /\ LastFrom(p, i) => tasks[i][2] = sent[p]
       /\ LastFrom(p, 0) => Written(p)
  /\ LoneWriter(p)
FilesInv == \A p \in StorePages : SentInv(p)

StoreIInv == PageTypes /\ RecencyTypes /\ WriterTypes /\ PageInv /\ FilesInv

-----------------------------------------------------------------------------
(* The eviction candidate.                                                 *)

\* A non-empty set of natural numbers has a least member.
LEMMA LeastNumber ==
  ASSUME NEW S \in SUBSET Nat, S # {}
  PROVE  \E x \in S : \A y \in S : x =< y
<1> DEFINE R == {ss \in Nat \X Nat : ss[1] < ss[2]}
<1>1. IsWellFoundedOn(R, Nat)
  BY NatLessThanWellFounded, Zenon DEF OpToRel
<1>2. \E x \in S : \A y \in S : ~(<<y, x>> \in R)
  <2> HIDE DEF R
  <2>1. S \subseteq Nat
    OBVIOUS
  <2> QED BY <1>1, <2>1, WFMin, Zenon
<1>3. \A x, y \in S : y < x => <<y, x>> \in R
  OBVIOUS
<1> HIDE DEF R
<1>4. \E x \in S : \A y \in S : ~(y < x)
  BY <1>2, <1>3, Zenon
<1>5. \A x, y \in S : ~(y < x) => x =< y
  OBVIOUS
<1> QED BY <1>4, <1>5, Zenon

\* The clock's hand goes round the pages.
LEMMA Wraps ==
  ASSUME NEW n \in Nat \ {0}
  PROVE  /\ \A k \in Nat : k % n \in 0 .. n - 1
         /\ \A p \in 0 .. n - 1 : (n + p) % n = p /\ (2 * n + p) % n = p
OBVIOUS

\* The second turn of the clock meets every page.
LEMMA ClockMeets ==
  ASSUME StoreIInv, NEW p \in StorePages
  PROVE  \E i \in NStore + 1 .. 2 * NStore : ClockOrder[i] = p
<1>1. NStore \in Nat \ {0} /\ hand \in 0 .. NStore - 1 /\ p \in 0 .. NStore - 1
  BY StoreAssumption DEF StoreIInv, PageTypes, StorePages
<1>2. CASE p >= hand
  <2>1. NStore + 1 + p - hand \in NStore + 1 .. 2 * NStore
    BY <1>1, <1>2
  <2>2. ClockOrder[NStore + 1 + p - hand] = (NStore + p) % NStore
    BY <1>1, <2>1 DEF ClockOrder
  <2> QED BY <1>1, <2>1, <2>2, Wraps, Zenon
<1>3. CASE p < hand
  <2>1. 2 * NStore + 1 + p - hand \in NStore + 1 .. 2 * NStore
    BY <1>1, <1>3
  <2>2. ClockOrder[2 * NStore + 1 + p - hand] = (2 * NStore + p) % NStore
    BY <1>1, <2>1 DEF ClockOrder
  <2> QED BY <1>1, <2>1, <2>2, Wraps, Zenon
<1> QED BY <1>1, <1>2, <1>3

\* Both policies pick a free page when there is one.
LEMMA CandidateFree ==
  ASSUME StoreIInv, FreePages # {}
  PROVE  Candidate \in FreePages
<1>1. PICK p \in StorePages : p \in FreePages
  BY DEF FreePages
<1>2. CASE setup.policy = "clock"
  <2> DEFINE clear(i) == ClockOrder[i] \in FreePages /\ (~page[ClockOrder[i]].bit \/ i > NStore)
             S == {i \in 1 .. 2 * NStore : clear(i)}
  <2>1. \E i \in 1 .. 2 * NStore : clear(i)
    BY <1>1, ClockMeets, StoreAssumption
  <2>2. S \in SUBSET Nat /\ S # {}
    BY <2>1
  <2>3. PICK i \in S : \A j \in S : i =< j
    <3> HIDE DEF S
    <3> QED BY <2>2, LeastNumber
  <2>4. i \in 1 .. 2 * NStore /\ clear(i) /\ \A j \in 1 .. i - 1 : ~clear(j)
    BY <2>3, StoreAssumption
  <2>5. \E k \in 1 .. 2 * NStore : clear(k) /\ \A j \in 1 .. k - 1 : ~clear(j)
    BY <2>4
  <2>6. ClockStop = CHOOSE k \in 1 .. 2 * NStore : clear(k) /\ \A j \in 1 .. k - 1 : ~clear(j)
    BY Zenon DEF ClockStop
  <2>7. clear(ClockStop)
    <3> HIDE DEF clear
    <3> QED BY <2>5, <2>6
  <2> QED BY <1>2, <2>7 DEF Candidate
<1>3. CASE setup.policy # "clock"
  <2> DEFINE free(i) == recency[i] \in FreePages
             S == {i \in 1 .. NStore : free(i)}
  <2>1. \E i \in 1 .. NStore : free(i)
    BY <1>1 DEF StoreIInv, RecencyTypes
  <2>2. S \in SUBSET Nat /\ S # {}
    BY <2>1
  <2>3. PICK i \in S : \A j \in S : i =< j
    <3> HIDE DEF S
    <3> QED BY <2>2, LeastNumber
  <2>4. i \in 1 .. NStore /\ free(i) /\ \A j \in 1 .. i - 1 : ~free(j)
    BY <2>3, StoreAssumption
  <2>5. \E k \in 1 .. NStore : free(k) /\ \A j \in 1 .. k - 1 : ~free(j)
    BY <2>4
  <2>6. OldestFree = CHOOSE k \in 1 .. NStore : free(k) /\ \A j \in 1 .. k - 1 : ~free(j)
    BY Zenon DEF OldestFree
  <2>7. free(OldestFree)
    <3> HIDE DEF free
    <3> QED BY <2>5, <2>6
  <2> QED BY <1>3, <2>7 DEF Candidate
<1> QED BY <1>2, <1>3

\* Using a page keeps every page in the order of use.
LEMMA TouchKeeps ==
  ASSUME StoreIInv, NEW p \in StorePages, Touch(p)
  PROVE  RecencyTypes'
<1>1. RecencyTypes /\ NStore \in Nat \ {0}
  BY StoreAssumption DEF StoreIInv
<1> DEFINE at == CHOOSE i \in 1 .. NStore : recency[i] = p
<1>2. at \in 1 .. NStore /\ recency[at] = p
  BY <1>1 DEF RecencyTypes
<1> DEFINE moved == [i \in 1 .. NStore |-> IF i = NStore THEN p
                                           ELSE IF i < at THEN recency[i] ELSE recency[i + 1]]
<1>3. recency' = recency \/ recency' = moved
  BY Zenon DEF Touch, MovedToEnd
<1> HIDE DEF at
<1>4. recency' \in [1 .. NStore -> StorePages]
  <2>1. ASSUME NEW i \in 1 .. NStore
        PROVE  (IF i = NStore THEN p ELSE IF i < at THEN recency[i] ELSE recency[i + 1])
               \in StorePages
    BY <1>1 DEF RecencyTypes
  <2>2. moved \in [1 .. NStore -> StorePages]
    BY <2>1, Zenon
  <2> HIDE DEF moved
  <2> QED BY <1>1, <1>3, <2>2, Zenon DEF RecencyTypes
<1>5. ASSUME NEW q \in StorePages PROVE \E i \in 1 .. NStore : recency'[i] = q
  <2>1. PICK i \in 1 .. NStore : recency[i] = q
    BY <1>1 DEF RecencyTypes
  <2>2. CASE recency' = recency
    BY <2>1, <2>2
  <2>3. CASE q = p /\ recency' # recency
    <3>1. moved[NStore] = p
      BY <1>1
    <3> HIDE DEF moved
    <3> QED BY <1>1, <1>3, <2>3, <3>1
  <2>4. CASE q # p /\ i < at /\ recency' # recency
    BY <1>1, <1>2, <1>3, <2>1, <2>4
  <2>5. CASE q # p /\ i > at /\ recency' # recency
    <3>1. i - 1 \in 1 .. NStore /\ i - 1 # NStore /\ ~(i - 1 < at)
      BY <1>1, <1>2, <2>5
    <3>2. moved[i - 1] = recency[i]
      BY <2>5, <3>1
    <3> HIDE DEF moved
    <3> QED BY <1>3, <2>1, <2>5, <3>1, <3>2
  <2> QED BY <1>1, <1>2, <2>1, <2>2, <2>3, <2>4, <2>5
<1> QED BY <1>4, <1>5 DEF RecencyTypes

-----------------------------------------------------------------------------
(* Frames.                                                                 *)

\* The values the cache writes, and the marks for none, are contents of a page.
LEMMA ContentsFacts ==
  /\ Zero \in Contents /\ Gone \in Contents /\ Zero # Gone
  /\ \A v \in 1 .. MaxWrites : v \in Contents /\ v # Gone
  /\ \A p \in StorePages : NoTask[1] # p
BY StoreAssumption DEF Contents, PageValues, Zero, Gone, NoTask, StorePages

\* A step that leaves the writer alone.
LEMMA SameWriter ==
  ASSUME StoreIInv, UNCHANGED <<setup, files, tasks, holding, behind, persisting, sent>>
  PROVE  WriterTypes' /\ FilesInv'
<1>1. WriterTypes'
  BY DEF StoreIInv, WriterTypes, QueueWithinDepth
<1>2. FilesInv'
  BY DEF StoreIInv, FilesInv, SentInv, LastFrom, Written, LoneWriter
<1> QED BY <1>1, <1>2

\* A step that leaves the pages alone.
LEMMA SamePages ==
  ASSUME StoreIInv, UNCHANGED <<setup, page, recency, hand, host, expect, writes>>
  PROVE  PageTypes' /\ RecencyTypes' /\ PageInv'
BY DEF StoreIInv, PageTypes, RecencyTypes, PageInv

\* A step that writes one page and what its holder may expect of it.
LEMMA OnePage ==
  ASSUME StoreIInv, NEW p \in StorePages, NEW r \in PageRecords, NEW e \in Contents,
         page' = [page EXCEPT ![p] = r], expect' = [expect EXCEPT ![p] = e],
         IF r.used THEN r.data = e /\ r.data # Gone ELSE r.data = Gone
  PROVE  /\ page' \in [StorePages -> PageRecords] /\ expect' \in [StorePages -> Contents]
         /\ \A q \in StorePages :
              IF page'[q].used THEN page'[q].data = expect'[q] /\ page'[q].data # Gone
              ELSE page'[q].data = Gone
<1>1. PageTypes /\ PageInv
  BY DEF StoreIInv
<1>2. page' \in [StorePages -> PageRecords] /\ expect' \in [StorePages -> Contents]
  BY <1>1 DEF PageTypes
<1>3. page'[p] = r /\ expect'[p] = e
  BY <1>1 DEF PageTypes
<1>4. \A q \in StorePages \ {p} : page'[q] = page[q] /\ expect'[q] = expect[q]
  BY <1>1 DEF PageTypes
<1>5. \A q \in StorePages \ {p} :
        IF page[q].used THEN page[q].data = expect[q] /\ page[q].data # Gone
        ELSE page[q].data = Gone
  BY <1>1 DEF PageInv
<1> QED BY <1>2, <1>3, <1>4, <1>5

\* The same when nothing else of the cache but its order of use changes.
LEMMA OnePageOnly ==
  ASSUME StoreIInv, NEW p \in StorePages, NEW r \in PageRecords, NEW e \in Contents,
         page' = [page EXCEPT ![p] = r], expect' = [expect EXCEPT ![p] = e],
         IF r.used THEN r.data = e /\ r.data # Gone ELSE r.data = Gone,
         UNCHANGED <<setup, hand, host, writes>>
  PROVE  PageTypes' /\ PageInv'
<1>1. /\ page' \in [StorePages -> PageRecords] /\ expect' \in [StorePages -> Contents]
      /\ \A q \in StorePages :
           IF page'[q].used THEN page'[q].data = expect'[q] /\ page'[q].data # Gone
           ELSE page'[q].data = Gone
  BY OnePage, Zenon
<1> QED BY <1>1 DEF StoreIInv, PageTypes, PageInv

\* PersistPage: the value that waits is the page's last one.
LEMMA PersistKeeps ==
  ASSUME StoreIInv, Unlocked, NEW p \in StorePages, NEW v \in Contents, Persist(p, v),
         UNCHANGED <<setup, files, tasks, holding, behind>>
  PROVE  WriterTypes' /\ FilesInv'
<1>1. CASE ~offloading
  BY <1>1, SameWriter DEF Persist
<1>2. CASE offloading
  <2>1. persisting = NoTask /\ persisting' = <<p, v>> /\ sent' = [sent EXCEPT ![p] = v]
    BY <1>2 DEF Persist, Unlocked
  <2>2. WriterTypes'
    BY <2>1 DEF StoreIInv, WriterTypes, QueueWithinDepth, Tasks
  <2>3. sent'[p] = v /\ \A q \in StorePages \ {p} : sent'[q] = sent[q]
    BY <2>1 DEF StoreIInv, WriterTypes
  <2>4. SentInv(p)'
    BY <2>1, <2>3 DEF StoreIInv, FilesInv, SentInv, LoneWriter
  <2>5. ASSUME NEW q \in StorePages \ {p}, SentInv(q) PROVE SentInv(q)'
    <3>1. persisting[1] # q
      BY <2>1, ContentsFacts
    <3> QED BY <2>1, <2>3, <2>5, <3>1 DEF SentInv, LastFrom, Written, LoneWriter
  <2> QED BY <2>2, <2>4, <2>5 DEF StoreIInv, FilesInv
<1> QED BY <1>1, <1>2

-----------------------------------------------------------------------------
(* Every action preserves StoreIInv.                                       *)

\* A reservation takes a free page, which is empty, and fills it with zeroes.
LEMMA ReservePageStep ==
  ASSUME StoreIInv, ReservePage
  PROVE  StoreIInv'
<1>1. PICK p \in FreePages : p = Candidate
  BY CandidateFree DEF ReservePage
<1>2. p \in StorePages /\ page[p].data = Gone /\ FreshData(p) = Zero
  BY <1>1 DEF FreePages, FreshData, StoreIInv, PageInv
<1> DEFINE r == [used |-> TRUE, ref |-> 1, data |-> Zero, dirty |-> FALSE, bit |-> Marked]
<1>3. /\ page' = [q \in StorePages |->
                    IF q = p THEN r
                    ELSE IF setup.policy = "clock" /\ q \in ClockCleared
                         THEN [page[q] EXCEPT !.bit = FALSE] ELSE page[q]]
      /\ hand' = (IF setup.policy = "clock" THEN (p + 1) % NStore ELSE hand)
      /\ Touch(p) /\ expect' = [expect EXCEPT ![p] = Zero]
      /\ UNCHANGED <<setup, host, files, offloading, tasks, holding, behind, persisting, sent,
             writes>>
  BY <1>1, <1>2 DEF ReservePage
<1>4. page \in [StorePages -> PageRecords] /\ expect \in [StorePages -> Contents]
  BY DEF StoreIInv, PageTypes
<1>5. r \in PageRecords
  BY ContentsFacts DEF PageRecords, Marked
<1> HIDE DEF r
<1>6. ASSUME NEW q \in StorePages, q # p
      PROVE  /\ page'[q] \in PageRecords /\ expect'[q] = expect[q]
             /\ page'[q].used = page[q].used /\ page'[q].data = page[q].data
  <2>1. page'[q] = page[q] \/ page'[q] = [page[q] EXCEPT !.bit = FALSE]
    BY <1>3, <1>6
  <2>2. page[q] \in PageRecords
    BY <1>4
  <2>3. CASE page'[q] = [page[q] EXCEPT !.bit = FALSE]
    BY <1>3, <1>4, <1>6, <2>2, <2>3, Zenon DEF PageRecords
  <2>4. CASE page'[q] = page[q]
    BY <1>3, <1>4, <1>6, <2>2, <2>4, Zenon
  <2> QED BY <2>1, <2>3, <2>4
<1>7. page'[p] = r /\ expect'[p] = Zero
  BY <1>2, <1>3, <1>4
<1>8. page' \in [StorePages -> PageRecords] /\ expect' \in [StorePages -> Contents]
  <2>1. \A q \in StorePages : page'[q] \in PageRecords
    BY <1>5, <1>6, <1>7
  <2>2. page' = [q \in StorePages |-> page'[q]]
    BY <1>3
  <2> QED BY <1>2, <1>3, <1>4, <2>1, <2>2, ContentsFacts
<1>9. PageTypes'
  <2>1. hand' \in StorePages
    <3>1. p + 1 \in Nat /\ NStore \in Nat \ {0}
      BY <1>2, StoreAssumption DEF StorePages
    <3>2. (p + 1) % NStore \in StorePages
      BY <3>1, Wraps, Zenon DEF StorePages
    <3> QED BY <1>3, <3>2 DEF StoreIInv, PageTypes
  <2> QED BY <1>3, <1>8, <2>1 DEF StoreIInv, PageTypes
<1>10. PageInv'
  <2>1. r.used = TRUE /\ r.data = Zero
    BY DEF r
  <2> QED BY <1>3, <1>6, <1>7, <2>1, ContentsFacts DEF StoreIInv, PageInv
<1> QED BY <1>2, <1>3, <1>9, <1>10, TouchKeeps, SameWriter DEF StoreIInv

\* Sharing a page counts the reference.
LEMMA SharePageStep ==
  ASSUME StoreIInv, NEW p \in StorePages, SharePage(p)
  PROVE  StoreIInv'
<1>1. PICK r \in PageRecords : r = [page[p] EXCEPT !.ref = @ + 1]
  BY DEF StoreIInv, PageTypes, PageRecords, SharePage
<1>2. page' = [page EXCEPT ![p] = r] /\ expect' = [expect EXCEPT ![p] = expect[p]]
  BY <1>1 DEF StoreIInv, PageTypes, SharePage
<1>3. r.used = page[p].used /\ r.data = page[p].data
  BY <1>1 DEF StoreIInv, PageTypes, PageRecords
<1>4. /\ IF r.used THEN r.data = expect[p] /\ r.data # Gone ELSE r.data = Gone
      /\ expect[p] \in Contents
  BY <1>3 DEF StoreIInv, PageInv, PageTypes
<1>5. UNCHANGED <<setup, hand, host, writes, recency, files, tasks, holding, behind,
       persisting, sent>>
  BY DEF SharePage
<1>6. PageTypes' /\ PageInv'
  BY <1>2, <1>4, <1>5, OnePageOnly, Zenon
<1> QED BY <1>5, <1>6, SameWriter DEF StoreIInv, RecencyTypes

\* The last release persists a dirty page and empties it.
LEMMA ReleaseStorePageStep ==
  ASSUME StoreIInv, NEW p \in StorePages, ReleaseStorePage(p)
  PROVE  StoreIInv'
<1>1. page[p] \in PageRecords /\ expect[p] \in Contents
  BY DEF StoreIInv, PageTypes
<1>2. UNCHANGED <<setup, recency, hand, host, files, tasks, holding, behind,
       writes>> /\ Unlocked
  BY DEF ReleaseStorePage
<1>3. WriterTypes' /\ FilesInv'
  <2>1. CASE UNCHANGED <<persisting, sent>>
    BY <1>2, <2>1, SameWriter
  <2>2. CASE Persist(p, page[p].data)
    BY <1>1, <1>2, <2>2, PersistKeeps DEF PageRecords
  <2> QED BY <2>1, <2>2 DEF ReleaseStorePage
<1>4. CASE page[p].ref > 1
  <2>1. PICK r \in PageRecords : r = [page[p] EXCEPT !.ref = @ - 1]
    <3>1. page[p].ref - 1 \in 0 .. 2
      BY <1>1, <1>4 DEF PageRecords
    <3> QED BY <1>1, <3>1, Zenon DEF PageRecords
  <2>2. page' = [page EXCEPT ![p] = r] /\ expect' = [expect EXCEPT ![p] = expect[p]]
    BY <1>4, <2>1 DEF StoreIInv, PageTypes, ReleaseStorePage
  <2>3. r.used = page[p].used /\ r.data = page[p].data
    BY <1>1, <2>1 DEF PageRecords
  <2>4. IF r.used THEN r.data = expect[p] /\ r.data # Gone ELSE r.data = Gone
    BY <2>3 DEF StoreIInv, PageInv
  <2>5. PageTypes' /\ PageInv'
    BY <1>1, <1>2, <2>2, <2>4, OnePageOnly, Zenon
  <2> QED BY <1>2, <1>3, <2>5 DEF StoreIInv, RecencyTypes
<1>5. CASE ~(page[p].ref > 1)
  <2> DEFINE r == [used |-> FALSE, ref |-> 0, data |-> Gone, dirty |-> FALSE, bit |-> FALSE]
  <2>1. page' = [page EXCEPT ![p] = r] /\ expect' = [expect EXCEPT ![p] = Gone]
    BY <1>5 DEF ReleaseStorePage
  <2>2. r \in PageRecords /\ Gone \in Contents /\ ~r.used /\ r.data = Gone
    BY ContentsFacts DEF PageRecords
  <2> HIDE DEF r
  <2>3. PageTypes' /\ PageInv'
    BY <1>2, <2>1, <2>2, OnePageOnly, Zenon
  <2> QED BY <1>2, <1>3, <2>3 DEF StoreIInv, RecencyTypes
<1> QED BY <1>4, <1>5

\* A write changes the page and what its holder expects alike.
LEMMA WritePageStep ==
  ASSUME StoreIInv, NEW p \in StorePages, WritePage(p)
  PROVE  StoreIInv'
<1>1. writes' \in 1 .. MaxWrites /\ writes' \in Contents /\ writes' # Gone
  <2>1. writes' \in 1 .. MaxWrites
    BY StoreAssumption DEF WritePage, StoreIInv, PageTypes
  <2> QED BY <2>1, ContentsFacts
<1>2. PICK r \in PageRecords :
        r = [page[p] EXCEPT !.data = writes', !.dirty = TRUE, !.bit = Marked]
  BY <1>1, Zenon DEF StoreIInv, PageTypes, PageRecords, Marked
<1>3. page' = [page EXCEPT ![p] = r] /\ expect' = [expect EXCEPT ![p] = writes']
  BY <1>2 DEF WritePage
<1>4. r.used /\ r.data = writes'
  BY <1>2 DEF WritePage, StoreIInv, PageTypes, PageRecords
<1>5. UNCHANGED <<setup, hand, host, files, tasks, holding,
       behind>> /\ Unlocked /\ Persist(p, writes')
  BY DEF WritePage
<1>6. WriterTypes' /\ FilesInv'
  BY <1>1, <1>5, PersistKeeps
<1>7. RecencyTypes'
  BY TouchKeeps DEF WritePage
<1>8. writes' \in 0 .. MaxWrites
  BY <1>1
<1> QED BY <1>1, <1>3, <1>4, <1>5, <1>6, <1>7, <1>8, OnePage DEF StoreIInv, PageTypes, PageInv

\* A read finds the data in memory: a page in use is never empty.
LEMMA ReadPageStep ==
  ASSUME StoreIInv, NEW p \in StorePages, ReadPage(p)
  PROVE  StoreIInv'
<1>1. /\ page[p] \in PageRecords /\ expect[p] \in Contents /\ page[p].used
      /\ page[p].data = expect[p] /\ page[p].data # Gone
  BY DEF StoreIInv, PageTypes, PageInv, ReadPage
<1>2. PICK r \in PageRecords : r = [page[p] EXCEPT !.bit = Marked]
  BY <1>1, Zenon DEF PageRecords, Marked
<1>3. r.used /\ r.data = page[p].data
  BY <1>1, <1>2 DEF PageRecords
<1>4. page' = [page EXCEPT ![p] = r]
  <2>1. page' = [page EXCEPT ![p] = [page[p] EXCEPT !.bit = Marked, !.data = page[p].data]]
    BY <1>1 DEF ReadPage
  <2>2. [page[p] EXCEPT !.bit = Marked, !.data = page[p].data] = r
    BY <1>1, <1>2, Zenon DEF PageRecords
  <2> QED BY <2>1, <2>2, Zenon
<1>5. expect' = [expect EXCEPT ![p] = expect[p]]
  BY DEF ReadPage, StoreIInv, PageTypes
<1>6. RecencyTypes'
  BY TouchKeeps DEF ReadPage
<1>7. UNCHANGED <<setup, hand, host, writes, files, tasks, holding, behind, persisting, sent>>
  BY DEF ReadPage
<1>8. PageTypes' /\ PageInv'
  BY <1>1, <1>3, <1>4, <1>5, <1>7, OnePageOnly, Zenon
<1> QED BY <1>6, <1>7, <1>8, SameWriter DEF StoreIInv

\* A swapped-out page leaves its data in a host block and is empty.
LEMMA SwapOutPageStep ==
  ASSUME StoreIInv, NEW p \in StorePages, SwapOutPage(p)
  PROVE  StoreIInv'
<1>1. /\ page[p] \in PageRecords /\ page[p].used /\ page[p].data \in Contents
      /\ page[p].data # Gone
  BY DEF StoreIInv, PageTypes, PageInv, SwapOutPage, PageRecords
<1>2. UNCHANGED <<setup, recency, hand, files, tasks, holding, behind, persisting, sent,
       writes>>
  BY DEF SwapOutPage
<1>3. PICK r \in PageRecords :
        r = [page[p] EXCEPT !.used = FALSE, !.data = Gone, !.dirty = FALSE, !.bit = FALSE]
  BY <1>1, ContentsFacts, Zenon DEF PageRecords
<1>4. page' = [page EXCEPT ![p] = r] /\ expect' = [expect EXCEPT ![p] = Gone]
  BY <1>3 DEF SwapOutPage
<1>5. ~r.used /\ r.data = Gone
  BY <1>1, <1>3 DEF PageRecords
<1>6. /\ page' \in [StorePages -> PageRecords] /\ expect' \in [StorePages -> Contents]
      /\ \A q \in StorePages :
           IF page'[q].used THEN page'[q].data = expect'[q] /\ page'[q].data # Gone
           ELSE page'[q].data = Gone
  BY <1>4, <1>5, ContentsFacts, OnePage, Zenon
<1>7. PICK h : host' = [host EXCEPT ![h] = [used |-> TRUE, data |-> page[p].data]]
  BY Zenon DEF SwapOutPage
<1>8. host \in [Hosts -> [used : BOOLEAN, data : Contents]] /\
      \A g \in Hosts : host[g].used => host[g].data # Gone
  BY DEF StoreIInv, PageTypes, PageInv
<1>9. host' \in [Hosts -> [used : BOOLEAN, data : Contents]] /\
      \A g \in Hosts : host'[g].used => host'[g].data # Gone
  BY <1>1, <1>7, <1>8, Zenon
<1>10. PageTypes' /\ PageInv'
  BY <1>2, <1>6, <1>9 DEF StoreIInv, PageTypes, PageInv
<1> QED BY <1>2, <1>10, SameWriter DEF StoreIInv, RecencyTypes

\* A swapped-in page holds what the host block held.
LEMMA SwapInPageStep ==
  ASSUME StoreIInv, NEW p \in StorePages, NEW h \in Hosts, SwapInPage(h, p)
  PROVE  StoreIInv'
<1>1. page[p] \in PageRecords /\ page[p].used /\ host[h].data \in Contents /\ host[h].data # Gone
  BY DEF StoreIInv, PageTypes, PageInv, SwapInPage
<1>2. UNCHANGED <<setup, hand, files, tasks, holding, behind, persisting, sent,
       writes>> /\ Touch(p)
  BY DEF SwapInPage
<1>3. PICK r \in PageRecords : r = [page[p] EXCEPT !.data = host[h].data, !.dirty = TRUE]
  BY <1>1, Zenon DEF PageRecords
<1>4. page' = [page EXCEPT ![p] = r] /\ expect' = [expect EXCEPT ![p] = host[h].data]
  BY <1>3 DEF SwapInPage
<1>5. r.used /\ r.data = host[h].data
  BY <1>1, <1>3 DEF PageRecords
<1>6. /\ page' \in [StorePages -> PageRecords] /\ expect' \in [StorePages -> Contents]
      /\ \A q \in StorePages :
           IF page'[q].used THEN page'[q].data = expect'[q] /\ page'[q].data # Gone
           ELSE page'[q].data = Gone
  BY <1>1, <1>4, <1>5, OnePage, Zenon
<1>7. host' = [host EXCEPT ![h] = [used |-> FALSE, data |-> Gone]]
  BY DEF SwapInPage
<1>8. host \in [Hosts -> [used : BOOLEAN, data : Contents]] /\
      \A g \in Hosts : host[g].used => host[g].data # Gone
  BY DEF StoreIInv, PageTypes, PageInv
<1>9. host' \in [Hosts -> [used : BOOLEAN, data : Contents]] /\
      \A g \in Hosts : host'[g].used => host'[g].data # Gone
  BY <1>7, <1>8, ContentsFacts
<1>10. PageTypes' /\ PageInv'
  BY <1>2, <1>6, <1>9 DEF StoreIInv, PageTypes, PageInv
<1> QED BY <1>2, <1>10, TouchKeeps, SameWriter DEF StoreIInv

\* The value that waited becomes the last of the queue.
LEMMA EnqueueTaskStep ==
  ASSUME StoreIInv, EnqueueTask
  PROVE  StoreIInv'
<1>1. UNCHANGED <<setup, page, recency, hand, host, files, holding, behind, expect, sent,
       writes>>
  BY DEF EnqueueTask
<1>2. /\ tasks \in Seq(Tasks) /\ persisting \in Tasks /\ tasks' = Append(tasks, persisting)
      /\ persisting' = NoTask /\ Len(tasks) < setup.depth /\ setup.depth \in Nat
  BY StoreAssumption DEF EnqueueTask, StoreIInv, WriterTypes, PageTypes
<1>3. /\ tasks' \in Seq(Tasks) /\ Len(tasks') = Len(tasks) + 1 /\ Len(tasks) \in Nat
      /\ \A i \in 1 .. Len(tasks) : tasks'[i] = tasks[i]
      /\ tasks'[Len(tasks) + 1] = persisting
  BY <1>2
<1>4. WriterTypes'
  BY <1>1, <1>2, <1>3 DEF StoreIInv, WriterTypes, QueueWithinDepth
<1>5. ASSUME NEW p \in StorePages, SentInv(p) PROVE SentInv(p)'
  <2>1. persisting'[1] # p
    BY <1>2, ContentsFacts
  <2>2. ASSUME NEW i \in 1 .. Len(tasks'), tasks'[i][1] = p, LastFrom(p, i)'
        PROVE  tasks'[i][2] = sent'[p]
    <3>1. CASE i = Len(tasks) + 1
      BY <1>1, <1>3, <1>5, <2>2, <3>1 DEF SentInv
    <3>2. CASE i # Len(tasks) + 1
      <4>1. i \in 1 .. Len(tasks) /\ tasks[i][1] = p /\ tasks'[i] = tasks[i]
        BY <1>3, <2>2, <3>2
      <4>2. Len(tasks) + 1 \in 1 .. Len(tasks') /\ Len(tasks) + 1 > i
        BY <1>3, <4>1
      <4>3. persisting[1] # p
        BY <1>3, <2>2, <4>2 DEF LastFrom
      <4>4. LastFrom(p, i)
        BY <1>3, <2>2 DEF LastFrom
      <4> QED BY <1>1, <1>5, <4>1, <4>3, <4>4 DEF SentInv
    <3> QED BY <3>1, <3>2
  <2>3. ASSUME LastFrom(p, 0)' PROVE Written(p)'
    <3>1. Len(tasks) + 1 \in 1 .. Len(tasks') /\ Len(tasks) + 1 > 0
      BY <1>3
    <3>2. persisting[1] # p
      BY <1>3, <2>3, <3>1 DEF LastFrom
    <3>3. LastFrom(p, 0)
      BY <1>3, <2>3 DEF LastFrom
    <3> QED BY <1>1, <1>5, <3>2, <3>3 DEF SentInv, Written
  <2>4. LoneWriter(p)'
    BY <1>1, <1>5 DEF SentInv, LoneWriter
  <2> QED BY <2>1, <2>2, <2>3, <2>4 DEF SentInv
<1>6. FilesInv'
  BY <1>1, <1>5 DEF StoreIInv, FilesInv
<1> QED BY <1>1, <1>4, <1>6, SamePages DEF StoreIInv

\* A writer takes the first task, and the page is behind if another writer has it.
LEMMA TakeTaskStep ==
  ASSUME StoreIInv, NEW w \in DOMAIN holding, TakeTask(w)
  PROVE  StoreIInv'
<1>1. UNCHANGED <<setup, page, recency, hand, host, files, persisting, expect, sent, writes>>
  BY DEF TakeTask
<1>2. /\ tasks \in Seq(Tasks) /\ tasks # << >> /\ tasks' = Tail(tasks)
      /\ holding \in [1 .. setup.workers -> Tasks \cup {NoTask}] /\ w \in 1 .. setup.workers
      /\ holding[w] = NoTask /\ holding' = [holding EXCEPT ![w] = Head(tasks)]
      /\ Len(tasks) <= setup.depth /\ setup.depth \in Nat /\ setup.workers \in Nat \ {0}
  BY StoreAssumption DEF TakeTask, StoreIInv, WriterTypes, PageTypes, QueueWithinDepth
<1>3. /\ tasks' \in Seq(Tasks) /\ Len(tasks) \in Nat \ {0} /\ Len(tasks') = Len(tasks) - 1
      /\ \A i \in 1 .. Len(tasks') : tasks'[i] = tasks[i + 1]
      /\ Head(tasks) = tasks[1] /\ tasks[1] \in Tasks
  BY <1>2
<1>4. behind' = IF \E v \in 1 .. setup.workers : holding[v][1] = tasks[1][1]
                THEN behind \cup {tasks[1][1]} ELSE behind \ {tasks[1][1]}
  BY <1>2, <1>3, Zenon DEF TakeTask
<1>5. behind' \subseteq StorePages
  BY <1>3, <1>4 DEF StoreIInv, WriterTypes, Tasks
<1>6. WriterTypes'
  BY <1>1, <1>2, <1>3, <1>5 DEF StoreIInv, WriterTypes, QueueWithinDepth
<1>7. ASSUME NEW p \in StorePages, SentInv(p) PROVE SentInv(p)'
  <2>1. /\ holding'[w] = tasks[1] /\ holding[w][1] # p
        /\ \A v \in 1 .. setup.workers : v # w => holding'[v] = holding[v]
    BY <1>2, <1>3, ContentsFacts
  <2>2. ASSUME persisting[1] # p, NEW i \in 1 .. Len(tasks'), tasks'[i][1] = p, LastFrom(p, i)'
        PROVE  tasks'[i][2] = sent'[p]
    <3>1. i + 1 \in 1 .. Len(tasks) /\ tasks'[i] = tasks[i + 1]
      BY <1>3, <2>2
    <3>2. ASSUME NEW j \in 1 .. Len(tasks), j > i + 1 PROVE tasks[j][1] # p
      <4>1. j - 1 \in 1 .. Len(tasks') /\ j - 1 > i /\ tasks'[j - 1] = tasks[j - 1 + 1]
        BY <1>3, <3>2
      <4>2. j - 1 + 1 = j
        BY <3>2
      <4> QED BY <2>2, <4>1, <4>2 DEF LastFrom
    <3>3. LastFrom(p, i + 1)
      BY <3>2 DEF LastFrom
    <3> QED BY <1>1, <1>7, <2>2, <3>1, <3>3 DEF SentInv
  <2>3. ASSUME persisting[1] # p, LastFrom(p, 0)' PROVE Written(p)'
    <3>1. ASSUME NEW j \in 1 .. Len(tasks), j > 1 PROVE tasks[j][1] # p
      <4>1. j - 1 \in 1 .. Len(tasks') /\ j - 1 > 0 /\ tasks'[j - 1] = tasks[j - 1 + 1]
        BY <1>3, <3>1
      <4>2. j - 1 + 1 = j
        BY <3>1
      <4> QED BY <2>3, <4>1, <4>2 DEF LastFrom
    <3>2. LastFrom(p, 1) /\ 1 \in 1 .. Len(tasks)
      BY <1>3, <3>1 DEF LastFrom
    <3>3. CASE tasks[1][1] = p
      <4>1. tasks[1][2] = sent[p]
        BY <1>7, <2>3, <3>2, <3>3 DEF SentInv
      <4>2. p \notin behind' => \A v \in 1 .. setup.workers : holding[v][1] # p
        BY <1>2, <1>4, <3>3
      <4> QED BY <1>1, <1>2, <2>1, <3>3, <4>1, <4>2 DEF Written
    <3>4. CASE tasks[1][1] # p
      <4>1. LastFrom(p, 0)
        BY <1>3, <3>1, <3>4 DEF LastFrom
      <4>2. Written(p)
        BY <1>7, <2>3, <4>1 DEF SentInv
      <4>3. p \notin behind' => p \notin behind
        BY <1>4, <3>4
      <4> QED BY <1>1, <2>1, <3>4, <4>2, <4>3 DEF Written
    <3> QED BY <3>3, <3>4
  <2>4. LoneWriter(p)'
    <3>1. CASE tasks[1][1] = p
      <4>1. p \notin behind' => \A v \in 1 .. setup.workers : holding[v][1] # p
        BY <1>2, <1>4, <3>1
      <4> QED BY <1>1, <2>1, <4>1 DEF LoneWriter
    <3>2. CASE tasks[1][1] # p
      <4>1. LoneWriter(p) /\ (p \notin behind' => p \notin behind)
        BY <1>7, <1>4, <3>2 DEF SentInv
      <4> QED BY <1>1, <2>1, <3>2, <4>1 DEF LoneWriter
    <3> QED BY <3>1, <3>2
  <2> QED BY <1>1, <1>7, <2>2, <2>3, <2>4 DEF SentInv
<1>8. FilesInv'
  BY <1>1, <1>7 DEF StoreIInv, FilesInv
<1> QED BY <1>1, <1>6, <1>8, SamePages DEF StoreIInv

\* A writer writes the file of its task, or fails to, and is free again.
LEMMA WriteTaskStep ==
  ASSUME StoreIInv, NEW w \in DOMAIN holding, WriteTask(w)
  PROVE  StoreIInv'
<1>1. UNCHANGED <<setup, page, recency, hand, host, tasks, persisting, expect, sent, writes>>
  BY DEF WriteTask
<1>2. /\ holding \in [1 .. setup.workers -> Tasks \cup {NoTask}] /\ w \in 1 .. setup.workers
      /\ holding[w] \in Tasks /\ holding' = [holding EXCEPT ![w] = NoTask]
      /\ files \in [StorePages -> Contents]
  BY Zenon DEF WriteTask, StoreIInv, WriterTypes
<1>3. holding[w][1] \in StorePages /\ holding[w][2] \in Contents
  BY <1>2 DEF Tasks
<1>4. PICK c \in {holding[w][2], files[holding[w][1]], Gone} :
        /\ files' = [files EXCEPT ![holding[w][1]] = c]
        /\ behind' = IF c = holding[w][2] THEN behind ELSE behind \cup {holding[w][1]}
  BY Zenon DEF WriteTask
<1>5. c \in Contents
  BY <1>2, <1>3, <1>4, ContentsFacts
<1>6. WriterTypes'
  BY <1>1, <1>2, <1>3, <1>4, <1>5 DEF StoreIInv, WriterTypes, QueueWithinDepth
<1>7. ASSUME NEW p \in StorePages, SentInv(p) PROVE SentInv(p)'
  <2>1. /\ holding'[w][1] # p
        /\ \A v \in 1 .. setup.workers : v # w => holding'[v] = holding[v]
    BY <1>2, ContentsFacts
  <2>2. LastFrom(p, 0)' <=> LastFrom(p, 0)
    BY <1>1 DEF LastFrom
  <2>3. \A i \in 1 .. Len(tasks) : LastFrom(p, i)' <=> LastFrom(p, i)
    BY <1>1 DEF LastFrom
  <2>4. /\ p \notin behind' => p \notin behind
        /\ p \notin behind' /\ holding[w][1] = p => files'[p] = holding[w][2]
        /\ holding[w][1] # p => files'[p] = files[p]
    BY <1>2, <1>3, <1>4
  <2>5. LoneWriter(p) /\ LoneWriter(p)'
    BY <1>1, <1>7, <2>1, <2>4 DEF SentInv, LoneWriter
  <2>6. ASSUME Written(p) PROVE Written(p)'
    BY <1>1, <1>2, <2>1, <2>4, <2>5, <2>6 DEF Written, LoneWriter
  <2> QED BY <1>1, <1>7, <2>2, <2>3, <2>5, <2>6 DEF SentInv
<1>8. FilesInv'
  BY <1>7 DEF StoreIInv, FilesInv
<1> QED BY <1>1, <1>6, <1>8, SamePages DEF StoreIInv

-----------------------------------------------------------------------------
\* StoreIInv holds at the start.
LEMMA StoreInitHolds ==
  ASSUME StoreInit
  PROVE  StoreIInv
<1>1. NStore \in Nat \ {0} /\ MaxWrites \in Nat
  BY StoreAssumption
<1>2. PageTypes
  BY <1>1, ContentsFacts DEF StoreInit, PageTypes, PageRecords, StorePages
<1>3. RecencyTypes
  <2>1. recency \in [1 .. NStore -> StorePages]
    BY <1>1 DEF StoreInit, StorePages
  <2>2. ASSUME NEW p \in StorePages PROVE \E i \in 1 .. NStore : recency[i] = p
    <3>1. NStore - p \in 1 .. NStore /\ NStore - (NStore - p) = p
      BY <1>1 DEF StorePages
    <3>2. recency[NStore - p] = NStore - (NStore - p)
      BY <3>1 DEF StoreInit
    <3> QED BY <3>1, <3>2
  <2> QED BY <2>1, <2>2 DEF RecencyTypes
<1>4. tasks = << >> /\ Len(tasks) = 0 /\ tasks \in Seq(Tasks)
  BY DEF StoreInit
<1>5. setup.workers \in Nat \ {0} /\ setup.depth \in Nat /\ holding = [w \in 1 .. setup.workers |-> NoTask]
  BY StoreAssumption DEF StoreInit, Idling
<1>6. WriterTypes
  BY <1>4, <1>5, ContentsFacts DEF StoreInit, WriterTypes, QueueWithinDepth
<1>7. PageInv
  BY DEF StoreInit, PageInv
<1>8. FilesInv
  <2>1. ASSUME NEW p \in StorePages PROVE SentInv(p)
    <3>1. persisting[1] # p /\ \A w \in 1 .. setup.workers : holding[w][1] # p
      BY <1>5, ContentsFacts DEF StoreInit
    <3>2. files[p] = sent[p]
      BY DEF StoreInit
    <3> QED BY <1>4, <3>1, <3>2 DEF SentInv, Written, LoneWriter
  <2> QED BY <2>1 DEF FilesInv
<1> QED BY <1>2, <1>3, <1>6, <1>7, <1>8 DEF StoreIInv

\* StoreIInv is inductive.
LEMMA StoreNextHolds ==
  ASSUME StoreIInv, [StoreNext]_storeVars
  PROVE  StoreIInv'
<1>1. CASE OffloadOff \/ WriterStopped \/ UNCHANGED storeVars
  <2>1. /\ UNCHANGED <<setup, page, recency, hand, host, expect, writes>>
        /\ UNCHANGED <<files, tasks, holding, behind, persisting, sent>>
    BY <1>1 DEF OffloadOff, WriterStopped, storeVars
  <2> QED BY <2>1, SamePages, SameWriter DEF StoreIInv
<1>2. ASSUME NEW p \in StorePages,
             \/ SharePage(p) \/ ReleaseStorePage(p) \/ ReadPage(p) \/ WritePage(p) \/ SwapOutPage(p)
      PROVE  StoreIInv'
  BY <1>2, SharePageStep, ReleaseStorePageStep, ReadPageStep, WritePageStep, SwapOutPageStep,
         Zenon
<1>3. ASSUME NEW w \in DOMAIN holding, WriterStep(w) PROVE StoreIInv'
  BY <1>3, TakeTaskStep, WriteTaskStep, Zenon DEF WriterStep
<1> QED BY <1>1, <1>2, <1>3, ReservePageStep, EnqueueTaskStep, SwapInPageStep, Zenon
   DEF StoreNext

\* StoreIInv implies what the run checks.
LEMMA StoreIInvSafe ==
  ASSUME StoreIInv
  PROVE  StoreSafe
<1>1. StoreTypeOK
  <2>1. Len(recency) = NStore /\ DOMAIN recency = 1 .. NStore
    BY StoreAssumption DEF StoreIInv, RecencyTypes
  <2>2. Range(recency) = StorePages
    BY <2>1 DEF Range, StoreIInv, RecencyTypes
  <2> QED BY <2>1, <2>2
     DEF StoreTypeOK, StoreIInv, PageTypes, WriterTypes, PageRecords, Contents
<1>2. HolderReadsOwnData
  BY DEF HolderReadsOwnData, StoreIInv, PageInv
<1>3. CandidateIsFree
  BY CandidateFree DEF CandidateIsFree
<1>4. FilesCatchUp
  <2>1. ASSUME CaughtUp, NEW p \in StorePages \ behind PROVE files[p] = sent[p]
    <3>1. SentInv(p)
      BY DEF StoreIInv, FilesInv
    <3>2. LastFrom(p, 0) /\ persisting[1] # p /\ \A w \in 1 .. setup.workers : holding[w][1] # p
      BY <2>1, ContentsFacts DEF CaughtUp, Idling, LastFrom
    <3> QED BY <2>1, <3>1, <3>2 DEF SentInv, Written
  <2> QED BY <2>1 DEF FilesCatchUp
<1> QED BY <1>1, <1>2, <1>3, <1>4 DEF StoreSafe, StoreIInv, WriterTypes

\* In every behaviour of the page store the holder of a page reads what was last put there,
\* the eviction candidate is a free page, and once the writers have caught up a file holds
\* the last content persisted for its page, unless its last write failed or met another.
THEOREM StoreStaysSafe == StoreSpec => []StoreSafe
<1>1. StoreInit => StoreIInv
  BY StoreInitHolds
<1>2. StoreIInv /\ [StoreNext]_storeVars => StoreIInv'
  BY StoreNextHolds
<1>3. StoreIInv => StoreSafe
  BY StoreIInvSafe
<1> QED BY <1>1, <1>2, <1>3, PTL DEF StoreSpec
=============================================================================
