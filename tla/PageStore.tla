------------------------------ MODULE PageStore ------------------------------
(***************************************************************************)
(* The contents of the paged KV cache, runtime/kv_cache/paged_kv_cache.cpp,*)
(* and the asynchronous writer behind it, io/async_file_writer.cpp: which  *)
(* page a reservation takes, what a page holds, and what its file on the   *)
(* offload device holds.  Ownership of pages is PagedBlocks' subject; here *)
(* a page is used between its reservation and its last release.            *)
(*                                                                         *)
(* The cache's mutex is held while a page is handed to the writer, so an   *)
(* operation that persists a page keeps it until the writer has room.      *)
(***************************************************************************)
EXTENDS Integers, Sequences, FiniteSets, Functions

CONSTANTS
  NStore,       \* pages
  NHostStore,   \* host blocks
  StoreConfigs, \* [policy, workers, depth, offload]: eviction policy, writer workers, queue
                \* depth, whether an offload path was set before the first request
  MaxReserves,  \* reservations in a behaviour
  MaxWrites     \* writes in a behaviour; the n-th one writes n

ASSUME StoreAssumption ==
  /\ NStore \in Nat \ {0} /\ {NHostStore, MaxReserves, MaxWrites} \subseteq Nat
  /\ StoreConfigs \subseteq [policy : {"lru", "clock"}, workers : Nat \ {0}, depth : Nat \ {0},
                            offload : BOOLEAN]

VARIABLES
  setup,        \* the configuration
  page,         \* page -> [used, ref, data, dirty, bit]
  recency,      \* pages by last_used, oldest first
  hand,         \* clock_hand_
  host,         \* host block -> [used, data]
  files,        \* what is on the device
  offloading,   \* offload_path_ is set and the writer runs
  tasks,        \* the writer's queue: <<page, value>>
  holding,      \* what each worker has taken
  persisting,   \* the page and value the holder of mutex_ is waiting to enqueue
  stopping,     \* stop_
  expect,       \* what the holder of a page last put into it (history)
  sent,         \* the last value handed to PersistPage (history)
  behind,       \* pages whose last write failed or met another one (history)
  writes, reserves

storeVars == <<setup, page, recency, hand, host, files, offloading, tasks, holding, persisting,
               stopping, expect, sent, behind, writes, reserves>>

Zero == 0          \* a fresh page
Gone == -1         \* no data in memory, or no file
PageValues == 1 .. MaxWrites
StorePages == 0 .. NStore - 1
Hosts == 1 .. NHostStore
NoTask == <<NStore, Gone>>
Idling == [w \in 1 .. setup.workers |-> NoTask]

StoreInit ==
  /\ setup \in StoreConfigs
  /\ page = [p \in StorePages |-> [used |-> FALSE, ref |-> 0, data |-> Gone, dirty |-> FALSE,
                                   bit |-> FALSE]]
  /\ recency = [i \in 1 .. NStore |-> NStore - i]  \* equal last_used: the last page wins
  /\ hand = 0 /\ host = [h \in Hosts |-> [used |-> FALSE, data |-> Gone]]
  /\ files = [p \in StorePages |-> Gone]
  /\ offloading = setup.offload /\ tasks = << >> /\ holding = Idling /\ persisting = NoTask
  /\ stopping = FALSE /\ expect = [p \in StorePages |-> Gone]
  /\ sent = [p \in StorePages |-> Gone] /\ behind = {} /\ writes = 0 /\ reserves = 0

\* Operations take mutex_, which a waiting PersistPage still holds.
Unlocked == persisting = NoTask /\ ~stopping

---------------------------------------------------------------------------
(* SelectEvictionCandidate. *)

FreePages == {p \in StorePages : ~page[p].used}

\* The clock: from the hand, the first free page whose bit is clear, clearing bits on
\* the way; after a full turn all free pages are clear.
ClockOrder == [i \in 1 .. 2 * NStore |-> (hand + i - 1) % NStore]
ClockStop ==
  LET clear(i) == LET p == ClockOrder[i]
                  IN p \in FreePages /\ (~page[p].bit \/ i > NStore)
  IN CHOOSE i \in 1 .. 2 * NStore : clear(i) /\ \A j \in 1 .. i - 1 : ~clear(j)
ClockCleared == {ClockOrder[i] : i \in 1 .. ClockStop - 1} \cap FreePages

\* LRU: the free page with the oldest last_used.
OldestFree ==
  CHOOSE i \in 1 .. NStore :
    recency[i] \in FreePages /\ \A j \in 1 .. i - 1 : recency[j] \notin FreePages

Candidate == IF setup.policy = "clock" THEN ClockOrder[ClockStop] ELSE recency[OldestFree]

\* last_used of page p becomes the newest.
MovedToEnd(p) ==
  LET at == CHOOSE i \in 1 .. NStore : recency[i] = p
  IN [i \in 1 .. NStore |-> IF i = NStore THEN p
                            ELSE IF i < at THEN recency[i] ELSE recency[i + 1]]

\* last_used decides only under lru, the reference bits only under clock.  The counter starts
\* at 0, which every page already has: the first use of all leaves the order alone.
Touch(p) == recency' = IF setup.policy = "lru" /\ reserves > 0 THEN MovedToEnd(p) ELSE recency
Marked == setup.policy = "clock"

\* A page of the wrong size is filled with zeroes.
FreshData(p) == IF page[p].data = Gone THEN Zero ELSE page[p].data

\* ReservePage and AcquirePageLocked.
ReservePage ==
  /\ Unlocked /\ FreePages # {} /\ reserves < MaxReserves /\ reserves' = reserves + 1
  /\ LET p == Candidate
     IN /\ page' = [q \in StorePages |->
                      IF q = p THEN [used |-> TRUE, ref |-> 1, data |-> FreshData(p),
                                     dirty |-> FALSE, bit |-> Marked]
                      ELSE IF setup.policy = "clock" /\ q \in ClockCleared
                           THEN [page[q] EXCEPT !.bit = FALSE] ELSE page[q]]
        /\ hand' = IF setup.policy = "clock" THEN (p + 1) % NStore ELSE hand
        /\ Touch(p)
        /\ expect' = [expect EXCEPT ![p] = Zero]
  /\ UNCHANGED <<setup, host, files, offloading, tasks, holding, behind, persisting, stopping,
         sent, writes>>

\* AcquireBlocks: the prefix cache shares a page.
SharePage(p) ==
  /\ Unlocked /\ page[p].used /\ page[p].ref < 2
  /\ page' = [page EXCEPT ![p].ref = @ + 1]
  /\ UNCHANGED <<setup, recency, hand, host, files, offloading, tasks, holding, behind,
         persisting, stopping,
                 expect, sent, writes, reserves>>

Persist(p, v) ==
  IF offloading THEN persisting' = <<p, v>> /\ sent' = [sent EXCEPT ![p] = v]
  ELSE UNCHANGED <<persisting, sent>>

\* ReleasePageLocked.
ReleaseStorePage(p) ==
  /\ Unlocked /\ page[p].used
  /\ IF page[p].ref > 1
     THEN page' = [page EXCEPT ![p].ref = @ - 1] /\ UNCHANGED <<persisting, sent, expect>>
     ELSE /\ IF page[p].dirty /\ page[p].data # Gone THEN Persist(p, page[p].data)
             ELSE UNCHANGED <<persisting, sent>>
          /\ page' = [page EXCEPT ![p] = [used |-> FALSE, ref |-> 0, data |-> Gone,
                                          dirty |-> FALSE, bit |-> FALSE]]
          /\ expect' = [expect EXCEPT ![p] = Gone]
  /\ UNCHANGED <<setup, recency, hand, host, files, offloading, tasks, holding, behind,
         stopping, writes, reserves>>

WritePage(p) ==
  /\ Unlocked /\ page[p].used /\ writes < MaxWrites /\ writes' = writes + 1
  /\ page' = [page EXCEPT ![p] = [@ EXCEPT !.data = writes', !.dirty = TRUE, !.bit = Marked]]
  /\ Touch(p) /\ Persist(p, writes')
  /\ expect' = [expect EXCEPT ![p] = writes']
  /\ UNCHANGED <<setup, hand, host, files, offloading, tasks, holding, behind, stopping,
         reserves>>

\* Read of a page its caller holds; an empty page is loaded from its file.
ReadPage(p) ==
  /\ Unlocked /\ page[p].used
  /\ LET data == IF page[p].data = Gone /\ offloading THEN files[p] ELSE page[p].data
     IN page' = [page EXCEPT ![p] = [@ EXCEPT !.bit = Marked, !.data = data]]
  /\ Touch(p)
  /\ UNCHANGED <<setup, hand, host, files, offloading, tasks, holding, behind, persisting,
         stopping,
                 expect, sent, writes, reserves>>

\* Mutant of SwapOutPage: the page is given up before its content is moved.
SwapOutPageEmpty(p) ==
  /\ Unlocked /\ page[p].used /\ page[p].ref = 1 /\ \E h \in Hosts : ~host[h].used
  /\ host' = [h \in Hosts |-> [used |-> TRUE, data |-> host[h].data]]
  /\ page' = [page EXCEPT ![p] = [@ EXCEPT !.used = FALSE, !.dirty = FALSE, !.bit = FALSE]]
  /\ expect' = [expect EXCEPT ![p] = Gone]
  /\ UNCHANGED <<setup, recency, hand, files, offloading, tasks, holding, behind, persisting,
         stopping,
                 sent, writes, reserves>>

\* SwapOut and SwapIn of a page nobody else refers to.
SwapOutPage(p) ==
  /\ Unlocked /\ page[p].used /\ page[p].ref = 1 /\ \E h \in Hosts : ~host[h].used
  /\ LET h == CHOOSE h \in Hosts : ~host[h].used /\ \A g \in 1 .. h - 1 : host[g].used
     IN host' = [host EXCEPT ![h] = [used |-> TRUE, data |-> page[p].data]]
  /\ page' = [page EXCEPT ![p] = [@ EXCEPT !.used = FALSE, !.data = Gone, !.dirty = FALSE,
                                  !.bit = FALSE]]
  /\ expect' = [expect EXCEPT ![p] = Gone]
  /\ UNCHANGED <<setup, recency, hand, files, offloading, tasks, holding, behind, persisting,
         stopping,
                 sent, writes, reserves>>

SwapInPage(h, p) ==
  /\ Unlocked /\ host[h].used /\ page[p].used
  /\ page' = [page EXCEPT ![p] = [@ EXCEPT !.data = host[h].data, !.dirty = TRUE]]
  /\ expect' = [expect EXCEPT ![p] = host[h].data]
  /\ host' = [host EXCEPT ![h] = [used |-> FALSE, data |-> Gone]]
  /\ Touch(p)
  /\ UNCHANGED <<setup, hand, files, offloading, tasks, holding, behind, persisting, stopping,
         sent, writes, reserves>>

---------------------------------------------------------------------------
(* The writer. *)

\* Enqueue, under the cache's mutex: waits until the queue is below its depth.
EnqueueTask ==
  /\ persisting # NoTask /\ Len(tasks) < setup.depth
  /\ tasks' = Append(tasks, persisting) /\ persisting' = NoTask
  /\ UNCHANGED <<setup, page, recency, hand, host, files, offloading, holding, behind,
         stopping, expect, sent,
                 writes, reserves>>

\* A worker takes a task, perhaps while another one still writes the same page.
TakeTask(w) ==
  /\ holding[w] = NoTask /\ tasks # << >>
  /\ holding' = [holding EXCEPT ![w] = Head(tasks)] /\ tasks' = Tail(tasks)
  /\ LET p == Head(tasks)[1]
     IN behind' = IF \E v \in DOMAIN holding : holding[v][1] = p THEN behind \cup {p}
                  ELSE behind \ {p}
  /\ UNCHANGED <<setup, page, recency, hand, host, files, offloading, persisting, stopping,
         expect, sent,
                 writes, reserves>>

\* Outside the writer's mutex it writes the file.  If the file cannot be opened it keeps its
\* content; if the device refuses the bytes it is left truncated; neither is reported.
WriteTask(w) ==
  /\ holding[w] # NoTask
  /\ LET p == holding[w][1]
     IN \E content \in {holding[w][2], files[p], Gone} :
          /\ files' = [files EXCEPT ![p] = content]
          /\ behind' = IF content = holding[w][2] THEN behind ELSE behind \cup {p}
  /\ holding' = [holding EXCEPT ![w] = NoTask]
  /\ UNCHANGED <<setup, page, recency, hand, host, offloading, tasks, persisting, stopping,
         expect, sent,
                 writes, reserves>>

\* SetOffloadPath("") stops the writer under the cache's mutex.
OffloadOff ==
  /\ Unlocked /\ offloading /\ stopping' = TRUE
  /\ UNCHANGED <<setup, page, recency, hand, host, files, offloading, tasks, holding, behind,
         persisting, expect,
                 sent, writes, reserves>>

\* Workers return when stop_ is set and nothing is queued; Stop joins them.
WriterStopped ==
  /\ stopping /\ tasks = << >> /\ holding = Idling
  /\ stopping' = FALSE /\ offloading' = FALSE
  /\ UNCHANGED <<setup, page, recency, hand, host, files, tasks, holding, behind, persisting,
         expect, sent, writes, reserves>>

WriterStep(w) == TakeTask(w) \/ WriteTask(w)

StoreNext ==
  \/ ReservePage \/ EnqueueTask \/ OffloadOff \/ WriterStopped
  \/ \E p \in StorePages : SharePage(p) \/ ReleaseStorePage(p) \/ ReadPage(p)
                               \/ WritePage(p) \/ SwapOutPage(p)
  \/ \E p \in StorePages, h \in Hosts : SwapInPage(h, p)
  \/ \E w \in DOMAIN holding : WriterStep(w)

\* The workers run, a blocked Enqueue goes on when there is room, Stop joins.
StoreFairness ==
  /\ WF_storeVars(EnqueueTask) /\ WF_storeVars(WriterStopped)
  /\ \A w \in 1 .. 2 : WF_storeVars(w \in DOMAIN holding /\ WriterStep(w))
StoreSpec == StoreInit /\ [][StoreNext]_storeVars /\ StoreFairness

---------------------------------------------------------------------------
\* Pages, host blocks, queue and files keep their types.
StoreTypeOK ==
  /\ page \in [StorePages -> [used : BOOLEAN, ref : 0 .. 2, data : PageValues \cup {Zero, Gone},
                              dirty : BOOLEAN, bit : BOOLEAN]]
  /\ hand \in StorePages /\ files \in [StorePages -> PageValues \cup {Zero, Gone}]
  /\ behind \subseteq StorePages
  /\ Len(recency) = NStore /\ Range(recency) = StorePages

\* The holder of a page finds in it what was last put there, or zeroes after a
\* reservation: no eviction, release, swap or offload of another page shows through.
HolderReadsOwnData == \A p \in StorePages : page[p].used => page[p].data = expect[p]

\* Both policies find a free page whenever there is one, so "KV cache exhausted" is
\* thrown only for a full cache; a page in use is never taken.
CandidateIsFree == FreePages # {} => Candidate \in FreePages

\* Once the writers have caught up every file holds the last content that was persisted,
\* for any number of writers, unless the last write of that page failed or was begun
\* while another writer still had the page: queueing, waiting for room and Stop neither
\* lose a task nor change the order of two.
CaughtUp == persisting = NoTask /\ tasks = << >> /\ holding = Idling
FilesCatchUp == CaughtUp => \A p \in StorePages \ behind : files[p] = sent[p]

\* Without those exceptions it is false of the code: failed writes are not repeated, and
\* nothing keeps two writers from one page.
FilesAlwaysCatchUp == CaughtUp => files = sent

\* The queue never grows past the configured depth.
QueueWithinDepth == Len(tasks) <= setup.depth

\* The mutex of the cache is not kept for ever by an operation that waits for room in
\* the queue, nor by Stop.
MutexIsReleased == []<>Unlocked

\* A holder of a page reads what was last written to it, wherever the page is;
\* the eviction candidate is nobody's; the files catch up with the pages; and the
\* writer's queue keeps its depth.
StoreSafe ==
    /\ StoreTypeOK
    /\ HolderReadsOwnData
    /\ CandidateIsFree
    /\ FilesCatchUp
    /\ QueueWithinDepth
=============================================================================
