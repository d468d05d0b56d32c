----------------------------- MODULE RadixCache ----------------------------
(***************************************************************************)
(* The radix prefix cache (runtime/prefix_cache/radix_prefix_cache.cpp):   *)
(* Lookup, Insert with SplitEdge, EvictOne and EvictOneSequence.           *)
(*                                                                         *)
(* A trie node is the token path from the root to its end; its edge is the *)
(* part of the path after its parent.  A node's block table is not         *)
(* modelled here (PagedBlocks has it): it is non-empty exactly when the    *)
(* node holds a donor sequence.  last_used is kept as the order in which   *)
(* nodes were last touched; the nodes a split adds were never touched.     *)
(***************************************************************************)
EXTENDS Integers, Sequences, FiniteSets, SequencesExt

CONSTANTS
  Prompts,       \* the token sequences that are looked up and donated
  Seqs,          \* backend sequence ids
  Backends,
  Capacity,      \* capacity_
  MaxSequences,  \* max_sequences_
  NoSeq

ASSUME LimitsAssumption == Capacity \in Nat \ {0} /\ MaxSequences \in Nat
ASSUME PromptsAssumption == \A t \in Prompts : t # << >>
ASSUME NoSeqAssumption == NoSeq \notin Seqs /\ NoSeq \notin Backends

Root == << >>
Paths == UNION {Prefixes(t) : t \in Prompts} \ {Root}
Donor(s, b) == [seq |-> s, backend |-> b]
NoDonor == Donor(NoSeq, NoSeq)

VARIABLES
  node,      \* the nodes below the root, each with its sequence_id and backend
  used,      \* the nodes in the order of last_used, oldest first
  size,      \* size_
  live,      \* live_sequences_
  out,       \* sequence ids the trie does not own: with requests, or retired
             \* through on_evict_seq_
  trimming,  \* Insert is in the loops that restore the limits
  matched    \* node returned by the last Lookup that hit, None after an Insert

radixVars == <<node, used, size, live, out, trimming, matched>>

Nodes == DOMAIN node
DonorNodes == {n \in Nodes : node[n].seq # NoSeq}

RadixTypeOK ==
  /\ Nodes \subseteq Paths
  /\ \A n \in Nodes : node[n] \in {NoDonor} \cup [seq : Seqs, backend : Backends]
  /\ ToSet(used) \subseteq Nodes /\ Cardinality(ToSet(used)) = Len(used)
  /\ size \in Nat /\ live \in Nat
  /\ out \subseteq Seqs
  /\ trimming \in BOOLEAN
  /\ matched \in Paths \cup {NoSeq}

RadixInit ==
  /\ node = << >> /\ used = << >>
  /\ size = 0 /\ live = 0
  /\ out = Seqs
  /\ trimming = FALSE
  /\ matched = NoSeq

---------------------------------------------------------------------------
(* The shape of the trie. *)

Below(n) == {m \in Nodes : IsStrictPrefix(n, m)}
Children(n) == {m \in Below(n) : ~\E k \in Below(n) : IsStrictPrefix(k, m)}
Leaves == {n \in Nodes : Below(n) = {}}

\* children.find(tokens[offset]) at node n.
ChildFor(n, tokens) ==
  {m \in Children(n) : Len(tokens) > Len(n) /\ m[Len(n) + 1] = tokens[Len(n) + 1]}

\* n + CommonPrefixLength of the edge to m.
Common(m, tokens) == LongestCommonPrefix({m, tokens})

Without(seq, n) == SelectSeq(seq, LAMBDA m : m # n)
Touched(seq, n) == Append(Without(seq, n), n)

\* The nodes of S that min_element over last_used may return.
LeastRecent(S) ==
  LET Age(n) == IF n \in ToSet(used) THEN CHOOSE i \in DOMAIN used : used[i] = n ELSE 0
  IN {n \in S : \A m \in S : Age(n) <= Age(m)}

---------------------------------------------------------------------------
(* Lookup. *)

\* The nodes the walk of Lookup enters, in order, and whether it stopped at a
\* node rather than inside an edge or at a donor of another backend.
Walk(tokens, backend) ==
  LET from[n \in Nodes \cup {Root}] ==
        IF ChildFor(n, tokens) = {} THEN [path |-> << >>, whole |-> TRUE]
        ELSE LET c == CHOOSE m \in ChildFor(n, tokens) : TRUE
                 stop == \/ Common(c, tokens) # c
                         \/ node[c].seq # NoSeq /\ node[c].backend # backend
             IN IF stop THEN [path |-> << >>, whole |-> FALSE]
                ELSE [path |-> <<c>> \o from[c].path, whole |-> from[c].whole]
  IN from[Root]

\* The node whose donor Lookup returns, or None on a miss.
LookupNode(tokens, backend) ==
  LET w == Walk(tokens, backend)
      donors == SelectSeq(w.path, LAMBDA n : node[n].seq # NoSeq)
  IN IF w.whole /\ donors # << >> THEN Last(donors) ELSE NoSeq

\* Mutant of Lookup: the walk does not refresh last_used.
LookupNoTouch(tokens, backend) ==
  /\ ~trimming
  /\ matched' = LookupNode(tokens, backend)
  /\ UNCHANGED <<node, used, size, live, out, trimming>>

Lookup(tokens, backend) ==
  /\ ~trimming
  /\ matched' = LookupNode(tokens, backend)
  /\ used' = FoldLeft(Touched, used, Walk(tokens, backend).path)
  /\ UNCHANGED <<node, size, live, out, trimming>>

---------------------------------------------------------------------------
(* Insert. *)

\* The deepest node on the way to tokens.
Deepest(tokens) ==
  CHOOSE n \in Nodes \cup {Root} :
    /\ IsPrefix(n, tokens)
    /\ \A m \in Nodes : IsPrefix(m, tokens) => Len(m) <= Len(n)

\* The node SplitEdge puts into the edge that leaves the path midway, if any.
SplitPoints(tokens) == {Common(c, tokens) : c \in ChildFor(Deepest(tokens), tokens)}

\* node with the nodes S added, and d stored at n.
WithNodes(S) == [n \in Nodes \cup S |-> IF n \in Nodes THEN node[n] ELSE NoDonor]
Store(S, n, d) == [WithNodes(S) EXCEPT ![n] = d]

\* The path ends inside the trie, at a node or at a split point: the node's old
\* donor is retired and the new one takes its place.  No limit is tested.
InsertAtNode(tokens, s, b) ==
  LET added == SplitPoints(tokens)
      old == IF tokens \in Nodes THEN node[tokens].seq ELSE NoSeq
  IN /\ tokens \in Nodes \cup added
     /\ node' = Store(added, tokens, Donor(s, b))
     /\ size' = size + Cardinality(added)
     /\ live' = IF old = NoSeq THEN live + 1 ELSE live
     /\ out' = (out \ {s}) \cup ({old} \ {NoSeq})
     /\ UNCHANGED trimming

\* The rest of the path becomes a new leaf, and the limits are restored.
InsertLeaf(tokens, s, b) ==
  LET added == SplitPoints(tokens) \cup {tokens}
  IN /\ tokens \notin Nodes \cup SplitPoints(tokens)
     /\ node' = Store(added, tokens, Donor(s, b))
     /\ size' = size + Cardinality(added)
     /\ live' = live + 1
     /\ out' = out \ {s}
     /\ trimming' = TRUE

Insert(tokens, s, b) ==
  /\ ~trimming
  /\ InsertAtNode(tokens, s, b) \/ InsertLeaf(tokens, s, b)
  /\ used' = Touched(used, tokens)
  /\ matched' = NoSeq

---------------------------------------------------------------------------
(* Eviction. *)

Prune(n) ==
  /\ node' = [m \in Nodes \ {n} |-> node[m]]
  /\ used' = Without(used, n)
  /\ size' = size - 1

\* Mutant of EvictOneSequenceLocked: live_sequences_ is not decremented.
EvictOneSequenceUncounted(n) ==
  /\ n \in LeastRecent(DonorNodes)
  /\ out' = out \cup {node[n].seq}
  /\ UNCHANGED live
  /\ IF n \in Leaves THEN Prune(n)
     ELSE node' = [node EXCEPT ![n] = NoDonor] /\ UNCHANGED <<used, size>>

\* EvictOneSequenceLocked on victim n: its sequence is retired, and the node is
\* pruned when it is childless.
EvictOneSequenceLocked(n) ==
  /\ n \in LeastRecent(DonorNodes)
  /\ out' = out \cup {node[n].seq}
  /\ live' = live - 1
  /\ IF n \in Leaves THEN Prune(n)
     ELSE node' = [node EXCEPT ![n] = NoDonor] /\ UNCHANGED <<used, size>>

\* EvictOne on victim n: the least recently used leaf goes, donor or husk.
EvictOne(n) ==
  /\ n \in LeastRecent(Leaves)
  /\ out' = out \cup ({node[n].seq} \ {NoSeq})
  /\ live' = IF n \in DonorNodes THEN live - 1 ELSE live
  /\ Prune(n)

\* AllocSeqSlot's call of EvictOneSequence.
EvictOneSequence(n) ==
  /\ ~trimming
  /\ EvictOneSequenceLocked(n)
  /\ UNCHANGED <<trimming, matched>>

\* while (live_sequences_ > max_sequences_) EvictOneSequenceLocked();
TrimSequences(n) ==
  /\ trimming /\ live > MaxSequences
  /\ EvictOneSequenceLocked(n)
  /\ UNCHANGED <<trimming, matched>>

\* while (size_ > capacity_) EvictOne();
TrimNodes(n) ==
  /\ trimming /\ live <= MaxSequences /\ size > Capacity
  /\ EvictOne(n)
  /\ UNCHANGED <<trimming, matched>>

InsertReturns ==
  /\ trimming /\ live <= MaxSequences /\ size <= Capacity
  /\ trimming' = FALSE
  /\ UNCHANGED <<node, used, size, live, out, matched>>

RadixNext ==
  \/ \E tokens \in Prompts, b \in Backends :
       Lookup(tokens, b) \/ \E s \in out : Insert(tokens, s, b)
  \/ \E n \in Nodes : EvictOneSequence(n) \/ TrimSequences(n) \/ TrimNodes(n)
  \/ InsertReturns

RadixSpec == RadixInit /\ [][RadixNext]_radixVars

\* Insert holds the lock until its loops end.
RadixFairSpec == RadixSpec /\ WF_radixVars(InsertReturns \/ \E n \in Nodes : TrimSequences(n) \/ TrimNodes(n))

---------------------------------------------------------------------------
(* Properties. *)

\* The counters agree with the trie, any two paths part at a node, every
\* sequence is at one node or outside the trie, and what the trie gave up went
\* through on_evict_seq_: no donated slot is lost by a split, a re-donation or
\* an eviction.
TrieConsistent ==
  /\ size = Cardinality(Nodes) /\ live = Cardinality(DonorNodes)
  /\ \A m, n \in Nodes : Common(m, n) \in Nodes \cup {Root}
  /\ \A s \in Seqs : Cardinality({n \in Nodes : node[n].seq = s}) = IF s \in out THEN 0 ELSE 1

\* Lookup returns the donor with the longest path the prompt starts with, of the
\* right backend.  It misses only when there is no donor, when the prompt leaves
\* the trie inside an edge, or at a donor of another backend.
LookupFindsLongestDonor ==
  \A tokens \in Prompts, b \in Backends :
    LET on == {n \in Nodes : IsPrefix(n, tokens)}
        foreign == {n \in on \cap DonorNodes : node[n].backend # b}
        inEdge == \E n \in Nodes : Common(n, tokens) \notin on \cup {Root}
        hit == LookupNode(tokens, b)
    IN IF foreign # {} \/ inEdge \/ on \cap DonorNodes = {}
         THEN hit = NoSeq
         ELSE /\ hit \in on \cap DonorNodes
              /\ \A n \in on \cap DonorNodes : Len(n) <= Len(hit)

\* radix_prefix_cache.h: "a just-matched donor is only retired when no other donor
\* exists": AllocSeqSlot's EvictOneSequence after a Lookup takes a bystander
\* while there is one.
MatchedDonorRetiredLast ==
  [][(/\ matched \in DonorNodes /\ matched' = matched
      /\ node[matched].seq \in out') => DonorNodes = {matched}]_radixVars

\* The loops at the end of Insert end.
InsertTerminates == trimming ~> ~trimming

\* The trie with its counters is consistent after every operation, and a lookup
\* answers as a search over all donated prefixes would; the donor it matched is
\* the last one an eviction retires.
TrieSafe ==
    /\ [](RadixTypeOK /\ TrieConsistent /\ LookupFindsLongestDonor)
    /\ MatchedDonorRetiredLast
=============================================================================
