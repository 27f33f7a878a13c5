--------------------------- MODULE CommitManager ---------------------------
(***************************************************************************)
(* The stores accepted memory lives in and the operations of the Commit    *)
(* Manager on them.  An assertion id is the position of its row.  A graph  *)
(* edge is keyed by its triple and carries the id of the row it was added  *)
(* for, so the graph is the set of ids whose rows are edges.               *)
(***************************************************************************)
EXTENDS ContradictionGate, Sequences

CONSTANTS
  MaxRows,            \* bound: rows a run may mint
  MaxHeld,            \* bound: quarantine records a run may keep
  PersistentVectors   \* chroma_mode = "persistent"

ASSUME StoreConstants ==
  /\ MaxRows \in Nat /\ MaxHeld \in Nat
  /\ PersistentVectors \in BOOLEAN

VARIABLES
  rows,        \* durable: the assertions table
  links,       \* durable: accepted SUPERSEDES rows, <<new, old>>
  prov,        \* durable: provenance, <<assertion, source>>
  held,        \* durable: quarantine records
  graph,       \* memory: ids of the rows that are edges
  linkEdges,   \* memory: SUPERSEDES edges
  pending,     \* memory: assertions queued for embedding
  searchable   \* vector collection: ids whose vector is tagged accepted

durable == <<rows, links, prov, held>>
vars == <<rows, links, prov, held, graph, linkEdges, pending, searchable>>

Ids == DOMAIN rows
RowSet ==
  [slot : Slots, obj : Objects, conf : Confidences, win : Windows,
   source : Sources, status : {"accepted", "superseded"}]
Accepted == {i \in Ids : rows[i].status = "accepted"}
SameTriple(r, s) == r.slot = s.slot /\ r.obj = s.obj
View == [i \in graph |-> rows[i]]

TypeOK ==
  /\ rows \in Seq(RowSet)
  /\ links \subseteq Nat \X Nat
  /\ prov \subseteq Nat \X Sources
  /\ held \in Seq([cand : Candidates, against : SUBSET Nat])
  /\ graph \subseteq Ids
  /\ linkEdges \subseteq links
  /\ pending \subseteq Ids
  /\ searchable \subseteq Ids

Init ==
  /\ rows = <<>>
  /\ links = {} /\ prov = {} /\ held = <<>>
  /\ graph = {} /\ linkEdges = {}
  /\ pending = {} /\ searchable = {}

\* Mutant of RowOf: a row keeps a status readers never ask for.
RowOfHeld(c) ==
  [slot |-> c.slot, obj |-> c.obj, conf |-> c.conf, win |-> c.win,
   source |-> c.source, status |-> "quarantined"]

RowOf(c) ==
  [slot |-> c.slot, obj |-> c.obj, conf |-> c.conf, win |-> c.win,
   source |-> c.source, status |-> "accepted"]

\* Mutant of Retire: the edge goes and the row stays accepted.
RetireNone(olds) == rows

\* The rows after the assertions in olds are flipped to superseded.
Retire(olds) ==
  [i \in Ids |-> IF i \in olds THEN [rows[i] EXCEPT !.status = "superseded"]
                 ELSE rows[i]]

\* Adding an edge replaces the edge of the same triple.
AddEdge(edges, c, n) == {i \in edges : ~SameTriple(rows[i], c)} \cup {n}

\* Mutant of RemoveEdges: the status flips and the edge stays.
RemoveNoEdges(edges, olds) == edges

\* Removing an assertion's edge drops whatever edge its triple now has.
RemoveEdges(edges, olds) ==
  {i \in edges : \A o \in olds : ~SameTriple(rows[i], rows[o])}

\* Mutant of Existing: every accepted write mints a row.
NeverExisting(c) == {}

\* The row an identical write is folded into.
Existing(c) ==
  {i \in graph : SameTriple(rows[i], c) /\ rows[i].status = "accepted"}

\* Mutant of Replaced: the new edge goes in first.
AddedThenRemoved(olds, c, n) ==
  RemoveEdges({i \in graph : ~SameTriple(rows[i], c)}, olds)
    \cup IF \E o \in olds : SameTriple(rows[o], c) THEN {} ELSE {n}

\* The graph once olds are retired and then c is added: in this order, so that
\* retiring c's own triple does not take the new edge.
Replaced(olds, c, n) == AddEdge(RemoveEdges(graph, olds), c, n)

\* Mutant of LinksTo: only one of the replaced rows is linked.
LinksToOne(n, olds) == {<<n, CHOOSE o \in olds : TRUE>>}

\* The new row is linked to every row it replaces.
LinksTo(n, olds) == {<<n, o>> : o \in olds}

\* Mutant of Retagged: the queue is embedded after the re-tagging.
RetaggedThenFlushed(olds) == (searchable \ olds) \cup pending

\* Re-tagging a retired vector embeds the queue first, so that a vector still in
\* the queue is re-tagged too.
Retagged(olds) == (searchable \cup pending) \ olds

\* A status is never embedded: it is looked up in the graph.
Queued(c, n) == IF c.slot \in StatusSlots THEN {} ELSE {n}

\* An accepted write of a triple that is not active mints a row and its edge.
AcceptNew(c) ==
  LET n == Len(rows) + 1 IN
  /\ n <= MaxRows
  /\ Existing(c) = {}
  /\ rows' = Append(rows, RowOf(c))
  /\ graph' = AddEdge(graph, c, n)
  /\ pending' = pending \cup Queued(c, n)
  /\ prov' = prov \cup {<<n, c.source>>}
  /\ UNCHANGED <<links, held, linkEdges, searchable>>

\* A write of an active triple only adds provenance to the row it repeats.
Reaffirm(c) ==
  /\ \E i \in Existing(c) : prov' = prov \cup {<<i, c.source>>}
  /\ UNCHANGED <<rows, links, held, graph, linkEdges, pending, searchable>>

\* Retire olds, then accept c and link it to each of them.  An id in olds that
\* names no row is only linked.
SupersedeWith(c, olds) ==
  LET n == Len(rows) + 1
      known == olds \cap Ids
  IN
  /\ olds # {}
  /\ n <= MaxRows
  /\ rows' = Append(Retire(known), RowOf(c))
  /\ graph' = Replaced(known, c, n)
  /\ links' = links \cup LinksTo(n, olds)
  /\ linkEdges' = linkEdges \cup LinksTo(n, olds)
  /\ IF known = {}
     THEN pending' = pending \cup Queued(c, n) /\ UNCHANGED searchable
     ELSE pending' = Queued(c, n) /\ searchable' = Retagged(known)
  /\ prov' = prov \cup {<<n, c.source>>}
                  \cup {<<o, rows[o].source>> :
                          o \in {k \in known : \A s \in Sources : <<k, s>> \notin prov}}
  /\ UNCHANGED held

\* Hold a candidate for review, with the assertions it conflicts with.
Quarantine(c, against) ==
  /\ Len(held) < MaxHeld
  /\ held' = Append(held, [cand |-> c, against |-> against])
  /\ UNCHANGED <<rows, links, prov, graph, linkEdges, pending, searchable>>

\* A query embeds whatever is queued before it searches.
FlushVectors ==
  /\ pending # {}
  /\ searchable' = searchable \cup pending
  /\ pending' = {}
  /\ UNCHANGED <<durable, graph, linkEdges>>

\* Mutant of Rebuilt: the first row of a triple keeps the edge.
RebuiltFirstWins ==
  {i \in Accepted : \A j \in Accepted : SameTriple(rows[i], rows[j]) => i <= j}

\* The graph rebuilt from accepted rows in insertion order: the last row of a
\* triple has its edge.
Rebuilt ==
  {i \in Accepted : \A j \in Accepted : SameTriple(rows[i], rows[j]) => j <= i}

\* The process stops and starts again.  A SUPERSEDES row joins two assertion ids,
\* which are no entities, so the rebuild skips it.
Restart ==
  /\ graph' = Rebuilt
  /\ linkEdges' = {}
  /\ pending' = {}
  /\ searchable' = IF PersistentVectors THEN searchable ELSE {}
  /\ UNCHANGED durable

-----------------------------------------------------------------------------
(* What the stores owe each other. *)

\* Every edge stands for an accepted row, and no two edges share a triple: what
\* traversal serves is never a superseded assertion (graph_store.py, add_assertion
\* and remove_assertion as the commit manager calls them).
EdgesAreAcceptedRows ==
  /\ \A i \in graph : rows[i].status = "accepted"
  /\ \A i, j \in graph : SameTriple(rows[i], rows[j]) => i = j

\* The standing invariant of graph_store.py:14-17, the other half, for the accepted
\* rows of slots: each is an edge of the graph, restarts included.  It says nothing of
\* the accepted SUPERSEDES rows, whose edges a restart drops.
AcceptedRowsAreEdges == Accepted \subseteq graph

\* relations.py:147-148: each slot has at most one accepted value.
OneValuePerSlot ==
  \A i, j \in graph :
    rows[i].slot = rows[j].slot /\ rows[i].slot \in SingleValued => i = j

\* A superseded row can always be traced forward: some later row of its own slot
\* is linked to it as the one that replaced it.
SupersededIsLinked ==
  \A i \in Ids : rows[i].status = "superseded" =>
    \E n \in Ids : n > i /\ <<n, i>> \in links /\ rows[n].slot = rows[i].slot

\* Where writes come one at a time, semantic search never serves a superseded assertion
\* as accepted: whatever was queued, embedded or retired before it, in whatever order,
\* and restarts in between.
SearchableIsAccepted == searchable \subseteq Accepted
=============================================================================
