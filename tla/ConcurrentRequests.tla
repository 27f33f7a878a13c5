------------------------- MODULE ConcurrentRequests -------------------------
(***************************************************************************)
(* The write path as requests run it.  Handlers are plain functions, which *)
(* FastAPI runs on a pool of threads over one container, and nothing locks *)
(* the pipeline: between any two calls a request makes on a store another  *)
(* request may run, the process may stop, and an embedding call may fail.  *)
(* A step is one call on one store; a verdict is taken in one step.  The   *)
(* embedding queue is three Python lists that no call guards, and there a  *)
(* step is one statement on one of them.                                   *)
(***************************************************************************)
EXTENDS WritePipeline, FiniteSets

CONSTANTS
  Workers,      \* threads of the pool
  MaxFaults     \* bound: embedding failures, and stops with a request in flight

ASSUME RequestConstants == MaxFaults \in Nat

VARIABLES
  bodies,       \* memory: the queue's lists of texts and of metadatas, as sets of
                \* the rows they were queued for; `pending' is its list of ids
  live,         \* per list: the threads whose local names the list the queue has
  got,          \* per thread and list: what its local holds once the queue has
                \* replaced the list it names
  req,          \* per thread: the request it serves, step by step
  overlapped,   \* history: two requests have been in flight at once
  faults,       \* history: embedding failures and stops with a request in flight
  lost,         \* history: assertions whose vector a failure or a stop dropped
  settled       \* history: the stores when last no request was in flight, frozen
                \* by the first overlap or fault

stores == [rows |-> rows, links |-> links, prov |-> prov, held |-> held,
           graph |-> graph, linkEdges |-> linkEdges, pending |-> pending,
           searchable |-> searchable]
qvars == <<bodies, live, got>>
rvars == <<vars, qvars, req, overlapped, faults, lost, settled>>

Lists == {"ids", "texts", "metas"}
Bodies == Lists \ {"ids"}
NoLists == [l \in Lists |-> {}]
Queue(l) == IF l = "ids" THEN pending ELSE bodies[l]
Local(w, l) == IF w \in live[l] THEN Queue(l) ELSE got[w][l]

Idle == [step |-> "idle"]
At(w, step) == req[w].step = step
Busy == {w \in Workers : ~At(w, "idle")}
Writers == {w \in Busy : req[w].kind = "write"}

\* Begun(..) is a request with its first step to take: "todo" are the assertions
\* it has still to retire or to link, "old" the one in hand, "row" the one it is
\* about, "left" the flushes it has to do, "due" the assertions a query began with.
Begun(kind, step, c, olds, left, due) ==
  [kind |-> kind, step |-> step, cand |-> c, olds |-> olds, todo |-> olds,
   old |-> 0, row |-> 0, left |-> left, due |-> due]

Goto(w, step) == req' = [req EXCEPT ![w].step = step]
Done(w) == req' = [req EXCEPT ![w] = Idle]

\* Rows a write in flight is still working on.
InHand == {req[w].row : w \in Writers}

RequestsInit ==
  /\ Init
  /\ bodies = [l \in Bodies |-> {}]
  /\ live = NoLists /\ got = [w \in Workers |-> NoLists]
  /\ req = [w \in Workers |-> Idle]
  /\ overlapped = FALSE /\ faults = 0 /\ lost = {}
  /\ settled = stores

-----------------------------------------------------------------------------
(* A write. *)

\* Room for every row and record the writes in flight may add.
Holding == {w \in Writers : At(w, "hold")}
Inserting == {w \in Writers \ Holding : req[w].row = 0}
Room ==
  /\ Len(rows) + Cardinality(Inserting) < MaxRows
  /\ Len(held) + Cardinality(Holding) < MaxHeld

\* The verdict is taken on the graph of this moment and acted on later.
BeginWrite(w, c) ==
  LET v == Verdict(c, View)
      first == CASE v.action = "accept" -> "check"
                 [] v.action = "supersede" /\ v.against # {} -> "flip"
                 [] OTHER -> "hold"
  IN
  /\ At(w, "idle")
  /\ Room
  /\ v.action # "reject"
  /\ req' = [req EXCEPT ![w] = Begun("write", first, c, v.against, 2, {})]
  /\ UNCHANGED <<vars, qvars, faults, lost>>

CheckExisting(w) ==
  /\ At(w, "check")
  /\ IF Existing(req[w].cand) = {} THEN Goto(w, "insert")
     ELSE \E i \in Existing(req[w].cand) :
            req' = [req EXCEPT ![w].step = "again", ![w].row = i]
  /\ UNCHANGED <<vars, qvars, faults, lost>>

AddProvenance(w) ==
  /\ At(w, "again")
  /\ prov' = prov \cup {<<req[w].row, req[w].cand.source>>}
  /\ Done(w)
  /\ UNCHANGED <<rows, links, held, graph, linkEdges, pending, searchable, qvars, faults, lost>>

InsertRow(w) ==
  /\ At(w, "insert")
  /\ rows' = Append(rows, RowOf(req[w].cand))
  /\ req' = [req EXCEPT ![w].step = "edge", ![w].row = Len(rows) + 1]
  /\ UNCHANGED <<links, prov, held, graph, linkEdges, pending, searchable, qvars, faults, lost>>

InsertEdge(w) ==
  /\ At(w, "edge")
  /\ graph' = AddEdge(graph, req[w].cand, req[w].row)
  /\ Goto(w, "queue")
  /\ UNCHANGED <<durable, linkEdges, pending, searchable, qvars, faults, lost>>

\* The three appends of an `add': a status is not embedded and queues nothing.
QueueId(w) ==
  /\ At(w, "queue")
  /\ pending' = pending \cup Queued(req[w].cand, req[w].row)
  /\ Goto(w, IF Queued(req[w].cand, req[w].row) = {} THEN "source" ELSE "text")
  /\ UNCHANGED <<durable, graph, linkEdges, searchable, qvars, faults, lost>>

QueueBody(w, l) ==
  /\ bodies' = [bodies EXCEPT ![l] = @ \cup {req[w].row}]
  /\ UNCHANGED <<vars, live, got, faults, lost>>

QueueText(w) == At(w, "text") /\ Goto(w, "meta") /\ QueueBody(w, "texts")
QueueMeta(w) == At(w, "meta") /\ Goto(w, "source") /\ QueueBody(w, "metas")

\* Mutant of RecordSource: a superseding write ends without its links.
RecordSourceUnlinked(w) ==
  /\ At(w, "source")
  /\ prov' = prov \cup {<<req[w].row, req[w].cand.source>>}
  /\ Done(w)
  /\ UNCHANGED <<rows, links, held, graph, linkEdges, pending, searchable, qvars, faults, lost>>

RecordSource(w) ==
  /\ At(w, "source")
  /\ prov' = prov \cup {<<req[w].row, req[w].cand.source>>}
  /\ IF req[w].olds = {} THEN Done(w)
     ELSE req' = [req EXCEPT ![w].step = "link", ![w].todo = req[w].olds]
  /\ UNCHANGED <<rows, links, held, graph, linkEdges, pending, searchable, qvars, faults, lost>>

\* The SUPERSEDES row, and its edge, to one of the replaced assertions.
LinkOld(w) ==
  /\ At(w, "link")
  /\ \E o \in req[w].todo :
       /\ links' = links \cup LinksTo(req[w].row, {o})
       /\ linkEdges' = linkEdges \cup LinksTo(req[w].row, {o})
       /\ IF req[w].todo = {o} THEN Done(w)
          ELSE req' = [req EXCEPT ![w].todo = @ \ {o}]
  /\ UNCHANGED <<rows, prov, held, graph, pending, searchable, qvars, faults, lost>>

FlipStatus(w) ==
  /\ At(w, "flip")
  /\ \E o \in req[w].todo :
       /\ rows' = Retire({o})
       /\ req' = [req EXCEPT ![w].step = "unedge", ![w].old = o, ![w].left = 2]
  /\ UNCHANGED <<links, prov, held, graph, linkEdges, pending, searchable, qvars, faults, lost>>

DropEdge(w) ==
  /\ At(w, "unedge")
  /\ graph' = RemoveEdges(graph, {req[w].old})
  /\ Goto(w, "flush")
  /\ UNCHANGED <<durable, linkEdges, pending, searchable, qvars, faults, lost>>

Retag(w) ==
  /\ At(w, "flush") /\ req[w].left = 0 /\ req[w].kind = "write"
  /\ searchable' = searchable \ {req[w].old}
  /\ Goto(w, "oldsource")
  /\ UNCHANGED <<durable, graph, linkEdges, pending, qvars, faults, lost>>

\* Mutant of KeepOldSource: the assertion just retired is retired again.
KeepOldSourceAgain(w) ==
  /\ At(w, "oldsource")
  /\ req' = [req EXCEPT ![w].step = "flip", ![w].old = 0]
  /\ UNCHANGED <<vars, qvars, faults, lost>>

\* A retired assertion keeps at least one source; then the next one, or the new row.
KeepOldSource(w) ==
  LET o == req[w].old
      rest == req[w].todo \ {o}
  IN
  /\ At(w, "oldsource")
  /\ prov' = IF \A s \in Sources : <<o, s>> \notin prov
             THEN prov \cup {<<o, rows[o].source>>} ELSE prov
  /\ req' = [req EXCEPT ![w].step = IF rest = {} THEN "insert" ELSE "flip",
                        ![w].todo = rest, ![w].old = 0]
  /\ UNCHANGED <<rows, links, held, graph, linkEdges, pending, searchable, qvars, faults, lost>>

HoldCandidate(w) ==
  /\ At(w, "hold")
  /\ held' = Append(held, [cand |-> req[w].cand, against |-> req[w].olds])
  /\ Done(w)
  /\ UNCHANGED <<rows, links, prov, graph, linkEdges, pending, searchable, qvars, faults, lost>>

-----------------------------------------------------------------------------
(* The embedding queue, and the queries that drain it. *)

\* Rows whose write has been answered and whose vector a search should find.
Answered == {i \in Accepted \ (InHand \cup lost) : rows[i].slot \notin StatusSlots}

\* Mutant of BeginQuery: the search does not flush first.
BeginQueryUnflushed(w) ==
  /\ At(w, "idle")
  /\ req' = [req EXCEPT ![w] = Begun("query", "flush", "none", {}, 0, Answered)]
  /\ UNCHANGED <<vars, qvars, faults, lost>>

BeginQuery(w) ==
  /\ At(w, "idle")
  /\ req' = [req EXCEPT ![w] = Begun("query", "flush", "none", {}, 1, Answered)]
  /\ UNCHANGED <<vars, qvars, faults, lost>>

\* A flush looks at the list of ids alone: empty, and it is over.
CheckQueue(w) ==
  /\ At(w, "flush") /\ req[w].left > 0
  /\ req' = [req EXCEPT ![w].left = @ - 1,
                        ![w].step = IF pending = {} THEN "flush" ELSE "take ids"]
  /\ UNCHANGED <<vars, qvars, faults, lost>>

\* A local takes the list itself, not a copy: until the queue gets another list,
\* what is appended to the queue is appended to the batch.
TakeList(w, l) ==
  /\ live' = [live EXCEPT ![l] = @ \cup {w}]
  /\ UNCHANGED <<vars, bodies, got, faults, lost>>

\* Mutant of TakeIds: the list is emptied before it is taken.
TakeIdsCleared(w) ==
  /\ At(w, "take ids") /\ Goto(w, "take texts")
  /\ pending' = {}
  /\ live' = [live EXCEPT !["ids"] = @ \cup {w}]
  /\ UNCHANGED <<durable, graph, linkEdges, searchable, bodies, got, faults, lost>>

TakeIds(w) == At(w, "take ids") /\ Goto(w, "take texts") /\ TakeList(w, "ids")
TakeTexts(w) == At(w, "take texts") /\ Goto(w, "take metas") /\ TakeList(w, "texts")
TakeMetas(w) == At(w, "take metas") /\ Goto(w, "new ids") /\ TakeList(w, "metas")

\* The queue gets a new list; a local that names the old one keeps what it holds.
LetGo(l) ==
  /\ live' = [live EXCEPT ![l] = {}]
  /\ got' = [w \in Workers |-> [got[w] EXCEPT ![l] = Local(w, l)]]
  /\ UNCHANGED <<durable, graph, linkEdges, searchable, faults, lost>>

NewIds(w) ==
  /\ At(w, "new ids") /\ Goto(w, "new texts")
  /\ pending' = {} /\ LetGo("ids") /\ UNCHANGED bodies

NewBody(l) == bodies' = [bodies EXCEPT ![l] = {}] /\ LetGo(l) /\ UNCHANGED pending

NewTexts(w) == At(w, "new texts") /\ Goto(w, "new metas") /\ NewBody("texts")
NewMetas(w) == At(w, "new metas") /\ Goto(w, "embed") /\ NewBody("metas")

\* The collection takes one text and one metadata for each id, and no empty batch.
\* Which text and metadata an id is given is left out: the lengths decide.
Upsertable(w) ==
  /\ Local(w, "ids") # {}
  /\ \A l \in Lists : Cardinality(Local(w, l)) = Cardinality(Local(w, "ids"))

Forget(w) == got' = [got EXCEPT ![w] = NoLists] /\ UNCHANGED <<bodies, live>>

EmbedBatch(w) ==
  /\ At(w, "embed") /\ Upsertable(w)
  /\ searchable' = searchable \cup Local(w, "ids")
  /\ Goto(w, "flush") /\ Forget(w)
  /\ UNCHANGED <<durable, graph, linkEdges, pending, faults, lost>>

\* Lists of different lengths make the upsert raise: the request fails, with no
\* fault of the provider, and its batch is in no queue any more.
UpsertRaises(w) ==
  /\ At(w, "embed") /\ ~Upsertable(w)
  /\ Done(w) /\ Forget(w)
  /\ UNCHANGED <<vars, faults, lost>>

Search(w) ==
  /\ At(w, "flush") /\ req[w].left = 0 /\ req[w].kind = "query"
  /\ Done(w)
  /\ UNCHANGED <<vars, qvars, faults, lost>>

\* The provider raises: the request fails, and its batch is in no queue any more.
EmbedFails(w) ==
  /\ At(w, "embed") /\ faults < MaxFaults
  /\ faults' = faults + 1
  /\ lost' = lost \cup Local(w, "ids")
  /\ Done(w) /\ Forget(w)
  /\ UNCHANGED vars

\* Rows whose vector exists only in the memory of the process.
Unembedded ==
  {i \in Ids : i \in pending \/ \E w \in Busy : i \in Local(w, "ids")}
    \cup (InHand \ searchable)

\* The process stops, whatever the requests were doing, and starts again.
Stop ==
  /\ Restart
  /\ Busy # {} => faults < MaxFaults
  /\ faults' = faults + (IF Busy = {} THEN 0 ELSE 1)
  /\ lost' = lost \cup (Unembedded \ {0})
                  \cup (IF PersistentVectors THEN {} ELSE Ids)
  /\ req' = [w \in Workers |-> Idle]
  /\ bodies' = [l \in Bodies |-> {}]
  /\ live' = NoLists /\ got' = [w \in Workers |-> NoLists]

-----------------------------------------------------------------------------
WriteStep(w) ==
  \/ CheckExisting(w) \/ AddProvenance(w)
  \/ InsertRow(w) \/ InsertEdge(w)
  \/ QueueId(w) \/ QueueText(w) \/ QueueMeta(w)
  \/ RecordSource(w) \/ LinkOld(w)
  \/ FlipStatus(w) \/ DropEdge(w) \/ Retag(w) \/ KeepOldSource(w)
  \/ HoldCandidate(w)

FlushStep(w) ==
  \/ CheckQueue(w)
  \/ TakeIds(w) \/ TakeTexts(w) \/ TakeMetas(w)
  \/ NewIds(w) \/ NewTexts(w) \/ NewMetas(w)
  \/ EmbedBatch(w) \/ UpsertRaises(w)

ServeStep(w) == WriteStep(w) \/ FlushStep(w) \/ Search(w)

Calm == ~overlapped /\ faults = 0

Observe ==
  /\ overlapped' = (overlapped \/ Cardinality(Busy') > 1)
  /\ settled' = IF Calm' /\ Busy' = {} THEN stores' ELSE settled

RequestsNext ==
  /\ \/ \E w \in Workers : \/ \E c \in Candidates : BeginWrite(w, c)
                           \/ BeginQuery(w)
                           \/ ServeStep(w)
                           \/ EmbedFails(w)
     \/ Stop
  /\ Observe

\* A thread that has begun a request runs it to its end: every step but a failure
\* is the next call of its own code, and nothing it calls waits for another request.
Fairness == \A w \in Workers : WF_rvars(ServeStep(w) /\ Observe)

RequestsSpec == RequestsInit /\ [][RequestsNext]_rvars /\ Fairness
-----------------------------------------------------------------------------
RequestTypeOK ==
  /\ TypeOK
  /\ DOMAIN req = Workers
  /\ \A w \in Busy :
       /\ req[w].kind = "query" \/ req[w].cand \in Candidates
       /\ req[w].olds \subseteq Ids /\ req[w].todo \subseteq req[w].olds
       /\ req[w].old \in req[w].todo \cup {0}
       /\ req[w].row \in Ids \cup {0}
       /\ req[w].left \in 0..2
  /\ bodies \in [Bodies -> SUBSET Ids]
  /\ live \in [Lists -> SUBSET Busy]
  /\ got \in [Workers -> [Lists -> SUBSET Ids]]
  /\ faults \in 0..MaxFaults /\ lost \subseteq Ids

\* As long as requests do not overlap, no stop and no failed embedding call, at
\* whatever step of a write it falls, leaves a slot with two confident values.
AloneOneHighValue == ~overlapped => OneHighValue

\* However requests overlap, traversal serves a superseded assertion only while the
\* request that retires it is about to drop its edge.
EdgesAreAcceptedOrLeaving ==
  \A i \in graph :
    \/ rows[i].status = "accepted"
    \/ \E w \in Writers : At(w, "unedge") /\ req[w].old = i

\* However requests overlap, stop or fail, the lineage is true: what a SUPERSEDES
\* link says was replaced is superseded, and what replaced it is a later row of the
\* same slot.
LinkedIsReplaced ==
  \A l \in links :
    /\ l[1] \in Ids /\ l[2] \in Ids /\ l[2] < l[1]
    /\ rows[l[2]].status = "superseded"
    /\ rows[l[1]].slot = rows[l[2]].slot

\* vector_index.py:265-266: a flush embeds every pending add.  An accepted
\* assertion that should be embedded is searchable, queued, in a batch on its way
\* to the collection, about to be queued, or one that a failed embedding call or a
\* stop dropped.  Overlapping requests lose others: an append that falls between the
\* statements of a flush leaves lists of different lengths.
VectorsAccountedFor ==
  \A i \in Accepted :
    \/ rows[i].slot \in StatusSlots
    \/ i \in searchable \cup pending \cup lost
    \/ \E w \in Busy : i \in Local(w, "ids")
    \/ \E w \in Writers : req[w].row = i /\ req[w].step \in {"edge", "queue"}

\* vector_index.py:265-283: as long as requests do not overlap, taking the three
\* lists of the queue apart and putting new ones in their place loses no vector.
AloneVectorsAccountedFor == ~overlapped => VectorsAccountedFor

\* vector_index.py:267-271: pending writes are always visible to subsequent reads.
\* A search finds every assertion that was answered when its query began and is
\* accepted still - unless an overlapping request holds it in a batch not yet embedded.
ReadsAreFresh ==
  \A w \in Busy :
    At(w, "flush") /\ req[w].left = 0 /\ req[w].kind = "query"
      => req[w].due \cap Accepted \subseteq searchable

\* Requests that do not overlap read what was written before them.
AloneReadsAreFresh == ~overlapped => ReadsAreFresh

Serial == INSTANCE WritePipeline WITH
  rows <- settled.rows, links <- settled.links, prov <- settled.prov,
  held <- settled.held, graph <- settled.graph, linkEdges <- settled.linkEdges,
  pending <- settled.pending, searchable <- settled.searchable

\* Call by call, a request that runs alone does to the stores what one step of the
\* serial pipeline does, and so does a stop between two requests.
ImplementsSerialPipeline == Serial!Spec

\* Every request ends, answered or failed.
EveryRequestEnds == \A w \in Workers : ~At(w, "idle") ~> At(w, "idle")
=============================================================================
