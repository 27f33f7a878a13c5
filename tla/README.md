# A verification of OCMR's governed memory

OCMR is a memory for language-model agents. Statements extracted from text become
*candidate assertions*; validators judge them against what is already remembered, and a
commit manager accepts, supersedes, quarantines or rejects them. Accepted memory is kept
three times: durably in SQLite, as a graph in process memory, and as embeddings in a
vector collection. This directory holds TLA+ modules of that memory, of the review and
adaptation that govern it and of the questions asked of it, the TLC configurations that
check them, and proofs checked by TLAPS.

Lines are of files under `src/ocm/`.

## 1. The system

| Component | State | Operations | Talks to |
|---|---|---|---|
| Write pipeline (`memory/write_pipeline.py`) | none of its own | `run`: extract, resolve, persist entities, events, claims, documents, decisions, then one verdict and one commit per relation; status reconciliation | everything below |
| Contradiction checker and C7 (`validation/contradiction_checker.py`, `constraints.py`) | none | verdict on a candidate, read from the graph | graph |
| Schema validator and C1-C6, C8-C10 (`validation/`) | none | structural and graph checks | graph |
| Commit manager (`memory/commit_manager.py`) | none of its own | accept, supersede, quarantine, reject | repository, graph, vector index, provenance, quarantine |
| Repository (`memory/sqlite_repository.py`) | tables, one commit per call | upserts, status change, queries | - |
| Graph store (`memory/graph_store.py`) | accepted edges and entity nodes, in memory | add, remove, rebuild at start | repository |
| Vector index (`retrieval/vector_index.py`) | embedding queue, collection | add, flush, set_status, query | embedding provider |
| Quarantine and provenance stores | rows in the repository | add, set_status, record | repository |
| Risk-adaptive router and policy (`governance/router.py`, `policy.py`, `features.py`) | decisions log | turns a verdict into a tier, then into a commit | commit manager |
| Review queue (`governance/review_queue.py`) | review items, in memory | enqueue, adjudicate, release | commit manager, quarantine store |
| Bounded adaptation (`governance/adaptation.py`) | policy registry | propose, canary, promote, roll back | router |
| Resolution, extraction (`resolution/`, `extraction/`) | caches | names to entities, text to candidates | models outside the repository |
| Retrieval, agent (`retrieval/`, `agent/`) | none | queries; the agent alternates query and write | graph, vector index |
| API and container (`app/`, `core/`) | one process-wide container | HTTP requests on a thread pool, no lock | all |
| Evaluation, scripts (`evaluation/`, `scripts/`) | files | batch experiments | containers of their own |

What makes it hard: the three copies of memory are updated by separate steps and must
agree; the graph has one edge per triple while the table may have several rows; a
supersession retires several rows and adds one, which may share a triple with one of
them; embeddings are queued and re-tagged out of order; held writes are released long
after they were judged; the graph is rebuilt from rows at every start; comparisons are
strict in one place (confidence, margin) and not in another (windows); requests share all
stores with no lock, every call on a store commits by itself, and an embedding call may fail
in the middle of a commit; a held write contests what it was held against for as long as
nobody resolves it; a policy adapted step by step is compared with its predecessor, never
with the fitted one.

What makes each component correct:

* gate: no two confident values of a slot are valid at one moment, and a confident value
  is only displaced by one that beats it by the margin;
* commit manager: graph, table, lineage and vectors agree after every outcome;
* graph: a restart serves the values that were served before it (the links between
  assertions are lost);
* vector index: where writes come one at a time, a retired assertion is never served as
  accepted, no vector is lost but to a failure or a stop, and a search sees what was answered
  before it; none of this holds of overlapping requests (section 3);
* review: a late release serves the released value and nothing else in the slot;
* requests: however their calls interleave, stop or fail, the lineage is true and traversal
  lags the table by one call at most; a request that runs alone does what one step of the
  serial pipeline does, and every request ends;
* adaptation: no deployed policy does more damage on the canary than the fitted one, each
  proposal stays near the policy it was made for, and risk stays monotone;
* resolution and retrieval: a name belongs to one entity, a new subject that its text mentions
  once waits for review, and an answer comes from memory no held write contests;
* status lifecycle: done and final always have their support, and, but for a decision that
  gets a status after the same text had it retracted, an entity has one accepted status, and
  its attribute and its stored row agree with it.

## 2. Modules

| Module | Models |
|---|---|
| `ContradictionGate` | The verdict on a slot write: the conflicts the checker finds, C7 with Algorithm 1, and the latest-value, intent-driven and evidence-weighted policies. Pure operators over a view of the graph. |
| `CommitManager` | The stores and the operations on them: `AcceptNew`, `Reaffirm`, `SupersedeWith`, `Quarantine`, `FlushVectors`, `Restart`; and what the stores owe each other. |
| `WritePipeline` | One relation from verdict to commit, any policy, restarts between requests. |
| `GovernedMemory` | The abstract specification: a set of values with `Learn` and `Replace`. |
| `ConcurrentRequests` | The same writes as requests run them: one step per call on a store, one per statement in the embedding queue, several threads, failed embedding calls, a stop anywhere. |
| `GovernedReview` | Router tiers over the same stores, the review queue and its adjudications. |
| `EscalationPolicy` | The score, the guards, the routing rule, the admissible set and the search for thresholds. Pure operators. |
| `PolicyAdaptation` | Blocks of feedback, proposals, trust region, canary gate, versions, rollback, and the router's own copy of the policy. |
| `StatusLifecycle` | A whole text over the same stores: persisting what it names, its relations under C4, C8 and C9, then its statuses under C4, C8, C10 and the intent rule. |
| `EntityLinking` | Mentions to entities, what a text persists, and the linkage guard and C5 before the pipeline. |
| `AgentMemory` | Questions and statements over all of it: hits, contested assertions, answers and the conflicts shown. |
| `MC...` | Values for TLC. |
| `...Proofs` | Theorems (section 4). |

`WritePipeline` composes gate and commit manager; `GovernedReview`, `StatusLifecycle`,
`ConcurrentRequests` and `EntityLinking` each extend it, and `AgentMemory` extends
`EntityLinking`. `PolicyAdaptation` extends `EscalationPolicy`; in `GovernedReview` the score
is an open choice, so what is checked there holds for every policy adaptation could deploy.

State and code:

* `rows` is the assertions table: a row's id is its position. Ids are fresh, as the random
  ids of a deployment are; the repeatable ids of `deterministic_test_mode` are not modelled.
* `graph` is the set of row ids that are edges. The code keys an edge by its triple and
  stores the id in it, so adding an edge replaces the one of the same triple (`AddEdge`)
  and removing an assertion removes the edge of its triple, whichever row that stands for
  (`RemoveEdges`).
* `links` and `linkEdges` are the SUPERSEDES rows and edges; `prov` the provenance of
  assertions (that of quarantine records is left out); `held` the quarantine table;
  `pending` and `searchable` the embedding queue and the vectors tagged accepted. Statuses
  are never embedded: `StatusSlots` names their slots.
* `Restart` is a new container: the graph is rebuilt from accepted rows in insertion order,
  the queue of embeddings is lost, vectors survive only in `chroma_mode = "persistent"`, and
  nothing is embedded again at start.
* In `ConcurrentRequests`, `req[w]` is what thread `w` is doing: the call it is about to make
  (`step`) and the locals of the handler (the candidate, the assertions to retire, the one in
  hand, the row minted). `CheckExisting` ... `LinkOld` are the calls of `_accept`,
  `_persist_accepted`, `_mark_superseded` and `_add_supersedes_edge` in the order of the code;
  `Retag` is preceded by the two flushes of `set_status`. A verdict is one step, and a link's
  row and edge are one step.
* The queue of embeddings is three Python lists without a lock, and there a step is one
  statement on one list: the appends of `add` (`QueueId`, `QueueText`, `QueueMeta`), and of
  `flush` the test (`CheckQueue`), the three assignments to locals (`TakeIds` ...), the three new
  lists (`NewIds` ...) and the embedding with its upsert (`EmbedBatch`). A list is kept as the
  set of rows it is about: `pending` the ids, `bodies` the texts and the metadatas. A local names
  the list itself and not a copy, so `live` says which threads' locals name the list the queue
  still has (what others append is then in their batch too), and `got` what a local holds once
  the queue has another list. The collection itself is outside the repository: as Chroma does,
  it refuses a batch that is empty or whose lists differ in length (`UpsertRaises`). That lists
  of equal length may still be out of step, so that an id gets another's text, is not modelled;
  nor is the collection that stands in when `chromadb` is missing, which drops the surplus of
  the longer lists without a word.
* `overlapped`, `faults`, `lost` and `settled` are history: they steer no request, only the
  bound on failures and the properties read them. `orphans` in `StatusLifecycle` is history too:
  the decisions that got a status when the graph had no node of theirs.
* In `PolicyAdaptation`, `versions` is the registry's history, `current` and `currentId` the
  deployed policy, `waiting` the block being filled, `router` the policy the router holds.
  A block that deploys replaces it; a rollback does not touch it (nothing in the repository but
  a test calls `rollback`). Feedback waiting for one policy survives a rollback to another.
* In `StatusLifecycle`, `node` is the status in the payload of an entity's graph node
  (`"absent"`: no node; `"bare"`: a node only an edge created, with no payload; backers carry
  themselves), `stored` the same in the entities table, and `work` what is left of the current
  text: its relations, each with whether the text names its end, then its statuses. `Begin` is
  W3: a new entity is created with the status of its first mention (`FirstMentions`,
  `CreatedWith`). `Attach` is one pass of the relation loop, which drops a relation whose end the
  text does not name or that has no type; `Reconcile` one pass of the status loop. A restart
  may come between any two and forgets `work`. Within a pass the several SQLite calls are one
  step.
* In `EntityLinking`, `nodes` is the entities table and the graph nodes with it. A text's
  mentions are persisted in order, each seeing the nodes of the earlier ones, and stay even
  when the text's relation is held; so stating a held relation again finds its subject known,
  and a name mentioned twice in one text counts as known the second time. `Inactive` names the
  people C5 refuses as assignees; a person's status does not change in the model. `Near` says which
  names `_near_matches` finds alike. The POSSIBLY_SAME_AS links the resolver can build are
  never written by the pipeline, nor does it supply the ids and contexts two of the resolver's
  branches need.
* In `AgentMemory` a question names an entity by its labels; aliases resolve a write but are
  no label. `Contradicted` is recomputed from unresolved records at every question, as the code
  does.

Abstractions. A slot is a subject and predicate; `SingleValued` are those of cardinality
m:1. Confidences are hundredths, so strict comparisons of floats are comparisons of
integers and rounding is not modelled. A window is a pair of numbers, an open end the
extreme of the range; a write with no window is the widest one, which overlaps all, as
`_windows_overlap` has it. Of the other checks, C1-C3, C6 and C9 judge other predicates or
malformed values and never a well-formed slot write; C4, C8 and C10 judge done tasks, final
decisions and status changes, which are modelled where statuses are, in `StatusLifecycle` (the
tasks of `EntityLinking` are not done); C5 is in `EntityLinking`. The structural check is
`WellFormed`. Policy `"ungated"` is the settings with constraint validation off, which switches
C5 and the linkage guard off with it. The
latest-value and intent-driven policies apply to `Slot HAS_VALUE` writes, which are the
single-valued slots of the model. In `GovernedReview` the band the score falls in and whether
source and time make a write authoritative are open choices. In `EscalationPolicy` one
coefficient stands for all that add risk and one for the discounts, the logistic function is a
clamp, and risks and thresholds share an integer scale; the trust region is a box per
coefficient where the code bounds the Euclidean norm, of which each coefficient is a
coordinate, and the gradient is any step of that box. Damage is counted as canary cases that
are committed and corrupt the store. In `StatusLifecycle` a text states at most one backing
relation; entity ids among the conflicting ids of a held write are left out; constraint
validation is on, as by default; a task's completion comes from an event; projects, persons and
organisations, which know the intent rule alone, are left out. In `EntityLinking` entities are
tasks and the predicate is ASSIGNED_TO.

## 3. Runs

Bounds: `MaxRows` rows are minted, `MaxHeld` quarantine records kept, `MaxNodes` entities
minted, `MaxVersions` versions recorded and `MaxFaults` failures injected; each is a guard of
the actions it limits. All specifications are closed under stuttering and checked for deadlock
(a restart, a rollback or a query is always possible).

| Run | Shows |
|---|---|
| `gate_default` | Default gate, confidences below, above and beyond the margin: types, edges, lineage, vectors, one confident value, displacement only by dominance, invisible restart. |
| `gate_dated` | Windows that touch or are apart, a single- and a many-valued slot: no confident clash; the pipeline implements `GovernedMemory`. |
| `latest_value` | The latest-value policy keeps one value, never a hole, never a shadowed row, also when a value replaces itself. |
| `governed` | Routing, adjudication and restarts: edges are accepted rows; no commit adds a second value; a release serves exactly the released value. |
| `double_release` | *Violation.* A held value that was accepted meanwhile is released again: two accepted rows, of which a later correction retires one; a restart then serves two values (`governance/review_queue.py:546`). |
| `statuses` | A task, a decision, an event and a document, statuses stated once or twice in a text. But for decisions that get a status after the same text had them retracted: one accepted status each, in the table too, agreeing with attribute and stored row, and every accepted row an edge except a document's. For all: done and final are supported, and a task's status changes along the transition map, to done, or by a correction, which alone reopens a task. A restart at any point changes no edge but those of such decisions and documents and the SUPERSEDES edges. |
| `documents` | *Violation.* A decision backed by a document: the accepted evidence edge is gone after a restart, because a document is mirrored in the graph and never stored as an entity (`memory/write_pipeline.py:505` against `memory/graph_store.py:20-22`). |
| `requests_alone` | One request at a time, call by call, with a stop or a failed embedding call inside it: one confident value at most, a search sees what was answered before it, no vector is lost but to the fault, the pipeline's stores change as in `WritePipeline`, every request ends. |
| `requests_overlap` | Two requests interleaved call by call, in the queue statement by statement, a stop or a failure among them: types, edges one call behind at most, true lineage. |
| `adaptation` | Four versions, blocks of two, deployments and rollbacks: versions admissible, damage never above the fitted policy's, drift paced by the deployments, proposals near, risk monotone. |
| `agent` | Three names, two alike, one with aliases, somebody inactive: names distinct, a new subject that its text mentions once waits, questions answered from uncontested memory or showing their conflict. |
| `unrelated_conflict` | *Violation.* T1 has an assignee; the first mention of an unrelated task is held against every assignment there is, and the question who is assigned to T1 gets no answer (`memory/write_pipeline.py:792` against `retrieval/evidence_packager.py:336`, `:361-362` and `tests/test_conflict_surfacing.py:58`). |

Why the bounds are enough: three values in one slot with four or five rows reach every ordering
of accept, repeat, correct, correct back and restart; two slots show that writes of one leave
the other alone. In `statuses` three rows suffice for an event edge, done or final, and what
follows, and one held write for every refusal, since a held write influences nothing later; a
text states the status of an entity at most twice, which is enough for a refusal and what the
text goes on to say. Its view leaves out what a held write says, provenance, links and
embeddings: no step of the module asks for them, and only its type invariant reads them, which is
a theorem besides. Two threads reach every pair of overlapping requests, three rows a
supersession of a value that another request is superseding or re-asserting, and one fault a
stop or a failure in the middle of either. `requests_overlap` takes writes of one confidence as
authoritative updates, so that every write of the other value supersedes and every repetition is
folded, and two values instead of three. Its threads and values are symmetric, and its view
leaves out the histories, provenance and what a query was due, none of which decides a step or
is read by its three invariants. Four versions are a deployment, a refused block and a rollback
with a block after it; the canary holds a case for each reason a candidate can fail. Four nodes
are two names, an ambiguous mention and a fresh one.

Fairness is stated in one module. In `ConcurrentRequests` each thread is weakly fair in its own
next call: a handler is a plain function that runs to its end on its thread, none of the calls it
makes waits for another request, and a call that fails ends the request. New requests, failures
and stops are never forced. Under it every request ends (`EveryRequestEnds`), the loops over
retired assertions and over links included. Nothing else in the code retries, drains or schedules
by itself, so no other liveness is claimed.

Each property of a passing run has a mutant: an operator beside the definition it replaces,
changed as a plausible slip would change it, under which TLC finds the property violated.
The evidence-weighted policy has no run: the theorems that hold for every policy cover it.

What holds for requests one at a time and not for overlapping ones, or not across a stop. No
run is kept of these; the modules show each when the property is given to TLC. The embedding
queue contradicts its own comments here (the first three of the list), since nothing in it
considers a second thread:

* A vector is lost. `add` appends to three lists and `flush` takes and replaces them one by one
  (`vector_index.py:261-263`, `:275-280`); an append that falls between leaves a batch whose lists
  differ in length, its upsert fails, and neither the batch nor what stays misaligned in the queue
  is embedded (`:266` says "every pending add"). `VectorsAccountedFor` without `Alone` is false
  with two threads, two rows and no fault.
* A retired assertion is served as accepted. A search holds a batch while a correction retires an
  assertion of it; the two flushes of the re-tagging find the queue empty, the re-tagging finds no
  vector and returns (`:312`), and the batch is embedded tagged accepted (against `:301-305`).
  `SearchableIsAccepted` is therefore checked and proved of the serial pipeline only.
* A search misses what was answered before it, when its flush finds the queue taken by another
  request that has not embedded it yet (`:273` against `:269-271`): `ReadsAreFresh` without
  `Alone`.
* Two overlapping writes of one slot, both judged before either commits, leave two confident
  values, and a row accepted without an edge where they write the same triple.
* A stop, or an embedding failure, between the flip of a replaced assertion and its re-tagging
  leaves its vector tagged accepted; one before the new row is inserted leaves the slot empty. A
  stop also loses whatever was queued.

More that the modules show:

* Under the default gate two values that are not both confident stay accepted in one slot (C7
  lets soft contradictions pass), and a correction may leave an accepted row with no edge. With
  the default settings neither is visible at a restart. With authoritative updates it is: a
  replaced value comes back (`graph_store.py:304-305`), which is why the restart theorem assumes
  `NoThirdDisplacement`.
* A restart drops every SUPERSEDES edge, because its ends are no entities (`graph_store.py:315`),
  though its row stays accepted, and every edge of a document, so a final decision can lose the
  evidence it rests on. `graph_store.py:14-21` says that neither happens; `RestartKeepsEdges`, of
  run `documents`, is false for both reasons, and TLC reports the shorter one. The properties
  that hold of restarts (`RestartKeepsValues`, `RestartKeepsKeptEdges`, `AcceptedRowsAreEdges`,
  `KeptRowsAreEdges`) are of the edges of values, statuses and backings.
* A decision stated final and then draft in one text: the refused final takes the node away
  (`write_pipeline.py:1105`), and the draft is accepted for an entity stored nowhere, with neither
  attribute nor stored row, since `_sync_entity_status` returns without a word (`:1239` against
  `:1234-1236`). Its edge is gone after a restart; the next status counts as the first, and once
  the decision is stored another restart serves both (against `relations.py:136`). `orphans` are
  these decisions, and `OneStatusButOrphans`, `AttributeAgreesButOrphans` and
  `RestartKeepsKeptEdges` except them (the last one documents too) and nothing else; without the
  exception TLC finds the first two violated.
* A supported done supersedes whatever status the task has, under any intent (`:1160`): todo
  becomes done by a new fact, which neither the transition map nor `:1008-1010` has. The docstring
  at `:1140` does say that done is judged by C4, so `ChangesArePermitted` grants it.
* A text that mentions its new subject twice, by name or alias, is not held: the second mention
  resolves to the entity the first has minted, and the linkage guard takes it for a known one
  (`write_pipeline.py:362`, `:760`), though `:732-738` makes no such exception. `FreshSubjectsWait`
  is of texts that mention it once, and `agent` has a text of the other kind.
* With an evidence floor above one, a decision that is refused for lack of evidence loses its
  node and the backing edges it had, whose rows stay accepted; once a later draft stores the
  decision, a restart brings these edges back. `RestartKeepsKeptEdges` and `KeptRowsAreEdges`
  then fail, which is why the theorems about them assume the default floor.
* The evidence stated together with a new final decision is refused (`write_pipeline.py:544`).
* With the default settings the assignment of any task mentioned for the first time is held once
  one other task has an assignee. A held write whose conflicting assertions have all been
  replaced is no longer shown to any question, though it stays unresolved; one held against
  likely matches is shown only to questions naming them.
* The canary's tolerance for misses is granted anew at every deployment, so misses grow with the
  number of deployments (`DriftIsPaced` says how fast). Ties between thresholds go to the largest
  pair, which commits most. The branch that discards a proposal outside the trust region
  cannot be reached with the trust region enforced (`ProposalsAlwaysNear`).

## 4. Proofs

For every number of slots, values, confidences, windows, rows, threads, versions and restarts:

* `WritePipelineProofs`, with no assumption beyond the types of the constants, for every
  policy. The inductive invariant `StoresAgree` joins `TypeOK` with edges that are accepted
  rows, queued or searchable assertions that are accepted, links that name rows and verdicts
  that only name edges. Theorems `TypeCorrect`, `GraphServesAcceptedRows`,
  `LineageIsComplete`, `VectorsServeAcceptedRows`. Under the latest-value policy
  (`LatestValueGoverns`): `OneValueAlways`, `AcceptedRowsAlwaysEdges`, of which neither is
  inductive alone, since only what the graph shows is retired; together with `StoresAgree` they
  are (`LatestValueInv`). For every policy again, `SlotAlwaysKeepsValue`: what a step retires is
  of the slot it fills, and a rebuild keeps the newest row of every triple (`NewestIsRebuilt`).
* `GateProofs`, for the default gate (`GateGoverns`), in three parts. With no further
  assumption, `OnlyStrongerAlwaysDisplaces`: only a superseding verdict retires a row, and that
  beats each row it retires by the margin (`SupersedingDominates`). Where all windows overlap
  (`AlwaysOverlapping`), `OneHighValueAlways`. `OneHighValue` is not inductive: a confident
  row hidden behind another edge could be joined by a second. `OneHighInv` adds that
  confident accepted rows are edges and are the newest rows of their triple. With
  `NoThirdDisplacement` (no authoritative updates, and no confidence far enough above the
  threshold to displace a value that displaced another, as with the defaults 0.8 and 0.1 and
  confidences up to 1), `RestartKeepsValuesAlways`, `PipelineIsGovernedMemory`,
  `NoHighClashAlways`, from `RecoverInv`: an edge is the newest row of its triple, and an
  accepted row without an edge is covered by one strong enough to have displaced another.
* `GovernedMemoryProofs`: `CoherentAlways`, of the abstract specification.
* `RequestProofs`, for every policy, number of threads and number of faults: `RequestsAreTyped`,
  `TraversalLagsOneCall`, `LineageIsTrue`. The invariant `RequestInv` says of each request which
  locals its step relies on (the assertion in hand is one still to retire, the row is minted, its
  locals name a list of the queue only while it takes the queue apart) and, of a write, that what
  it has worked off its list is superseded and that its row is its own and later than what it
  replaces. A step is described once by its effect (`StepEffect`), so that the other threads'
  conjuncts need one argument, not one per action. With no more assumptions, of requests that
  have not overlapped so far, of which `AloneInv` says that at most one is in flight:
  `NoVectorGoesMissing`, `AloneReadsAreAlwaysFresh` (`FreshInv`: what a query owes its caller is
  searchable, queued, in its own batch, or lost) and the refinement `LoneRequestsAreSerial`. They
  rest on `AloneQueue`: at every statement of `add` and `flush` it says which of the three lists
  are one row ahead, which are taken and which are new (`Aligned`), so that a batch nobody else
  touches has lists of one length. With overlapping requests `VectorsAccountedFor` is false
  (section 3) and nothing is proved of it. `SerialInv` says, step
  by step, how far the stores are from the settled ones the request began with and what is
  missing until they are one serial step ahead of them; every call moves along this
  progress, and the last one takes the serial step. `AloneAlwaysOneHighValue` assumes
  `GateGoverns` and `AlwaysOverlapping`, like its serial counterpart; its invariant lets the one
  request in flight hold a confident row whose edge is not there yet, and
  requires that its confident rivals are among those it has still to retire.
* `GovernedReviewProofs`: `GovernedIsTyped` and `ReviewedEdgesAreAccepted` with no assumption
  (`GovernedInv` is their conjunction); `ReleasesAlwaysServeOneValue`, from what `Retires` takes
  in at the moment of the release and the order of retiring and adding; and
  `CommitsAlwaysKeepOneValue` for the default gate with
  windows that all overlap (`ReviewedGate`).
* `PolicyProofs`: `AdaptationIsTyped`, `ProposalsAlwaysNear`, `RiskIsAlwaysMonotone` with no
  assumption, `GateBoundsDamage` where a canary is installed with no tolerance for damage
  (`StrictGate`, the defaults). `NeverMoreDamage` is not inductive: a rollback may deploy any
  accepted version, so `AdaptationInv` says it of all of them. That proposals stay near rests
  on the projections moving no value away from an admissible policy. `DriftIsAlwaysPaced`
  assumes that a canary is installed (`Gated`). A version's depth is a recursive function over the
  registry, which grows; `PacedInv` carries the existence of a solution of its
  equation instead, which every new version extends, and bounds the drift of every accepted
  version by it, since a rollback may go to any of them.
* `LifecycleProofs`, for every number of tasks, decisions, events and documents and any texts,
  statuses stated any number of times: `LifecycleIsTyped` and `ChangesAlwaysPermitted` (`LifecycleInv`:
  types, edges are accepted rows, the work items are well formed, a row is a status or a
  backing). The rest is in three invariants more, of which only the last has an assumption.
  `StatusInv` adds that the accepted status rows of an entity that is no orphan are edges:
  `OneStatusButOrphansAlways`, `AttributeAlwaysAgreesButOrphans`. That orphans are exempt is
  needed, as section 3 explains. `SupportInv` says of every accepted done or
  final, served or not, that its support is accepted, and of the served ones that an event's edge
  is served too; since events are stored, a restart that brings back a status brings back its
  support: `StatusAlwaysSupported`. `EdgesInv` joins the two and, with a floor of one
  (`OneIsEnough`, the default), adds that accepted rows are edges, but for those of documents and
  orphans, and that an entity only the graph has is a decision stated final that nothing backs:
  `KeptRowsAlwaysEdges`, `RestartAlwaysKeepsKeptEdges`.
* `AgentProofs`, for every policy (`FreshSubjectsAlwaysWait`: wherever constraints are
  validated), texts of any length and any relation of likeness:
  `NamesAlwaysDistinct`, `FreshSubjectsAlwaysWait`, `QuestionsAlwaysServed`. Distinct names are
  needed for their own preservation: a mention mints a node only if not exactly one node matches
  it, which with distinct names means that none has its name (`Resolves`). `StageOK` says what a
  text has persisted after each of its mentions: the known entities, then mentions of the text,
  and what a name resolved to is known only by way of a known entity or of an earlier mention
  with a common key. `QuestionsAreServed` rests on `SlotsAreServed`: an accepted row without an
  edge has another row of its slot that is served.

Induction. Where something is shown for texts of every length or for rows of every number, the
induction is on a set of naturals (`SetInduction`, `SmallestNat`, `GreatestNat`, from the
well-foundedness of the naturals), since the library's induction theorems take a predicate,
which the provers cannot instantiate. `StagesOf` obtains the equations of a recursive
definition in this way.

Only model-checked: the liveness property `EveryRequestEnds`, which is beyond the prover. Every
other property of a passing run is a theorem.

## 5. Not modelled

* Text: extraction, wording of reasons and answers, classification of questions, normalisation of
  names and the measure of their likeness.
* Similarity search and ranking. A semantic hit is any vector tagged accepted; which of several
  answers comes first is left open.
* Inactive people becoming active and the reverse; C4 on an assignment of a task that is done.
* Predicates other than slot values, assignments, statuses and what backs them; 1:1 predicates,
  explicit CONTRADICTS edges, acyclicity of PRECEDES, claims.
* Status writes and linkage under the risk-adaptive router; the offline fit of the policy, and the
  baseline routers of the experiments.
* The evaluation harness, dataset adapters, corpora, statistics, notebooks and scripts. They are
  over half of the implementation and run batch experiments in containers of their own:
  they have no state a model could say anything about beyond what they ask of the components
  above. The one piece modelled is what the canary evaluator counts
  (`evaluation/rahgm/replay.py:960-987`). The share of all lines the modules cover is small for
  this reason; of `memory`, `validation` and `governance`, which hold the core, most operations
  that change state are modelled.
* Read-only handlers, debug routes, schemas, logging and configuration parsing.

## 6. What could follow

A release and an adjudication as individual calls, overlapping with writes; status reconciliation
call by call; the text of several relations in one request, with the linkage guard between them;
adaptation beside the writes it routes.
