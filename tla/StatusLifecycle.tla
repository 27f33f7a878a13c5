-------------------------- MODULE StatusLifecycle --------------------------
(***************************************************************************)
(* Statuses as memory.  A text names entities, with statuses, and events   *)
(* or documents that back them.  The pipeline first persists the entities, *)
(* then commits the backing edges one by one, then reconciles every stated *)
(* status with the accepted HAS_STATUS assertion.  An entity's status is   *)
(* thus kept three times: as an assertion, as the attribute of its graph   *)
(* node, and in the entities table the graph is rebuilt from.              *)
(* Constraints are validated, as they are by default; queries are left out.*)
(***************************************************************************)
EXTENDS CommitManager, FiniteSets

CONSTANTS
  Tasks, Decisions,    \* the entities whose status has a rule of its own
  Events, Documents,   \* what backs a task or a decision
  Floor,               \* decision_evidence_floor
  Sayings,             \* sequences of mentions <<entity, status>> a text can make
  Backings             \* sequences of relations <<backer, entity>> it can state

Bearers == Tasks \cup Decisions
Backers == Events \cup Documents
Entities == Bearers \cup Backers
\* The other objects are the status values.
Statuses == Objects \ Entities
StatusOf(e) == <<e, "HAS_STATUS">>
\* RESULTS_IN when it leads to a task, EVIDENCE_FOR when to a decision.
Backs(b) == <<b, "backs">>

ASSUME LifecycleConstants ==
  /\ StatusSlots = {StatusOf(e) : e \in Bearers}
  /\ SingleValued = StatusSlots
  /\ Slots = StatusSlots \cup {Backs(b) : b \in Backers}
  /\ Entities \subseteq Objects
  /\ Floor \in Nat
  /\ Tasks \cap Decisions = {} /\ Bearers \cap Backers = {} /\ Events \cap Documents = {}
  /\ Objects \cap {"absent", "bare", "unknown", "none"} = {}

\* What a text can say, and that a statement can be made at all.
ASSUME LifecycleInputs ==
  /\ Sayings \subseteq Seq(Bearers \X (Statuses \cup {"unknown"}))
  /\ Backings \subseteq Seq(Backers \X Bearers)
  /\ Confidences # {} /\ Windows # {} /\ Sources \ {Blank} # {}

VARIABLES
  node,     \* memory: the status attribute of each entity's graph node
  stored,   \* durable: the same attribute in the entities table
  work,     \* what is left to do for the text being written
  orphans   \* history: decisions that got a status when the graph had no node of
            \* theirs, the same text having had them retracted

lvars == <<vars, node, stored, work, orphans>>

\* A node that only an edge created has no payload, and so no type.
Typed(e) == node[e] \notin {"absent", "bare"}

LifecycleTypeOK ==
  /\ TypeOK
  /\ node \in [Entities -> Objects \cup {"absent", "bare", "unknown"}]
  /\ stored \in [Entities -> Objects \cup {"absent", "unknown"}]
  /\ orphans \subseteq Decisions

LifecycleInit ==
  /\ Init
  /\ node = [e \in Entities |-> "absent"]
  /\ stored = node
  /\ work = <<>>
  /\ orphans = {}

\* TASK_STATUS_TRANSITIONS
Permitted(from, to) ==
  <<from, to>> \in {<<"todo", "in_progress">>, <<"todo", "blocked">>,
                    <<"todo", "cancelled">>, <<"in_progress", "blocked">>,
                    <<"in_progress", "done">>, <<"in_progress", "cancelled">>,
                    <<"blocked", "in_progress">>, <<"blocked", "cancelled">>}

StatusEdges(e) == {i \in graph : rows[i].slot = StatusOf(e)}
Backing(e) == {i \in graph : rows[i].obj = e}

Statement(slot, obj, intent) ==
  [slot |-> slot, obj |-> obj, intent |-> intent,
   conf |-> CHOOSE c \in Confidences : TRUE,
   win |-> CHOOSE w \in Windows : TRUE,
   source |-> CHOOSE s \in Sources : s # Blank]

\* Mutant of Supported: the statement's own source counts as evidence.
SupportedBySource(e, status) ==
  CASE e \in Tasks /\ status = "done"      -> Backing(e) # {}
    [] e \in Decisions /\ status = "final" -> Cardinality(Backing(e)) + 1 >= Floor
    [] OTHER                               -> TRUE

\* C4 and C8: a task is done only with a completion event, a decision final only
\* with enough evidence.
Supported(e, status) ==
  CASE e \in Tasks /\ status = "done"      -> Backing(e) # {}
    [] e \in Decisions /\ status = "final" -> Cardinality(Backing(e)) >= Floor
    [] OTHER                               -> TRUE

-----------------------------------------------------------------------------
(* Persisting what a text names. *)

Named(said) == {said[k][1] : k \in DOMAIN said}

\* Where a text first mentions each entity it names.
FirstMentions(said) ==
  {first \in [Named(said) -> DOMAIN said] :
     \A e \in Named(said) : /\ said[first[e]][1] = e
                            /\ \A k \in 1..(first[e] - 1) : said[k][1] # e}

\* The status a new entity is created with: the first one the text gives it, but
\* a task is not created done.
CreatedWith(e, status) == IF e \in Tasks /\ status = "done" THEN "unknown" ELSE status

\* Mutant of Mirrored: no decision is stored before its status is reconciled.
MirroredDecisions(e, status) == e \in Documents \cup Decisions

\* What only the graph holds: documents, and decisions that are born final.
Mirrored(e, status) == e \in Documents \/ (e \in Decisions /\ status = "final")

\* Persist the text's new entities and queue its relations, then its statuses.
Begin(intent, said, backs) ==
  \E first \in FirstMentions(said) :
    LET new(e) == node[e] = "absent" /\ e \in Named(said)
        born(e) == CreatedWith(e, said[first[e]][2])
        backer(b) == \E k \in DOMAIN backs : backs[k][1] = b
    IN
    /\ work = <<>>
    /\ node' = [e \in Entities |-> IF new(e) THEN born(e)
                                   ELSE IF backer(e) THEN e ELSE node[e]]
    /\ stored' = [e \in Entities |->
                    IF new(e) /\ ~Mirrored(e, born(e)) THEN born(e)
                    ELSE IF backer(e) /\ ~Mirrored(e, e) THEN e ELSE stored[e]]
    /\ work' = [k \in DOMAIN backs |->
                  [entity |-> backs[k][2], backer |-> backs[k][1], intent |-> intent,
                   status |-> "unknown", named |-> backs[k][2] \in Named(said)]]
               \o [k \in DOMAIN said |->
                    [entity |-> said[k][1], backer |-> "none", intent |-> intent,
                     status |-> said[k][2], named |-> TRUE]]
    /\ UNCHANGED <<vars, orphans>>

-----------------------------------------------------------------------------
(* One relation of the text. *)

Relation == Head(work).backer # "none"
BackingClaim ==
  Statement(Backs(Head(work).backer), Head(work).entity, Head(work).intent)

\* A relation leaves no trace when the text does not name its end, or when that
\* end has no type (C9).
RelationDropped ==
  LET e == Head(work).entity IN
  /\ Relation
  /\ Head(work).named => Supported(e, node[e]) /\ ~Typed(e)
  /\ UNCHANGED vars

\* A done task or a final decision that lacks its support takes no edge, not even
\* the one that would support it.
RelationHeld ==
  LET e == Head(work).entity IN
  /\ Relation /\ Head(work).named /\ ~Supported(e, node[e])
  /\ Quarantine(BackingClaim, {})

RelationAccepted ==
  LET e == Head(work).entity IN
  /\ Relation /\ Head(work).named /\ Supported(e, node[e]) /\ Typed(e)
  /\ AcceptNew(BackingClaim) \/ Reaffirm(BackingClaim)

Attach ==
  /\ work # <<>>
  /\ RelationDropped \/ RelationHeld \/ RelationAccepted
  /\ work' = Tail(work)
  /\ UNCHANGED <<node, stored, orphans>>

-----------------------------------------------------------------------------
(* One status of the text. *)

\* Mutant of Allowed: an update of a task is as good as a correction.
AllowedUpdate(e, status, intent, old) ==
  /\ Supported(e, status)
  /\ \/ old = {}
     \/ e \in Tasks /\ status = "done"
     \/ e \in Decisions /\ status = "final"
     \/ intent \in {"update", "correction"}
     \/ e \in Tasks /\ \E i \in old : Permitted(rows[i].obj, status)

\* _classify_status_change: a supported done or final is judged by its support
\* alone; any other status by the transition map (tasks) or by the intent.
Allowed(e, status, intent, old) ==
  /\ Supported(e, status)
  /\ \/ old = {}
     \/ e \in Tasks /\ status = "done"
     \/ e \in Decisions /\ status = "final"
     \/ intent = "correction"
     \/ e \in Tasks /\ \E i \in old : Permitted(rows[i].obj, status)
     \/ e \notin Tasks /\ intent = "update"

\* Mutant of Synced: the table is left behind.
SyncedNode(e, status) ==
  IF Typed(e)
  THEN node' = [node EXCEPT ![e] = status] /\ UNCHANGED stored
  ELSE node' = [node EXCEPT ![e] = "bare"] /\ UNCHANGED stored

\* The attribute follows the assertion, in the graph and in the table.  A node
\* that is there only because the assertion's edge is has none to follow it.
Synced(e, status) ==
  IF Typed(e)
  THEN /\ node' = [node EXCEPT ![e] = status]
       /\ stored' = [stored EXCEPT ![e] = status]
  ELSE node' = [node EXCEPT ![e] = "bare"] /\ UNCHANGED stored

StatusAccepted(e, status, intent, old) ==
  /\ Allowed(e, status, intent, old)
  /\ LET c == Statement(StatusOf(e), status, intent) IN
     IF old = {} THEN AcceptNew(c) ELSE SupersedeWith(c, old)
  /\ Synced(e, status)
  /\ orphans' = IF Typed(e) THEN orphans ELSE orphans \cup {e}

\* Mutant of Retracts: a refused change retracts a decision that has a status.
RetractsAnyDecision(e, old) == e \in Decisions

Retracts(e, old) == e \in Decisions /\ old = {}

\* A status that may not replace the accepted one is held against it.
StatusHeld(e, status, intent, old) ==
  /\ ~Allowed(e, status, intent, old) /\ ~Retracts(e, old)
  /\ Quarantine(Statement(StatusOf(e), status, intent), old)
  /\ UNCHANGED <<node, stored, orphans>>

\* A decision refused its first status leaves the graph, with its edges.
DecisionRetracted(e, status, intent, old) ==
  /\ ~Allowed(e, status, intent, old) /\ Retracts(e, old)
  /\ Len(held) < MaxHeld
  /\ held' = Append(held, [cand |-> Statement(StatusOf(e), status, intent),
                           against |-> old])
  /\ graph' = graph \ (StatusEdges(e) \cup Backing(e))
  /\ node' = [node EXCEPT ![e] = "absent"]
  /\ UNCHANGED <<rows, links, prov, linkEdges, pending, searchable, stored, orphans>>

StatusUnchanged(e, status, old) ==
  /\ \E i \in old : rows[i].obj = status
  /\ UNCHANGED <<vars, node, stored, orphans>>

\* A mention that states no status has nothing to reconcile.
NothingStated ==
  Head(work).status = "unknown" /\ UNCHANGED <<vars, node, stored, orphans>>

\* A stated status against the current one, the first HAS_STATUS edge the graph lists.
StatusStated ==
  /\ Head(work).status # "unknown"
  /\ LET e == Head(work).entity
         status == Head(work).status
         intent == Head(work).intent
     IN
     \E old \in IF StatusEdges(e) = {} THEN {{}} ELSE {{i} : i \in StatusEdges(e)} :
       \/ StatusUnchanged(e, status, old)
       \/ /\ \A i \in old : rows[i].obj # status
          /\ \/ StatusAccepted(e, status, intent, old)
             \/ StatusHeld(e, status, intent, old)
             \/ DecisionRetracted(e, status, intent, old)

Reconcile ==
  /\ work # <<>> /\ ~Relation
  /\ NothingStated \/ StatusStated
  /\ work' = Tail(work)

-----------------------------------------------------------------------------
\* The process stops, between texts or between two steps of one.  Edges to what
\* the entities table does not hold are not rebuilt.
LifecycleRestart ==
  /\ graph' = {i \in Rebuilt : /\ stored[rows[i].slot[1]] # "absent"
                               /\ rows[i].obj \in Entities =>
                                    stored[rows[i].obj] # "absent"}
  /\ linkEdges' = {}
  /\ pending' = {}
  /\ searchable' = IF PersistentVectors THEN searchable ELSE {}
  /\ node' = stored
  /\ work' = <<>>
  /\ UNCHANGED <<durable, stored, orphans>>

LifecycleNext ==
  \/ \E intent \in Intents, said \in Sayings, backs \in Backings :
       Begin(intent, said, backs)
  \/ Attach
  \/ Reconcile
  \/ LifecycleRestart

LifecycleSpec == LifecycleInit /\ [][LifecycleNext]_lvars

-----------------------------------------------------------------------------
StatusRow(i) == rows[i].slot \in StatusSlots
Entity(i) == rows[i].slot[1]

\* relations.py:136, m:1 - a subject has at most one accepted status at a time, in
\* durable storage too: no refused change and no restart brings a second one back.
\* It is false of a decision that a text first has retracted, its final refused, and
\* then gives another status: stored nowhere, it may have two after two restarts.
OneStatusButOrphans ==
  \A i, j \in Accepted :
    /\ rows[i].slot = rows[j].slot
    /\ StatusRow(i) /\ Entity(i) \notin orphans
    => i = j

\* write_pipeline.py:1234-1236: the graph node's status, and the durable row, are
\* consistent with the accepted assertion, after restarts and refused changes too.
\* It is false of the same decisions, whose status has no attribute and no row.
AttributeAgreesButOrphans ==
  \A i \in graph :
    StatusRow(i) /\ Entity(i) \notin orphans
    => node[Entity(i)] = rows[i].obj /\ stored[Entity(i)] = rows[i].obj

\* No done task without its completion event and no final decision without its
\* evidence, at any later moment.  A document's evidence counts as long as it is
\* accepted: its edge is lost in a restart.
Witnesses(e) ==
  {b \in Backers : \E j \in Accepted :
     /\ rows[j].slot = Backs(b) /\ rows[j].obj = e
     /\ j \in graph \/ b \in Documents}
StatusIsSupported ==
  \A i \in graph : StatusRow(i) =>
    LET e == Entity(i) IN
    /\ e \in Tasks /\ rows[i].obj = "done" => Witnesses(e) # {}
    /\ e \in Decisions /\ rows[i].obj = "final" => Cardinality(Witnesses(e)) >= Floor

\* What durable storage cannot give back: a document is not stored, and neither
\* was a decision when it got its status as an orphan.
Unkept(i) == Entity(i) \in Documents \cup orphans

\* graph_store.py:14-17, of statuses and of what backs them: every accepted row is
\* an edge, but a document's evidence and the statuses of an orphaned decision.
KeptRowsAreEdges == \A i \in Accepted : i \in graph \/ Unkept(i)

\* write_pipeline.py:1008-1010: the accepted status of a task is replaced along the
\* transition map or by a correction, whatever relations and events come before it;
\* only done is reached from any other status, on its completion event, so that what
\* is done is reopened by a correction alone.
ChangesArePermitted ==
  [][\A i \in Ids :
       /\ StatusRow(i) /\ Entity(i) \in Tasks
       /\ rows[i].status = "accepted" /\ rows'[i].status = "superseded"
       => LET new == rows'[Len(rows')].obj IN
          \/ Permitted(rows[i].obj, new)
          \/ rows[i].obj # "done" /\ new = "done"
          \/ Head(work).intent = "correction"]_lvars

\* graph_store.py:14-21: after a restart the graph is the one before it, of statuses,
\* of what backs them and of the links between assertions.
RestartKeepsEdges ==
  [][LifecycleRestart => graph' = graph /\ linkEdges' = linkEdges]_lvars

\* A restart, even in the middle of a text, neither loses nor brings back an edge of
\* a status or of what backs one, but a document's or an orphaned decision's.
RestartKeepsKeptEdges ==
  [][LifecycleRestart =>
       \A i \in Ids : Unkept(i) \/ (i \in graph' <=> i \in graph)]_lvars
=============================================================================
