-------------------------- MODULE LifecycleProofs --------------------------
(***************************************************************************)
(* What StatusLifecycle keeps for every number of tasks, decisions, events *)
(* and texts, wherever the process stops.                                  *)
(***************************************************************************)
EXTENDS StatusLifecycle, WritePipelineProofs, FiniteSetTheorems

-----------------------------------------------------------------------------
(* Types, and what the rows and the work are about. *)

WorkItem ==
  [entity : Bearers, backer : Backers \cup {"none"}, intent : Intents,
   status : Statuses \cup {"unknown"}, named : BOOLEAN]

\* A row gives a bearer a status, or backs a bearer.
RowsAreOfTwoKinds ==
  \A i \in Ids :
    \/ \E e \in Bearers : rows[i].slot = StatusOf(e) /\ rows[i].obj \in Statuses
    \/ \E b \in Backers : rows[i].slot = Backs(b) /\ rows[i].obj \in Bearers

\* The statuses a text has left to reconcile.
StatusesInWork == {k \in DOMAIN work : work[k].backer = "none"}

\* A task is never taken from the graph, so the graph has a node of its own for each
\* task whose status is yet to be reconciled.
TasksStay ==
  /\ \A t \in Tasks : node[t] # "bare"
  /\ \A k \in StatusesInWork : work[k].entity \in Tasks => Typed(work[k].entity)

LifecycleInv ==
  /\ LifecycleTypeOK
  /\ EdgesAreAcceptedRows
  /\ work \in Seq(WorkItem)
  /\ RowsAreOfTwoKinds
  /\ TasksStay

\* Accepted statuses, of every entity that has not been orphaned.
StatusesKept ==
  /\ \A i \in Accepted : StatusRow(i) /\ Entity(i) \notin orphans => i \in graph
  /\ OneStatusButOrphans
  /\ AttributeAgreesButOrphans

StatusInv == LifecycleInv /\ StatusesKept

\* What backs an entity in durable storage.
AllWitnesses(e) ==
  {b \in Backers : \E j \in Accepted : rows[j].slot = Backs(b) /\ rows[j].obj = e}

\* Enough of them for the entity to have the status.
Enough(e, status, witnesses) ==
  /\ e \in Tasks /\ status = "done" => witnesses # {}
  /\ e \in Decisions /\ status = "final" => Cardinality(witnesses) >= Floor

\* The events that back, or are about to.
EventsAreStored ==
  /\ \A i \in Accepted :
       ~StatusRow(i) /\ Entity(i) \in Events => stored[Entity(i)] # "absent"
  /\ \A k \in DOMAIN work \ StatusesInWork :
       work[k].backer \in Events => stored[work[k].backer] # "absent"

\* What is accepted was supported when it was, by what is accepted still: a restart
\* may bring back a status the graph had lost, and then brings back its support.
SupportInv ==
  /\ LifecycleInv
  /\ \A i \in graph : StatusRow(i) =>
       Enough(Entity(i), rows[i].obj, Witnesses(Entity(i)))
  /\ \A i \in Accepted : StatusRow(i) =>
       Enough(Entity(i), rows[i].obj, AllWitnesses(Entity(i)))
  /\ EventsAreStored

\* An entity that only the graph has is a decision stated final, and nothing backs it.
EndsAreStored ==
  /\ \A i \in graph : ~StatusRow(i) => stored[rows[i].obj] # "absent"
  /\ \A e \in Bearers : Typed(e) /\ stored[e] = "absent"
                          => e \in Decisions /\ node[e] = "final"

EdgesInv == StatusInv /\ SupportInv /\ KeptRowsAreEdges /\ EndsAreStored

-----------------------------------------------------------------------------
(* Slots, rows and statements. *)

\* The slots of statuses and of backings are apart, and name their entity.
LEMMA SlotKinds ==
  /\ \A e \in Bearers : /\ StatusOf(e) \in StatusSlots /\ StatusOf(e) \in Slots
                        /\ StatusOf(e)[1] = e
  /\ \A b \in Backers : /\ Backs(b) \in Slots /\ Backs(b) \notin StatusSlots
                        /\ Backs(b)[1] = b
  /\ Bearers \subseteq Entities /\ Backers \subseteq Entities
  /\ Entities \subseteq Objects /\ Statuses \subseteq Objects
  /\ Bearers \cap Backers = {} /\ Statuses \cap Entities = {}
  BY LifecycleConstants DEF StatusOf, Backs, Bearers, Backers, Entities, Statuses

LEMMA RowKinds ==
  ASSUME RowsAreOfTwoKinds, NEW i \in Ids
  PROVE  \/ /\ StatusRow(i) /\ Entity(i) \in Bearers /\ rows[i].obj \in Statuses
            /\ rows[i].slot = StatusOf(Entity(i))
         \/ /\ ~StatusRow(i) /\ Entity(i) \in Backers /\ rows[i].obj \in Bearers
            /\ rows[i].slot = Backs(Entity(i))
  BY SlotKinds DEF RowsAreOfTwoKinds, StatusRow, Entity

LEMMA StatementType ==
  ASSUME NEW slot \in Slots, NEW obj \in Objects, NEW intent \in Intents
  PROVE  /\ Statement(slot, obj, intent) \in Candidates
         /\ Statement(slot, obj, intent).slot = slot
         /\ Statement(slot, obj, intent).obj = obj
  <1>1. (CHOOSE c \in Confidences : TRUE) \in Confidences
    BY LifecycleInputs
  <1>2. (CHOOSE w \in Windows : TRUE) \in Windows
    BY LifecycleInputs
  <1>3. (CHOOSE s \in Sources : s # Blank) \in Sources
    BY LifecycleInputs
  <1>. QED BY <1>1, <1>2, <1>3 DEF Statement, Candidates

\* A supersession leaves the triple of every row alone.
LEMMA SupersedeFields ==
  ASSUME TypeOK, EdgesAreAcceptedRows, NEW c \in Candidates,
         NEW olds \in SUBSET graph, SupersedeWith(c, olds)
  PROVE  \A i \in Ids : rows'[i].slot = rows[i].slot /\ rows'[i].obj = rows[i].obj
  <1>1. PICK n : n = Len(rows) + 1
    OBVIOUS
  <1>2. /\ \A i \in Ids \ olds : rows'[i] = rows[i]
        /\ \A i \in olds : rows'[i] = [rows[i] EXCEPT !.status = "superseded"]
    BY <1>1, SupersedeRows
  <1>3. \A i \in Ids : rows[i] \in RowSet
    BY DEF TypeOK, Ids
  <1>. QED BY <1>2, <1>3, RetiredFields

\* A statement's row is of one of the two kinds.
LEMMA NewRowKind ==
  ASSUME RowsAreOfTwoKinds, NEW slot \in Slots, NEW obj \in Objects,
         NEW intent \in Intents, NEW n,
         \/ \E e \in Bearers : slot = StatusOf(e) /\ obj \in Statuses
         \/ \E b \in Backers : slot = Backs(b) /\ obj \in Bearers,
         Ids' = Ids \cup {n},
         \A i \in Ids : rows'[i].slot = rows[i].slot /\ rows'[i].obj = rows[i].obj,
         rows'[n] = RowOf(Statement(slot, obj, intent))
  PROVE  RowsAreOfTwoKinds'
  <1>1. rows'[n].slot = slot /\ rows'[n].obj = obj
    BY StatementType, RowOfType
  <1>. QED BY <1>1 DEF RowsAreOfTwoKinds

-----------------------------------------------------------------------------
(* The work of a text. *)

LEMMA FirstOfWork ==
  ASSUME work \in Seq(WorkItem), work # <<>>
  PROVE  /\ Head(work) \in WorkItem /\ Head(work) = work[1] /\ 1 \in DOMAIN work
         /\ Tail(work) \in Seq(WorkItem)
         /\ \A k \in DOMAIN Tail(work) :
              /\ k \in Nat /\ k + 1 # 1 /\ k + 1 \in DOMAIN work
              /\ Tail(work)[k] = work[k + 1]
  OBVIOUS

LEMMA MentionType ==
  ASSUME NEW said \in Sayings, NEW k \in DOMAIN said
  PROVE  said[k][1] \in Bearers /\ said[k][2] \in Statuses \cup {"unknown"}
  <1>1. said \in Seq(Bearers \X (Statuses \cup {"unknown"}))
    BY LifecycleInputs
  <1>. QED BY <1>1

LEMMA BackingType ==
  ASSUME NEW backs \in Backings, NEW k \in DOMAIN backs
  PROVE  backs[k][1] \in Backers /\ backs[k][2] \in Bearers
  <1>1. backs \in Seq(Backers \X Bearers)
    BY LifecycleInputs
  <1>. QED BY <1>1

LEMMA Concatenated ==
  ASSUME NEW T, NEW s \in Seq(T), NEW t \in Seq(T)
  PROVE  /\ s \o t \in Seq(T) /\ DOMAIN (s \o t) = 1..(Len(s) + Len(t))
         /\ \A k \in 1..Len(s) : (s \o t)[k] = s[k]
         /\ \A k \in 1..Len(t) : (s \o t)[Len(s) + k] = t[k]
  OBVIOUS

\* What a text leaves to do: its relations, then its statuses.
LEMMA WorkBegun ==
  ASSUME NEW intent \in Intents, NEW said \in Sayings, NEW backs \in Backings,
         Begin(intent, said, backs)
  PROVE  /\ work' \in Seq(WorkItem)
         /\ DOMAIN work' = 1..(Len(backs) + Len(said))
         /\ Len(backs) \in Nat /\ DOMAIN backs = 1..Len(backs)
         /\ Len(said) \in Nat /\ DOMAIN said = 1..Len(said)
         /\ \A k \in 1..Len(backs) :
              work'[k].backer = backs[k][1] /\ work'[k].backer # "none"
         /\ \A k \in 1..Len(said) :
              /\ work'[Len(backs) + k].backer = "none"
              /\ work'[Len(backs) + k].entity = said[k][1]
  <1>. DEFINE B == [k \in DOMAIN backs |->
                      [entity |-> backs[k][2], backer |-> backs[k][1], intent |-> intent,
                       status |-> "unknown", named |-> backs[k][2] \in Named(said)]]
              S == [k \in DOMAIN said |->
                      [entity |-> said[k][1], backer |-> "none", intent |-> intent,
                       status |-> said[k][2], named |-> TRUE]]
  <1>1. work' = B \o S
    BY DEF Begin
  <1>2. /\ backs \in Seq(Backers \X Bearers)
        /\ said \in Seq(Bearers \X (Statuses \cup {"unknown"}))
    BY LifecycleInputs
  <1>3. \A k \in DOMAIN backs : B[k] \in WorkItem /\ B[k].backer = backs[k][1]
    BY BackingType DEF WorkItem
  <1>4. \A k \in DOMAIN said : /\ S[k] \in WorkItem /\ S[k].backer = "none"
                               /\ S[k].entity = said[k][1]
    BY MentionType DEF WorkItem
  <1>5. /\ Len(backs) \in Nat /\ DOMAIN backs = 1..Len(backs)
        /\ Len(said) \in Nat /\ DOMAIN said = 1..Len(said)
    BY <1>2
  <1>6. /\ B \in Seq(WorkItem) /\ Len(B) = Len(backs)
        /\ S \in Seq(WorkItem) /\ Len(S) = Len(said)
    BY <1>3, <1>4, <1>5
  <1>7. \A k \in DOMAIN backs : backs[k][1] # "none"
    BY BackingType, SlotKinds, LifecycleConstants
  <1>. HIDE DEF B, S
  <1>8. PICK b \in Seq(WorkItem), s \in Seq(WorkItem) : b = B /\ s = S
    BY <1>6
  <1>9. PICK w : w = b \o s
    OBVIOUS
  <1>10. /\ w \in Seq(WorkItem) /\ DOMAIN w = 1..(Len(b) + Len(s))
         /\ \A k \in 1..Len(b) : w[k] = b[k]
         /\ \A k \in 1..Len(s) : w[Len(b) + k] = s[k]
    BY <1>9, Concatenated
  <1>11. work' = w /\ Len(b) = Len(backs) /\ Len(s) = Len(said)
    BY <1>1, <1>6, <1>8, <1>9
  <1>12. /\ \A k \in DOMAIN backs : b[k].backer = backs[k][1]
         /\ \A k \in DOMAIN said : s[k].backer = "none" /\ s[k].entity = said[k][1]
    BY <1>3, <1>4, <1>8
  <1>13. DOMAIN w = 1..(Len(backs) + Len(said))
    BY <1>10, <1>11
  <1>14. \A k \in 1..Len(backs) : w[k].backer = backs[k][1] /\ w[k].backer # "none"
    BY <1>5, <1>7, <1>10, <1>11, <1>12
  <1>15. ASSUME NEW k \in 1..Len(said)
         PROVE  /\ w[Len(backs) + k].backer = "none"
                /\ w[Len(backs) + k].entity = said[k][1]
    <2>1. w[Len(b) + k] = s[k]
      BY <1>10, <1>11
    <2>2. w[Len(backs) + k] = s[k]
      BY <1>11, <2>1
    <2>. QED BY <1>5, <1>12, <2>2
  <1>. QED BY <1>5, <1>10, <1>11, <1>13, <1>14, <1>15

-----------------------------------------------------------------------------
(* Type correctness. *)

\* Whatever is done with a statement, the stores keep their types and the rows
\* their kinds.
LEMMA StatementTyped ==
  ASSUME TypeOK, EdgesAreAcceptedRows, RowsAreOfTwoKinds,
         NEW slot \in Slots, NEW obj \in Objects, NEW intent \in Intents,
         \/ \E e \in Bearers : slot = StatusOf(e) /\ obj \in Statuses
         \/ \E b \in Backers : slot = Backs(b) /\ obj \in Bearers,
         NEW olds \in SUBSET graph, NEW c, c = Statement(slot, obj, intent),
         \/ AcceptNew(c) \/ Reaffirm(c) \/ SupersedeWith(c, olds) \/ Quarantine(c, olds)
  PROVE  TypeOK' /\ EdgesAreAcceptedRows' /\ RowsAreOfTwoKinds'
  <1>1. c \in Candidates
    BY StatementType
  <1>2. TypeOK' /\ EdgesAreAcceptedRows'
    BY <1>1, AcceptNewTyped, ReaffirmTyped, SupersedeTyped, QuarantineTyped
  <1>3. PICK n : n = Len(rows) + 1
    OBVIOUS
  <1>4. CASE AcceptNew(c)
    <2>1. Ids' = Ids \cup {n} /\ \A i \in Ids : rows'[i] = rows[i]
      BY <1>1, <1>3, <1>4, AcceptNewRows
    <2>2. rows'[n] = RowOf(c)
      BY <1>1, <1>3, <1>4, AcceptNewRows
    <2>3. RowsAreOfTwoKinds'
      BY <2>1, <2>2, NewRowKind
    <2>. QED BY <1>2, <2>3
  <1>5. CASE SupersedeWith(c, olds)
    <2>1. /\ Ids' = Ids \cup {n} /\ rows'[n] = RowOf(c)
      BY <1>1, <1>3, <1>5, SupersedeRows
    <2>2. \A i \in Ids : rows'[i].slot = rows[i].slot /\ rows'[i].obj = rows[i].obj
      BY <1>1, <1>5, SupersedeFields
    <2>3. RowsAreOfTwoKinds'
      BY <2>1, <2>2, NewRowKind
    <2>. QED BY <1>2, <2>3
  <1>6. CASE Reaffirm(c) \/ Quarantine(c, olds)
    <2>1. rows' = rows
      BY <1>6 DEF Reaffirm, Quarantine
    <2>2. RowsAreOfTwoKinds'
      BY <2>1 DEF RowsAreOfTwoKinds, Ids
    <2>. QED BY <1>2, <2>2
  <1>. QED BY <1>4, <1>5, <1>6

\* The relation and the status that are next.
LEMMA ClaimType ==
  ASSUME work \in Seq(WorkItem), work # <<>>, Relation
  PROVE  /\ Head(work).backer \in Backers /\ Head(work).entity \in Bearers
         /\ BackingClaim \in Candidates
         /\ BackingClaim.slot = Backs(Head(work).backer)
         /\ BackingClaim.obj = Head(work).entity
  <1>1. Head(work) \in WorkItem
    BY FirstOfWork
  <1>2. /\ Head(work).backer \in Backers /\ Head(work).entity \in Bearers
        /\ Head(work).intent \in Intents
    BY <1>1 DEF WorkItem, Relation
  <1>3. Backs(Head(work).backer) \in Slots /\ Head(work).entity \in Objects
    BY <1>2, SlotKinds
  <1>. QED BY <1>2, <1>3, StatementType DEF BackingClaim

LEMMA StatusType ==
  ASSUME work \in Seq(WorkItem), work # <<>>, Head(work).status # "unknown",
         NEW e, e = Head(work).entity, NEW status, status = Head(work).status,
         NEW intent, intent = Head(work).intent
  PROVE  /\ e \in Bearers /\ status \in Statuses /\ intent \in Intents
         /\ StatusOf(e) \in Slots /\ status \in Objects
         /\ Statement(StatusOf(e), status, intent) \in Candidates
         /\ Statement(StatusOf(e), status, intent).slot = StatusOf(e)
         /\ Statement(StatusOf(e), status, intent).obj = status
  <1>1. Head(work) \in WorkItem
    BY FirstOfWork
  <1>2. e \in Bearers /\ status \in Statuses /\ intent \in Intents
    BY <1>1 DEF WorkItem
  <1>. QED BY <1>2, SlotKinds, StatementType

NodeValues == Objects \cup {"absent", "bare", "unknown"}
StoredValues == Objects \cup {"absent", "unknown"}

\* What a text creates: nodes and rows for what neither had, and of what it names or
\* backs with nothing is lost.
LEMMA BegunEntities ==
  ASSUME LifecycleInv,
         NEW intent \in Intents, NEW said \in Sayings, NEW backs \in Backings,
         Begin(intent, said, backs)
  PROVE  /\ UNCHANGED vars /\ orphans' = orphans
         /\ node' \in [Entities -> NodeValues] /\ stored' \in [Entities -> StoredValues]
         /\ \A e \in Bearers :
              /\ node[e] # "absent" => node'[e] = node[e] /\ stored'[e] = stored[e]
              /\ node'[e] = "bare" => node[e] = "bare"
              /\ e \in Named(said) /\ node[e] # "bare" => node'[e] \notin {"absent", "bare"}
              /\ stored[e] # "absent" => stored'[e] # "absent"
              /\ node'[e] # node[e] /\ stored'[e] = "absent"
                   => e \in Decisions /\ node'[e] = "final"
         /\ \A b \in Backers :
              /\ stored[b] # "absent" => stored'[b] # "absent"
              /\ b \in Events /\ (\E k \in DOMAIN backs : backs[k][1] = b)
                   => stored'[b] # "absent"
  <1>1. UNCHANGED vars /\ orphans' = orphans
    BY DEF Begin
  <1>2. PICK first \in FirstMentions(said) :
          LET new(e) == node[e] = "absent" /\ e \in Named(said)
              born(e) == CreatedWith(e, said[first[e]][2])
              backer(b) == \E k \in DOMAIN backs : backs[k][1] = b
          IN
          /\ node' = [e \in Entities |-> IF new(e) THEN born(e)
                                         ELSE IF backer(e) THEN e ELSE node[e]]
          /\ stored' = [e \in Entities |->
                          IF new(e) /\ ~Mirrored(e, born(e)) THEN born(e)
                          ELSE IF backer(e) /\ ~Mirrored(e, e) THEN e ELSE stored[e]]
    BY DEF Begin
  <1>3. \A e \in Named(said) : first[e] \in DOMAIN said
    BY DEF FirstMentions
  <1>4. \A e \in Named(said) : CreatedWith(e, said[first[e]][2]) \in Statuses \cup {"unknown"}
    BY <1>3, MentionType DEF CreatedWith
  <1>5. \A s \in Statuses \cup {"unknown"} : s \notin {"absent", "bare"}
    BY SlotKinds, LifecycleConstants
  <1>6. \A e \in Entities : node[e] \in NodeValues /\ stored[e] \in StoredValues
    BY DEF LifecycleInv, LifecycleTypeOK, NodeValues, StoredValues
  <1>7. \A e \in Entities : node'[e] \in NodeValues /\ stored'[e] \in StoredValues
    BY <1>2, <1>4, <1>6, SlotKinds DEF NodeValues, StoredValues
  <1>8. node' \in [Entities -> NodeValues] /\ stored' \in [Entities -> StoredValues]
    BY <1>2, <1>7
  <1>9. ASSUME NEW e \in Bearers
        PROVE  /\ node[e] # "absent" => node'[e] = node[e] /\ stored'[e] = stored[e]
               /\ node'[e] = "bare" => node[e] = "bare"
               /\ e \in Named(said) /\ node[e] # "bare" => node'[e] \notin {"absent", "bare"}
               /\ stored[e] # "absent" => stored'[e] # "absent"
               /\ node'[e] # node[e] /\ stored'[e] = "absent"
                    => e \in Decisions /\ node'[e] = "final"
    <2>1. e \in Entities /\ (\A k \in DOMAIN backs : backs[k][1] # e) /\ e \notin Documents
      BY SlotKinds, BackingType DEF Backers
    <2>2. PICK s : s = CreatedWith(e, said[first[e]][2])
      OBVIOUS
    <2>3. CASE node[e] = "absent" /\ e \in Named(said)
      <3>1. s \in Statuses \cup {"unknown"} /\ s \notin {"absent", "bare"}
        BY <1>4, <1>5, <2>2, <2>3
      <3>2. node'[e] = s
        BY <1>2, <2>1, <2>2, <2>3
      <3>3. stored'[e] = IF ~Mirrored(e, s) THEN s ELSE stored[e]
        BY <1>2, <2>1, <2>2, <2>3
      <3>4. Mirrored(e, s) => e \in Decisions /\ s = "final"
        BY <2>1 DEF Mirrored
      <3>. QED BY <2>3, <3>1, <3>2, <3>3, <3>4
    <2>4. CASE ~(node[e] = "absent" /\ e \in Named(said))
      <3>1. node'[e] = node[e] /\ stored'[e] = stored[e]
        BY <1>2, <2>1, <2>4
      <3>. QED BY <2>4, <3>1
    <2>. QED BY <2>3, <2>4
  <1>10. ASSUME NEW b \in Backers
         PROVE  /\ stored[b] # "absent" => stored'[b] # "absent"
                /\ b \in Events /\ (\E k \in DOMAIN backs : backs[k][1] = b)
                     => stored'[b] # "absent"
    <2>1. b \in Entities /\ b \notin Named(said) /\ b # "absent"
      BY MentionType, SlotKinds, LifecycleConstants DEF Named
    <2>2. b \in Events => ~Mirrored(b, b)
      BY SlotKinds, LifecycleConstants DEF Mirrored, Bearers
    <2>. QED BY <1>2, <2>1, <2>2
  <1>. QED BY <1>1, <1>8, <1>9, <1>10

\* Each status a text leaves to do is about an entity it names, and each relation
\* about a backer it gives.
LEMMA BegunWork ==
  ASSUME NEW intent \in Intents, NEW said \in Sayings, NEW backs \in Backings,
         Begin(intent, said, backs)
  PROVE  /\ \A k \in StatusesInWork' :
              work'[k].entity \in Named(said) /\ work'[k].entity \in Bearers
         /\ \A k \in DOMAIN work' \ StatusesInWork' :
              /\ work'[k].backer \in Backers
              /\ \E m \in DOMAIN backs : backs[m][1] = work'[k].backer
  <1>1. /\ DOMAIN work' = 1..(Len(backs) + Len(said))
        /\ Len(backs) \in Nat /\ DOMAIN backs = 1..Len(backs)
        /\ Len(said) \in Nat /\ DOMAIN said = 1..Len(said)
    BY WorkBegun
  <1>2. \A k \in 1..Len(backs) :
          work'[k].backer = backs[k][1] /\ work'[k].backer # "none"
    BY WorkBegun
  <1>3. \A k \in 1..Len(said) :
          /\ work'[Len(backs) + k].backer = "none"
          /\ work'[Len(backs) + k].entity = said[k][1]
    BY WorkBegun
  <1>4. \A k \in DOMAIN work' \ 1..Len(backs) :
          \E m \in 1..Len(said) : k = Len(backs) + m
    <2>1. SUFFICES ASSUME NEW k \in DOMAIN work' \ 1..Len(backs)
                   PROVE  \E m \in 1..Len(said) : k = Len(backs) + m
      OBVIOUS
    <2>2. k - Len(backs) \in 1..Len(said) /\ k = Len(backs) + (k - Len(backs))
      BY <1>1, <2>1
    <2>. QED BY <2>2
  <1>5. ASSUME NEW k \in StatusesInWork'
        PROVE  work'[k].entity \in Named(said) /\ work'[k].entity \in Bearers
    <2>1. k \in DOMAIN work' \ 1..Len(backs)
      BY <1>2, <1>5 DEF StatusesInWork
    <2>2. PICK m \in 1..Len(said) : k = Len(backs) + m
      BY <1>4, <2>1
    <2>3. work'[k].entity = said[m][1] /\ m \in DOMAIN said
      BY <1>1, <1>3, <2>2
    <2>. QED BY <2>3, MentionType DEF Named
  <1>6. ASSUME NEW k \in DOMAIN work' \ StatusesInWork'
        PROVE  /\ work'[k].backer \in Backers
               /\ \E m \in DOMAIN backs : backs[m][1] = work'[k].backer
    <2>1. k \in 1..Len(backs)
      <3>1. SUFFICES ASSUME k \notin 1..Len(backs)
                     PROVE  FALSE
        OBVIOUS
      <3>2. PICK m \in 1..Len(said) : k = Len(backs) + m
        BY <1>4, <1>6, <3>1
      <3>. QED BY <1>3, <1>6, <3>2 DEF StatusesInWork
    <2>. QED BY <1>1, <1>2, <2>1, BackingType
  <1>. QED BY <1>5, <1>6

\* After a text's first step there is still a node for every task it has yet to serve.
LEMMA BegunTasksStay ==
  ASSUME LifecycleInv,
         NEW intent \in Intents, NEW said \in Sayings, NEW backs \in Backings,
         Begin(intent, said, backs)
  PROVE  TasksStay'
  <1>1. \A e \in Bearers :
          /\ node'[e] = "bare" => node[e] = "bare"
          /\ e \in Named(said) /\ node[e] # "bare" => node'[e] \notin {"absent", "bare"}
    BY BegunEntities
  <1>2. \A t \in Tasks : t \in Bearers /\ node[t] # "bare"
    BY DEF LifecycleInv, TasksStay, Bearers
  <1>3. \A k \in StatusesInWork' : work'[k].entity \in Named(said)
    BY BegunWork
  <1>4. \A t \in Tasks : node'[t] # "bare"
    BY <1>1, <1>2
  <1>5. ASSUME NEW k \in StatusesInWork', work'[k].entity \in Tasks
        PROVE  Typed(work[k].entity)'
    <2>1. node'[work'[k].entity] \notin {"absent", "bare"}
      BY <1>1, <1>2, <1>3, <1>5
    <2>. QED BY <2>1 DEF Typed
  <1>. QED BY <1>4, <1>5 DEF TasksStay

\* The rest of the work is part of the work.
LEMMA RestOfWork ==
  ASSUME work \in Seq(WorkItem), work # <<>>, work' = Tail(work)
  PROVE  /\ \A k \in StatusesInWork' :
              k + 1 \in StatusesInWork /\ work'[k] = work[k + 1]
         /\ \A k \in DOMAIN work' \ StatusesInWork' :
              k + 1 \in DOMAIN work \ StatusesInWork /\ work'[k] = work[k + 1]
  <1>1. \A k \in DOMAIN work' : k + 1 \in DOMAIN work /\ work'[k] = work[k + 1]
    BY FirstOfWork
  <1>. QED BY <1>1 DEF StatusesInWork

\* The later steps take no task's node away.
LEMMA TailTasksStay ==
  ASSUME work \in Seq(WorkItem), work # <<>>, TasksStay, work' = Tail(work),
         \A t \in Tasks : /\ node'[t] = "bare" => node[t] = "bare"
                          /\ Typed(t) => node'[t] \notin {"absent", "bare"}
  PROVE  TasksStay'
  <1>1. \A t \in Tasks : node'[t] # "bare"
    BY DEF TasksStay
  <1>2. ASSUME NEW k \in StatusesInWork', work'[k].entity \in Tasks
        PROVE  Typed(work[k].entity)'
    <2>1. k + 1 \in StatusesInWork /\ work'[k] = work[k + 1]
      BY RestOfWork
    <2>2. Typed(work[k + 1].entity)
      BY <1>2, <2>1 DEF TasksStay
    <2>3. node'[work'[k].entity] \notin {"absent", "bare"}
      BY <1>2, <2>1, <2>2
    <2>. QED BY <2>3 DEF Typed
  <1>. QED BY <1>1, <1>2 DEF TasksStay

LEMMA LifecycleInvInit == LifecycleInit => LifecycleInv
  <1>1. LifecycleInit => TypeOK /\ EdgesAreAcceptedRows
    BY StoresAgreeInit DEF StoresAgree, LifecycleInit
  <1>2. LifecycleInit => RowsAreOfTwoKinds
    BY DEF LifecycleInit, Init, RowsAreOfTwoKinds, Ids
  <1>3. LifecycleInit => TasksStay
    BY DEF LifecycleInit, TasksStay, StatusesInWork, Entities, Bearers
  <1>4. LifecycleInit => work \in Seq(WorkItem)
    BY DEF LifecycleInit
  <1>5. LifecycleInit => LifecycleTypeOK
    BY <1>1 DEF LifecycleInit, LifecycleTypeOK
  <1>. QED BY <1>1, <1>2, <1>3, <1>4, <1>5 DEF LifecycleInv

LEMMA AttachTyped ==
  ASSUME LifecycleInv, Attach
  PROVE  TypeOK' /\ EdgesAreAcceptedRows' /\ RowsAreOfTwoKinds'
  <1>1. TypeOK /\ EdgesAreAcceptedRows /\ RowsAreOfTwoKinds /\ work \in Seq(WorkItem)
    BY DEF LifecycleInv, LifecycleTypeOK
  <1>2. CASE RelationDropped
    <2>1. UNCHANGED vars
      BY <1>2 DEF RelationDropped
    <2>2. RowsAreOfTwoKinds'
      BY <1>1, <2>1 DEF RowsAreOfTwoKinds, Ids, vars
    <2>. QED BY <1>1, <2>1, <2>2, UnchangedTyped
  <1>3. CASE RelationHeld \/ RelationAccepted
    <2>1. PICK e, b, intent, c :
            /\ e = Head(work).entity /\ b = Head(work).backer /\ intent = Head(work).intent
            /\ c = Statement(Backs(b), e, intent)
      OBVIOUS
    <2>2. b \in Backers /\ e \in Bearers /\ intent \in Intents
      <3>1. Head(work) \in WorkItem /\ Relation
        BY <1>1, <1>3, FirstOfWork DEF Attach, RelationHeld, RelationAccepted
      <3>. QED BY <2>1, <3>1 DEF WorkItem, Relation
    <2>3. AcceptNew(c) \/ Reaffirm(c) \/ Quarantine(c, {})
      BY <1>3, <2>1 DEF RelationHeld, RelationAccepted, BackingClaim
    <2>4. Backs(b) \in Slots /\ e \in Objects
      BY <2>2, SlotKinds
    <2>. QED BY <1>1, <2>1, <2>2, <2>3, <2>4, StatementTyped
  <1>. QED BY <1>2, <1>3 DEF Attach

LEMMA ReconcileTyped ==
  ASSUME LifecycleInv, Reconcile
  PROVE  /\ TypeOK' /\ EdgesAreAcceptedRows' /\ RowsAreOfTwoKinds'
         /\ node' \in [Entities -> NodeValues] /\ stored' \in [Entities -> StoredValues]
         /\ orphans' \subseteq Decisions
         /\ \A t \in Tasks : /\ node'[t] = "bare" => node[t] = "bare"
                             /\ Typed(t) => node'[t] \notin {"absent", "bare"}
  <1>1. /\ TypeOK /\ EdgesAreAcceptedRows /\ RowsAreOfTwoKinds /\ work \in Seq(WorkItem)
        /\ node \in [Entities -> NodeValues] /\ stored \in [Entities -> StoredValues]
        /\ orphans \subseteq Decisions /\ TasksStay /\ work # <<>> /\ ~Relation
    BY DEF LifecycleInv, LifecycleTypeOK, NodeValues, StoredValues, Reconcile
  <1>2. Head(work).entity \in Tasks => Typed(Head(work).entity)
    <2>1. 1 \in StatusesInWork /\ Head(work) = work[1]
      BY <1>1, FirstOfWork DEF StatusesInWork, Relation
    <2>. QED BY <1>1, <2>1 DEF TasksStay
  <1>3. CASE UNCHANGED <<vars, node, stored, orphans>>
    <2>1. RowsAreOfTwoKinds'
      BY <1>1, <1>3 DEF RowsAreOfTwoKinds, Ids, vars
    <2>. QED BY <1>1, <1>3, <2>1, UnchangedTyped DEF Typed
  <1>4. CASE StatusStated
    <2>1. PICK e, status, intent, c :
            /\ e = Head(work).entity /\ status = Head(work).status
            /\ intent = Head(work).intent
            /\ c = Statement(StatusOf(e), status, intent)
      OBVIOUS
    <2>2. PICK old \in SUBSET StatusEdges(e) :
            \/ StatusUnchanged(e, status, old)
            \/ StatusAccepted(e, status, intent, old)
            \/ StatusHeld(e, status, intent, old)
            \/ DecisionRetracted(e, status, intent, old)
      BY <1>4, <2>1 DEF StatusStated
    <2>3. old \in SUBSET graph
      BY DEF StatusEdges
    <2>4. /\ e \in Bearers /\ status \in Statuses /\ intent \in Intents
          /\ StatusOf(e) \in Slots /\ status \in Objects /\ c \in Candidates
      BY <1>1, <1>4, <2>1, StatusType DEF StatusStated
    <2>5. CASE StatusUnchanged(e, status, old)
      BY <1>3, <2>5 DEF StatusUnchanged
    <2>6. CASE StatusAccepted(e, status, intent, old)
      <3>1. AcceptNew(c) \/ SupersedeWith(c, old)
        BY <2>1, <2>6 DEF StatusAccepted
      <3>2. /\ Synced(e, status)
            /\ orphans' = IF Typed(e) THEN orphans ELSE orphans \cup {e}
        BY <2>6 DEF StatusAccepted
      <3>3. node' \in [Entities -> NodeValues] /\ stored' \in [Entities -> StoredValues]
        BY <1>1, <2>4, <3>2 DEF Synced, NodeValues, StoredValues
      <3>4. orphans' \subseteq Decisions
        BY <1>1, <1>2, <2>1, <2>4, <3>2 DEF Bearers
      <3>5. status \notin {"absent", "bare"} /\ \A t \in Tasks : t \in Entities
        BY <2>4, LifecycleConstants DEF Entities, Bearers
      <3>6. ASSUME NEW t \in Tasks
            PROVE  /\ node'[t] = "bare" => node[t] = "bare"
                   /\ Typed(t) => node'[t] \notin {"absent", "bare"}
        <4>1. CASE t = e
          <5>1. node' = [node EXCEPT ![e] = status]
            BY <1>2, <2>1, <3>2, <4>1 DEF Synced
          <5>. QED BY <1>1, <3>5, <4>1, <5>1
        <4>2. CASE t # e
          <5>1. node'[t] = node[t]
            BY <1>1, <3>2, <3>5, <4>2 DEF Synced
          <5>. QED BY <5>1 DEF Typed
        <4>. QED BY <4>1, <4>2
      <3>7. TypeOK' /\ EdgesAreAcceptedRows' /\ RowsAreOfTwoKinds'
        BY <1>1, <2>1, <2>3, <2>4, <3>1, StatementTyped
      <3>. QED BY <3>3, <3>4, <3>6, <3>7
    <2>7. CASE StatusHeld(e, status, intent, old)
      <3>1. Quarantine(c, old) /\ UNCHANGED <<node, stored, orphans>>
        BY <2>1, <2>7 DEF StatusHeld
      <3>2. TypeOK' /\ EdgesAreAcceptedRows' /\ RowsAreOfTwoKinds'
        BY <1>1, <2>1, <2>3, <2>4, <3>1, StatementTyped
      <3>. QED BY <1>1, <3>1, <3>2 DEF Typed
    <2>8. CASE DecisionRetracted(e, status, intent, old)
      <3>1. /\ held' = Append(held, [cand |-> c, against |-> old])
            /\ graph' \subseteq graph
            /\ node' = [node EXCEPT ![e] = "absent"]
            /\ UNCHANGED <<rows, links, prov, linkEdges, pending, searchable, stored, orphans>>
            /\ e \in Decisions
        BY <2>1, <2>8 DEF DecisionRetracted, Retracts
      <3>2. held' \in Seq([cand : Candidates, against : SUBSET Nat])
        BY <1>1, <2>3, <2>4, <3>1, HoldTyped
      <3>3. TypeOK'
        BY <1>1, <3>1, <3>2 DEF TypeOK, Ids
      <3>4. EdgesAreAcceptedRows' /\ RowsAreOfTwoKinds'
        BY <1>1, <3>1 DEF EdgesAreAcceptedRows, RowsAreOfTwoKinds, Ids
      <3>5. node' \in [Entities -> NodeValues] /\ stored' \in [Entities -> StoredValues]
        BY <1>1, <3>1 DEF NodeValues
      <3>6. \A t \in Tasks : node'[t] = node[t]
        BY <1>1, <3>1, LifecycleConstants
      <3>7. \A t \in Tasks : /\ node'[t] = "bare" => node[t] = "bare"
                             /\ Typed(t) => node'[t] \notin {"absent", "bare"}
        BY <3>6 DEF Typed
      <3>. QED BY <1>1, <3>1, <3>3, <3>4, <3>5, <3>7
    <2>. QED BY <2>2, <2>5, <2>6, <2>7, <2>8
  <1>. QED BY <1>3, <1>4 DEF Reconcile, NothingStated

LEMMA RestartTyped ==
  ASSUME LifecycleInv, LifecycleRestart
  PROVE  TypeOK' /\ EdgesAreAcceptedRows' /\ RowsAreOfTwoKinds'
  <1>1. TypeOK /\ EdgesAreAcceptedRows /\ RowsAreOfTwoKinds
    BY DEF LifecycleInv, LifecycleTypeOK
  <1>2. /\ rows' = rows /\ links' = links /\ prov' = prov /\ held' = held
        /\ linkEdges' = {} /\ pending' = {} /\ searchable' \subseteq searchable
        /\ graph' \subseteq Rebuilt
    BY DEF LifecycleRestart, durable
  <1>3. Rebuilt \subseteq Accepted /\ Accepted \subseteq Ids /\ Ids \subseteq Nat
    BY <1>1 DEF Rebuilt, Accepted, Ids, TypeOK
  <1>4. TypeOK'
    BY <1>1, <1>2, <1>3 DEF TypeOK, Ids
  <1>5. EdgesAreAcceptedRows'
    <2>1. \A i, j \in Rebuilt : SameTriple(rows[i], rows[j]) => i = j
      BY <1>3 DEF Rebuilt, SameTriple
    <2>. QED BY <1>2, <1>3, <2>1 DEF EdgesAreAcceptedRows, Accepted, SameTriple
  <1>6. RowsAreOfTwoKinds'
    BY <1>1, <1>2 DEF RowsAreOfTwoKinds, Ids
  <1>. QED BY <1>4, <1>5, <1>6

LEMMA LifecycleInvStep == LifecycleInv /\ [LifecycleNext]_lvars => LifecycleInv'
  <1>. SUFFICES ASSUME LifecycleInv, [LifecycleNext]_lvars
                PROVE  LifecycleInv'
    OBVIOUS
  <1>1. /\ TypeOK /\ EdgesAreAcceptedRows /\ RowsAreOfTwoKinds /\ work \in Seq(WorkItem)
        /\ node \in [Entities -> NodeValues] /\ stored \in [Entities -> StoredValues]
        /\ orphans \subseteq Decisions /\ TasksStay
    BY DEF LifecycleInv, LifecycleTypeOK, NodeValues, StoredValues
  <1>. DEFINE Stores == TypeOK /\ EdgesAreAcceptedRows /\ RowsAreOfTwoKinds
              Nodes == node \in [Entities -> NodeValues] /\ stored \in [Entities -> StoredValues]
                         /\ orphans \subseteq Decisions
  <1>2. Stores' /\ Nodes' /\ work' \in Seq(WorkItem) /\ TasksStay' => LifecycleInv'
    BY DEF LifecycleInv, LifecycleTypeOK, NodeValues, StoredValues
  <1>3. ASSUME UNCHANGED vars
        PROVE  Stores'
    BY <1>1, <1>3, UnchangedTyped DEF RowsAreOfTwoKinds, Ids, vars
  <1>4. ASSUME NEW intent \in Intents, NEW said \in Sayings, NEW backs \in Backings,
               Begin(intent, said, backs)
        PROVE  LifecycleInv'
    <2>1. UNCHANGED vars /\ Nodes'
      BY <1>1, <1>4, BegunEntities
    <2>2. work' \in Seq(WorkItem) /\ TasksStay'
      BY <1>4, WorkBegun, BegunTasksStay
    <2>. QED BY <1>2, <1>3, <2>1, <2>2
  <1>5. CASE Attach
    <2>1. /\ Nodes' /\ work' \in Seq(WorkItem) /\ work # <<>> /\ work' = Tail(work)
          /\ node' = node
      BY <1>1, <1>5, FirstOfWork DEF Attach
    <2>2. TasksStay'
      BY <1>1, <2>1, TailTasksStay DEF Typed
    <2>. QED BY <1>2, <1>5, <2>1, <2>2, AttachTyped
  <1>6. CASE Reconcile
    <2>1. work' \in Seq(WorkItem) /\ work # <<>> /\ work' = Tail(work)
      BY <1>1, <1>6, FirstOfWork DEF Reconcile
    <2>2. TasksStay'
      BY <1>1, <1>6, <2>1, ReconcileTyped, TailTasksStay
    <2>. QED BY <1>2, <1>6, <2>1, <2>2, ReconcileTyped
  <1>7. CASE LifecycleRestart
    <2>1. Nodes' /\ work' = <<>> /\ node' = stored
      BY <1>1, <1>7 DEF LifecycleRestart, NodeValues, StoredValues
    <2>2. \A t \in Tasks : stored[t] # "bare"
      BY <1>1, LifecycleConstants DEF StoredValues, Entities, Bearers
    <2>3. TasksStay' /\ work' \in Seq(WorkItem)
      BY <2>1, <2>2 DEF TasksStay, StatusesInWork
    <2>. QED BY <1>2, <1>7, <2>1, <2>3, RestartTyped
  <1>8. CASE UNCHANGED lvars
    <2>1. UNCHANGED vars /\ Nodes' /\ work' \in Seq(WorkItem)
      BY <1>1, <1>8 DEF lvars
    <2>2. TasksStay'
      BY <1>1, <1>8 DEF lvars, TasksStay, StatusesInWork, Typed
    <2>. QED BY <1>2, <1>3, <2>1, <2>2
  <1>. QED BY <1>4, <1>5, <1>6, <1>7, <1>8 DEF LifecycleNext

LEMMA LifecycleInvAlways == LifecycleSpec => []LifecycleInv
  BY LifecycleInvInit, LifecycleInvStep, PTL DEF LifecycleSpec

\* The three places a status is kept in always hold values they may hold, and no
\* store names a row that is not there.
THEOREM LifecycleIsTyped == LifecycleSpec => []LifecycleTypeOK
  <1>1. LifecycleInv => LifecycleTypeOK
    BY DEF LifecycleInv
  <1>. QED BY <1>1, LifecycleInvAlways, PTL

-----------------------------------------------------------------------------
(* Which rows a step retires. *)

\* A stated status: what it is about, and what it is compared with.
LEMMA StatedStatus ==
  ASSUME LifecycleInv, StatusStated, work # <<>>
  PROVE  \E e \in Bearers, status \in Statuses, intent \in Intents,
            old \in SUBSET graph :
           /\ e = Head(work).entity /\ status = Head(work).status
           /\ intent = Head(work).intent
           /\ old \subseteq StatusEdges(e)
           /\ old = {} => StatusEdges(e) = {}
           /\ \A i, j \in old : i = j
           /\ \/ StatusUnchanged(e, status, old)
              \/ /\ \A i \in old : rows[i].obj # status
                 /\ \/ StatusAccepted(e, status, intent, old)
                    \/ StatusHeld(e, status, intent, old)
                    \/ DecisionRetracted(e, status, intent, old)
  <1>1. work \in Seq(WorkItem) /\ Head(work).status # "unknown"
    BY DEF LifecycleInv, StatusStated
  <1>2. PICK e, status, intent :
          e = Head(work).entity /\ status = Head(work).status /\ intent = Head(work).intent
    OBVIOUS
  <1>3. e \in Bearers /\ status \in Statuses /\ intent \in Intents
    BY <1>1, <1>2, StatusType
  <1>4. PICK old \in IF StatusEdges(e) = {} THEN {{}} ELSE {{i} : i \in StatusEdges(e)} :
          \/ StatusUnchanged(e, status, old)
          \/ /\ \A i \in old : rows[i].obj # status
             /\ \/ StatusAccepted(e, status, intent, old)
                \/ StatusHeld(e, status, intent, old)
                \/ DecisionRetracted(e, status, intent, old)
    BY <1>2 DEF StatusStated
  <1>5. /\ old \subseteq StatusEdges(e)
        /\ old = {} => StatusEdges(e) = {}
        /\ \A i, j \in old : i = j
    BY <1>4
  <1>6. old \in SUBSET graph
    BY <1>5 DEF StatusEdges
  <1>. QED BY <1>2, <1>3, <1>4, <1>5, <1>6

\* A step that retires a task's status follows the transition map, completes the
\* task or serves a correction.
LEMMA ChangeIsPermitted ==
  ASSUME LifecycleInv, [LifecycleNext]_lvars, NEW i \in Ids,
         StatusRow(i), Entity(i) \in Tasks,
         rows[i].status = "accepted", rows'[i].status = "superseded"
  PROVE  LET new == rows'[Len(rows')].obj IN
         \/ Permitted(rows[i].obj, new)
         \/ rows[i].obj # "done" /\ new = "done"
         \/ Head(work).intent = "correction"
  <1>1. TypeOK /\ EdgesAreAcceptedRows /\ work \in Seq(WorkItem)
    BY DEF LifecycleInv, LifecycleTypeOK
  <1>2. rows' # rows
    OBVIOUS
  <1>3. ASSUME NEW c \in Candidates, AcceptNew(c)
        PROVE  FALSE
    <2>1. PICK n : n = Len(rows) + 1
      OBVIOUS
    <2>2. rows'[i] = rows[i]
      BY <1>1, <1>3, <2>1, AcceptNewRows
    <2>. QED BY <2>2
  <1>4. Reconcile
    <2>1. ASSUME Attach
          PROVE  FALSE
      <3>1. PICK c : c = BackingClaim
        OBVIOUS
      <3>2. AcceptNew(c)
        BY <1>2, <2>1, <3>1 DEF Attach, RelationDropped, RelationHeld, RelationAccepted,
             Reaffirm, Quarantine, vars
      <3>3. Relation /\ work # <<>>
        BY <2>1 DEF Attach, RelationDropped, RelationHeld, RelationAccepted
      <3>4. c \in Candidates
        BY <1>1, <3>1, <3>3, ClaimType
      <3>. QED BY <1>3, <3>2, <3>4
    <2>. QED BY <1>2, <2>1 DEF LifecycleNext, Begin, LifecycleRestart, vars, durable, lvars
  <1>5. work # <<>> /\ StatusStated
    BY <1>2, <1>4 DEF Reconcile, NothingStated, vars
  <1>6. PICK e \in Bearers, status \in Statuses, intent \in Intents, old \in SUBSET graph :
           /\ e = Head(work).entity /\ status = Head(work).status
           /\ intent = Head(work).intent
           /\ old \subseteq StatusEdges(e)
           /\ old = {} => StatusEdges(e) = {}
           /\ \A j, k \in old : j = k
           /\ \/ StatusUnchanged(e, status, old)
              \/ /\ \A j \in old : rows[j].obj # status
                 /\ \/ StatusAccepted(e, status, intent, old)
                    \/ StatusHeld(e, status, intent, old)
                    \/ DecisionRetracted(e, status, intent, old)
    BY <1>5, StatedStatus
  <1>7. StatusAccepted(e, status, intent, old) /\ \A j \in old : rows[j].obj # status
    BY <1>2, <1>6 DEF StatusUnchanged, StatusHeld, DecisionRetracted, Quarantine, vars
  <1>8. PICK c : c = Statement(StatusOf(e), status, intent)
    OBVIOUS
  <1>9. c \in Candidates
    BY <1>8, SlotKinds, StatementType
  <1>10. SupersedeWith(c, old) /\ Allowed(e, status, intent, old)
    BY <1>3, <1>7, <1>8, <1>9 DEF StatusAccepted
  <1>11. i \in old /\ old # {}
    <2>1. PICK n : n = Len(rows) + 1
      OBVIOUS
    <2>2. \A k \in Ids \ old : rows'[k] = rows[k]
      BY <1>1, <1>9, <1>10, <2>1, SupersedeRows
    <2>. QED BY <2>2
  <1>12. rows[i].slot = StatusOf(e) /\ e \in Tasks
    BY <1>6, <1>11, SlotKinds DEF StatusEdges, Entity
  <1>13. rows[i].obj # status /\ \A k \in old : k = i
    BY <1>6, <1>7, <1>11
  <1>14. rows'[Len(rows')].obj = status
    <2>1. PICK n : n = Len(rows) + 1
      OBVIOUS
    <2>2. rows' \in Seq(RowSet) /\ Ids' = Ids \cup {n} /\ rows'[n] = RowOf(c)
      BY <1>1, <1>9, <1>10, <2>1, SupersedeRows
    <2>3. PICK k \in Nat : k = Len(rows) /\ Ids = 1..k
      BY <1>1 DEF Ids, TypeOK
    <2>4. PICK m \in Nat : m = Len(rows') /\ Ids' = 1..m
      <3>1. \A s \in Seq(RowSet) : Len(s) \in Nat /\ DOMAIN s = 1..Len(s)
        OBVIOUS
      <3>. QED BY <2>2, <3>1 DEF Ids
    <2>5. 1..m = 1..k \cup {k + 1}
      BY <2>1, <2>2, <2>3, <2>4
    <2>6. m = k + 1
      BY <2>5
    <2>. QED BY <1>8, <2>1, <2>2, <2>3, <2>4, <2>6 DEF RowOf, Statement
  <1>15. e \notin Decisions
    BY <1>12, LifecycleConstants
  <1>16. CASE status = "done"
    BY <1>13, <1>14, <1>16
  <1>17. CASE status # "done"
    <2>1. intent = "correction" \/ \E k \in old : Permitted(rows[k].obj, status)
      BY <1>10, <1>11, <1>12, <1>15, <1>17 DEF Allowed
    <2>. QED BY <1>6, <1>13, <1>14, <2>1
  <1>. QED BY <1>16, <1>17

\* A task's accepted status changes along the transition map, to done or on a
\* correction, whatever is written meanwhile and wherever the process stops: its
\* completion is undone only by a correction.
THEOREM ChangesAlwaysPermitted == LifecycleSpec => ChangesArePermitted
  <1>1. LifecycleInv /\ [LifecycleNext]_lvars
          => [\A i \in Ids :
                /\ StatusRow(i) /\ Entity(i) \in Tasks
                /\ rows[i].status = "accepted" /\ rows'[i].status = "superseded"
                => LET new == rows'[Len(rows')].obj IN
                   \/ Permitted(rows[i].obj, new)
                   \/ rows[i].obj # "done" /\ new = "done"
                   \/ Head(work).intent = "correction"]_lvars
    BY ChangeIsPermitted
  <1>. QED BY <1>1, LifecycleInvAlways, PTL DEF LifecycleSpec, ChangesArePermitted

-----------------------------------------------------------------------------
(* What a relation and a stated status do to rows and edges. *)

\* Row n, and with it edge n, is new: slot's value is obj.
NewEdge(n, slot, obj) ==
  /\ n \in Nat /\ n \notin Ids /\ \A i \in Ids : i \in Nat /\ i < n
  /\ Ids' = Ids \cup {n}
  /\ \A i \in Ids : rows'[i].slot = rows[i].slot /\ rows'[i].obj = rows[i].obj
  /\ rows'[n].slot = slot /\ rows'[n].obj = obj

LEMMA AttachRows ==
  ASSUME LifecycleInv, Attach
  PROVE  /\ UNCHANGED <<node, stored, orphans>> /\ work # <<>> /\ Relation /\ work' = Tail(work)
         /\ Head(work).backer \in Backers /\ Head(work).entity \in Bearers
         /\ \/ UNCHANGED <<rows, graph>>
            \/ /\ Supported(Head(work).entity, node[Head(work).entity])
               /\ Typed(Head(work).entity)
               /\ \E n : /\ NewEdge(n, Backs(Head(work).backer), Head(work).entity)
                         /\ graph' = graph \cup {n} /\ Accepted' = Accepted \cup {n}
                         /\ \A i \in graph :
                              \/ rows[i].slot # Backs(Head(work).backer)
                              \/ rows[i].obj # Head(work).entity
  <1>1. TypeOK /\ EdgesAreAcceptedRows /\ work \in Seq(WorkItem)
    BY DEF LifecycleInv, LifecycleTypeOK
  <1>2. /\ UNCHANGED <<node, stored, orphans>> /\ work # <<>> /\ work' = Tail(work) /\ Relation
    BY DEF Attach, RelationDropped, RelationHeld, RelationAccepted
  <1>3. PICK c, n : c = BackingClaim /\ n = Len(rows) + 1
    OBVIOUS
  <1>4. /\ Head(work).backer \in Backers /\ Head(work).entity \in Bearers
        /\ c \in Candidates
        /\ c.slot = Backs(Head(work).backer) /\ c.obj = Head(work).entity
    BY <1>1, <1>2, <1>3, ClaimType
  <1>5. CASE ~AcceptNew(c) \/ ~RelationAccepted
    <2>1. UNCHANGED <<rows, graph>>
      BY <1>3, <1>5 DEF Attach, RelationDropped, RelationHeld, RelationAccepted,
           Reaffirm, Quarantine, vars
    <2>. QED BY <1>2, <1>4, <2>1
  <1>6. CASE AcceptNew(c) /\ RelationAccepted
    <2>1. /\ Ids' = Ids \cup {n} /\ n \notin Ids
          /\ n \in Nat /\ \A i \in Ids : i \in Nat /\ i < n
          /\ \A i \in Ids : rows'[i] = rows[i]
      BY <1>1, <1>3, <1>4, <1>6, AcceptNewRows
    <2>2. /\ rows'[n] = RowOf(c) /\ graph' = graph \cup {n}
          /\ Accepted' = Accepted \cup {n}
          /\ \A i \in graph : ~SameTriple(rows[i], c)
      BY <1>1, <1>3, <1>4, <1>6, AcceptNewRows
    <2>3. rows'[n].slot = c.slot /\ rows'[n].obj = c.obj
      BY <1>4, <2>2, RowOfType
    <2>4. NewEdge(n, Backs(Head(work).backer), Head(work).entity)
      BY <1>4, <2>1, <2>3 DEF NewEdge
    <2>5. \A i \in graph : \/ rows[i].slot # Backs(Head(work).backer)
                           \/ rows[i].obj # Head(work).entity
      BY <1>4, <2>2 DEF SameTriple
    <2>6. Supported(Head(work).entity, node[Head(work).entity]) /\ Typed(Head(work).entity)
      BY <1>6 DEF RelationAccepted
    <2>. QED BY <1>2, <1>4, <2>2, <2>4, <2>5, <2>6
  <1>. QED BY <1>5, <1>6

\* Row n gives e its status: it replaces old, the status e had if the graph knew one.
Gets(e, status, old, n) ==
  /\ Supported(e, status)
  /\ NewEdge(n, StatusOf(e), status)
  /\ old \subseteq StatusEdges(e)
  /\ old = {} => StatusEdges(e) = {}
  /\ \A i, j \in old : i = j
  /\ graph' = {i \in graph \ old : rows[i].slot # StatusOf(e) \/ rows[i].obj # status}
                \cup {n}
  /\ Accepted' = (Accepted \ old) \cup {n}
  /\ Synced(e, status)
  /\ orphans' = IF Typed(e) THEN orphans ELSE orphans \cup {e}

\* Decision e is refused a first status, and leaves the graph with what backs it.
Loses(e, status) ==
  /\ ~Supported(e, status) /\ e \in Decisions /\ StatusEdges(e) = {}
  /\ graph' = graph \ Backing(e)
  /\ node' = [node EXCEPT ![e] = "absent"]
  /\ UNCHANGED <<rows, stored, orphans>>

LEMMA ReconcileRows ==
  ASSUME LifecycleInv, Reconcile
  PROVE  /\ work # <<>> /\ ~Relation /\ work' = Tail(work)
         /\ \/ UNCHANGED <<rows, graph, node, stored, orphans>>
            \/ \E e \in Bearers, status \in Statuses, old \in SUBSET graph :
                 \E n : Gets(e, status, old, n)
            \/ \E e \in Bearers, status \in Statuses : Loses(e, status)
  <1>1. /\ TypeOK /\ EdgesAreAcceptedRows /\ work \in Seq(WorkItem)
    BY DEF LifecycleInv, LifecycleTypeOK
  <1>2. work # <<>> /\ ~Relation /\ work' = Tail(work)
    BY DEF Reconcile
  <1>3. CASE UNCHANGED <<rows, graph, node, stored, orphans>>
    BY <1>2, <1>3
  <1>4. CASE ~UNCHANGED <<rows, graph, node, stored, orphans>>
    <2>1. StatusStated
      BY <1>4 DEF Reconcile, NothingStated, vars
    <2>2. PICK e \in Bearers, status \in Statuses, intent \in Intents,
               old \in SUBSET graph :
           /\ e = Head(work).entity /\ status = Head(work).status
           /\ intent = Head(work).intent
           /\ old \subseteq StatusEdges(e)
           /\ old = {} => StatusEdges(e) = {}
           /\ \A j, k \in old : j = k
           /\ \/ StatusUnchanged(e, status, old)
              \/ /\ \A j \in old : rows[j].obj # status
                 /\ \/ StatusAccepted(e, status, intent, old)
                    \/ StatusHeld(e, status, intent, old)
                    \/ DecisionRetracted(e, status, intent, old)
      BY <1>2, <2>1, StatedStatus
    <2>3. ~StatusUnchanged(e, status, old) /\ ~StatusHeld(e, status, intent, old)
      BY <1>4 DEF StatusUnchanged, StatusHeld, Quarantine, vars
    <2>4. CASE StatusAccepted(e, status, intent, old)
      <3>1. PICK c, n : c = Statement(StatusOf(e), status, intent) /\ n = Len(rows) + 1
        OBVIOUS
      <3>2. c \in Candidates /\ c.slot = StatusOf(e) /\ c.obj = status
        BY <3>1, SlotKinds, StatementType
      <3>3. /\ Synced(e, status) /\ Supported(e, status)
            /\ orphans' = IF Typed(e) THEN orphans ELSE orphans \cup {e}
        BY <2>4 DEF StatusAccepted, Allowed
      <3>4. CASE old = {}
        <4>0. AcceptNew(c)
          BY <2>4, <3>1, <3>4 DEF StatusAccepted
        <4>1. /\ Ids' = Ids \cup {n} /\ n \notin Ids
              /\ n \in Nat /\ \A i \in Ids : i \in Nat /\ i < n
              /\ \A i \in Ids : rows'[i] = rows[i]
          BY <1>1, <3>1, <3>2, <4>0, AcceptNewRows
        <4>2. /\ rows'[n] = RowOf(c) /\ graph' = graph \cup {n}
              /\ Accepted' = Accepted \cup {n}
              /\ \A i \in graph : ~SameTriple(rows[i], c)
          BY <1>1, <3>1, <3>2, <4>0, AcceptNewRows
        <4>3. NewEdge(n, StatusOf(e), status)
          BY <3>2, <4>1, <4>2, RowOfType DEF NewEdge
        <4>4. {i \in graph \ old : rows[i].slot # StatusOf(e) \/ rows[i].obj # status} = graph
          BY <3>2, <3>4, <4>2 DEF SameTriple
        <4>5. Accepted' = (Accepted \ old) \cup {n}
          BY <3>4, <4>2
        <4>6. Gets(e, status, old, n)
          BY <2>2, <3>3, <4>2, <4>3, <4>4, <4>5 DEF Gets
        <4>. QED BY <1>2, <4>6
      <3>5. CASE old # {}
        <4>0. SupersedeWith(c, old)
          BY <2>4, <3>1, <3>5 DEF StatusAccepted
        <4>1. /\ Ids' = Ids \cup {n} /\ n \notin Ids
              /\ n \in Nat /\ \A i \in Ids : i \in Nat /\ i < n
              /\ rows'[n] = RowOf(c)
          BY <1>1, <3>1, <3>2, <4>0, SupersedeRows
        <4>2. /\ graph' = {i \in graph \ old : ~SameTriple(rows[i], c)} \cup {n}
              /\ Accepted' = (Accepted \ old) \cup {n}
          BY <1>1, <3>1, <3>2, <4>0, SupersedeRows
        <4>3. \A i \in Ids : rows'[i].slot = rows[i].slot /\ rows'[i].obj = rows[i].obj
          BY <1>1, <3>2, <4>0, SupersedeFields
        <4>4. NewEdge(n, StatusOf(e), status)
          BY <3>2, <4>1, <4>3, RowOfType DEF NewEdge
        <4>5. \A i \in graph : ~SameTriple(rows[i], c) <=>
                               rows[i].slot # StatusOf(e) \/ rows[i].obj # status
          BY <3>2 DEF SameTriple
        <4>6. graph' = {i \in graph \ old :
                          rows[i].slot # StatusOf(e) \/ rows[i].obj # status} \cup {n}
          BY <4>2, <4>5
        <4>7. Gets(e, status, old, n)
          BY <2>2, <3>3, <4>2, <4>4, <4>6 DEF Gets
        <4>. QED BY <1>2, <4>7
      <3>. QED BY <3>4, <3>5
    <2>5. CASE DecisionRetracted(e, status, intent, old)
      <3>1. /\ e \in Decisions /\ old = {} /\ ~Supported(e, status)
            /\ graph' = graph \ (StatusEdges(e) \cup Backing(e))
            /\ node' = [node EXCEPT ![e] = "absent"]
            /\ UNCHANGED <<rows, stored, orphans>>
        BY <2>5 DEF DecisionRetracted, Retracts, Allowed
      <3>2. StatusEdges(e) = {} /\ graph' = graph \ Backing(e)
        BY <2>2, <3>1
      <3>3. Loses(e, status)
        BY <3>1, <3>2 DEF Loses
      <3>. QED BY <1>2, <3>3
    <2>. QED BY <2>2, <2>3, <2>4, <2>5
  <1>. QED BY <1>3, <1>4

\* What the invariants below use of LifecycleInv.
LEMMA LifecycleFacts ==
  ASSUME LifecycleInv
  PROVE  /\ TypeOK /\ EdgesAreAcceptedRows /\ RowsAreOfTwoKinds /\ work \in Seq(WorkItem)
         /\ node \in [Entities -> NodeValues] /\ stored \in [Entities -> StoredValues]
         /\ graph \subseteq Ids /\ graph \subseteq Accepted /\ Accepted \subseteq Ids
         /\ Ids \subseteq Nat /\ orphans \subseteq Decisions
         /\ \A i \in Ids : StatusRow(i) =>
              /\ Entity(i) \in Bearers /\ rows[i].obj \in Statuses
              /\ rows[i].slot = StatusOf(Entity(i))
         /\ \A i \in Ids : ~StatusRow(i) =>
              /\ Entity(i) \in Backers /\ rows[i].obj \in Bearers
              /\ rows[i].slot = Backs(Entity(i))
  <1>1. /\ TypeOK /\ EdgesAreAcceptedRows /\ RowsAreOfTwoKinds /\ work \in Seq(WorkItem)
        /\ node \in [Entities -> NodeValues] /\ stored \in [Entities -> StoredValues]
        /\ orphans \subseteq Decisions
    BY DEF LifecycleInv, LifecycleTypeOK, NodeValues, StoredValues
  <1>2. /\ graph \subseteq Ids /\ graph \subseteq Accepted /\ Accepted \subseteq Ids
        /\ Ids \subseteq Nat
    BY <1>1 DEF TypeOK, EdgesAreAcceptedRows, Accepted, Ids
  <1>. QED BY <1>1, <1>2, RowKinds

\* A row is of the kind, and about the entity, it was minted for.
LEMMA SameKinds ==
  ASSUME NEW i, rows'[i].slot = rows[i].slot
  PROVE  StatusRow(i)' = StatusRow(i) /\ Entity(i)' = Entity(i)
  BY DEF StatusRow, Entity

-----------------------------------------------------------------------------
(* One status, and the attribute that agrees with it. *)

LEMMA StatusInvBegin ==
  ASSUME StatusInv,
         NEW intent \in Intents, NEW said \in Sayings, NEW backs \in Backings,
         Begin(intent, said, backs)
  PROVE  StatusInv'
  <1>1. LifecycleInv /\ LifecycleInv' /\ StatusesKept
    BY LifecycleInvStep DEF StatusInv, LifecycleNext
  <1>2. UNCHANGED vars /\ orphans' = orphans
    BY <1>1, BegunEntities
  <1>3. \A e \in Bearers :
          node[e] # "absent" => node'[e] = node[e] /\ stored'[e] = stored[e]
    BY <1>1, BegunEntities
  <1>4. \A i \in graph : StatusRow(i) =>
          Entity(i) \in Bearers /\ rows[i].obj # "absent"
    BY <1>1, LifecycleFacts, SlotKinds, LifecycleConstants
  <1>5. rows' = rows /\ graph' = graph /\ Accepted' = Accepted
    BY <1>2 DEF vars, Accepted, Ids
  <1>6. AttributeAgreesButOrphans'
    BY <1>1, <1>2, <1>3, <1>4, <1>5
       DEF StatusesKept, AttributeAgreesButOrphans, StatusRow, Entity
  <1>7. /\ OneStatusButOrphans'
        /\ (\A i \in Accepted : StatusRow(i) /\ Entity(i) \notin orphans => i \in graph)'
    BY <1>1, <1>2, <1>5 DEF StatusesKept, OneStatusButOrphans, StatusRow, Entity
  <1>. QED BY <1>1, <1>6, <1>7 DEF StatusInv, StatusesKept

LEMMA StatusInvAttach ==
  ASSUME StatusInv, Attach
  PROVE  StatusInv'
  <1>1. /\ LifecycleInv /\ LifecycleInv' /\ StatusesKept
        /\ graph \subseteq Ids /\ graph \subseteq Accepted /\ Accepted \subseteq Ids
    BY LifecycleInvStep, LifecycleFacts DEF StatusInv, LifecycleNext
  <1>2. /\ UNCHANGED <<node, stored, orphans>> /\ Head(work).backer \in Backers
    BY <1>1, AttachRows
  <1>3. CASE UNCHANGED <<rows, graph>>
    <2>1. StatusesKept'
      BY <1>1, <1>2, <1>3 DEF StatusesKept, OneStatusButOrphans, AttributeAgreesButOrphans,
           Accepted, Ids, StatusRow, Entity
    <2>. QED BY <1>1, <2>1 DEF StatusInv
  <1>4. CASE ~UNCHANGED <<rows, graph>>
    <2>1. PICK n : /\ NewEdge(n, Backs(Head(work).backer), Head(work).entity)
                   /\ graph' = graph \cup {n} /\ Accepted' = Accepted \cup {n}
      BY <1>1, <1>4, AttachRows
    <2>2. /\ n \notin Ids /\ rows'[n].slot \notin StatusSlots
          /\ \A i \in Ids : rows'[i].slot = rows[i].slot /\ rows'[i].obj = rows[i].obj
      BY <1>2, <2>1, SlotKinds DEF NewEdge
    <2>3. \A i \in Ids : StatusRow(i)' = StatusRow(i) /\ Entity(i)' = Entity(i)
      BY <2>2, SameKinds
    <2>4. ~StatusRow(n)'
      BY <2>2 DEF StatusRow
    <2>5. (\A i \in Accepted : StatusRow(i) /\ Entity(i) \notin orphans => i \in graph)'
      BY <1>1, <1>2, <2>1, <2>3, <2>4 DEF StatusesKept
    <2>6. AttributeAgreesButOrphans'
      BY <1>1, <1>2, <2>1, <2>2, <2>3, <2>4 DEF StatusesKept, AttributeAgreesButOrphans
    <2>7. OneStatusButOrphans'
      <3>1. SUFFICES ASSUME NEW i \in Accepted', NEW j \in Accepted',
                            rows'[i].slot = rows'[j].slot, StatusRow(i)',
                            Entity(i)' \notin orphans'
                     PROVE  i = j
        BY DEF OneStatusButOrphans
      <3>2. i # n /\ j # n
        BY <2>4, <3>1 DEF StatusRow
      <3>3. i \in Accepted /\ j \in Accepted
        BY <2>1, <3>2
      <3>4. rows[i].slot = rows[j].slot /\ StatusRow(i) /\ Entity(i) \notin orphans
        BY <1>1, <1>2, <2>2, <2>3, <3>1, <3>3
      <3>. QED BY <1>1, <3>3, <3>4 DEF StatusesKept, OneStatusButOrphans
    <2>. QED BY <1>1, <2>5, <2>6, <2>7 DEF StatusInv, StatusesKept
  <1>. QED BY <1>3, <1>4

LEMMA StatusInvGets ==
  ASSUME StatusInv, NEW e \in Bearers, NEW status \in Statuses, NEW old \in SUBSET graph,
         NEW n, Gets(e, status, old, n)
  PROVE  StatusesKept'
  <1>1. /\ LifecycleInv /\ StatusesKept
        /\ node \in [Entities -> NodeValues] /\ stored \in [Entities -> StoredValues]
        /\ graph \subseteq Ids /\ graph \subseteq Accepted /\ Accepted \subseteq Ids
        /\ \A i \in Ids : StatusRow(i) =>
             Entity(i) \in Bearers /\ rows[i].slot = StatusOf(Entity(i))
    BY LifecycleFacts DEF StatusInv
  <1>2. /\ graph' = {i \in graph \ old :
                       rows[i].slot # StatusOf(e) \/ rows[i].obj # status} \cup {n}
        /\ Accepted' = (Accepted \ old) \cup {n}
        /\ Synced(e, status)
        /\ orphans' = IF Typed(e) THEN orphans ELSE orphans \cup {e}
    BY DEF Gets
  <1>3. /\ n \notin Ids /\ rows'[n].slot = StatusOf(e) /\ rows'[n].obj = status
        /\ \A i \in Ids : rows'[i].slot = rows[i].slot /\ rows'[i].obj = rows[i].obj
    BY DEF Gets, NewEdge
  <1>4. \A i \in Ids : StatusRow(i)' = StatusRow(i) /\ Entity(i)' = Entity(i)
    BY <1>3, SameKinds
  <1>5. StatusRow(n)' /\ Entity(n)' = e
    BY <1>3, SlotKinds DEF StatusRow, Entity
  <1>6. orphans \subseteq orphans' /\ (e \notin orphans' => Typed(e))
    BY <1>2
  <1>7. ASSUME NEW i \in Accepted \ old, StatusRow(i), Entity(i) \notin orphans'
        PROVE  /\ Entity(i) # e /\ i \in graph' /\ Entity(i) \notin orphans
               /\ rows[i].slot # StatusOf(e)
    <2>1. i \in Ids /\ Entity(i) \notin orphans /\ i \in graph
      BY <1>1, <1>6, <1>7 DEF StatusesKept
    <2>2. rows[i].slot = StatusOf(Entity(i)) /\ Entity(i) \in Bearers
      BY <1>1, <1>7, <2>1
    <2>3. Entity(i) # e
      <3>1. SUFFICES ASSUME Entity(i) = e
                     PROVE  FALSE
        OBVIOUS
      <3>2. i \in StatusEdges(e)
        BY <2>1, <2>2, <3>1 DEF StatusEdges
      <3>3. PICK j \in old : j \in StatusEdges(e)
        BY <3>2 DEF Gets
      <3>4. j \in Accepted /\ rows[j].slot = rows[i].slot
        BY <1>1, <2>2, <3>1, <3>3 DEF StatusEdges
      <3>5. i = j
        BY <1>1, <1>7, <2>1, <3>4 DEF StatusesKept, OneStatusButOrphans
      <3>. QED BY <1>7, <3>3, <3>5
    <2>4. rows[i].slot # StatusOf(e)
      BY <2>2, <2>3, SlotKinds
    <2>5. i \in graph'
      BY <1>2, <1>7, <2>1, <2>4
    <2>. QED BY <2>1, <2>3, <2>4, <2>5
  <1>8. ASSUME NEW i \in Accepted', StatusRow(i)', Entity(i)' \notin orphans', i # n
        PROVE  /\ i \in Accepted \ old /\ i \in Ids /\ StatusRow(i)
               /\ Entity(i) = Entity(i)' /\ Entity(i) \notin orphans'
    <2>1. i \in Accepted \ old /\ i \in Ids
      BY <1>1, <1>2, <1>8
    <2>. QED BY <1>4, <1>8, <2>1
  <1>9. (\A i \in Accepted : StatusRow(i) /\ Entity(i) \notin orphans => i \in graph)'
    BY <1>2, <1>7, <1>8
  <1>10. OneStatusButOrphans'
    <2>1. SUFFICES ASSUME NEW i \in Accepted', NEW j \in Accepted',
                          rows'[i].slot = rows'[j].slot, StatusRow(i)',
                          Entity(i)' \notin orphans'
                   PROVE  i = j
      BY DEF OneStatusButOrphans
    <2>2. StatusRow(j)' /\ Entity(j)' = Entity(i)'
      BY <2>1 DEF StatusRow, Entity
    <2>3. CASE i = n \/ j = n
      <3>1. Entity(i)' = e /\ Entity(j)' = e
        BY <1>5, <2>2, <2>3
      <3>2. \A k \in Accepted' : StatusRow(k)' /\ Entity(k)' \notin orphans' /\ k # n
                                   => Entity(k)' # e
        BY <1>7, <1>8
      <3>. QED BY <2>1, <2>2, <3>1, <3>2
    <2>4. CASE i # n /\ j # n
      <3>1. /\ i \in Accepted /\ i \in Ids /\ StatusRow(i) /\ Entity(i) \notin orphans'
            /\ j \in Accepted /\ j \in Ids
        BY <1>8, <2>1, <2>2, <2>4
      <3>2. Entity(i) \notin orphans /\ rows[i].slot = rows[j].slot
        BY <1>3, <1>6, <2>1, <3>1
      <3>. QED BY <1>1, <3>1, <3>2 DEF StatusesKept, OneStatusButOrphans
    <2>. QED BY <2>3, <2>4
  <1>11. AttributeAgreesButOrphans'
    <2>1. SUFFICES ASSUME NEW i \in graph', StatusRow(i)', Entity(i)' \notin orphans'
                   PROVE  /\ node'[Entity(i)'] = rows'[i].obj
                          /\ stored'[Entity(i)'] = rows'[i].obj
      BY DEF AttributeAgreesButOrphans
    <2>2. CASE i = n
      <3>1. Typed(e) /\ e \in Entities
        BY <1>5, <1>6, <2>1, <2>2, SlotKinds
      <3>2. node' = [node EXCEPT ![e] = status] /\ stored' = [stored EXCEPT ![e] = status]
        BY <1>2, <3>1 DEF Synced
      <3>3. node'[e] = status /\ stored'[e] = status
        BY <1>1, <3>1, <3>2
      <3>. QED BY <1>3, <1>5, <2>2, <3>3
    <2>3. CASE i # n
      <3>1. i \in graph /\ i \in Accepted' /\ i \in Ids
        BY <1>1, <1>2, <2>3
      <3>2. i \in Accepted \ old /\ StatusRow(i) /\ Entity(i) = Entity(i)'
        BY <1>8, <2>1, <2>3, <3>1
      <3>3. Entity(i) # e /\ Entity(i) \notin orphans /\ Entity(i) \in Entities
        BY <1>1, <1>7, <2>1, <3>1, <3>2, SlotKinds
      <3>4. node[Entity(i)] = rows[i].obj /\ stored[Entity(i)] = rows[i].obj
        BY <1>1, <3>1, <3>2, <3>3 DEF StatusesKept, AttributeAgreesButOrphans
      <3>5. \A f \in Entities \ {e} : node'[f] = node[f] /\ stored'[f] = stored[f]
        BY <1>1, <1>2 DEF Synced
      <3>. QED BY <1>3, <3>1, <3>2, <3>3, <3>4, <3>5
    <2>. QED BY <2>2, <2>3
  <1>. QED BY <1>9, <1>10, <1>11 DEF StatusesKept

LEMMA StatusInvLoses ==
  ASSUME StatusInv, NEW e \in Bearers, NEW status \in Statuses, Loses(e, status)
  PROVE  StatusesKept'
  <1>1. /\ LifecycleInv /\ StatusesKept
        /\ node \in [Entities -> NodeValues]
        /\ graph \subseteq Ids /\ Accepted \subseteq Ids
        /\ \A i \in Ids : StatusRow(i) =>
             /\ Entity(i) \in Bearers /\ rows[i].obj \in Statuses
             /\ rows[i].slot = StatusOf(Entity(i))
    BY LifecycleFacts DEF StatusInv
  <1>2. /\ StatusEdges(e) = {} /\ graph' = graph \ Backing(e)
        /\ node' = [node EXCEPT ![e] = "absent"]
        /\ UNCHANGED <<rows, stored, orphans>>
    BY DEF Loses
  <1>3. Accepted' = Accepted
    BY <1>2 DEF Accepted, Ids
  <1>4. \A i : StatusRow(i)' = StatusRow(i) /\ Entity(i)' = Entity(i)
    BY <1>2 DEF StatusRow, Entity
  <1>5. \A i \in graph : StatusRow(i) =>
          i \notin Backing(e) /\ Entity(i) # e /\ Entity(i) \in Entities
    BY <1>1, <1>2, SlotKinds DEF Backing, StatusEdges
  <1>6. \A f \in Entities : f # e => node'[f] = node[f]
    BY <1>1, <1>2
  <1>7. (\A i \in Accepted : StatusRow(i) /\ Entity(i) \notin orphans => i \in graph)'
    BY <1>1, <1>2, <1>3, <1>4, <1>5 DEF StatusesKept
  <1>8. OneStatusButOrphans'
    BY <1>1, <1>2, <1>3, <1>4 DEF StatusesKept, OneStatusButOrphans
  <1>9. AttributeAgreesButOrphans'
    BY <1>1, <1>2, <1>4, <1>5, <1>6 DEF StatusesKept, AttributeAgreesButOrphans
  <1>. QED BY <1>7, <1>8, <1>9 DEF StatusesKept

LEMMA StatusInvReconcile ==
  ASSUME StatusInv, Reconcile
  PROVE  StatusInv'
  <1>1. LifecycleInv /\ LifecycleInv' /\ StatusesKept
    BY LifecycleInvStep DEF StatusInv, LifecycleNext
  <1>2. CASE UNCHANGED <<rows, graph, node, stored, orphans>>
    <2>1. StatusesKept'
      BY <1>1, <1>2 DEF StatusesKept, OneStatusButOrphans, AttributeAgreesButOrphans,
           Accepted, Ids, StatusRow, Entity
    <2>. QED BY <1>1, <2>1 DEF StatusInv
  <1>3. CASE ~UNCHANGED <<rows, graph, node, stored, orphans>>
    <2>1. \/ \E e \in Bearers, status \in Statuses, old \in SUBSET graph :
               \E n : Gets(e, status, old, n)
          \/ \E e \in Bearers, status \in Statuses : Loses(e, status)
      BY <1>1, <1>3, ReconcileRows
    <2>2. StatusesKept'
      BY <2>1, StatusInvGets, StatusInvLoses
    <2>. QED BY <1>1, <2>2 DEF StatusInv
  <1>. QED BY <1>2, <1>3

LEMMA StatusInvRestart ==
  ASSUME StatusInv, LifecycleRestart
  PROVE  StatusInv'
  <1>1. /\ LifecycleInv /\ LifecycleInv' /\ StatusesKept
        /\ graph \subseteq Accepted /\ Accepted \subseteq Ids /\ Ids \subseteq Nat
        /\ \A i \in Ids : StatusRow(i) =>
             /\ Entity(i) \in Bearers /\ rows[i].obj \in Statuses
             /\ rows[i].slot = StatusOf(Entity(i))
    BY LifecycleInvStep, LifecycleFacts DEF StatusInv, LifecycleNext
  <1>2. /\ graph' = {i \in Rebuilt : /\ stored[rows[i].slot[1]] # "absent"
                                     /\ rows[i].obj \in Entities =>
                                          stored[rows[i].obj] # "absent"}
        /\ node' = stored /\ stored' = stored /\ rows' = rows /\ orphans' = orphans
    BY DEF LifecycleRestart, durable
  <1>3. Accepted' = Accepted /\ \A i : StatusRow(i)' = StatusRow(i) /\ Entity(i)' = Entity(i)
    BY <1>2 DEF Accepted, Ids, StatusRow, Entity
  <1>4. ASSUME NEW i \in Accepted, StatusRow(i), Entity(i) \notin orphans
        PROVE  i \in graph' /\ stored[Entity(i)] = rows[i].obj
    <2>1. i \in graph /\ i \in Ids
      BY <1>1, <1>4 DEF StatusesKept
    <2>2. stored[Entity(i)] = rows[i].obj /\ rows[i].obj \in Statuses
      BY <1>1, <1>4, <2>1 DEF StatusesKept, AttributeAgreesButOrphans
    <2>3. i \in Rebuilt
      BY <1>1, <1>4 DEF StatusesKept, OneStatusButOrphans, Rebuilt, SameTriple
    <2>4. rows[i].obj \notin Entities /\ rows[i].obj # "absent"
      BY <2>2, SlotKinds, LifecycleConstants
    <2>. QED BY <1>2, <2>2, <2>3, <2>4 DEF Entity
  <1>5. graph' \subseteq Accepted
    BY <1>2 DEF Rebuilt
  <1>6. (\A i \in Accepted : StatusRow(i) /\ Entity(i) \notin orphans => i \in graph)'
    BY <1>2, <1>3, <1>4
  <1>7. OneStatusButOrphans'
    BY <1>1, <1>2, <1>3 DEF StatusesKept, OneStatusButOrphans
  <1>8. AttributeAgreesButOrphans'
    BY <1>2, <1>3, <1>4, <1>5 DEF AttributeAgreesButOrphans
  <1>. QED BY <1>1, <1>6, <1>7, <1>8 DEF StatusInv, StatusesKept

LEMMA StatusInvInit == LifecycleInit => StatusInv
  BY LifecycleInvInit DEF LifecycleInit, Init, StatusInv, StatusesKept,
     OneStatusButOrphans, AttributeAgreesButOrphans, Accepted, Ids

LEMMA StatusInvStep == StatusInv /\ [LifecycleNext]_lvars => StatusInv'
  <1>. SUFFICES ASSUME StatusInv, [LifecycleNext]_lvars
                PROVE  StatusInv'
    OBVIOUS
  <1>1. CASE UNCHANGED lvars
    <2>1. LifecycleInv'
      BY LifecycleInvStep DEF StatusInv
    <2>. QED BY <1>1, <2>1 DEF lvars, vars, StatusInv, StatusesKept, OneStatusButOrphans,
                 AttributeAgreesButOrphans, Accepted, Ids, StatusRow, Entity
  <1>. QED BY <1>1, StatusInvBegin, StatusInvAttach, StatusInvReconcile, StatusInvRestart
           DEF LifecycleNext

LEMMA StatusInvAlways == LifecycleSpec => []StatusInv
  BY StatusInvInit, StatusInvStep, PTL DEF LifecycleSpec

\* A subject never has two accepted statuses, in the table either, unless a text had
\* it retracted and then gave it another status.
THEOREM OneStatusButOrphansAlways == LifecycleSpec => []OneStatusButOrphans
  <1>1. StatusInv => OneStatusButOrphans
    BY DEF StatusInv, StatusesKept
  <1>. QED BY <1>1, StatusInvAlways, PTL

\* The attribute of the node and the stored row say what the accepted status says,
\* but for such a decision.
THEOREM AttributeAlwaysAgreesButOrphans == LifecycleSpec => []AttributeAgreesButOrphans
  <1>1. StatusInv => AttributeAgreesButOrphans
    BY DEF StatusInv, StatusesKept
  <1>. QED BY <1>1, StatusInvAlways, PTL

-----------------------------------------------------------------------------
(* Every done task and final decision keeps its support. *)

LEMMA FiniteIds ==
  ASSUME NEW m \in Nat, NEW S \in SUBSET (1..m)
  PROVE  IsFiniteSet(S)
  <1>1. 1 \in Int /\ m \in Int
    OBVIOUS
  <1>2. IsFiniteSet(1..m)
    BY <1>1, FS_Interval
  <1>. QED BY <1>2, FS_Subset

\* An entity has finitely many witnesses, as there are finitely many rows.
LEMMA FiniteWitnesses ==
  ASSUME LifecycleInv, NEW e \in Bearers
  PROVE  IsFiniteSet(AllWitnesses(e))
  <1>1. /\ TypeOK /\ Accepted \subseteq Ids
        /\ \A i \in Ids : StatusRow(i) => rows[i].slot = StatusOf(Entity(i)) /\ Entity(i) \in Bearers
    BY LifecycleFacts
  <1>2. PICK D : D = {j \in Accepted : \E b \in Backers : rows[j].slot = Backs(b) /\ rows[j].obj = e}
    OBVIOUS
  <1>3. PICK f : f = [j \in D |-> rows[j].slot[1]]
    OBVIOUS
  <1>4. IsFiniteSet(D)
    <2>1. PICK m \in Nat : Ids = 1..m
      BY <1>1 DEF TypeOK, Ids
    <2>2. D \subseteq 1..m
      BY <1>1, <1>2, <2>1
    <2>. QED BY <2>2, FiniteIds
  <1>5. f \in Surjection(D, AllWitnesses(e))
    <2>1. \A j \in D : f[j] \in AllWitnesses(e)
      BY <1>2, <1>3, SlotKinds DEF AllWitnesses
    <2>2. \A b \in AllWitnesses(e) : \E j \in D : f[j] = b
      BY <1>2, <1>3, SlotKinds DEF AllWitnesses
    <2>3. f \in [D -> AllWitnesses(e)]
      BY <1>3, <2>1
    <2>. QED BY <2>2, <2>3 DEF Surjection
  <1>. QED BY <1>4, <1>5, FS_Surjection

LEMMA FiniteWitnessesEach == LifecycleInv => \A e \in Bearers : IsFiniteSet(AllWitnesses(e))
  BY FiniteWitnesses

LEMMA FiniteWitnessesNext ==
  (LifecycleInv => \A e \in Bearers : IsFiniteSet(AllWitnesses(e)))'
  BY FiniteWitnessesEach, PTL

\* What a reader of the graph finds is in durable storage.
LEMMA WitnessesAreStored ==
  ASSUME NEW e
  PROVE  Witnesses(e) \subseteq AllWitnesses(e)
  BY DEF Witnesses, AllWitnesses

\* Each edge that backs an entity is a witness of its own.
LEMMA BackingIsWitnessed ==
  ASSUME LifecycleInv, NEW e \in Bearers
  PROVE  /\ Backing(e) # {} => Witnesses(e) # {}
         /\ Cardinality(Backing(e)) <= Cardinality(Witnesses(e))
         /\ Cardinality(Backing(e)) \in Nat /\ Cardinality(Witnesses(e)) \in Nat
  <1>1. /\ TypeOK /\ EdgesAreAcceptedRows
        /\ graph \subseteq Ids /\ graph \subseteq Accepted
        /\ \A i \in Ids : StatusRow(i) => rows[i].obj \in Statuses
        /\ \A i \in Ids : ~StatusRow(i) =>
             Entity(i) \in Backers /\ rows[i].slot = Backs(Entity(i))
    BY LifecycleFacts
  <1>2. \A j \in Backing(e) : /\ j \in graph /\ j \in Accepted /\ rows[j].obj = e
                              /\ Entity(j) \in Backers /\ rows[j].slot = Backs(Entity(j))
    BY <1>1, SlotKinds DEF Backing
  <1>3. \A j \in Backing(e) : Entity(j) \in Witnesses(e)
    BY <1>2 DEF Witnesses
  <1>4. \A j, k \in Backing(e) : Entity(j) = Entity(k) => j = k
    BY <1>1, <1>2 DEF EdgesAreAcceptedRows, SameTriple
  <1>5. PICK f : f = [j \in Backing(e) |-> Entity(j)]
    OBVIOUS
  <1>6. f \in Injection(Backing(e), Witnesses(e))
    <2>1. f \in [Backing(e) -> Witnesses(e)]
      BY <1>3, <1>5
    <2>2. \A j, k \in Backing(e) : f[j] = f[k] => j = k
      BY <1>4, <1>5
    <2>. QED BY <2>1, <2>2 DEF Injection, IsInjective
  <1>7. IsFiniteSet(Witnesses(e))
    BY FiniteWitnesses, WitnessesAreStored, FS_Subset
  <1>8. IsFiniteSet(Backing(e)) /\ Cardinality(Backing(e)) <= Cardinality(Witnesses(e))
    BY <1>6, <1>7, FS_Injection
  <1>. QED BY <1>3, <1>7, <1>8, FS_CardinalityType

\* More witnesses are enough where fewer are.
LEMMA EnoughGrows ==
  ASSUME NEW e, NEW status, NEW few, Enough(e, status, few),
         NEW many, few \subseteq many, IsFiniteSet(many)
  PROVE  Enough(e, status, many)
  <1>1. /\ Cardinality(few) \in Nat /\ Cardinality(many) \in Nat
        /\ Cardinality(few) <= Cardinality(many)
    BY FS_Subset, FS_CardinalityType
  <1>2. Floor \in Nat
    BY LifecycleConstants
  <1>. QED BY <1>1, <1>2 DEF Enough

\* The same after a step.
LEMMA EnoughAfter ==
  ASSUME LifecycleInv', NEW e \in Bearers, NEW status, NEW few, Enough(e, status, few)
  PROVE  /\ few \subseteq Witnesses(e)' => Enough(e, status, Witnesses(e)')
         /\ few \subseteq AllWitnesses(e)' => Enough(e, status, AllWitnesses(e)')
  <1>1. PICK A, W : A = AllWitnesses(e)' /\ W = Witnesses(e)'
    OBVIOUS
  <1>2. IsFiniteSet(A)
    BY <1>1, FiniteWitnessesNext
  <1>3. W \subseteq A
    BY <1>1 DEF Witnesses, AllWitnesses
  <1>4. IsFiniteSet(W)
    BY <1>2, <1>3, FS_Subset
  <1>5. /\ few \subseteq W => Enough(e, status, W)
        /\ few \subseteq A => Enough(e, status, A)
    BY <1>2, <1>4, EnoughGrows
  <1>. QED BY <1>1, <1>5

\* Rows that back, once accepted, are there to stay, and so is what they witness.
LEMMA WitnessesStay ==
  ASSUME LifecycleInv, NEW e,
         \A i \in Accepted : ~StatusRow(i) =>
           i \in Accepted' /\ rows'[i].slot = rows[i].slot /\ rows'[i].obj = rows[i].obj
  PROVE  /\ AllWitnesses(e) \subseteq AllWitnesses(e)'
         /\ (\A i \in graph : ~StatusRow(i) /\ rows[i].obj = e => i \in graph')
              => Witnesses(e) \subseteq Witnesses(e)'
  <1>1. \A i \in Accepted, b \in Backers : rows[i].slot = Backs(b) => ~StatusRow(i)
    BY SlotKinds DEF StatusRow
  <1>2. AllWitnesses(e) \subseteq AllWitnesses(e)'
    BY <1>1 DEF AllWitnesses
  <1>3. ASSUME \A i \in graph : ~StatusRow(i) /\ rows[i].obj = e => i \in graph',
               NEW b \in Witnesses(e)
        PROVE  b \in Witnesses(e)'
    <2>1. PICK j \in Accepted : /\ rows[j].slot = Backs(b) /\ rows[j].obj = e
                                /\ j \in graph \/ b \in Documents
      BY <1>3 DEF Witnesses
    <2>2. ~StatusRow(j) /\ b \in Backers
      BY <1>1, <1>3, <2>1 DEF Witnesses
    <2>3. /\ j \in Accepted' /\ rows'[j].slot = Backs(b) /\ rows'[j].obj = e
          /\ j \in graph' \/ b \in Documents
      BY <1>3, <2>1, <2>2
    <2>. QED BY <2>2, <2>3 DEF Witnesses
  <1>. QED BY <1>2, <1>3

LEMMA SupportInvBegin ==
  ASSUME SupportInv,
         NEW intent \in Intents, NEW said \in Sayings, NEW backs \in Backings,
         Begin(intent, said, backs)
  PROVE  SupportInv'
  <1>1. LifecycleInv /\ LifecycleInv' /\ EventsAreStored
    BY LifecycleInvStep DEF SupportInv, LifecycleNext
  <1>2. UNCHANGED vars
    BY <1>1, BegunEntities
  <1>3. rows' = rows /\ graph' = graph /\ Accepted' = Accepted
    BY <1>2 DEF vars, Accepted, Ids
  <1>4. \A i : StatusRow(i)' = StatusRow(i) /\ Entity(i)' = Entity(i)
    BY <1>3 DEF StatusRow, Entity
  <1>5. \A e : Witnesses(e)' = Witnesses(e) /\ AllWitnesses(e)' = AllWitnesses(e)
    BY <1>3 DEF Witnesses, AllWitnesses
  <1>6. \A b \in Backers :
          /\ stored[b] # "absent" => stored'[b] # "absent"
          /\ b \in Events /\ (\E k \in DOMAIN backs : backs[k][1] = b)
               => stored'[b] # "absent"
    BY <1>1, BegunEntities
  <1>7. (\A k \in DOMAIN work \ StatusesInWork :
           work[k].backer \in Events => stored[work[k].backer] # "absent")'
    BY <1>6, BegunWork
  <1>8. (\A i \in Accepted :
           ~StatusRow(i) /\ Entity(i) \in Events => stored[Entity(i)] # "absent")'
    BY <1>1, <1>3, <1>4, <1>6 DEF EventsAreStored, Backers
  <1>9. EventsAreStored'
    BY <1>7, <1>8 DEF EventsAreStored
  <1>10. (\A i \in graph : StatusRow(i) =>
            Enough(Entity(i), rows[i].obj, Witnesses(Entity(i))))'
    BY <1>3, <1>4, <1>5 DEF SupportInv, Enough
  <1>11. (\A i \in Accepted : StatusRow(i) =>
            Enough(Entity(i), rows[i].obj, AllWitnesses(Entity(i))))'
    BY <1>3, <1>4, <1>5 DEF SupportInv, Enough
  <1>. QED BY <1>1, <1>9, <1>10, <1>11 DEF SupportInv

\* What is left of the work still names stored events, if none is taken from the table.
LEMMA TailIsStored ==
  ASSUME work \in Seq(WorkItem), work # <<>>, work' = Tail(work), EventsAreStored,
         \A b \in Events : stored'[b] = stored[b]
  PROVE  (\A k \in DOMAIN work \ StatusesInWork :
            work[k].backer \in Events => stored[work[k].backer] # "absent")'
  <1>1. SUFFICES ASSUME NEW k \in DOMAIN work' \ StatusesInWork', work'[k].backer \in Events
                 PROVE  stored'[work'[k].backer] # "absent"
    OBVIOUS
  <1>2. k + 1 \in DOMAIN work \ StatusesInWork /\ work'[k] = work[k + 1]
    BY <1>1, RestOfWork
  <1>3. stored[work[k + 1].backer] # "absent"
    BY <1>1, <1>2 DEF EventsAreStored
  <1>. QED BY <1>1, <1>2, <1>3

LEMMA SupportInvAttach ==
  ASSUME SupportInv, Attach
  PROVE  SupportInv'
  <1>1. /\ LifecycleInv /\ LifecycleInv' /\ EventsAreStored /\ work \in Seq(WorkItem)
        /\ graph \subseteq Ids /\ graph \subseteq Accepted /\ Accepted \subseteq Ids
        /\ \A i \in Ids : StatusRow(i) => Entity(i) \in Bearers
    BY LifecycleInvStep, LifecycleFacts DEF SupportInv, LifecycleNext
  <1>2. /\ UNCHANGED <<node, stored>> /\ work # <<>> /\ Relation /\ work' = Tail(work)
        /\ Head(work).backer \in Backers
    BY <1>1, AttachRows
  <1>3. (\A k \in DOMAIN work \ StatusesInWork :
           work[k].backer \in Events => stored[work[k].backer] # "absent")'
    BY <1>1, <1>2, TailIsStored
  <1>4. CASE UNCHANGED <<rows, graph>>
    <2>1. Accepted' = Accepted
      BY <1>4 DEF Accepted, Ids
    <2>2. \A i : StatusRow(i)' = StatusRow(i) /\ Entity(i)' = Entity(i)
      BY <1>4 DEF StatusRow, Entity
    <2>3. \A e : Witnesses(e)' = Witnesses(e) /\ AllWitnesses(e)' = AllWitnesses(e)
      BY <1>4, <2>1 DEF Witnesses, AllWitnesses
    <2>4. EventsAreStored'
      BY <1>1, <1>2, <1>3, <2>1, <2>2 DEF EventsAreStored
    <2>5. (\A i \in graph : StatusRow(i) =>
             Enough(Entity(i), rows[i].obj, Witnesses(Entity(i))))'
      BY <1>4, <2>2, <2>3 DEF SupportInv, Enough
    <2>6. (\A i \in Accepted : StatusRow(i) =>
             Enough(Entity(i), rows[i].obj, AllWitnesses(Entity(i))))'
      BY <1>4, <2>1, <2>2, <2>3 DEF SupportInv, Enough
    <2>. QED BY <1>1, <2>4, <2>5, <2>6 DEF SupportInv
  <1>5. CASE ~UNCHANGED <<rows, graph>>
    <2>1. PICK b : b = Head(work).backer
      OBVIOUS
    <2>2. PICK n : /\ NewEdge(n, Backs(b), Head(work).entity)
                   /\ graph' = graph \cup {n} /\ Accepted' = Accepted \cup {n}
      BY <1>1, <1>5, <2>1, AttachRows
    <2>3. /\ n \notin Ids /\ rows'[n].slot = Backs(b) /\ b \in Backers
          /\ \A i \in Ids : rows'[i].slot = rows[i].slot /\ rows'[i].obj = rows[i].obj
      BY <1>2, <2>1, <2>2 DEF NewEdge
    <2>4. \A i \in Ids : StatusRow(i)' = StatusRow(i) /\ Entity(i)' = Entity(i)
      BY <2>3, SameKinds
    <2>5. ~StatusRow(n)' /\ Entity(n)' = b
      BY <2>3, SlotKinds DEF StatusRow, Entity
    <2>6. \A e : Witnesses(e) \subseteq Witnesses(e)' /\ AllWitnesses(e) \subseteq AllWitnesses(e)'
      BY <1>1, <2>2, <2>3, WitnessesStay
    <2>7. b \in Events => stored[b] # "absent"
      <3>1. 1 \in DOMAIN work \ StatusesInWork /\ Head(work) = work[1]
        BY <1>1, <1>2, FirstOfWork DEF Relation, StatusesInWork
      <3>. QED BY <1>1, <2>1, <3>1 DEF EventsAreStored
    <2>8. EventsAreStored'
      <3>1. (\A i \in Accepted :
               ~StatusRow(i) /\ Entity(i) \in Events => stored[Entity(i)] # "absent")'
        BY <1>1, <1>2, <2>2, <2>4, <2>5, <2>7 DEF EventsAreStored
      <3>. QED BY <1>3, <3>1 DEF EventsAreStored
    <2>9. ASSUME NEW i \in graph', StatusRow(i)'
          PROVE  Enough(Entity(i), rows[i].obj, Witnesses(Entity(i)))'
      <3>1. i \in graph /\ i \in Ids
        BY <1>1, <2>2, <2>5, <2>9
      <3>2. PICK e \in Bearers, status \in {rows[i].obj} : e = Entity(i) /\ status = rows[i].obj
        BY <1>1, <2>4, <2>9, <3>1
      <3>3. Enough(e, status, Witnesses(e))
        BY <2>4, <2>9, <3>1, <3>2 DEF SupportInv
      <3>4. Enough(e, status, Witnesses(e)')
        BY <1>1, <2>6, <3>3, EnoughAfter
      <3>. QED BY <2>3, <2>4, <3>1, <3>2, <3>4 DEF Enough
    <2>10. ASSUME NEW i \in Accepted', StatusRow(i)'
           PROVE  Enough(Entity(i), rows[i].obj, AllWitnesses(Entity(i)))'
      <3>1. i \in Accepted /\ i \in Ids
        BY <1>1, <2>2, <2>5, <2>10
      <3>2. PICK e \in Bearers, status \in {rows[i].obj} : e = Entity(i) /\ status = rows[i].obj
        BY <1>1, <2>4, <2>10, <3>1
      <3>3. Enough(e, status, AllWitnesses(e))
        BY <2>4, <2>10, <3>1, <3>2 DEF SupportInv
      <3>4. Enough(e, status, AllWitnesses(e)')
        BY <1>1, <2>6, <3>3, EnoughAfter
      <3>. QED BY <2>3, <2>4, <3>1, <3>2, <3>4 DEF Enough
    <2>. QED BY <1>1, <2>8, <2>9, <2>10 DEF SupportInv
  <1>. QED BY <1>4, <1>5

LEMMA SupportInvGets ==
  ASSUME SupportInv, LifecycleInv', work # <<>>, work' = Tail(work),
         NEW e \in Bearers, NEW status \in Statuses, NEW old \in SUBSET graph,
         NEW n, Gets(e, status, old, n)
  PROVE  SupportInv'
  <1>1. /\ LifecycleInv /\ EventsAreStored /\ work \in Seq(WorkItem)
        /\ stored \in [Entities -> StoredValues]
        /\ graph \subseteq Ids /\ graph \subseteq Accepted /\ Accepted \subseteq Ids
        /\ \A i \in Ids : StatusRow(i) => Entity(i) \in Bearers
    BY LifecycleFacts DEF SupportInv
  <1>2. /\ graph' = {i \in graph \ old :
                       rows[i].slot # StatusOf(e) \/ rows[i].obj # status} \cup {n}
        /\ Accepted' = (Accepted \ old) \cup {n}
        /\ Synced(e, status) /\ Supported(e, status)
        /\ old \subseteq StatusEdges(e)
    BY DEF Gets
  <1>3. /\ n \notin Ids /\ rows'[n].slot = StatusOf(e) /\ rows'[n].obj = status
        /\ \A i \in Ids : rows'[i].slot = rows[i].slot /\ rows'[i].obj = rows[i].obj
    BY DEF Gets, NewEdge
  <1>4. \A i \in Ids : StatusRow(i)' = StatusRow(i) /\ Entity(i)' = Entity(i)
    BY <1>3, SameKinds
  <1>5. StatusRow(n)' /\ Entity(n)' = e
    BY <1>3, SlotKinds DEF StatusRow, Entity
  <1>6. \A i \in Ids : ~StatusRow(i) => i \notin old /\ rows[i].slot # StatusOf(e)
    BY <1>2, SlotKinds DEF StatusEdges, StatusRow
  <1>7. \A f : Witnesses(f) \subseteq Witnesses(f)' /\ AllWitnesses(f) \subseteq AllWitnesses(f)'
    <2>1. /\ \A i \in Accepted : ~StatusRow(i) =>
               i \in Accepted' /\ rows'[i].slot = rows[i].slot /\ rows'[i].obj = rows[i].obj
          /\ \A i \in graph : ~StatusRow(i) => i \in graph'
      BY <1>1, <1>2, <1>3, <1>6
    <2>. QED BY <1>1, <2>1, WitnessesStay
  <1>8. \A b \in Events : stored'[b] = stored[b]
    <2>1. \A b \in Events : b \in Entities /\ b # e
      BY SlotKinds DEF Backers
    <2>. QED BY <1>1, <1>2, <2>1 DEF Synced
  <1>9. EventsAreStored'
    <2>1. (\A i \in Accepted :
             ~StatusRow(i) /\ Entity(i) \in Events => stored[Entity(i)] # "absent")'
      BY <1>1, <1>2, <1>4, <1>5, <1>8 DEF EventsAreStored
    <2>2. (\A k \in DOMAIN work \ StatusesInWork :
             work[k].backer \in Events => stored[work[k].backer] # "absent")'
      BY <1>1, <1>8, TailIsStored
    <2>. QED BY <2>1, <2>2 DEF EventsAreStored
  <1>10. Enough(e, status, Witnesses(e)) /\ Witnesses(e) \subseteq AllWitnesses(e)
    <2>1. /\ e \in Tasks /\ status = "done" => Backing(e) # {}
          /\ e \in Decisions /\ status = "final" => Cardinality(Backing(e)) >= Floor
      BY <1>2, LifecycleConstants DEF Supported
    <2>2. /\ Backing(e) # {} => Witnesses(e) # {}
          /\ Cardinality(Backing(e)) <= Cardinality(Witnesses(e))
          /\ Cardinality(Backing(e)) \in Nat /\ Cardinality(Witnesses(e)) \in Nat
      BY <1>1, BackingIsWitnessed
    <2>3. Enough(e, status, Witnesses(e))
      BY <2>1, <2>2, LifecycleConstants DEF Enough
    <2>. QED BY <2>3, WitnessesAreStored
  <1>11. ASSUME NEW i \in graph', StatusRow(i)'
         PROVE  Enough(Entity(i), rows[i].obj, Witnesses(Entity(i)))'
    <2>1. CASE i = n
      <3>1. Enough(e, status, Witnesses(e)')
        BY <1>7, <1>10, EnoughAfter
      <3>. QED BY <1>3, <1>5, <2>1, <3>1 DEF Enough
    <2>2. CASE i # n
      <3>1. i \in graph /\ i \in Ids
        BY <1>1, <1>2, <2>2
      <3>2. PICK f \in Bearers, s \in {rows[i].obj} : f = Entity(i) /\ s = rows[i].obj
        BY <1>1, <1>4, <1>11, <3>1
      <3>3. Enough(f, s, Witnesses(f))
        BY <1>4, <1>11, <3>1, <3>2 DEF SupportInv
      <3>4. Enough(f, s, Witnesses(f)')
        BY <1>7, <3>3, EnoughAfter
      <3>. QED BY <1>3, <1>4, <3>1, <3>2, <3>4 DEF Enough
    <2>. QED BY <2>1, <2>2
  <1>12. ASSUME NEW i \in Accepted', StatusRow(i)'
         PROVE  Enough(Entity(i), rows[i].obj, AllWitnesses(Entity(i)))'
    <2>1. CASE i = n
      <3>1. Witnesses(e) \subseteq AllWitnesses(e)'
        BY <1>7, <1>10
      <3>2. Enough(e, status, AllWitnesses(e)')
        BY <1>10, <3>1, EnoughAfter
      <3>. QED BY <1>3, <1>5, <2>1, <3>2 DEF Enough
    <2>2. CASE i # n
      <3>1. i \in Accepted /\ i \in Ids
        BY <1>1, <1>2, <2>2
      <3>2. PICK f \in Bearers, s \in {rows[i].obj} : f = Entity(i) /\ s = rows[i].obj
        BY <1>1, <1>4, <1>12, <3>1
      <3>3. Enough(f, s, AllWitnesses(f))
        BY <1>4, <1>12, <3>1, <3>2 DEF SupportInv
      <3>4. Enough(f, s, AllWitnesses(f)')
        BY <1>7, <3>3, EnoughAfter
      <3>. QED BY <1>3, <1>4, <3>1, <3>2, <3>4 DEF Enough
    <2>. QED BY <2>1, <2>2
  <1>. QED BY <1>9, <1>11, <1>12 DEF SupportInv

LEMMA SupportInvLoses ==
  ASSUME SupportInv, LifecycleInv', work # <<>>, work' = Tail(work),
         NEW e \in Bearers, NEW status \in Statuses, Loses(e, status)
  PROVE  SupportInv'
  <1>1. /\ LifecycleInv /\ EventsAreStored /\ work \in Seq(WorkItem)
        /\ graph \subseteq Ids /\ graph \subseteq Accepted /\ Accepted \subseteq Ids
        /\ \A i \in Ids : StatusRow(i) =>
             Entity(i) \in Bearers /\ rows[i].slot = StatusOf(Entity(i))
    BY LifecycleFacts DEF SupportInv
  <1>2. /\ StatusEdges(e) = {} /\ graph' = graph \ Backing(e)
        /\ UNCHANGED <<rows, stored>>
    BY DEF Loses
  <1>3. Accepted' = Accepted
    BY <1>2 DEF Accepted, Ids
  <1>4. \A i : StatusRow(i)' = StatusRow(i) /\ Entity(i)' = Entity(i)
    BY <1>2 DEF StatusRow, Entity
  <1>5. EventsAreStored'
    <2>1. (\A k \in DOMAIN work \ StatusesInWork :
             work[k].backer \in Events => stored[work[k].backer] # "absent")'
      BY <1>1, <1>2, TailIsStored
    <2>. QED BY <1>1, <1>2, <1>3, <1>4, <2>1 DEF EventsAreStored
  <1>6. \A f : AllWitnesses(f)' = AllWitnesses(f)
    BY <1>2, <1>3 DEF AllWitnesses
  <1>7. \A f : f # e => Witnesses(f) \subseteq Witnesses(f)'
    <2>1. \A f : f # e => \A i \in graph : rows[i].obj = f => i \in graph'
      BY <1>2 DEF Backing
    <2>. QED BY <1>1, <1>2, <1>3, <2>1, WitnessesStay
  <1>8. ASSUME NEW i \in graph', StatusRow(i)'
        PROVE  Enough(Entity(i), rows[i].obj, Witnesses(Entity(i)))'
    <2>1. i \in graph /\ StatusRow(i)
      BY <1>2, <1>4, <1>8
    <2>2. PICK f \in Bearers, s \in {rows[i].obj} : f = Entity(i) /\ s = rows[i].obj
      BY <1>1, <2>1
    <2>3. f # e
      BY <1>1, <1>2, <2>1, <2>2 DEF StatusEdges
    <2>4. Enough(f, s, Witnesses(f))
      BY <2>1, <2>2 DEF SupportInv
    <2>5. Enough(f, s, Witnesses(f)')
      BY <1>7, <2>3, <2>4, EnoughAfter
    <2>. QED BY <1>2, <1>4, <2>2, <2>5 DEF Enough
  <1>9. (\A i \in Accepted : StatusRow(i) =>
           Enough(Entity(i), rows[i].obj, AllWitnesses(Entity(i))))'
    BY <1>2, <1>3, <1>4, <1>6 DEF SupportInv, Enough
  <1>. QED BY <1>5, <1>8, <1>9 DEF SupportInv

LEMMA SupportInvReconcile ==
  ASSUME SupportInv, Reconcile
  PROVE  SupportInv'
  <1>1. /\ LifecycleInv /\ LifecycleInv' /\ EventsAreStored /\ work \in Seq(WorkItem)
    BY LifecycleInvStep, LifecycleFacts DEF SupportInv, LifecycleNext
  <1>2. work # <<>> /\ work' = Tail(work)
    BY DEF Reconcile
  <1>3. CASE UNCHANGED <<rows, graph, node, stored, orphans>>
    <2>1. Accepted' = Accepted
      BY <1>3 DEF Accepted, Ids
    <2>2. \A i : StatusRow(i)' = StatusRow(i) /\ Entity(i)' = Entity(i)
      BY <1>3 DEF StatusRow, Entity
    <2>3. \A e : Witnesses(e)' = Witnesses(e) /\ AllWitnesses(e)' = AllWitnesses(e)
      BY <1>3, <2>1 DEF Witnesses, AllWitnesses
    <2>4. (\A k \in DOMAIN work \ StatusesInWork :
             work[k].backer \in Events => stored[work[k].backer] # "absent")'
      BY <1>1, <1>2, <1>3, TailIsStored
    <2>5. EventsAreStored'
      BY <1>1, <1>3, <2>1, <2>2, <2>4 DEF EventsAreStored
    <2>6. (\A i \in graph : StatusRow(i) =>
             Enough(Entity(i), rows[i].obj, Witnesses(Entity(i))))'
      BY <1>3, <2>2, <2>3 DEF SupportInv, Enough
    <2>7. (\A i \in Accepted : StatusRow(i) =>
             Enough(Entity(i), rows[i].obj, AllWitnesses(Entity(i))))'
      BY <1>3, <2>1, <2>2, <2>3 DEF SupportInv, Enough
    <2>. QED BY <1>1, <2>5, <2>6, <2>7 DEF SupportInv
  <1>4. CASE ~UNCHANGED <<rows, graph, node, stored, orphans>>
    <2>1. \/ \E e \in Bearers, status \in Statuses, old \in SUBSET graph :
               \E n : Gets(e, status, old, n)
          \/ \E e \in Bearers, status \in Statuses : Loses(e, status)
      BY <1>1, <1>4, ReconcileRows
    <2>. QED BY <1>1, <1>2, <2>1, SupportInvGets, SupportInvLoses
  <1>. QED BY <1>3, <1>4

\* A rebuild finds an edge for each event that backs a stored entity.
LEMMA RestartFindsWitnesses ==
  ASSUME SupportInv, LifecycleRestart, NEW e \in Bearers, stored[e] # "absent"
  PROVE  AllWitnesses(e) \subseteq Witnesses(e)'
  <1>1. /\ LifecycleInv /\ TypeOK /\ EventsAreStored /\ Accepted \subseteq Ids
        /\ Rebuilt \subseteq Accepted
    BY LifecycleFacts DEF SupportInv, Rebuilt
  <1>2. /\ graph' = {i \in Rebuilt : /\ stored[rows[i].slot[1]] # "absent"
                                     /\ rows[i].obj \in Entities =>
                                          stored[rows[i].obj] # "absent"}
        /\ rows' = rows
    BY DEF LifecycleRestart, durable
  <1>3. Accepted' = Accepted
    BY <1>2 DEF Accepted, Ids
  <1>4. SUFFICES ASSUME NEW b \in AllWitnesses(e)
                 PROVE  b \in Witnesses(e)'
    OBVIOUS
  <1>5. PICK i \in Accepted : rows[i].slot = Backs(b) /\ rows[i].obj = e
    BY <1>4 DEF AllWitnesses
  <1>6. b \in Backers
    BY <1>4 DEF AllWitnesses
  <1>7. CASE b \in Documents
    BY <1>2, <1>3, <1>5, <1>6, <1>7 DEF Witnesses
  <1>8. CASE b \in Events
    <2>1. PICK j \in Rebuilt : SameTriple(rows[j], rows[i])
      BY <1>1, NewestIsRebuilt
    <2>2. rows[j].slot = Backs(b) /\ rows[j].obj = e /\ j \in Accepted
      BY <1>1, <1>5, <2>1 DEF SameTriple
    <2>3. stored[b] # "absent" /\ rows[j].slot[1] = b
      BY <1>1, <1>5, <1>6, <1>8, <2>2, SlotKinds DEF EventsAreStored, StatusRow, Entity
    <2>4. j \in graph'
      BY <1>2, <2>1, <2>2, <2>3
    <2>. QED BY <1>2, <1>3, <1>6, <2>2, <2>4 DEF Witnesses
  <1>. QED BY <1>6, <1>7, <1>8 DEF Backers

LEMMA SupportInvRestart ==
  ASSUME SupportInv, LifecycleRestart
  PROVE  SupportInv'
  <1>1. /\ LifecycleInv /\ LifecycleInv' /\ EventsAreStored /\ Accepted \subseteq Ids
        /\ \A i \in Ids : StatusRow(i) => Entity(i) \in Bearers
    BY LifecycleInvStep, LifecycleFacts DEF SupportInv, LifecycleNext
  <1>2. /\ graph' = {i \in Rebuilt : /\ stored[rows[i].slot[1]] # "absent"
                                     /\ rows[i].obj \in Entities =>
                                          stored[rows[i].obj] # "absent"}
        /\ rows' = rows /\ stored' = stored /\ work' = <<>>
    BY DEF LifecycleRestart, durable
  <1>3. Accepted' = Accepted /\ \A i : StatusRow(i)' = StatusRow(i) /\ Entity(i)' = Entity(i)
    BY <1>2 DEF Accepted, Ids, StatusRow, Entity
  <1>4. EventsAreStored'
    BY <1>1, <1>2, <1>3 DEF EventsAreStored, StatusesInWork
  <1>5. \A e : AllWitnesses(e)' = AllWitnesses(e)
    BY <1>2, <1>3 DEF AllWitnesses
  <1>6. ASSUME NEW i \in graph', StatusRow(i)'
        PROVE  Enough(Entity(i), rows[i].obj, Witnesses(Entity(i)))'
    <2>1. i \in Accepted /\ StatusRow(i)
      BY <1>2, <1>3, <1>6 DEF Rebuilt
    <2>2. PICK e \in Bearers, s \in {rows[i].obj} : e = Entity(i) /\ s = rows[i].obj
      BY <1>1, <2>1
    <2>3. Enough(e, s, AllWitnesses(e)) /\ stored[e] # "absent"
      BY <1>2, <1>6, <2>1, <2>2 DEF SupportInv, Entity
    <2>4. Enough(e, s, Witnesses(e)')
      BY <1>1, <2>3, RestartFindsWitnesses, EnoughAfter
    <2>. QED BY <1>2, <1>3, <2>2, <2>4 DEF Enough
  <1>7. (\A i \in Accepted : StatusRow(i) =>
           Enough(Entity(i), rows[i].obj, AllWitnesses(Entity(i))))'
    BY <1>2, <1>3, <1>5 DEF SupportInv, Enough
  <1>. QED BY <1>1, <1>4, <1>6, <1>7 DEF SupportInv

LEMMA SupportInvInit == LifecycleInit => SupportInv
  BY LifecycleInvInit DEF LifecycleInit, Init, SupportInv, EventsAreStored,
     StatusesInWork, Accepted, Ids

LEMMA SupportInvStep == SupportInv /\ [LifecycleNext]_lvars => SupportInv'
  <1>. SUFFICES ASSUME SupportInv, [LifecycleNext]_lvars
                PROVE  SupportInv'
    OBVIOUS
  <1>1. CASE UNCHANGED lvars
    <2>1. LifecycleInv' /\ LifecycleInv
      BY LifecycleInvStep DEF SupportInv
    <2>2. /\ rows' = rows /\ graph' = graph /\ stored' = stored /\ work' = work
          /\ Accepted' = Accepted /\ StatusesInWork' = StatusesInWork
      BY <1>1 DEF lvars, vars, Accepted, Ids, StatusesInWork
    <2>3. \A i : StatusRow(i)' = StatusRow(i) /\ Entity(i)' = Entity(i)
      BY <2>2 DEF StatusRow, Entity
    <2>4. \A e : Witnesses(e)' = Witnesses(e) /\ AllWitnesses(e)' = AllWitnesses(e)
      BY <2>2 DEF Witnesses, AllWitnesses
    <2>5. EventsAreStored'
      BY <2>2, <2>3 DEF SupportInv, EventsAreStored
    <2>6. (\A i \in graph : StatusRow(i) =>
             Enough(Entity(i), rows[i].obj, Witnesses(Entity(i))))'
      BY <2>2, <2>3, <2>4 DEF SupportInv, Enough
    <2>7. (\A i \in Accepted : StatusRow(i) =>
             Enough(Entity(i), rows[i].obj, AllWitnesses(Entity(i))))'
      BY <2>2, <2>3, <2>4 DEF SupportInv, Enough
    <2>. QED BY <2>1, <2>5, <2>6, <2>7 DEF SupportInv
  <1>. QED BY <1>1, SupportInvBegin, SupportInvAttach, SupportInvReconcile, SupportInvRestart
           DEF LifecycleNext

LEMMA SupportInvAlways == LifecycleSpec => []SupportInv
  BY SupportInvInit, SupportInvStep, PTL DEF LifecycleSpec

\* At every moment each done task has its completion event and each final decision
\* its evidence, whatever was refused and wherever the process stopped.
THEOREM StatusAlwaysSupported == LifecycleSpec => []StatusIsSupported
  <1>1. SupportInv => StatusIsSupported
    BY DEF SupportInv, StatusIsSupported, Enough
  <1>. QED BY <1>1, SupportInvAlways, PTL

-----------------------------------------------------------------------------
(* No edge is lost but what durable storage cannot give back, when one document *)
(* or event is enough evidence for a final decision.                            *)

\* The default decision_evidence_floor.
OneIsEnough == Floor = 1

\* A decision lacks the evidence to be final only if nothing backs it.
LEMMA EvidenceOfOne ==
  ASSUME OneIsEnough, LifecycleInv, NEW e \in Decisions, NEW status
  PROVE  /\ ~Supported(e, status) => Backing(e) = {}
         /\ Supported(e, "final") => Backing(e) # {}
  <1>1. e \notin Tasks /\ e \in Bearers
    BY LifecycleConstants DEF Bearers
  <1>2. IsFiniteSet(Backing(e))
    <2>1. PICK m \in Nat : Ids = 1..m
      BY LifecycleFacts DEF TypeOK, Ids
    <2>2. Backing(e) \subseteq 1..m
      BY <2>1, LifecycleFacts DEF Backing
    <2>. QED BY <2>2, FiniteIds
  <1>3. PICK B : B = Backing(e)
    OBVIOUS
  <1>4. Cardinality(B) \in Nat /\ (Cardinality(B) = 0 <=> B = {})
    BY <1>2, <1>3, FS_CardinalityType, FS_EmptySet
  <1>5. Supported(e, "final") <=> Cardinality(B) >= 1
    BY <1>1, <1>3 DEF Supported, OneIsEnough
  <1>6. ~Supported(e, status) => Cardinality(B) < 1
    BY <1>1, <1>3, <1>4 DEF Supported, OneIsEnough
  <1>. QED BY <1>3, <1>4, <1>5, <1>6

\* What an edge of the graph backs is stored.
LEMMA BackedIsStored ==
  ASSUME LifecycleInv, EndsAreStored, NEW e \in Bearers, Backing(e) # {}
  PROVE  stored[e] # "absent"
  <1>1. PICK i \in graph : rows[i].obj = e
    BY DEF Backing
  <1>2. ~StatusRow(i)
    BY <1>1, LifecycleFacts, SlotKinds
  <1>. QED BY <1>1, <1>2 DEF EndsAreStored

LEMMA EdgesInvBegin ==
  ASSUME EdgesInv,
         NEW intent \in Intents, NEW said \in Sayings, NEW backs \in Backings,
         Begin(intent, said, backs)
  PROVE  EdgesInv'
  <1>1. LifecycleInv /\ EndsAreStored /\ KeptRowsAreEdges /\ StatusInv' /\ SupportInv'
    BY StatusInvBegin, SupportInvBegin DEF EdgesInv, StatusInv
  <1>2. UNCHANGED vars /\ orphans' = orphans
    BY <1>1, BegunEntities
  <1>3. rows' = rows /\ graph' = graph /\ Accepted' = Accepted
    BY <1>2 DEF vars, Accepted, Ids
  <1>4. \A e \in Bearers :
          /\ stored[e] # "absent" => stored'[e] # "absent"
          /\ node'[e] # node[e] /\ stored'[e] = "absent"
               => e \in Decisions /\ node'[e] = "final"
    BY <1>1, BegunEntities
  <1>5. KeptRowsAreEdges'
    BY <1>1, <1>2, <1>3 DEF KeptRowsAreEdges, Unkept, Entity
  <1>6. (\A i \in graph : ~StatusRow(i) => stored[rows[i].obj] # "absent")'
    <2>1. \A i \in graph : ~StatusRow(i) => rows[i].obj \in Bearers
      BY <1>1, LifecycleFacts
    <2>. QED BY <1>1, <1>3, <1>4, <2>1 DEF EndsAreStored, StatusRow
  <1>7. (\A e \in Bearers : Typed(e) /\ stored[e] = "absent"
                              => e \in Decisions /\ node[e] = "final")'
    BY <1>1, <1>4 DEF EndsAreStored, Typed
  <1>. QED BY <1>1, <1>5, <1>6, <1>7 DEF EdgesInv, EndsAreStored

LEMMA EdgesInvAttach ==
  ASSUME OneIsEnough, EdgesInv, Attach
  PROVE  EdgesInv'
  <1>1. /\ LifecycleInv /\ EndsAreStored /\ KeptRowsAreEdges /\ StatusInv' /\ SupportInv'
        /\ graph \subseteq Ids /\ Accepted \subseteq Ids
    BY StatusInvAttach, SupportInvAttach, LifecycleFacts DEF EdgesInv, StatusInv
  <1>2. UNCHANGED <<node, stored, orphans>>
    BY <1>1, AttachRows
  <1>3. (\A e \in Bearers : Typed(e) /\ stored[e] = "absent"
                              => e \in Decisions /\ node[e] = "final")'
    BY <1>1, <1>2 DEF EndsAreStored, Typed
  <1>4. CASE UNCHANGED <<rows, graph>>
    <2>1. KeptRowsAreEdges' /\ (\A i \in graph : ~StatusRow(i) => stored[rows[i].obj] # "absent")'
      BY <1>1, <1>2, <1>4 DEF EndsAreStored, KeptRowsAreEdges, Unkept, Accepted, Ids,
         Entity, StatusRow
    <2>. QED BY <1>1, <1>3, <2>1 DEF EdgesInv, EndsAreStored
  <1>5. CASE ~UNCHANGED <<rows, graph>>
    <2>1. PICK e \in Bearers : e = Head(work).entity
      BY <1>1, AttachRows
    <2>2. PICK n : /\ NewEdge(n, Backs(Head(work).backer), e)
                   /\ graph' = graph \cup {n} /\ Accepted' = Accepted \cup {n}
      BY <1>1, <1>5, <2>1, AttachRows
    <2>3. Supported(e, node[e]) /\ Typed(e)
      BY <1>1, <1>5, <2>1, AttachRows
    <2>4. /\ n \notin Ids /\ rows'[n].obj = e
          /\ \A i \in Ids : rows'[i].slot = rows[i].slot /\ rows'[i].obj = rows[i].obj
      BY <2>2 DEF NewEdge
    <2>5. stored[e] # "absent"
      <3>1. SUFFICES ASSUME stored[e] = "absent"
                     PROVE  FALSE
        OBVIOUS
      <3>2. e \in Decisions /\ node[e] = "final"
        BY <1>1, <2>3, <3>1 DEF EndsAreStored
      <3>3. Backing(e) # {}
        BY <1>1, <2>3, <3>2, EvidenceOfOne
      <3>. QED BY <1>1, <3>1, <3>3, BackedIsStored
    <2>6. \A i \in Ids : StatusRow(i)' = StatusRow(i) /\ Entity(i)' = Entity(i)
      BY <2>4, SameKinds
    <2>7. KeptRowsAreEdges'
      BY <1>1, <1>2, <2>2, <2>6 DEF KeptRowsAreEdges, Unkept
    <2>8. (\A i \in graph : ~StatusRow(i) => stored[rows[i].obj] # "absent")'
      BY <1>1, <1>2, <2>2, <2>4, <2>5, <2>6 DEF EndsAreStored
    <2>. QED BY <1>1, <1>3, <2>7, <2>8 DEF EdgesInv, EndsAreStored
  <1>. QED BY <1>4, <1>5

LEMMA EdgesInvGets ==
  ASSUME EdgesInv, StatusInv', SupportInv',
         NEW e \in Bearers, NEW status \in Statuses, NEW old \in SUBSET graph,
         NEW n, Gets(e, status, old, n)
  PROVE  EdgesInv'
  <1>1. /\ LifecycleInv /\ EndsAreStored /\ KeptRowsAreEdges
        /\ node \in [Entities -> NodeValues] /\ stored \in [Entities -> StoredValues]
        /\ graph \subseteq Ids /\ Accepted \subseteq Ids
        /\ \A i \in Ids : ~StatusRow(i) => rows[i].obj \in Bearers
    BY LifecycleFacts DEF EdgesInv, StatusInv
  <1>2. /\ graph' = {i \in graph \ old :
                       rows[i].slot # StatusOf(e) \/ rows[i].obj # status} \cup {n}
        /\ Accepted' = (Accepted \ old) \cup {n}
        /\ Synced(e, status)
        /\ old \subseteq StatusEdges(e)
        /\ orphans' = IF Typed(e) THEN orphans ELSE orphans \cup {e}
    BY DEF Gets
  <1>3. /\ n \notin Ids /\ rows'[n].slot = StatusOf(e) /\ rows'[n].obj = status
        /\ \A i \in Ids : rows'[i].slot = rows[i].slot /\ rows'[i].obj = rows[i].obj
    BY DEF Gets, NewEdge
  <1>4. \A i \in Ids : StatusRow(i)' = StatusRow(i) /\ Entity(i)' = Entity(i)
    BY <1>3, SameKinds
  <1>5. StatusRow(n)'
    BY <1>3, SlotKinds DEF StatusRow
  <1>6. /\ status \notin {"absent", "bare"}
        /\ \A f \in Bearers : f \in Entities
    BY SlotKinds, LifecycleConstants
  <1>7. \A f \in Bearers : \/ /\ node'[f] = node[f] /\ stored'[f] = stored[f]
                           \/ /\ node'[f] = status /\ stored'[f] = status
                           \/ /\ node'[f] = "bare" /\ stored'[f] = stored[f]
    BY <1>1, <1>2, <1>6 DEF Synced
  <1>8. KeptRowsAreEdges'
    <2>1. SUFFICES ASSUME NEW i \in Accepted', i \notin graph'
                   PROVE  Unkept(i)'
      BY DEF KeptRowsAreEdges
    <2>2. i \in Accepted /\ i \in Ids /\ i \notin old
      BY <1>1, <1>2, <2>1
    <2>3. CASE StatusRow(i)
      <3>1. StatusRow(i)'
        BY <1>4, <2>2, <2>3
      <3>2. Entity(i)' \in orphans'
        BY <2>1, <3>1 DEF StatusInv, StatusesKept
      <3>. QED BY <3>2 DEF Unkept
    <2>4. CASE ~StatusRow(i)
      <3>1. rows[i].slot # StatusOf(e)
        BY <2>4, SlotKinds DEF StatusRow
      <3>2. i \notin graph
        BY <1>2, <2>1, <2>2, <3>1
      <3>3. Unkept(i) /\ orphans \subseteq orphans'
        BY <1>1, <1>2, <2>2, <3>2 DEF KeptRowsAreEdges
      <3>. QED BY <1>4, <2>2, <3>3 DEF Unkept
    <2>. QED BY <2>3, <2>4
  <1>9. (\A i \in graph : ~StatusRow(i) => stored[rows[i].obj] # "absent")'
    <2>1. SUFFICES ASSUME NEW i \in graph', ~StatusRow(i)'
                   PROVE  stored'[rows'[i].obj] # "absent"
      OBVIOUS
    <2>2. i \in graph /\ i \in Ids /\ ~StatusRow(i)
      BY <1>1, <1>2, <1>4, <1>5, <2>1
    <2>3. rows[i].obj \in Bearers /\ stored[rows[i].obj] # "absent"
      BY <1>1, <2>2 DEF EndsAreStored
    <2>. QED BY <1>3, <1>6, <1>7, <2>2, <2>3
  <1>10. (\A f \in Bearers : Typed(f) /\ stored[f] = "absent"
                               => f \in Decisions /\ node[f] = "final")'
    BY <1>1, <1>6, <1>7 DEF EndsAreStored, Typed
  <1>. QED BY <1>8, <1>9, <1>10 DEF EdgesInv, EndsAreStored

LEMMA EdgesInvLoses ==
  ASSUME OneIsEnough, EdgesInv, StatusInv', SupportInv',
         NEW e \in Bearers, NEW status \in Statuses, Loses(e, status)
  PROVE  EdgesInv'
  <1>1. /\ LifecycleInv /\ EndsAreStored /\ KeptRowsAreEdges
        /\ node \in [Entities -> NodeValues]
    BY LifecycleFacts DEF EdgesInv, StatusInv
  <1>2. /\ graph' = graph \ Backing(e) /\ e \in Decisions /\ ~Supported(e, status)
        /\ node' = [node EXCEPT ![e] = "absent"]
        /\ UNCHANGED <<rows, stored, orphans>>
    BY DEF Loses
  <1>3. graph' = graph
    BY <1>1, <1>2, EvidenceOfOne
  <1>4. \A f \in Bearers : node'[f] = node[f] \/ node'[f] = "absent"
    BY <1>1, <1>2, SlotKinds
  <1>5. KeptRowsAreEdges'
    BY <1>1, <1>2, <1>3 DEF KeptRowsAreEdges, Unkept, Entity, Accepted, Ids
  <1>6. EndsAreStored'
    BY <1>1, <1>2, <1>3, <1>4 DEF EndsAreStored, StatusRow, Typed
  <1>. QED BY <1>5, <1>6 DEF EdgesInv

LEMMA EdgesInvReconcile ==
  ASSUME OneIsEnough, EdgesInv, Reconcile
  PROVE  EdgesInv'
  <1>1. LifecycleInv /\ EndsAreStored /\ KeptRowsAreEdges /\ StatusInv' /\ SupportInv'
    BY StatusInvReconcile, SupportInvReconcile DEF EdgesInv, StatusInv
  <1>2. CASE UNCHANGED <<rows, graph, node, stored, orphans>>
    <2>1. KeptRowsAreEdges'
      BY <1>1, <1>2 DEF KeptRowsAreEdges, Unkept, Entity, Accepted, Ids
    <2>2. EndsAreStored'
      BY <1>1, <1>2 DEF EndsAreStored, StatusRow, Typed
    <2>. QED BY <1>1, <2>1, <2>2 DEF EdgesInv
  <1>3. CASE ~UNCHANGED <<rows, graph, node, stored, orphans>>
    <2>1. \/ \E e \in Bearers, status \in Statuses, old \in SUBSET graph :
               \E n : Gets(e, status, old, n)
          \/ \E e \in Bearers, status \in Statuses : Loses(e, status)
      BY <1>1, <1>3, ReconcileRows
    <2>. QED BY <1>1, <2>1, EdgesInvGets, EdgesInvLoses
  <1>. QED BY <1>2, <1>3

\* A restart finds exactly the edges there were, of all that durable storage keeps:
\* every end of such an edge is stored.
LEMMA RestartFindsEdges ==
  ASSUME EdgesInv, LifecycleRestart, NEW i \in Ids, ~Unkept(i)
  PROVE  i \in graph' <=> i \in graph
  <1>1. /\ LifecycleInv /\ SupportInv /\ StatusesKept /\ EndsAreStored /\ KeptRowsAreEdges
        /\ EdgesAreAcceptedRows
        /\ graph \subseteq Accepted /\ Accepted \subseteq Ids /\ Ids \subseteq Nat
        /\ \A k \in Ids : StatusRow(k) =>
             Entity(k) \in Bearers /\ rows[k].obj \in Statuses
        /\ \A k \in Ids : ~StatusRow(k) =>
             Entity(k) \in Backers /\ rows[k].obj \in Bearers
    BY LifecycleFacts DEF EdgesInv, StatusInv
  <1>2. graph' = {k \in Rebuilt : /\ stored[rows[k].slot[1]] # "absent"
                                  /\ rows[k].obj \in Entities =>
                                       stored[rows[k].obj] # "absent"}
    BY DEF LifecycleRestart
  <1>3. ASSUME i \in graph'
        PROVE  i \in graph
    <2>1. i \in Accepted
      BY <1>2, <1>3 DEF Rebuilt
    <2>. QED BY <1>1, <2>1 DEF KeptRowsAreEdges
  <1>4. ASSUME i \in graph
        PROVE  i \in graph'
    <2>1. i \in Accepted
      BY <1>1, <1>4
    <2>2. i \in Rebuilt
      <3>1. SUFFICES ASSUME NEW j \in Accepted, SameTriple(rows[i], rows[j])
                     PROVE  j <= i
        BY <2>1 DEF Rebuilt
      <3>2. Entity(j) = Entity(i)
        BY <3>1 DEF Entity, SameTriple
      <3>3. ~Unkept(j)
        BY <3>2 DEF Unkept
      <3>4. j \in graph
        BY <1>1, <3>1, <3>3 DEF KeptRowsAreEdges
      <3>5. j = i
        BY <1>1, <1>4, <3>1, <3>4 DEF EdgesAreAcceptedRows, SameTriple
      <3>. QED BY <1>1, <3>5
    <2>3. /\ stored[Entity(i)] # "absent"
          /\ rows[i].obj \in Entities => stored[rows[i].obj] # "absent"
      <3>1. CASE StatusRow(i)
        <4>1. stored[Entity(i)] = rows[i].obj
          BY <1>1, <1>4, <3>1 DEF StatusesKept, AttributeAgreesButOrphans, Unkept
        <4>2. rows[i].obj \notin Entities /\ rows[i].obj # "absent"
          BY <1>1, <3>1, SlotKinds, LifecycleConstants
        <4>. QED BY <4>1, <4>2
      <3>2. CASE ~StatusRow(i)
        <4>1. Entity(i) \in Events
          BY <1>1, <3>2 DEF Unkept, Backers
        <4>2. stored[Entity(i)] # "absent"
          BY <1>1, <2>1, <3>2, <4>1 DEF SupportInv, EventsAreStored
        <4>3. stored[rows[i].obj] # "absent"
          BY <1>1, <1>4, <3>2 DEF EndsAreStored
        <4>. QED BY <4>2, <4>3
      <3>. QED BY <3>1, <3>2
    <2>. QED BY <1>2, <2>2, <2>3 DEF Entity
  <1>. QED BY <1>3, <1>4

LEMMA EdgesInvRestart ==
  ASSUME EdgesInv, LifecycleRestart
  PROVE  EdgesInv'
  <1>1. /\ LifecycleInv /\ EndsAreStored /\ KeptRowsAreEdges /\ StatusInv' /\ SupportInv'
        /\ Accepted \subseteq Ids
        /\ \A i \in Ids : ~StatusRow(i) => rows[i].obj \in Bearers
    BY StatusInvRestart, SupportInvRestart, LifecycleFacts DEF EdgesInv, StatusInv
  <1>2. /\ graph' = {k \in Rebuilt : /\ stored[rows[k].slot[1]] # "absent"
                                     /\ rows[k].obj \in Entities =>
                                          stored[rows[k].obj] # "absent"}
        /\ rows' = rows /\ stored' = stored /\ node' = stored /\ orphans' = orphans
    BY DEF LifecycleRestart, durable
  <1>3. /\ Accepted' = Accepted
        /\ \A i : /\ StatusRow(i)' = StatusRow(i) /\ Entity(i)' = Entity(i)
                  /\ Unkept(i)' = Unkept(i)
    BY <1>2 DEF Accepted, Ids, StatusRow, Entity, Unkept
  <1>4. KeptRowsAreEdges'
    <2>1. SUFFICES ASSUME NEW i \in Accepted, ~Unkept(i)
                   PROVE  i \in graph'
      BY <1>3 DEF KeptRowsAreEdges
    <2>2. i \in graph /\ i \in Ids
      BY <1>1, <2>1 DEF KeptRowsAreEdges
    <2>. QED BY <2>1, <2>2, RestartFindsEdges
  <1>5. EndsAreStored'
    <2>1. \A i \in graph' : ~StatusRow(i) => stored[rows[i].obj] # "absent"
      BY <1>1, <1>2, SlotKinds DEF Rebuilt
    <2>. QED BY <1>2, <1>3, <2>1 DEF EndsAreStored, Typed
  <1>. QED BY <1>1, <1>4, <1>5 DEF EdgesInv

LEMMA EdgesInvInit == LifecycleInit => EdgesInv
  <1>1. LifecycleInit => StatusInv /\ SupportInv
    BY StatusInvInit, SupportInvInit
  <1>2. LifecycleInit => KeptRowsAreEdges
    BY DEF LifecycleInit, Init, KeptRowsAreEdges, Accepted, Ids
  <1>3. LifecycleInit => EndsAreStored
    BY SlotKinds DEF LifecycleInit, Init, EndsAreStored, Typed
  <1>. QED BY <1>1, <1>2, <1>3 DEF EdgesInv

LEMMA EdgesInvStep ==
  ASSUME OneIsEnough, EdgesInv, [LifecycleNext]_lvars
  PROVE  EdgesInv'
  <1>1. CASE UNCHANGED lvars
    <2>1. StatusInv' /\ SupportInv'
      BY StatusInvStep, SupportInvStep DEF EdgesInv
    <2>2. KeptRowsAreEdges'
      BY <1>1 DEF lvars, vars, EdgesInv, KeptRowsAreEdges, Unkept, Entity, Accepted, Ids
    <2>3. EndsAreStored'
      BY <1>1 DEF lvars, vars, EdgesInv, EndsAreStored, StatusRow, Typed
    <2>. QED BY <2>1, <2>2, <2>3 DEF EdgesInv
  <1>. QED BY <1>1, EdgesInvBegin, EdgesInvAttach, EdgesInvReconcile, EdgesInvRestart
           DEF LifecycleNext

LEMMA EdgesInvAlways ==
  ASSUME OneIsEnough
  PROVE  LifecycleSpec => []EdgesInv
  <1>1. EdgesInv /\ [LifecycleNext]_lvars => EdgesInv'
    BY EdgesInvStep
  <1>. QED BY <1>1, EdgesInvInit, PTL DEF LifecycleSpec

\* Every accepted row of a status or a backing is an edge, refused decisions and
\* restarts included, but a document's evidence and an orphaned decision's status.
THEOREM KeptRowsAlwaysEdges ==
  ASSUME OneIsEnough
  PROVE  LifecycleSpec => []KeptRowsAreEdges
  <1>1. EdgesInv => KeptRowsAreEdges
    BY DEF EdgesInv
  <1>. QED BY <1>1, EdgesInvAlways, PTL

\* Wherever the process stops, the restarted graph of statuses and their backing has
\* the edges it had, but a document's and an orphaned decision's.
THEOREM RestartAlwaysKeepsKeptEdges ==
  ASSUME OneIsEnough
  PROVE  LifecycleSpec => RestartKeepsKeptEdges
  <1>1. EdgesInv /\ [LifecycleNext]_lvars
          => [LifecycleRestart =>
                \A i \in Ids : Unkept(i) \/ (i \in graph' <=> i \in graph)]_lvars
    BY RestartFindsEdges
  <1>. QED BY <1>1, EdgesInvAlways, PTL DEF LifecycleSpec, RestartKeepsKeptEdges
=============================================================================
