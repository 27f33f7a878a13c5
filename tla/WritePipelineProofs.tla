------------------------ MODULE WritePipelineProofs ------------------------
(***************************************************************************)
(* What the runs of WritePipeline show on small instances, for every slot, *)
(* value, confidence, window, source and policy.                           *)
(***************************************************************************)
EXTENDS WritePipeline, WellFoundedInduction, TLAPS

-----------------------------------------------------------------------------
(* Natural numbers: induction on a set of them, and greatest elements. *)

LEMMA SmallestNat ==
  ASSUME NEW S \in SUBSET Nat, S # {}
  PROVE  \E m \in S : \A k \in S : m <= k
  <1>. DEFINE R == {p \in Nat \X Nat : p[1] < p[2]}
  <1>1. IsWellFoundedOn(R, Nat)
    BY NatLessThanWellFounded DEF OpToRel
  <1>. HIDE DEF R
  <1>2. PICK m \in S : \A k \in S : ~(<<k, m>> \in R)
    BY <1>1, WFMin
  <1>3. ASSUME NEW k \in S, ~(m <= k)
        PROVE  FALSE
    <2>1. k \in Nat /\ m \in Nat /\ k < m
      BY <1>3
    <2>2. <<k, m>> \in R
      BY <2>1 DEF R
    <2>. QED BY <1>2, <1>3, <2>2
  <1>. QED BY <1>3

LEMMA SetInduction ==
  ASSUME NEW S \in SUBSET Nat, 0 \in S, \A n \in S : n + 1 \in S
  PROVE  S = Nat
  <1>1. SUFFICES ASSUME Nat \ S # {} PROVE FALSE
    OBVIOUS
  <1>2. PICK m \in Nat \ S : \A k \in Nat \ S : m <= k
    BY <1>1, SmallestNat
  <1>3. m # 0 /\ m - 1 \in Nat
    BY <1>2
  <1>4. m - 1 \in S /\ m = (m - 1) + 1
    BY <1>2, <1>3
  <1>. QED BY <1>2, <1>4

LEMMA GreatestNat ==
  ASSUME NEW n \in Nat, NEW S \in SUBSET (1..n), S # {}
  PROVE  \E m \in S : \A k \in S : k <= m
  <1>. DEFINE Below == {k \in Nat : n - k \in S}
  <1>1. Below # {}
    <2>1. PICK k \in S : TRUE
      OBVIOUS
    <2>2. n - k \in Nat /\ n - (n - k) = k
      BY <2>1
    <2>. QED BY <2>1, <2>2
  <1>2. PICK d \in Below : \A k \in Below : d <= k
    BY <1>1, SmallestNat
  <1>3. ASSUME NEW k \in S
        PROVE  k <= n - d
    <2>1. n - k \in Nat /\ n - (n - k) = k
      BY <1>3
    <2>2. d <= n - k
      BY <1>2, <2>1
    <2>. QED BY <1>2, <2>1, <2>2
  <1>. QED BY <1>2, <1>3

-----------------------------------------------------------------------------
(* What the steps do to the table of rows. *)

\* A verdict is directed against active values of the candidate's own slot.
LEMMA AgainstOwnSlot ==
  ASSUME NEW c \in Candidates
  PROVE  Verdict(c, View).against \subseteq {i \in graph : rows[i].slot = c.slot}
  BY SMT DEF Verdict, GateVerdict, LatestValueVerdict, MemgptVerdict,
         EvidenceWeightedVerdict, Decide, Conflicts, Occupants, View

\* Retiring rows keeps the table's length and every field but the status.
LEMMA RetireRows ==
  ASSUME TypeOK, NEW olds
  PROVE  /\ Retire(olds) \in Seq(RowSet)
         /\ Len(Retire(olds)) = Len(rows)
         /\ \A i \in Ids : Retire(olds)[i] =
              IF i \in olds THEN [rows[i] EXCEPT !.status = "superseded"] ELSE rows[i]
  <1>1. rows \in [1..Len(rows) -> RowSet] /\ Len(rows) \in Nat /\ Ids = 1..Len(rows)
    BY DEF TypeOK, Ids
  <1>2. ASSUME NEW i \in Ids
        PROVE  [rows[i] EXCEPT !.status = "superseded"] \in RowSet
    BY <1>1, <1>2 DEF RowSet
  <1>3. Retire(olds) \in [1..Len(rows) -> RowSet]
    BY <1>1, <1>2 DEF Retire
  <1>. QED BY <1>1, <1>3 DEF Retire

\* The row a candidate mints.
LEMMA RowOfType ==
  ASSUME NEW c \in Candidates
  PROVE  /\ RowOf(c) \in RowSet
         /\ RowOf(c).slot = c.slot /\ RowOf(c).obj = c.obj /\ RowOf(c).conf = c.conf
         /\ RowOf(c).win = c.win /\ RowOf(c).status = "accepted"
  BY DEF Candidates, RowOf, RowSet

\* Accepting a new value adds one row and one edge, and disturbs no other.
LEMMA AcceptNewRows ==
  ASSUME TypeOK, EdgesAreAcceptedRows, NEW c \in Candidates, AcceptNew(c),
         NEW n, n = Len(rows) + 1
  PROVE  /\ rows' \in Seq(RowSet) /\ Ids' = Ids \cup {n} /\ n \notin Ids
         /\ n \in Nat /\ \A i \in Ids : i \in Nat /\ i < n
         /\ \A i \in Ids : rows'[i] = rows[i]
         /\ rows'[n] = RowOf(c)
         /\ graph' = graph \cup {n}
         /\ Accepted' = Accepted \cup {n}
         /\ \A i \in graph : ~SameTriple(rows[i], c)
  <1>1. /\ Len(rows) \in Nat /\ Ids = 1..Len(rows) /\ RowOf(c) \in RowSet
        /\ rows \in Seq(RowSet) /\ graph \subseteq Ids
    BY RowOfType DEF TypeOK, Ids
  <1>2. /\ rows' = Append(rows, RowOf(c)) /\ Existing(c) = {}
        /\ graph' = AddEdge(graph, c, n)
    BY DEF AcceptNew
  <1>3. /\ rows' \in Seq(RowSet) /\ Ids' = Ids \cup {n} /\ n \notin Ids
        /\ n \in Nat /\ \A i \in Ids : i \in Nat /\ i < n
        /\ \A i \in Ids : rows'[i] = rows[i]
        /\ rows'[n] = RowOf(c)
    BY <1>1, <1>2 DEF Ids
  <1>4. \A i \in graph : ~SameTriple(rows[i], c)
    BY <1>2 DEF Existing, EdgesAreAcceptedRows
  <1>5. graph' = graph \cup {n}
    BY <1>2, <1>4 DEF AddEdge
  <1>6. Accepted' = Accepted \cup {n}
    BY <1>3, RowOfType DEF Accepted
  <1>. QED BY <1>3, <1>4, <1>5, <1>6

\* Superseding adds one row, retires exactly the rows it names, and takes from
\* the graph the edges of the retired values and of the candidate's own triple.
LEMMA SupersedeRows ==
  ASSUME TypeOK, EdgesAreAcceptedRows, NEW c \in Candidates,
         NEW olds \in SUBSET graph, SupersedeWith(c, olds),
         NEW n, n = Len(rows) + 1
  PROVE  /\ rows' \in Seq(RowSet) /\ Ids' = Ids \cup {n} /\ n \notin Ids
         /\ n \in Nat /\ \A i \in Ids : i \in Nat /\ i < n
         /\ \A i \in Ids \ olds : rows'[i] = rows[i]
         /\ \A i \in olds : rows'[i] = [rows[i] EXCEPT !.status = "superseded"]
         /\ rows'[n] = RowOf(c)
         /\ graph' = {i \in graph \ olds : ~SameTriple(rows[i], c)} \cup {n}
         /\ Accepted' = (Accepted \ olds) \cup {n}
         /\ olds \subseteq Ids /\ olds # {}
         /\ links' = links \cup {<<n, o>> : o \in olds}
         /\ linkEdges' = linkEdges \cup {<<n, o>> : o \in olds}
         /\ pending' \subseteq {n}
         /\ searchable' = (searchable \cup pending) \ olds
  <1>1. /\ Len(rows) \in Nat /\ Ids = 1..Len(rows) /\ RowOf(c) \in RowSet
        /\ rows \in [1..Len(rows) -> RowSet] /\ graph \subseteq Ids
    BY RowOfType DEF TypeOK, Ids
  <1>2. olds \subseteq Ids /\ olds # {} /\ olds \cap Ids = olds
    BY <1>1 DEF SupersedeWith
  <1>3. /\ rows' = Append(Retire(olds), RowOf(c))
        /\ graph' = AddEdge(RemoveEdges(graph, olds), c, n)
        /\ links' = links \cup {<<n, o>> : o \in olds}
        /\ linkEdges' = linkEdges \cup {<<n, o>> : o \in olds}
        /\ pending' \subseteq {n}
        /\ searchable' = (searchable \cup pending) \ olds
    BY <1>2 DEF SupersedeWith, Replaced, LinksTo, Retagged, Queued
  <1>4. /\ rows' \in Seq(RowSet) /\ Ids' = Ids \cup {n} /\ n \notin Ids
        /\ n \in Nat /\ \A i \in Ids : i \in Nat /\ i < n
        /\ \A i \in Ids : rows'[i] = Retire(olds)[i]
        /\ rows'[n] = RowOf(c)
    BY <1>1, <1>3, RetireRows DEF Ids
  <1>5. /\ \A i \in Ids \ olds : rows'[i] = rows[i]
        /\ \A i \in olds : rows'[i] = [rows[i] EXCEPT !.status = "superseded"]
    BY <1>2, <1>4, RetireRows
  <1>6. RemoveEdges(graph, olds) = graph \ olds
    BY DEF RemoveEdges, EdgesAreAcceptedRows, SameTriple
  <1>7. graph' = {i \in graph \ olds : ~SameTriple(rows[i], c)} \cup {n}
    BY <1>3, <1>6 DEF AddEdge
  <1>8. \A i \in olds : rows'[i].status = "superseded"
    BY <1>1, <1>2, <1>5 DEF RowSet
  <1>9. Accepted' = (Accepted \ olds) \cup {n}
    BY <1>2, <1>4, <1>5, <1>8, RowOfType DEF Accepted
  <1>. QED BY <1>2, <1>3, <1>4, <1>5, <1>7, <1>9

\* The fields of a row that a supersession leaves alone.
LEMMA RetiredFields ==
  ASSUME NEW row \in RowSet
  PROVE  /\ [row EXCEPT !.status = "superseded"] \in RowSet
         /\ [row EXCEPT !.status = "superseded"].status = "superseded"
         /\ [row EXCEPT !.status = "superseded"].slot = row.slot
         /\ [row EXCEPT !.status = "superseded"].obj = row.obj
         /\ [row EXCEPT !.status = "superseded"].conf = row.conf
         /\ [row EXCEPT !.status = "superseded"].win = row.win
  BY DEF RowSet

-----------------------------------------------------------------------------
(* Type correctness. *)

LEMMA AgainstIsSubset ==
  ASSUME NEW c \in Candidates
  PROVE  Verdict(c, View).against \in SUBSET graph
  BY AgainstOwnSlot

LEMMA AcceptNewTyped ==
  ASSUME TypeOK, EdgesAreAcceptedRows, NEW c \in Candidates, AcceptNew(c)
  PROVE  TypeOK' /\ EdgesAreAcceptedRows'
  <1>1. PICK n : n = Len(rows) + 1
    OBVIOUS
  <1>2. /\ rows' \in Seq(RowSet) /\ Ids' = Ids \cup {n} /\ n \notin Ids /\ n \in Nat
        /\ \A i \in Ids : rows'[i] = rows[i]
        /\ rows'[n] = RowOf(c)
        /\ graph' = graph \cup {n}
        /\ \A i \in graph : ~SameTriple(rows[i], c)
    BY <1>1, AcceptNewRows
  <1>3. pending' \subseteq pending \cup {n}
    BY <1>1 DEF AcceptNew, Queued
  <1>4. TypeOK'
    BY <1>1, <1>2, <1>3 DEF TypeOK, AcceptNew, Candidates
  <1>5. graph \subseteq Ids
    BY DEF TypeOK
  <1>6. EdgesAreAcceptedRows'
    BY <1>2, <1>5, RowOfType DEF EdgesAreAcceptedRows, SameTriple
  <1>. QED BY <1>4, <1>6

LEMMA ReaffirmTyped ==
  ASSUME TypeOK, EdgesAreAcceptedRows, NEW c \in Candidates, Reaffirm(c)
  PROVE  TypeOK' /\ EdgesAreAcceptedRows'
  <1>1. Ids \subseteq Nat
    BY DEF TypeOK, Ids
  <1>2. TypeOK'
    BY <1>1 DEF TypeOK, Reaffirm, Existing, Candidates, Ids
  <1>. QED BY <1>2 DEF Reaffirm, EdgesAreAcceptedRows

LEMMA SupersedeTyped ==
  ASSUME TypeOK, EdgesAreAcceptedRows, NEW c \in Candidates,
         NEW olds \in SUBSET graph, SupersedeWith(c, olds)
  PROVE  TypeOK' /\ EdgesAreAcceptedRows'
  <1>1. PICK n : n = Len(rows) + 1
    OBVIOUS
  <1>2. /\ rows' \in Seq(RowSet) /\ Ids' = Ids \cup {n} /\ n \notin Ids /\ n \in Nat
        /\ \A i \in Ids \ olds : rows'[i] = rows[i]
        /\ rows'[n] = RowOf(c)
        /\ graph' = {i \in graph \ olds : ~SameTriple(rows[i], c)} \cup {n}
        /\ olds \subseteq Ids
        /\ links' = links \cup {<<n, o>> : o \in olds}
        /\ linkEdges' = linkEdges \cup {<<n, o>> : o \in olds}
        /\ pending' \subseteq {n} /\ searchable' \subseteq searchable \cup pending
    BY <1>1, SupersedeRows
  <1>3. graph \subseteq Ids /\ Ids \subseteq Nat /\ \A o \in Ids : rows[o] \in RowSet
    BY DEF TypeOK, Ids
  <1>4. prov' \subseteq Nat \X Sources /\ held' = held
    <2>1. \A o \in Ids : rows[o].source \in Sources
      BY <1>3 DEF RowSet
    <2>. QED BY <1>1, <1>2, <1>3, <2>1 DEF SupersedeWith, TypeOK, Candidates
  <1>5. held' \in Seq([cand : Candidates, against : SUBSET Nat])
    BY <1>4 DEF TypeOK
  <1>6. links' \subseteq Nat \X Nat /\ linkEdges' \subseteq links'
    BY <1>2, <1>3 DEF TypeOK
  <1>7. graph' \subseteq Ids' /\ pending' \subseteq Ids' /\ searchable' \subseteq Ids'
    BY <1>2, <1>3 DEF TypeOK
  <1>8. EdgesAreAcceptedRows'
    BY <1>2, <1>3, RowOfType DEF EdgesAreAcceptedRows, SameTriple
  <1>. QED BY <1>2, <1>4, <1>5, <1>6, <1>7, <1>8 DEF TypeOK

LEMMA HoldTyped ==
  ASSUME TypeOK, NEW c \in Candidates, NEW against \in SUBSET graph,
         held' = Append(held, [cand |-> c, against |-> against])
  PROVE  held' \in Seq([cand : Candidates, against : SUBSET Nat])
  <1>1. against \in SUBSET Nat
    BY DEF TypeOK, Ids
  <1>2. [cand |-> c, against |-> against] \in [cand : Candidates, against : SUBSET Nat]
    BY <1>1
  <1>. QED BY <1>2 DEF TypeOK

LEMMA QuarantineTyped ==
  ASSUME TypeOK, EdgesAreAcceptedRows, NEW c \in Candidates,
         NEW against \in SUBSET graph, Quarantine(c, against)
  PROVE  TypeOK' /\ EdgesAreAcceptedRows'
  <1>1. held' \in Seq([cand : Candidates, against : SUBSET Nat])
    BY HoldTyped DEF Quarantine
  <1>. QED BY <1>1 DEF Quarantine, TypeOK, Ids, EdgesAreAcceptedRows

LEMMA UnchangedTyped ==
  ASSUME TypeOK, EdgesAreAcceptedRows, UNCHANGED vars
  PROVE  TypeOK' /\ EdgesAreAcceptedRows'
  BY DEF vars, TypeOK, Ids, EdgesAreAcceptedRows

LEMMA TypeOKStep ==
  TypeOK /\ EdgesAreAcceptedRows /\ [Next]_vars => TypeOK'
  <1>. SUFFICES ASSUME TypeOK, EdgesAreAcceptedRows, [Next]_vars
                PROVE  TypeOK'
    OBVIOUS
  <1>1. ASSUME NEW c \in Candidates, Write(c)
        PROVE  TypeOK'
    BY <1>1, AgainstIsSubset, AcceptNewTyped, ReaffirmTyped, SupersedeTyped,
       QuarantineTyped, UnchangedTyped
       DEF Write, WriteAccepted, WriteReaffirmed, WriteSupersedes, WriteHeld,
           WriteRejected
  <1>2. CASE FlushVectors
    BY <1>2 DEF FlushVectors, durable, TypeOK, Ids
  <1>3. CASE Restart
    BY <1>3 DEF Restart, Rebuilt, durable, TypeOK, Ids, Accepted
  <1>. QED BY <1>1, <1>2, <1>3, UnchangedTyped DEF Next

-----------------------------------------------------------------------------
(* The stores agree: edges, vectors and links follow the rows' status. *)

PendingIsAccepted == pending \subseteq Accepted

\* The invariant of the stores, inductive under every policy.
StoresAgree ==
  /\ TypeOK
  /\ EdgesAreAcceptedRows
  /\ SupersededIsLinked
  /\ SearchableIsAccepted
  /\ PendingIsAccepted

LEMMA StoresAgreeInit == Init => StoresAgree
  BY DEF Init, StoresAgree, TypeOK, EdgesAreAcceptedRows, SupersededIsLinked,
         SearchableIsAccepted, PendingIsAccepted, Accepted, Ids

LEMMA StoresAgreeStep == StoresAgree /\ [Next]_vars => StoresAgree'
  <1>. SUFFICES ASSUME StoresAgree, [Next]_vars
                PROVE  StoresAgree'
    OBVIOUS
  <1>. USE DEF StoresAgree
  <1>0. TypeOK'
    BY TypeOKStep
  <1>. DEFINE Rest == /\ EdgesAreAcceptedRows /\ SupersededIsLinked
                      /\ SearchableIsAccepted /\ PendingIsAccepted
              n == Len(rows) + 1
  <1>1. ASSUME NEW c \in Candidates, WriteAccepted(c)
        PROVE  Rest'
    <2>1. AcceptNew(c)
      BY <1>1 DEF WriteAccepted
    <2>2. /\ Ids' = Ids \cup {n} /\ n \notin Ids
          /\ \A i \in Ids : rows'[i] = rows[i]
          /\ rows'[n] = RowOf(c)
          /\ graph' = graph \cup {n}
          /\ Accepted' = Accepted \cup {n}
          /\ \A i \in graph : ~SameTriple(rows[i], c)
      BY <2>1, AcceptNewRows
    <2>3. graph \subseteq Ids
      BY DEF TypeOK
    <2>4. EdgesAreAcceptedRows'
      BY <2>1, AcceptNewTyped
    <2>5. SupersededIsLinked'
      <3>1. links' = links
        BY <2>1 DEF AcceptNew
      <3>2. SUFFICES ASSUME NEW i \in Ids', rows'[i].status = "superseded"
                     PROVE  \E m \in Ids' : /\ m > i /\ <<m, i>> \in links
                                            /\ rows'[m].slot = rows'[i].slot
        BY <3>1 DEF SupersededIsLinked
      <3>3. i \in Ids /\ rows[i].status = "superseded"
        BY <2>2, <3>2, RowOfType
      <3>. QED BY <2>2, <3>3 DEF SupersededIsLinked
    <2>6. SearchableIsAccepted' /\ PendingIsAccepted'
      BY <2>1, <2>2 DEF SearchableIsAccepted, PendingIsAccepted, AcceptNew, Queued
    <2>. QED BY <2>4, <2>5, <2>6
  <1>2. ASSUME NEW c \in Candidates, WriteSupersedes(c)
        PROVE  Rest'
    <2>. DEFINE olds == Verdict(c, View).against
    <2>1. /\ SupersedeWith(c, olds) /\ olds \in SUBSET graph
          /\ \A o \in olds : rows[o].slot = c.slot
      BY <1>2, AgainstOwnSlot DEF WriteSupersedes
    <2>. HIDE DEF olds
    <2>2. /\ Ids' = Ids \cup {n} /\ n \notin Ids /\ n \in Nat
          /\ \A i \in Ids : i \in Nat /\ i < n
          /\ \A i \in Ids \ olds : rows'[i] = rows[i]
          /\ \A i \in olds : rows'[i] = [rows[i] EXCEPT !.status = "superseded"]
          /\ rows'[n] = RowOf(c)
          /\ graph' = {i \in graph \ olds : ~SameTriple(rows[i], c)} \cup {n}
          /\ Accepted' = (Accepted \ olds) \cup {n}
          /\ olds \subseteq Ids
          /\ links' = links \cup {<<n, o>> : o \in olds}
          /\ pending' \subseteq {n}
          /\ searchable' = (searchable \cup pending) \ olds
      BY <2>1, SupersedeRows
    <2>3. graph \subseteq Ids /\ \A i \in Ids : rows[i] \in RowSet
      BY DEF TypeOK, Ids
    <2>4. EdgesAreAcceptedRows'
      BY <2>1, SupersedeTyped
    <2>5. \A i \in Ids : rows'[i].slot = rows[i].slot
      BY <2>2, <2>3, RetiredFields
    <2>6. SupersededIsLinked'
      <3>1. SUFFICES ASSUME NEW i \in Ids', rows'[i].status = "superseded"
                     PROVE  \E m \in Ids' : /\ m > i /\ <<m, i>> \in links'
                                            /\ rows'[m].slot = rows'[i].slot
        BY DEF SupersededIsLinked
      <3>2. i \in Ids
        BY <2>2, <3>1, RowOfType
      <3>3. CASE i \in olds
        BY <2>1, <2>2, <2>5, <3>2, <3>3, RowOfType
      <3>4. CASE i \notin olds
        BY <2>2, <2>5, <3>1, <3>2, <3>4 DEF SupersededIsLinked
      <3>. QED BY <3>3, <3>4
    <2>7. SearchableIsAccepted' /\ PendingIsAccepted'
      BY <2>2 DEF SearchableIsAccepted, PendingIsAccepted
    <2>. QED BY <2>4, <2>6, <2>7
  <1>3. ASSUME UNCHANGED <<rows, links, graph, pending, searchable>>
        PROVE  Rest'
    BY <1>3 DEF EdgesAreAcceptedRows, SupersededIsLinked, SearchableIsAccepted,
                PendingIsAccepted, Accepted, Ids
  <1>4. ASSUME NEW c \in Candidates,
               WriteReaffirmed(c) \/ WriteHeld(c) \/ WriteRejected(c)
        PROVE  Rest'
    BY <1>3, <1>4 DEF WriteReaffirmed, WriteHeld, WriteRejected, Reaffirm, Quarantine,
                      vars
  <1>5. ASSUME FlushVectors
        PROVE  Rest'
    BY <1>5 DEF FlushVectors, durable, EdgesAreAcceptedRows, SupersededIsLinked,
                SearchableIsAccepted, PendingIsAccepted, Accepted, Ids
  <1>6. ASSUME Restart
        PROVE  Rest'
    <2>1. rows' = rows /\ links' = links /\ Accepted' = Accepted /\ Ids' = Ids
      BY <1>6 DEF Restart, durable, Accepted, Ids
    <2>2. Accepted \subseteq Nat
      BY DEF Accepted, Ids, TypeOK
    <2>3. EdgesAreAcceptedRows'
      BY <1>6, <2>1, <2>2 DEF Restart, Rebuilt, EdgesAreAcceptedRows, Accepted, SameTriple
    <2>4. SearchableIsAccepted' /\ PendingIsAccepted' /\ SupersededIsLinked'
      BY <1>6, <2>1 DEF Restart, SearchableIsAccepted, PendingIsAccepted,
                        SupersededIsLinked
    <2>. QED BY <2>3, <2>4
  <1>7. ASSUME UNCHANGED vars
        PROVE  Rest'
    BY <1>3, <1>7 DEF vars
  <1>. QED BY <1>0, <1>1, <1>2, <1>4, <1>5, <1>6, <1>7 DEF Next, Write

\* Under every policy and every setting, the write path keeps the stores in
\* agreement.
THEOREM StoresAgreeAlways == Spec => []StoresAgree
  BY StoresAgreeInit, StoresAgreeStep, PTL DEF Spec

\* The variables always have their types: every id held anywhere names a row.
THEOREM TypeCorrect == Spec => []TypeOK
  <1>1. StoresAgree => TypeOK
    BY DEF StoresAgree
  <1>. QED BY <1>1, StoresAgreeAlways, PTL

\* A traversal of the graph never meets a superseded assertion, nor two edges of
\* one triple, whatever is written and however often the process restarts.
THEOREM GraphServesAcceptedRows == Spec => []EdgesAreAcceptedRows
  <1>1. StoresAgree => EdgesAreAcceptedRows
    BY DEF StoresAgree
  <1>. QED BY <1>1, StoresAgreeAlways, PTL

\* Whatever was superseded is linked from a later row of the same slot.
THEOREM LineageIsComplete == Spec => []SupersededIsLinked
  <1>1. StoresAgree => SupersededIsLinked
    BY DEF StoresAgree
  <1>. QED BY <1>1, StoresAgreeAlways, PTL

\* No superseded assertion is tagged accepted in the vector collection.
THEOREM VectorsServeAcceptedRows == Spec => []SearchableIsAccepted
  <1>1. StoresAgree => SearchableIsAccepted
    BY DEF StoresAgree
  <1>. QED BY <1>1, StoresAgreeAlways, PTL

-----------------------------------------------------------------------------
(* The keep-the-newest policy: each single-valued slot has one value, and  *)
(* the graph is all of accepted memory, so that a restart loses none of it.*)

LatestValueGoverns == Policy = "latest_value"

LatestValueInv == StoresAgree /\ OneValuePerSlot /\ AcceptedRowsAreEdges

\* A write is accepted beside no other value of its slot, and replaces all of them.
LEMMA LatestValueVerdicts ==
  ASSUME LatestValueGoverns, NEW c \in Candidates
  PROVE  /\ Verdict(c, View).action = "accept" =>
              c.slot \notin SingleValued \/ \A i \in graph : rows[i].slot # c.slot
         /\ Verdict(c, View).action = "supersede" =>
              Verdict(c, View).against = {i \in graph : rows[i].slot = c.slot}
  BY SMT DEF LatestValueGoverns, Verdict, LatestValueVerdict, Occupants, Decide, View

LEMMA LatestValueStep ==
  ASSUME LatestValueGoverns, LatestValueInv, [Next]_vars
  PROVE  LatestValueInv'
  <1>. USE DEF LatestValueInv
  <1>. DEFINE Rest == OneValuePerSlot /\ AcceptedRowsAreEdges
              n == Len(rows) + 1
  <1>1. StoresAgree'
    BY StoresAgreeStep
  <1>2. TypeOK /\ EdgesAreAcceptedRows /\ graph \subseteq Ids /\ Accepted \subseteq graph
    BY DEF StoresAgree, TypeOK, AcceptedRowsAreEdges
  <1>3. ASSUME NEW c \in Candidates, WriteAccepted(c)
        PROVE  Rest'
    <2>1. AcceptNew(c) /\ (c.slot \notin SingleValued \/ \A i \in graph : rows[i].slot # c.slot)
      BY <1>3, LatestValueVerdicts DEF WriteAccepted
    <2>2. /\ Ids' = Ids \cup {n} /\ n \notin Ids
          /\ \A i \in Ids : rows'[i] = rows[i]
          /\ rows'[n] = RowOf(c) /\ graph' = graph \cup {n}
          /\ Accepted' = Accepted \cup {n}
      BY <1>2, <2>1, AcceptNewRows
    <2>3. OneValuePerSlot'
      BY <1>2, <2>1, <2>2, RowOfType DEF OneValuePerSlot
    <2>4. AcceptedRowsAreEdges'
      BY <1>2, <2>2 DEF AcceptedRowsAreEdges
    <2>. QED BY <2>3, <2>4
  <1>4. ASSUME NEW c \in Candidates, WriteSupersedes(c)
        PROVE  Rest'
    <2>. DEFINE olds == {i \in graph : rows[i].slot = c.slot}
    <2>1. SupersedeWith(c, olds) /\ olds \in SUBSET graph
      BY <1>4, LatestValueVerdicts DEF WriteSupersedes
    <2>2. /\ Ids' = Ids \cup {n} /\ n \notin Ids
          /\ \A i \in Ids \ olds : rows'[i] = rows[i]
          /\ rows'[n] = RowOf(c)
          /\ graph' = {i \in graph \ olds : ~SameTriple(rows[i], c)} \cup {n}
          /\ Accepted' = (Accepted \ olds) \cup {n}
      BY <1>2, <2>1, SupersedeRows
    <2>3. graph' = (graph \ olds) \cup {n}
      BY <2>2 DEF SameTriple
    <2>4. OneValuePerSlot'
      BY <1>2, <2>2, <2>3, RowOfType DEF OneValuePerSlot
    <2>5. AcceptedRowsAreEdges'
      BY <1>2, <2>2, <2>3 DEF AcceptedRowsAreEdges
    <2>. QED BY <2>4, <2>5
  <1>5. ASSUME UNCHANGED <<rows, graph>>
        PROVE  Rest'
    BY <1>5 DEF OneValuePerSlot, AcceptedRowsAreEdges, Accepted, Ids
  <1>6. ASSUME NEW c \in Candidates,
               WriteReaffirmed(c) \/ WriteHeld(c) \/ WriteRejected(c)
        PROVE  Rest'
    BY <1>5, <1>6 DEF WriteReaffirmed, WriteHeld, WriteRejected, Reaffirm, Quarantine, vars
  <1>7. ASSUME Restart
        PROVE  Rest'
    <2>1. Accepted \subseteq Nat /\ \A i \in graph : i \in Accepted
      BY <1>2 DEF Accepted, Ids, TypeOK, EdgesAreAcceptedRows
    <2>2. graph \subseteq Rebuilt
      BY <1>2, <2>1 DEF Rebuilt, EdgesAreAcceptedRows
    <2>3. Rebuilt \subseteq graph
      BY <1>2 DEF Rebuilt
    <2>4. Rebuilt = graph
      BY <2>2, <2>3
    <2>5. UNCHANGED <<rows, graph>>
      BY <1>7, <2>4 DEF Restart, durable
    <2>. QED BY <1>5, <2>5
  <1>8. ASSUME FlushVectors \/ UNCHANGED vars
        PROVE  Rest'
    <2>1. UNCHANGED <<rows, graph>>
      BY <1>8 DEF FlushVectors, durable, vars
    <2>. QED BY <1>5, <2>1
  <1>. QED BY <1>1, <1>3, <1>4, <1>6, <1>7, <1>8 DEF Next, Write

LEMMA LatestValueAlways ==
  ASSUME LatestValueGoverns
  PROVE  Spec => []LatestValueInv
  <1>1. Init => LatestValueInv
    BY StoresAgreeInit DEF Init, LatestValueInv, OneValuePerSlot, AcceptedRowsAreEdges,
      Accepted, Ids
  <1>2. LatestValueInv /\ [Next]_vars => LatestValueInv'
    BY LatestValueStep
  <1>. QED BY <1>1, <1>2, PTL DEF Spec

\* Keep the newest: a single-valued slot never has two active values.
THEOREM OneValueAlways ==
  ASSUME LatestValueGoverns
  PROVE  Spec => []OneValuePerSlot
  <1>1. LatestValueInv => OneValuePerSlot
    BY DEF LatestValueInv
  <1>. QED BY <1>1, LatestValueAlways, PTL

\* Under this policy no accepted row is hidden from traversal.
THEOREM AcceptedRowsAlwaysEdges ==
  ASSUME LatestValueGoverns
  PROVE  Spec => []AcceptedRowsAreEdges
  <1>1. LatestValueInv => AcceptedRowsAreEdges
    BY DEF LatestValueInv
  <1>. QED BY <1>1, LatestValueAlways, PTL

-----------------------------------------------------------------------------
(* A slot with an accepted value serves one, under every policy. *)

\* A rebuild keeps a value of every triple that was ever accepted.
LEMMA NewestIsRebuilt ==
  ASSUME TypeOK, NEW i \in Accepted
  PROVE  \E j \in Rebuilt : SameTriple(rows[j], rows[i])
  <1>. DEFINE Same == {k \in Accepted : SameTriple(rows[k], rows[i])}
  <1>1. Len(rows) \in Nat /\ Same \in SUBSET (1..Len(rows)) /\ i \in Same
    BY DEF TypeOK, Accepted, Ids, SameTriple
  <1>2. PICK j \in Same : \A k \in Same : k <= j
    BY <1>1, GreatestNat
  <1>. QED BY <1>2 DEF Rebuilt, SameTriple

\* Accepted rows whose edge went to another row of their triple are served by it.
SlotsAreServed == \A i \in Accepted : \E j \in graph : rows[j].slot = rows[i].slot

LEMMA AcceptNewServes ==
  ASSUME TypeOK, EdgesAreAcceptedRows, NEW c \in Candidates, AcceptNew(c)
  PROVE  /\ \A i \in graph : \E j \in graph' : rows'[j].slot = rows[i].slot
         /\ SlotsAreServed => SlotsAreServed'
  <1>1. PICK n : n = Len(rows) + 1
    OBVIOUS
  <1>2. /\ Ids' = Ids \cup {n} /\ \A i \in Ids : rows'[i] = rows[i]
        /\ rows'[n] = RowOf(c) /\ graph' = graph \cup {n}
        /\ Accepted' = Accepted \cup {n}
    BY <1>1, AcceptNewRows
  <1>3. graph \subseteq Ids /\ Accepted \subseteq Ids
    BY DEF TypeOK, Accepted
  <1>. QED BY <1>2, <1>3 DEF SlotsAreServed

LEMMA SupersedeServes ==
  ASSUME TypeOK, EdgesAreAcceptedRows, NEW c \in Candidates,
         NEW olds \in SUBSET graph, SupersedeWith(c, olds),
         \A o \in olds : rows[o].slot = c.slot
  PROVE  /\ \A i \in graph : \E j \in graph' : rows'[j].slot = rows[i].slot
         /\ SlotsAreServed => SlotsAreServed'
  <1>1. PICK n : n = Len(rows) + 1
    OBVIOUS
  <1>2. /\ \A i \in Ids \ olds : rows'[i] = rows[i]
        /\ rows'[n] = RowOf(c) /\ n \notin Ids
        /\ graph' = {i \in graph \ olds : ~SameTriple(rows[i], c)} \cup {n}
        /\ Accepted' = (Accepted \ olds) \cup {n}
    BY <1>1, SupersedeRows
  <1>3. graph \subseteq Ids /\ Accepted \subseteq Ids /\ rows'[n].slot = c.slot
    BY <1>2, RowOfType DEF TypeOK, Accepted
  <1>4. \A i \in graph : \E j \in graph' : rows'[j].slot = rows[i].slot
    BY <1>2, <1>3 DEF SameTriple
  <1>5. ASSUME SlotsAreServed, NEW i \in Accepted'
        PROVE  \E j \in graph' : rows'[j].slot = rows'[i].slot
    <2>1. CASE i = n
      BY <1>2, <2>1
    <2>2. CASE i \in Accepted \ olds
      <3>1. PICK k \in graph : rows[k].slot = rows[i].slot
        BY <1>5, <2>2 DEF SlotsAreServed
      <3>2. rows'[i] = rows[i]
        BY <1>2, <1>3, <2>2
      <3>. QED BY <1>4, <3>1, <3>2
    <2>. QED BY <1>2, <1>5, <2>1, <2>2
  <1>. QED BY <1>4, <1>5 DEF SlotsAreServed

LEMMA RestartServes ==
  ASSUME TypeOK, EdgesAreAcceptedRows, Restart
  PROVE  /\ \A i \in graph : \E j \in graph' : rows'[j].slot = rows[i].slot
         /\ SlotsAreServed'
  <1>1. graph' = Rebuilt /\ rows' = rows /\ Accepted' = Accepted /\ graph \subseteq Accepted
    BY DEF Restart, durable, TypeOK, Accepted, Ids, EdgesAreAcceptedRows
  <1>2. \A i \in Accepted : \E j \in graph' : rows'[j].slot = rows[i].slot
    BY <1>1, NewestIsRebuilt DEF SameTriple
  <1>. QED BY <1>1, <1>2 DEF SlotsAreServed

LEMMA UnchangedServes ==
  ASSUME UNCHANGED <<rows, graph>>
  PROVE  /\ \A i \in graph : \E j \in graph' : rows'[j].slot = rows[i].slot
         /\ SlotsAreServed => SlotsAreServed'
  BY DEF SlotsAreServed, Accepted, Ids

LEMMA WriteServes ==
  ASSUME TypeOK, EdgesAreAcceptedRows, NEW c \in Candidates, Write(c)
  PROVE  /\ \A i \in graph : \E j \in graph' : rows'[j].slot = rows[i].slot
         /\ SlotsAreServed => SlotsAreServed'
  <1>1. CASE WriteAccepted(c)
    BY <1>1, AcceptNewServes DEF WriteAccepted
  <1>2. CASE WriteSupersedes(c)
    BY <1>2, AgainstOwnSlot, SupersedeServes DEF WriteSupersedes
  <1>3. CASE WriteReaffirmed(c) \/ WriteHeld(c) \/ WriteRejected(c)
    <2>1. UNCHANGED <<rows, graph>>
      BY <1>3 DEF WriteReaffirmed, WriteHeld, WriteRejected, Reaffirm, Quarantine, vars
    <2>. QED BY <2>1, UnchangedServes
  <1>. QED BY <1>1, <1>2, <1>3 DEF Write

\* Replacing never leaves a hole, whatever the policy, a restart included: whatever
\* slot has a value has one after the step.
THEOREM SlotAlwaysKeepsValue == Spec => SlotKeepsValue
  <1>1. StoresAgree /\ [Next]_vars
          => [\A i \in graph : \E j \in graph' : rows'[j].slot = rows[i].slot]_vars
    <2>1. SUFFICES ASSUME StoresAgree, Next
                   PROVE  \A i \in graph : \E j \in graph' : rows'[j].slot = rows[i].slot
      OBVIOUS
    <2>2. TypeOK /\ EdgesAreAcceptedRows
      BY <2>1 DEF StoresAgree
    <2>3. CASE FlushVectors
      BY <2>3, UnchangedServes DEF FlushVectors, durable
    <2>. QED BY <2>1, <2>2, <2>3, WriteServes, RestartServes DEF Next
  <1>. QED BY <1>1, StoresAgreeAlways, PTL DEF Spec, SlotKeepsValue
=============================================================================
