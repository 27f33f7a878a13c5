----------------------------- MODULE GateProofs -----------------------------
(***************************************************************************)
(* What the contradiction gate guarantees when it is the write policy, for *)
(* every value of the other constants, each result under the hypothesis it *)
(* needs: a confident value is displaced only by a stronger one; one       *)
(* confident value per slot where validity windows always overlap; and the *)
(* abstract memory, restarts included, where no confidence leaves room for *)
(* a third displacement.                                                   *)
(***************************************************************************)
EXTENDS WritePipelineProofs

\* The contradiction gate is the policy the settings select.
GateGoverns == Policy = "gate"

\* Writes carry no window, or windows that all overlap.
AlwaysOverlapping == \A v, w \in Windows : Overlaps(v, w)

-----------------------------------------------------------------------------
(* The gate's verdicts. *)

\* An accepted candidate clashes with nothing in the graph.
LEMMA AcceptedIsClear ==
  ASSUME GateGoverns, NEW c \in Candidates, Verdict(c, View).action = "accept"
  PROVE  ~Blocking(c, View)
  BY DEF GateGoverns, Verdict, GateVerdict, Decide

\* A superseding candidate is high, replaces all it contradicts, one of which is
\* high, and beats each by the margin unless it is an authoritative update.
LEMMA SupersedingDominates ==
  ASSUME GateGoverns, NEW c \in Candidates, Verdict(c, View).action = "supersede"
  PROVE  /\ Verdict(c, View).against = Conflicts(c, View)
         /\ Blocking(c, View)
         /\ ~AuthoritativeUpdate => \A i \in Conflicts(c, View) :
                                      c.conf - View[i].conf > Margin
  BY DEF GateGoverns, Verdict, GateVerdict, Decide, MayReplace, Dominates

\* What it is to contradict a row of the graph.
LEMMA ConflictRows ==
  ASSUME NEW c \in Candidates
  PROVE  Conflicts(c, View) =
           IF c.slot \notin SingleValued THEN {}
           ELSE {i \in graph : /\ rows[i].slot = c.slot /\ rows[i].obj # c.obj
                               /\ Overlaps(c.win, rows[i].win)}
  BY DEF Conflicts, View

LEMMA BlockingRows ==
  ASSUME NEW c \in Candidates
  PROVE  Blocking(c, View) <=>
           High(c.conf) /\ \E i \in Conflicts(c, View) : High(rows[i].conf)
  BY ConflictRows DEF Blocking, View

-----------------------------------------------------------------------------
(* One high-confidence value per slot. *)

Guarded(i) == HighRow(i) /\ rows[i].slot \in SingleValued

\* The gate sees every high row: none is hidden behind another row's edge ...
HighIsVisible == \A i \in Ids : Guarded(i) => i \in graph

\* ... and none would be, were the graph rebuilt.
HighIsNewest ==
  \A i \in Ids, j \in Accepted :
    Guarded(i) /\ SameTriple(rows[i], rows[j]) => j <= i

OneHighInv == StoresAgree /\ OneHighValue /\ HighIsVisible /\ HighIsNewest

LEMMA OneHighInit == Init => OneHighInv
  BY StoresAgreeInit DEF Init, OneHighInv, OneHighValue, HighIsVisible, HighIsNewest, Ids

LEMMA OneHighUnchanged ==
  ASSUME OneHighInv, UNCHANGED <<rows, graph>>
  PROVE  (OneHighValue /\ HighIsVisible /\ HighIsNewest)'
  BY DEF OneHighInv, OneHighValue, HighIsVisible, HighIsNewest, Guarded, HighRow, Ids,
         Accepted

LEMMA OneHighAccept ==
  ASSUME GateGoverns, AlwaysOverlapping, OneHighInv,
         NEW c \in Candidates, WriteAccepted(c)
  PROVE  (OneHighValue /\ HighIsVisible /\ HighIsNewest)'
  <1>0. PICK n : n = Len(rows) + 1
    OBVIOUS
  <1>1. TypeOK /\ EdgesAreAcceptedRows /\ AcceptNew(c) /\ ~Blocking(c, View)
    BY AcceptedIsClear DEF OneHighInv, StoresAgree, WriteAccepted
  <1>2. /\ Ids' = Ids \cup {n} /\ n \notin Ids /\ n \in Nat
        /\ \A i \in Ids : i \in Nat /\ i < n
        /\ \A i \in Ids : rows'[i] = rows[i]
        /\ rows'[n] = RowOf(c)
        /\ graph' = graph \cup {n}
        /\ Accepted' = Accepted \cup {n}
        /\ \A i \in graph : ~SameTriple(rows[i], c)
    BY <1>0, <1>1, AcceptNewRows
  <1>3. \A i \in Ids : rows[i].win \in Windows /\ c.win \in Windows
    <2>1. \A i \in Ids : rows[i] \in RowSet
      BY <1>1 DEF TypeOK, Ids
    <2>. QED BY <2>1 DEF RowSet, Candidates
  \* A high row of the candidate's slot would be a conflict, so c is not high.
  <1>4. ASSUME NEW i \in Ids, Guarded(i), rows[i].slot = c.slot
        PROVE  ~High(c.conf)
    <2>1. i \in graph /\ High(rows[i].conf) /\ c.slot \in SingleValued
      BY <1>4 DEF OneHighInv, HighIsVisible, Guarded, HighRow
    <2>2. rows[i].obj # c.obj
      BY <1>2, <1>4, <2>1 DEF SameTriple
    <2>3. Overlaps(c.win, rows[i].win)
      BY <1>3, <1>4 DEF AlwaysOverlapping
    <2>4. i \in Conflicts(c, View)
      BY <1>4, <2>1, <2>2, <2>3, ConflictRows
    <2>. QED BY <1>1, <2>1, <2>4, BlockingRows
  <1>5. \A i \in Ids : Guarded(i)' <=> Guarded(i)
    BY <1>2 DEF Guarded, HighRow
  <1>6. Guarded(n)' => c.slot \in SingleValued /\ High(c.conf)
    BY <1>2, RowOfType DEF Guarded, HighRow
  <1>7. OneHighValue'
    <2>1. SUFFICES ASSUME NEW i \in Ids', NEW j \in Ids', Guarded(i)', Guarded(j)',
                          rows'[i].slot = rows'[j].slot
                   PROVE  i = j
      BY DEF OneHighValue, Guarded
    <2>2. CASE i \in Ids /\ j \in Ids
      BY <1>2, <1>5, <2>1, <2>2 DEF OneHighInv, OneHighValue, Guarded
    <2>3. CASE i = n \/ j = n
      BY <1>2, <1>4, <1>5, <1>6, <2>1, <2>3, RowOfType
    <2>. QED BY <1>2, <2>2, <2>3
  <1>8. HighIsVisible'
    BY <1>2, <1>5 DEF OneHighInv, HighIsVisible
  <1>9. HighIsNewest'
    <2>1. SUFFICES ASSUME NEW i \in Ids', NEW j \in Accepted', Guarded(i)',
                          SameTriple(rows'[i], rows'[j])
                   PROVE  j <= i
      BY DEF HighIsNewest
    <2>2. Accepted \subseteq Ids
      BY DEF Accepted
    <2>3. CASE i = n
      BY <1>2, <2>1, <2>2, <2>3
    <2>4. CASE i \in Ids /\ j \in Accepted
      BY <1>2, <1>5, <2>1, <2>2, <2>4 DEF OneHighInv, HighIsNewest
    \* The new row cannot repeat a high row's triple: that row has the edge.
    <2>5. CASE i \in Ids /\ j = n
      <3>1. i \in graph /\ SameTriple(rows[i], c)
        BY <1>2, <1>5, <2>1, <2>5, RowOfType DEF OneHighInv, HighIsVisible, SameTriple
      <3>. QED BY <1>2, <3>1
    <2>. QED BY <1>2, <2>3, <2>4, <2>5
  <1>. QED BY <1>7, <1>8, <1>9

LEMMA OneHighSupersede ==
  ASSUME GateGoverns, AlwaysOverlapping, OneHighInv,
         NEW c \in Candidates, WriteSupersedes(c)
  PROVE  (OneHighValue /\ HighIsVisible /\ HighIsNewest)'
  <1>. DEFINE olds == Conflicts(c, View)
  <1>0. PICK n : n = Len(rows) + 1
    OBVIOUS
  <1>1. /\ TypeOK /\ EdgesAreAcceptedRows
        /\ SupersedeWith(c, olds) /\ olds \in SUBSET graph /\ Blocking(c, View)
    BY SupersedingDominates, AgainstIsSubset DEF OneHighInv, StoresAgree, WriteSupersedes
  <1>. HIDE DEF olds
  <1>2. /\ Ids' = Ids \cup {n} /\ n \notin Ids /\ n \in Nat
        /\ \A i \in Ids : i \in Nat /\ i < n
        /\ \A i \in Ids \ olds : rows'[i] = rows[i]
        /\ \A i \in olds : rows'[i] = [rows[i] EXCEPT !.status = "superseded"]
        /\ rows'[n] = RowOf(c)
        /\ graph' = {i \in graph \ olds : ~SameTriple(rows[i], c)} \cup {n}
        /\ Accepted' = (Accepted \ olds) \cup {n}
        /\ olds \subseteq Ids
    <2>1. TypeOK /\ EdgesAreAcceptedRows /\ SupersedeWith(c, olds) /\ olds \in SUBSET graph
      BY <1>1
    <2>. QED BY <1>0, <2>1, SupersedeRows
  <1>3. \A i \in Ids : rows[i] \in RowSet
    BY <1>1 DEF TypeOK, Ids
  <1>4. \A i \in Ids : rows[i].win \in Windows /\ c.win \in Windows
    BY <1>3 DEF RowSet, Candidates
  <1>5. /\ c.slot \in SingleValued /\ High(c.conf)
        /\ \E k \in olds : HighRow(k) /\ k \in Ids /\ rows[k].slot = c.slot
    <2>1. High(c.conf) /\ \E k \in olds : High(rows[k].conf)
      BY <1>1, BlockingRows DEF olds
    <2>2. c.slot \in SingleValued /\ \A k \in olds : rows[k].slot = c.slot
      BY <2>1, ConflictRows DEF olds
    <2>. QED BY <1>1, <1>2, <2>1, <2>2 DEF HighRow, EdgesAreAcceptedRows
  \* Every guarded row of the slot is retired: the only one there is, is a conflict.
  <1>6. ASSUME NEW i \in Ids, Guarded(i), rows[i].slot = c.slot
        PROVE  i \in olds
    <2>1. PICK k \in olds : HighRow(k) /\ k \in Ids /\ rows[k].slot = c.slot
      BY <1>5
    <2>. QED BY <1>5, <1>6, <2>1 DEF OneHighInv, OneHighValue, Guarded
  <1>7. \A i \in olds : ~Guarded(i)'
    BY <1>2, <1>3, RetiredFields DEF Guarded, HighRow
  <1>8. \A i \in Ids \ olds : /\ Guarded(i)' <=> Guarded(i)
                              /\ Guarded(i) => rows[i].slot # c.slot
    BY <1>2, <1>6 DEF Guarded, HighRow
  <1>9. OneHighValue'
    <2>1. SUFFICES ASSUME NEW i \in Ids', NEW j \in Ids', Guarded(i)', Guarded(j)',
                          rows'[i].slot = rows'[j].slot
                   PROVE  i = j
      BY DEF OneHighValue, Guarded
    <2>2. CASE i \in Ids /\ j \in Ids
      BY <1>2, <1>7, <1>8, <2>1, <2>2 DEF OneHighInv, OneHighValue, Guarded
    <2>3. CASE i = n \/ j = n
      BY <1>2, <1>7, <1>8, <2>1, <2>3, RowOfType
    <2>. QED BY <1>2, <2>2, <2>3
  <1>10. HighIsVisible'
    <2>1. ASSUME NEW i \in Ids, Guarded(i)'
          PROVE  i \in graph'
      BY <1>2, <1>7, <1>8, <2>1 DEF OneHighInv, HighIsVisible, SameTriple
    <2>. QED BY <1>2, <2>1 DEF HighIsVisible
  <1>11. HighIsNewest'
    <2>1. SUFFICES ASSUME NEW i \in Ids', NEW j \in Accepted', Guarded(i)',
                          SameTriple(rows'[i], rows'[j])
                   PROVE  j <= i
      BY DEF HighIsNewest
    <2>2. Accepted \subseteq Ids
      BY DEF Accepted
    <2>3. CASE i = n
      BY <1>2, <2>1, <2>2, <2>3
    <2>4. CASE i \in Ids /\ j \in Accepted \ olds
      BY <1>2, <1>7, <1>8, <2>1, <2>2, <2>4 DEF OneHighInv, HighIsNewest
    <2>5. CASE i \in Ids /\ j = n
      BY <1>2, <1>7, <1>8, <2>1, <2>5, RowOfType DEF SameTriple
    <2>. QED BY <1>2, <2>1, <2>3, <2>4, <2>5
  <1>. QED BY <1>9, <1>10, <1>11

LEMMA OneHighRestart ==
  ASSUME OneHighInv, Restart
  PROVE  (OneHighValue /\ HighIsVisible /\ HighIsNewest)'
  <1>1. rows' = rows /\ Accepted' = Accepted /\ Ids' = Ids
    BY DEF Restart, durable, Accepted, Ids
  <1>2. \A i \in Ids : Guarded(i) => i \in graph'
    BY DEF OneHighInv, HighIsNewest, Restart, Rebuilt, Guarded, HighRow, Accepted
  <1>. QED BY <1>1, <1>2 DEF OneHighInv, OneHighValue, HighIsVisible, HighIsNewest,
                             Guarded, HighRow

LEMMA OneHighStep ==
  ASSUME GateGoverns, AlwaysOverlapping, OneHighInv, [Next]_vars
  PROVE  OneHighInv'
  <1>. DEFINE Rest == OneHighValue /\ HighIsVisible /\ HighIsNewest
  <1>1. StoresAgree'
    BY StoresAgreeStep DEF OneHighInv
  <1>2. ASSUME NEW c \in Candidates, Write(c)
        PROVE  Rest'
    <2>1. CASE WriteAccepted(c)
      BY <2>1, OneHighAccept
    <2>2. CASE WriteSupersedes(c)
      BY <2>2, OneHighSupersede
    <2>3. CASE WriteReaffirmed(c) \/ WriteHeld(c) \/ WriteRejected(c)
      BY <2>3, OneHighUnchanged DEF WriteReaffirmed, WriteHeld, WriteRejected, Reaffirm,
                                    Quarantine, vars
    <2>. QED BY <1>2, <2>1, <2>2, <2>3 DEF Write
  <1>3. CASE Restart
    BY <1>1, <1>3, OneHighRestart DEF OneHighInv
  <1>4. CASE FlushVectors \/ UNCHANGED vars
    BY <1>1, <1>4, OneHighUnchanged DEF OneHighInv, FlushVectors, durable, vars
  <1>. QED BY <1>1, <1>2, <1>3, <1>4 DEF OneHighInv, Next

\* Under the contradiction gate, where writes carry no windows (or windows that
\* all overlap), no slot ever has two accepted high-confidence rows, in the
\* graph or in the table a restart reads.
THEOREM OneHighValueAlways ==
  ASSUME GateGoverns, AlwaysOverlapping
  PROVE  Spec => []OneHighValue
  <1>1. OneHighInv /\ [Next]_vars => OneHighInv'
    BY OneHighStep
  <1>2. OneHighInv => OneHighValue
    BY DEF OneHighInv
  <1>. QED BY <1>1, <1>2, OneHighInit, PTL DEF Spec

\* A confident value is displaced only by one that beats it by the margin.
LEMMA OnlyStrongerDisplaces ==
  ASSUME GateGoverns, StoresAgree, [Next]_vars, NEW i \in Ids,
         rows[i].status = "accepted", rows'[i].status = "superseded"
  PROVE  LET n == Len(rows')
         IN  /\ n = Len(rows) + 1
             /\ rows'[n].conf - rows[i].conf > Margin \/ AuthoritativeUpdate
  <1>. DEFINE m == Len(rows) + 1
  <1>1. TypeOK /\ EdgesAreAcceptedRows /\ Len(rows) \in Nat
    BY DEF StoresAgree, TypeOK
  <1>2. rows'[i] # rows[i]
    OBVIOUS
  <1>3. PICK c \in Candidates : WriteSupersedes(c)
    <2>1. ASSUME NEW c \in Candidates, WriteAccepted(c)
          PROVE  FALSE
      BY <1>1, <1>2, <2>1, AcceptNewRows DEF WriteAccepted
    <2>2. ASSUME NEW c \in Candidates,
                 WriteReaffirmed(c) \/ WriteHeld(c) \/ WriteRejected(c)
          PROVE  FALSE
      BY <1>2, <2>2 DEF WriteReaffirmed, WriteHeld, WriteRejected, Reaffirm, Quarantine, vars
    <2>3. CASE FlushVectors \/ Restart \/ UNCHANGED vars
      BY <1>2, <2>3 DEF FlushVectors, Restart, durable, vars
    <2>. QED BY <2>1, <2>2, <2>3 DEF Next, Write
  <1>. DEFINE olds == Conflicts(c, View)
  <1>4. /\ SupersedeWith(c, olds) /\ olds \in SUBSET graph
        /\ ~AuthoritativeUpdate => \A k \in olds : c.conf - rows[k].conf > Margin
    BY <1>3, SupersedingDominates, AgainstIsSubset, ConflictRows DEF WriteSupersedes, View
  <1>. HIDE DEF olds
  <1>5. /\ rows' \in Seq(RowSet) /\ Ids' = Ids \cup {m} /\ m \notin Ids
        /\ \A k \in Ids \ olds : rows'[k] = rows[k]
        /\ rows'[m] = RowOf(c)
    BY <1>1, <1>4, SupersedeRows
  <1>6. i \in olds
    BY <1>2, <1>5
  <1>7. Len(rows') = m
    <2>0. rows \in Seq(RowSet) /\ rows' \in Seq(RowSet)
      BY <1>1, <1>5 DEF TypeOK
    <2>. HIDE DEF m
    <2>1. Ids = 1..Len(rows) /\ Ids' = 1..Len(rows') /\ Len(rows') \in Nat
      BY <2>0 DEF Ids
    <2>. USE DEF m
    <2>2. m \in 1..Len(rows') /\ \A k \in 1..Len(rows') : k <= m
      BY <1>1, <1>5, <2>1
    <2>3. Len(rows') \in 1..Len(rows')
      BY <2>1, <2>2
    <2>. QED BY <1>1, <2>1, <2>2, <2>3
  <1>. QED BY <1>4, <1>5, <1>6, <1>7, RowOfType

\* Nothing but a stronger value, or an authoritative update, ever displaces a
\* confident one: neither a repeated write nor a flush nor a restart retires a row.
THEOREM OnlyStrongerAlwaysDisplaces ==
  ASSUME GateGoverns
  PROVE  Spec => DisplacedOnlyByStronger
  <1>1. StoresAgree /\ [Next]_vars
          => [\A i \in Ids :
               rows[i].status = "accepted" /\ High(rows[i].conf)
                 /\ rows'[i].status = "superseded"
               => LET n == Len(rows')
                  IN  /\ n = Len(rows) + 1
                      /\ \/ rows'[n].conf - rows[i].conf > Margin
                         \/ AuthoritativeUpdate]_vars
    BY OnlyStrongerDisplaces
  <1>. QED BY <1>1, StoresAgreeAlways, PTL DEF Spec, DisplacedOnlyByStronger

-----------------------------------------------------------------------------
(* The pipeline under the gate is the abstract memory.  The hypothesis is  *)
(* about the settings: a value that displaced another beats it by the      *)
(* margin, so with every confidence at most Threshold + 2 Margin           *)
(* (1.0 <= 0.8 + 2 * 0.1, the defaults) it can itself never be displaced.  *)
(* Only a displacing value leaves an accepted row without its edge, so the *)
(* row it hides stays hidden, across restarts too.                         *)

NoThirdDisplacement ==
  /\ ~AuthoritativeUpdate
  /\ \A conf \in Confidences : conf <= Threshold + 2 * Margin

\* A value strong enough to have displaced another.
Strong(i) == rows[i].conf > Threshold + Margin

EdgeIsNewest ==
  \A i \in graph, j \in Accepted : SameTriple(rows[i], rows[j]) => j <= i

AcceptedIsCovered ==
  \A j \in Accepted : \E i \in graph : /\ SameTriple(rows[i], rows[j])
                                       /\ i = j \/ Strong(i)

RecoverInv == StoresAgree /\ EdgeIsNewest /\ AcceptedIsCovered

LEMMA RecoverInit == Init => RecoverInv
  BY StoresAgreeInit DEF Init, RecoverInv, EdgeIsNewest, AcceptedIsCovered, Accepted, Ids

LEMMA RecoverUnchanged ==
  ASSUME RecoverInv, UNCHANGED <<rows, graph>>
  PROVE  (EdgeIsNewest /\ AcceptedIsCovered)'
  BY DEF RecoverInv, EdgeIsNewest, AcceptedIsCovered, Strong, Accepted, Ids

\* A restart rebuilds exactly the graph there was.
LEMMA RestartIsInvisible ==
  ASSUME RecoverInv, Restart
  PROVE  graph' = graph
  <1>1. graph \subseteq Accepted /\ Accepted \subseteq Nat
    BY DEF RecoverInv, StoresAgree, EdgesAreAcceptedRows, TypeOK, Accepted, Ids
  <1>2. \A i \in graph : i \in graph'
    BY <1>1 DEF RecoverInv, EdgeIsNewest, Restart, Rebuilt
  <1>3. ASSUME NEW i \in graph'
        PROVE  i \in graph
    <2>1. i \in Accepted /\ \A j \in Accepted : SameTriple(rows[i], rows[j]) => j <= i
      BY <1>3 DEF Restart, Rebuilt
    <2>2. PICK k \in graph : SameTriple(rows[k], rows[i])
      BY <2>1 DEF RecoverInv, AcceptedIsCovered
    <2>3. k <= i /\ i <= k
      BY <1>1, <2>1, <2>2 DEF RecoverInv, EdgeIsNewest, SameTriple
    <2>. QED BY <1>1, <2>1, <2>2, <2>3
  <1>. QED BY <1>2, <1>3

LEMMA RecoverAccept ==
  ASSUME RecoverInv, NEW c \in Candidates, WriteAccepted(c)
  PROVE  (EdgeIsNewest /\ AcceptedIsCovered)'
  <1>0. PICK n : n = Len(rows) + 1
    OBVIOUS
  <1>1. TypeOK /\ EdgesAreAcceptedRows /\ AcceptNew(c)
    BY DEF RecoverInv, StoresAgree, WriteAccepted
  <1>2. /\ Ids' = Ids \cup {n} /\ n \notin Ids /\ n \in Nat
        /\ \A i \in Ids : i \in Nat /\ i < n
        /\ \A i \in Ids : rows'[i] = rows[i]
        /\ rows'[n] = RowOf(c)
        /\ graph' = graph \cup {n}
        /\ Accepted' = Accepted \cup {n}
        /\ \A i \in graph : ~SameTriple(rows[i], c)
    BY <1>0, <1>1, AcceptNewRows
  <1>3. graph \subseteq Ids /\ Accepted \subseteq Ids
    BY <1>1 DEF TypeOK, Accepted
  <1>4. EdgeIsNewest'
    BY <1>2, <1>3, RowOfType DEF RecoverInv, EdgeIsNewest, SameTriple
  <1>5. AcceptedIsCovered'
    <2>1. ASSUME NEW j \in Accepted
          PROVE  \E i \in graph' : /\ SameTriple(rows'[i], rows'[j])
                                   /\ i = j \/ Strong(i)'
      <3>1. PICK i \in graph : SameTriple(rows[i], rows[j]) /\ (i = j \/ Strong(i))
        BY DEF RecoverInv, AcceptedIsCovered
      <3>2. rows'[i] = rows[i] /\ rows'[j] = rows[j]
        BY <1>2, <1>3
      <3>. QED BY <1>2, <3>1, <3>2 DEF Strong
    <2>2. SameTriple(rows'[n], rows'[n]) /\ n \in graph'
      BY <1>2 DEF SameTriple
    <2>. QED BY <1>2, <2>1, <2>2 DEF AcceptedIsCovered
  <1>. QED BY <1>4, <1>5

\* What a supersession retires is never strong, and what it adds is.
LEMMA OnlyWeakIsDisplaced ==
  ASSUME GateGoverns, NoThirdDisplacement, TypeOK,
         NEW c \in Candidates, WriteSupersedes(c)
  PROVE  /\ c.conf > Threshold + Margin
         /\ \A i \in Conflicts(c, View) : ~Strong(i)
  <1>1. /\ Blocking(c, View)
        /\ \A i \in Conflicts(c, View) : c.conf - rows[i].conf > Margin
    BY SupersedingDominates, ConflictRows DEF WriteSupersedes, NoThirdDisplacement, View
  <1>2. \A i \in Ids : rows[i] \in RowSet
    BY DEF TypeOK, Ids
  <1>3. /\ \A i \in Conflicts(c, View) : i \in Ids
        /\ \A i \in Ids : rows[i].conf \in Nat
        /\ c.conf \in Confidences /\ c.conf \in Nat /\ Threshold \in Nat /\ Margin \in Nat
    <2>1. \A i \in Ids : rows[i].conf \in Confidences
      BY <1>2 DEF RowSet
    <2>2. c.conf \in Confidences
      BY DEF Candidates
    <2>3. Conflicts(c, View) \subseteq Ids
      BY ConflictRows DEF TypeOK
    <2>. QED BY <2>1, <2>2, <2>3, GateConstants
  <1>4. c.conf <= Threshold + 2 * Margin
    BY <1>3 DEF NoThirdDisplacement
  <1>5. PICK i \in Conflicts(c, View) : rows[i].conf > Threshold
    BY <1>1, BlockingRows DEF High
  <1>. QED BY <1>1, <1>3, <1>4, <1>5 DEF Strong

LEMMA RecoverSupersede ==
  ASSUME GateGoverns, NoThirdDisplacement, RecoverInv,
         NEW c \in Candidates, WriteSupersedes(c)
  PROVE  (EdgeIsNewest /\ AcceptedIsCovered)'
  <1>. DEFINE olds == Conflicts(c, View)
  <1>0. PICK n : n = Len(rows) + 1
    OBVIOUS
  <1>1. TypeOK /\ EdgesAreAcceptedRows /\ SupersedeWith(c, olds) /\ olds \in SUBSET graph
    BY SupersedingDominates, AgainstIsSubset DEF RecoverInv, StoresAgree, WriteSupersedes
  <1>a. c.conf > Threshold + Margin /\ \A i \in olds : ~Strong(i)
    BY <1>1, OnlyWeakIsDisplaced
  <1>. HIDE DEF olds
  <1>2. /\ Ids' = Ids \cup {n} /\ n \notin Ids /\ n \in Nat
        /\ \A i \in Ids : i \in Nat /\ i < n
        /\ \A i \in Ids \ olds : rows'[i] = rows[i]
        /\ rows'[n] = RowOf(c)
        /\ graph' = {i \in graph \ olds : ~SameTriple(rows[i], c)} \cup {n}
        /\ Accepted' = (Accepted \ olds) \cup {n}
    BY <1>0, <1>1, SupersedeRows
  <1>3. graph \subseteq Ids /\ Accepted \subseteq Ids
    BY <1>1 DEF TypeOK, Accepted
  <1>4. EdgeIsNewest'
    BY <1>2, <1>3, RowOfType DEF RecoverInv, EdgeIsNewest, SameTriple
  <1>5. AcceptedIsCovered'
    <2>0. /\ n \in graph' /\ Strong(n)' /\ SameTriple(rows'[n], c)
      BY <1>2, <1>a, RowOfType DEF Strong, SameTriple
    <2>1. ASSUME NEW j \in Accepted \ olds
          PROVE  \E i \in graph' : /\ SameTriple(rows'[i], rows'[j])
                                   /\ i = j \/ Strong(i)'
      <3>1. PICK i \in graph : SameTriple(rows[i], rows[j]) /\ (i = j \/ Strong(i))
        BY DEF RecoverInv, AcceptedIsCovered
      <3>2. i \notin olds /\ rows'[i] = rows[i] /\ rows'[j] = rows[j]
        BY <1>2, <1>3, <1>a, <3>1
      <3>3. CASE SameTriple(rows[i], c)
        BY <2>0, <3>1, <3>2, <3>3 DEF SameTriple
      <3>4. CASE ~SameTriple(rows[i], c)
        BY <1>2, <3>1, <3>2, <3>4 DEF Strong
      <3>. QED BY <3>3, <3>4
    <2>2. SameTriple(rows'[n], rows'[n])
      BY DEF SameTriple
    <2>. QED BY <1>2, <2>0, <2>1, <2>2 DEF AcceptedIsCovered
  <1>. QED BY <1>4, <1>5

LEMMA RecoverStep ==
  ASSUME GateGoverns, NoThirdDisplacement, RecoverInv, [Next]_vars
  PROVE  RecoverInv'
  <1>. DEFINE Rest == EdgeIsNewest /\ AcceptedIsCovered
  <1>1. StoresAgree'
    BY StoresAgreeStep DEF RecoverInv
  <1>2. ASSUME NEW c \in Candidates, Write(c)
        PROVE  Rest'
    <2>1. CASE WriteAccepted(c)
      BY <2>1, RecoverAccept
    <2>2. CASE WriteSupersedes(c)
      BY <2>2, RecoverSupersede
    <2>3. CASE WriteReaffirmed(c) \/ WriteHeld(c) \/ WriteRejected(c)
      BY <2>3, RecoverUnchanged DEF WriteReaffirmed, WriteHeld, WriteRejected, Reaffirm,
                                    Quarantine, vars
    <2>. QED BY <1>2, <2>1, <2>2, <2>3 DEF Write
  <1>3. CASE Restart
    BY <1>1, <1>3, RestartIsInvisible, RecoverUnchanged DEF RecoverInv, Restart, durable
  <1>4. CASE FlushVectors \/ UNCHANGED vars
    BY <1>1, <1>4, RecoverUnchanged DEF RecoverInv, FlushVectors, durable, vars
  <1>. QED BY <1>1, <1>2, <1>3, <1>4 DEF RecoverInv, Next

\* Under the gate, with settings that leave no room for a third displacement, a
\* restart gives back exactly the values that were served, whatever was written.
THEOREM RestartKeepsValuesAlways ==
  ASSUME GateGoverns, NoThirdDisplacement
  PROVE  Spec => RestartKeepsValues
  <1>1. RecoverInv /\ [Next]_vars => RecoverInv'
    BY RecoverStep
  <1>2. RecoverInv /\ [Next]_vars => [Restart => graph' = graph]_vars
    BY RestartIsInvisible
  <1>. QED BY <1>1, <1>2, RecoverInit, PTL DEF Spec, RestartKeepsValues

-----------------------------------------------------------------------------
(* Every step of the pipeline is a step of the abstract memory or none. *)

ValueOfCandidate(c) == [slot |-> c.slot, obj |-> c.obj, conf |-> c.conf, win |-> c.win]

\* A candidate's conflicts are its abstract rivals.
LEMMA RivalsAreConflicts ==
  ASSUME TypeOK, NEW c \in Candidates, NEW i \in graph
  PROVE  /\ Memory!Same(ValueOfCandidate(c), ValueOf(i)) <=> SameTriple(rows[i], c)
         /\ Memory!Rivals(ValueOfCandidate(c), ValueOf(i)) <=> i \in Conflicts(c, View)
         /\ Memory!Clash(ValueOfCandidate(c), ValueOf(i)) <=>
              i \in Conflicts(c, View) /\ High(c.conf) /\ High(rows[i].conf)
  BY ConflictRows DEF Memory!Same, Memory!Rivals, Memory!Clash, ValueOfCandidate, ValueOf,
                      SameTriple, Overlaps, High

LEMMA CandidateValueType ==
  ASSUME NEW c \in Candidates
  PROVE  ValueOfCandidate(c) \in Memory!Values
  BY DEF Candidates, ValueOfCandidate, Memory!Values

LEMMA ServedUnchanged ==
  ASSUME rows' = rows, graph' = graph
  PROVE  Served' = Served
  BY DEF Served, ValueOf

LEMMA AcceptLearns ==
  ASSUME GateGoverns, StoresAgree, NEW c \in Candidates, WriteAccepted(c)
  PROVE  Memory!Learn(ValueOfCandidate(c))
  <1>. DEFINE v == ValueOfCandidate(c)
  <1>0. PICK n : n = Len(rows) + 1
    OBVIOUS
  <1>1. TypeOK /\ EdgesAreAcceptedRows /\ AcceptNew(c) /\ ~Blocking(c, View)
    BY AcceptedIsClear DEF StoresAgree, WriteAccepted
  <1>2. /\ \A i \in Ids : rows'[i] = rows[i]
        /\ rows'[n] = RowOf(c)
        /\ graph' = graph \cup {n}
        /\ \A i \in graph : ~SameTriple(rows[i], c)
    BY <1>0, <1>1, AcceptNewRows
  <1>3. \A i \in graph : ~Memory!Clash(v, ValueOf(i)) /\ ~Memory!Same(v, ValueOf(i))
    BY <1>1, <1>2, BlockingRows, RivalsAreConflicts
  <1>4. Served' = Served \cup {v}
    <2>1. \A i \in graph : ValueOf(i)' = ValueOf(i)
      BY <1>1, <1>2 DEF ValueOf, TypeOK
    <2>2. ValueOf(n)' = v
      BY <1>2, RowOfType DEF ValueOf, ValueOfCandidate
    <2>. QED BY <1>2, <2>1, <2>2 DEF Served
  <1>. QED BY <1>3, <1>4 DEF Memory!Learn, Served

LEMMA SupersedeReplaces ==
  ASSUME GateGoverns, NoThirdDisplacement, StoresAgree,
         NEW c \in Candidates, WriteSupersedes(c)
  PROVE  Memory!Replace(ValueOfCandidate(c))
  <1>. DEFINE v == ValueOfCandidate(c)
              olds == Conflicts(c, View)
  <1>0. PICK n : n = Len(rows) + 1
    OBVIOUS
  <1>1. /\ TypeOK /\ EdgesAreAcceptedRows
        /\ SupersedeWith(c, olds) /\ olds \in SUBSET graph
    BY SupersedingDominates, AgainstIsSubset DEF StoresAgree, WriteSupersedes
  <1>2. /\ Blocking(c, View)
        /\ \A i \in olds : c.conf - rows[i].conf > Margin
    BY <1>1, SupersedingDominates DEF WriteSupersedes, NoThirdDisplacement, View
  <1>3. \E w \in Served : Memory!Clash(v, w)
    <2>1. PICK i \in olds : High(rows[i].conf)
      BY <1>2, BlockingRows
    <2>. QED BY <1>1, <1>2, <2>1, RivalsAreConflicts, BlockingRows DEF Served
  <1>4. \A w \in Served : Memory!Rivals(v, w) => v.conf - w.conf > Margin
    <2>1. \A i \in graph : Memory!Rivals(v, ValueOf(i)) => c.conf - rows[i].conf > Margin
      BY <1>1, <1>2, RivalsAreConflicts
    <2>. QED BY <2>1 DEF Served, ValueOf, ValueOfCandidate
  <1>5. \A i \in graph : Memory!Rivals(v, ValueOf(i)) <=> i \in olds
    BY <1>1, RivalsAreConflicts
  <1>6. \A i \in graph : Memory!Same(v, ValueOf(i)) <=> SameTriple(rows[i], c)
    BY <1>1, RivalsAreConflicts
  <1>. HIDE DEF olds
  <1>7. /\ \A i \in Ids \ olds : rows'[i] = rows[i]
        /\ rows'[n] = RowOf(c)
        /\ graph' = {i \in graph \ olds : ~SameTriple(rows[i], c)} \cup {n}
    BY <1>0, <1>1, SupersedeRows
  <1>8. Served' = {w \in Served : ~Memory!Rivals(v, w) /\ ~Memory!Same(v, w)} \cup {v}
    <2>1. \A i \in graph \ olds : ValueOf(i)' = ValueOf(i)
      BY <1>1, <1>7 DEF ValueOf, TypeOK
    <2>2. ValueOf(n)' = v
      BY <1>7, RowOfType DEF ValueOf, ValueOfCandidate
    <2>3. Served' = {ValueOf(i)' : i \in graph'}
      BY DEF Served
    <2>4. Served' = {ValueOf(i) : i \in {k \in graph \ olds : ~SameTriple(rows[k], c)}}
                    \cup {v}
      BY <1>7, <2>1, <2>2, <2>3
    <2>. HIDE DEF v
    <2>. QED BY <1>5, <1>6, <2>4 DEF Served
  <1>. QED BY <1>3, <1>4, <1>8 DEF Memory!Replace

LEMMA StepRefines ==
  ASSUME GateGoverns, NoThirdDisplacement, RecoverInv, [Next]_vars
  PROVE  [Memory!Next]_Served
  <1>1. StoresAgree
    BY DEF RecoverInv
  <1>2. ASSUME NEW c \in Candidates, Write(c)
        PROVE  [Memory!Next]_Served
    <2>1. CASE WriteAccepted(c)
      BY <1>1, <2>1, AcceptLearns, CandidateValueType DEF Memory!Next
    <2>2. CASE WriteSupersedes(c)
      BY <1>1, <2>2, SupersedeReplaces, CandidateValueType DEF Memory!Next
    <2>3. CASE WriteReaffirmed(c) \/ WriteHeld(c) \/ WriteRejected(c)
      BY <2>3, ServedUnchanged DEF WriteReaffirmed, WriteHeld, WriteRejected, Reaffirm,
                                   Quarantine, vars
    <2>. QED BY <1>2, <2>1, <2>2, <2>3 DEF Write
  <1>3. CASE Restart
    BY <1>3, RestartIsInvisible, ServedUnchanged DEF Restart, durable
  <1>4. CASE FlushVectors \/ UNCHANGED vars
    BY <1>4, ServedUnchanged DEF FlushVectors, durable, vars
  <1>. QED BY <1>2, <1>3, <1>4 DEF Next

\* The whole pipeline, restarts included, implements the abstract memory.
THEOREM PipelineIsGovernedMemory ==
  ASSUME GateGoverns, NoThirdDisplacement
  PROVE  Spec => ImplementsGovernedMemory
  <1>1. Init => Memory!Init
    BY DEF Init, Memory!Init, Served
  <1>2. RecoverInv /\ [Next]_vars => RecoverInv'
    BY RecoverStep
  <1>3. RecoverInv /\ [Next]_vars => [Memory!Next]_Served
    BY StepRefines
  <1>. QED BY <1>1, <1>2, <1>3, RecoverInit, PTL
           DEF Spec, Memory!Spec, ImplementsGovernedMemory

Abstract == INSTANCE GovernedMemoryProofs WITH active <- Served

\* No reader is ever served two high-confidence values of one slot that are valid
\* at the same time, for windows of any shape: inherited from the abstract memory.
THEOREM NoHighClashAlways ==
  ASSUME GateGoverns, NoThirdDisplacement
  PROVE  Spec => []NoHighClash
  <1>1. TypeOK /\ Memory!Coherent => NoHighClash
    <2>0. ASSUME TypeOK, NEW i \in graph, NEW j \in graph,
                 ValidTogether(rows[i].win, rows[j].win)
          PROVE  Overlaps(rows[i].win, rows[j].win)
      <3>1. rows[i] \in RowSet /\ rows[j] \in RowSet
        BY <2>0 DEF TypeOK, Ids
      <3>2. rows[i].win \in [from : Nat, to : Nat] /\ rows[j].win \in [from : Nat, to : Nat]
        BY <3>1, GateConstants DEF RowSet
      <3>. QED BY <3>2, <2>0 DEF ValidTogether, Overlaps
    <2>1. ASSUME Memory!Coherent, NEW i \in graph, NEW j \in graph
          PROVE  ~Memory!Clash(ValueOf(i), ValueOf(j))
      BY <2>1 DEF Memory!Coherent, Served
    <2>. QED BY <2>0, <2>1 DEF Memory!Clash, Memory!Rivals, NoHighClash, ValueOf, Overlaps, High
  <1>2. Memory!Spec => []Memory!Coherent
    BY Abstract!CoherentAlways, PTL
       DEF Memory!Spec, Memory!Init, Memory!Next, Memory!Learn, Memory!Replace,
           Memory!Coherent, Memory!Clash, Memory!Rivals, Memory!Same, Memory!Values,
           Abstract!Spec, Abstract!Init, Abstract!Next, Abstract!Learn, Abstract!Replace,
           Abstract!Coherent, Abstract!Clash, Abstract!Rivals, Abstract!Same, Abstract!Values
  <1>. QED BY <1>1, <1>2, TypeCorrect, PipelineIsGovernedMemory, PTL DEF ImplementsGovernedMemory
=============================================================================
