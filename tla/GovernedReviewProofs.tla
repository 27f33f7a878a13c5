------------------------ MODULE GovernedReviewProofs ------------------------
(***************************************************************************)
(* The routed write path and its review queue, for every score, every      *)
(* adjudication at any moment and every restart: the stores keep their     *)
(* types and edges are accepted rows; and, under the contradiction gate,   *)
(* no commit ever adds a second active value to a single-valued slot.      *)
(***************************************************************************)
EXTENDS GovernedReview, WritePipelineProofs

GovernedInv == GovernedTypeOK /\ EdgesAreAcceptedRows

\* Review items over so many quarantine records.
Items(count) == [record : 1..count, resolved : BOOLEAN]

-----------------------------------------------------------------------------
(* Sequences. *)

LEMMA SeqElement ==
  ASSUME NEW S, NEW s \in Seq(S), NEW k \in DOMAIN s
  PROVE  s[k] \in S
  OBVIOUS

LEMMA SeqOfMore ==
  ASSUME NEW S, NEW T, S \subseteq T, NEW s \in Seq(S)
  PROVE  s \in Seq(T)
  OBVIOUS

LEMMA SeqExcept ==
  ASSUME NEW S, NEW s \in Seq(S), NEW k, NEW e \in S
  PROVE  [s EXCEPT ![k] = e] \in Seq(S) /\ Len([s EXCEPT ![k] = e]) = Len(s)
  <1>. DEFINE t == [s EXCEPT ![k] = e]
  <1>1. s \in [1..Len(s) -> S] /\ Len(s) \in Nat
    OBVIOUS
  <1>2. t \in [1..Len(s) -> S]
    BY <1>1
  <1>. HIDE DEF t
  <1>3. t \in Seq(S) /\ Len(t) = Len(s)
    BY <1>1, <1>2
  <1>. QED BY <1>3 DEF t

LEMMA ItemsGrow == \A m, n \in Nat : m <= n => Items(m) \subseteq Items(n)
  BY DEF Items

-----------------------------------------------------------------------------
(* Commits against assertions that are stale: WritePipelineProofs has the  *)
(* supersession of active values, a release may name any earlier ones.     *)

\* The rows and edges after a supersession, whatever it was directed against.
LEMMA StaleSupersede ==
  ASSUME TypeOK, EdgesAreAcceptedRows, NEW c \in Candidates,
         NEW olds \in SUBSET Nat, SupersedeWith(c, olds),
         NEW n, n = Len(rows) + 1
  PROVE  /\ rows' \in Seq(RowSet) /\ Ids' = Ids \cup {n} /\ n \notin Ids /\ n \in Nat
         /\ \A i \in Ids \ olds : rows'[i] = rows[i]
         /\ rows'[n] = RowOf(c)
         /\ graph' \subseteq (graph \ olds) \cup {n}
         /\ \A i \in graph' \ {n} : ~SameTriple(rows[i], c)
  <1>. DEFINE known == olds \cap Ids
  <1>1. /\ Len(rows) \in Nat /\ Ids = 1..Len(rows) /\ RowOf(c) \in RowSet
        /\ rows \in [1..Len(rows) -> RowSet] /\ graph \subseteq Ids
    BY RowOfType DEF TypeOK, Ids
  <1>2. /\ rows' = Append(Retire(known), RowOf(c))
        /\ graph' = AddEdge(RemoveEdges(graph, known), c, n)
    BY DEF SupersedeWith, Replaced
  <1>3. /\ rows' \in Seq(RowSet) /\ Ids' = Ids \cup {n} /\ n \notin Ids /\ n \in Nat
        /\ \A i \in Ids : rows'[i] = Retire(known)[i]
        /\ rows'[n] = RowOf(c)
    BY <1>1, <1>2, RetireRows DEF Ids
  <1>4. \A i \in Ids \ olds : rows'[i] = rows[i]
    BY <1>3, RetireRows
  <1>5. RemoveEdges(graph, known) \subseteq graph \ olds
    BY <1>1 DEF RemoveEdges, SameTriple
  <1>6. /\ graph' \subseteq (graph \ olds) \cup {n}
        /\ \A i \in graph' \ {n} : ~SameTriple(rows[i], c)
    BY <1>2, <1>5 DEF AddEdge
  <1>. QED BY <1>3, <1>4, <1>6

LEMMA StaleSupersedeKeeps ==
  ASSUME TypeOK, EdgesAreAcceptedRows, NEW c \in Candidates,
         NEW olds \in SUBSET Nat, SupersedeWith(c, olds)
  PROVE  (TypeOK /\ EdgesAreAcceptedRows)'
  <1>. DEFINE n == Len(rows) + 1
  <1>1. /\ rows' \in Seq(RowSet) /\ Ids' = Ids \cup {n} /\ n \notin Ids /\ n \in Nat
        /\ \A i \in Ids \ olds : rows'[i] = rows[i]
        /\ rows'[n] = RowOf(c)
        /\ graph' \subseteq (graph \ olds) \cup {n}
        /\ \A i \in graph' \ {n} : ~SameTriple(rows[i], c)
    BY StaleSupersede
  <1>2. graph \subseteq Ids /\ Ids \subseteq Nat /\ \A i \in Ids : rows[i] \in RowSet
    BY DEF TypeOK, Ids
  <1>3. EdgesAreAcceptedRows'
    BY <1>1, <1>2, RowOfType DEF EdgesAreAcceptedRows, SameTriple
  <1>4. /\ links' = links \cup {<<n, o>> : o \in olds}
        /\ linkEdges' = linkEdges \cup {<<n, o>> : o \in olds}
        /\ held' = held
    BY DEF SupersedeWith, LinksTo
  <1>5. pending' \subseteq pending \cup {n} /\ searchable' \subseteq searchable \cup pending
    BY DEF SupersedeWith, Queued, Retagged
  <1>6. prov' \subseteq Nat \X Sources
    <2>1. \A o \in Ids : rows[o].source \in Sources
      BY <1>2 DEF RowSet
    <2>. QED BY <1>1, <1>2, <2>1 DEF SupersedeWith, TypeOK, Candidates
  <1>7. links' \subseteq Nat \X Nat /\ linkEdges' \subseteq links'
    BY <1>1, <1>4 DEF TypeOK
  <1>8. graph' \subseteq Ids' /\ pending' \subseteq Ids' /\ searchable' \subseteq Ids'
    BY <1>1, <1>5 DEF TypeOK
  <1>. QED BY <1>1, <1>3, <1>4, <1>6, <1>7, <1>8 DEF TypeOK

LEMMA AcceptKeeps ==
  ASSUME TypeOK, EdgesAreAcceptedRows, NEW c \in Candidates, AcceptNew(c) \/ Reaffirm(c)
  PROVE  (TypeOK /\ EdgesAreAcceptedRows)' /\ held' = held
  <1>. DEFINE n == Len(rows) + 1
  <1>1. Ids \subseteq Nat /\ graph \subseteq Ids
    BY DEF TypeOK, Ids
  <1>2. ASSUME AcceptNew(c)
        PROVE  (TypeOK /\ EdgesAreAcceptedRows)' /\ held' = held
    <2>1. /\ rows' \in Seq(RowSet) /\ Ids' = Ids \cup {n} /\ n \notin Ids /\ n \in Nat
          /\ \A i \in Ids : rows'[i] = rows[i]
          /\ rows'[n] = RowOf(c) /\ graph' = graph \cup {n}
          /\ \A i \in graph : ~SameTriple(rows[i], c)
      BY <1>2, AcceptNewRows
    <2>2. pending' \subseteq pending \cup {n}
      BY <1>2 DEF AcceptNew, Queued
    <2>3. TypeOK'
      BY <1>2, <2>1, <2>2 DEF TypeOK, AcceptNew, Candidates
    <2>4. EdgesAreAcceptedRows'
      BY <1>1, <2>1, RowOfType DEF EdgesAreAcceptedRows, SameTriple
    <2>. QED BY <1>2, <2>3, <2>4 DEF AcceptNew
  <1>3. ASSUME Reaffirm(c)
        PROVE  (TypeOK /\ EdgesAreAcceptedRows)' /\ held' = held
    BY <1>1, <1>3 DEF TypeOK, Reaffirm, Existing, Candidates, Ids, EdgesAreAcceptedRows
  <1>. QED BY <1>2, <1>3

-----------------------------------------------------------------------------
(* Types, and edges that are accepted rows. *)

LEMMA IncumbentsAreEdges ==
  ASSUME NEW c \in Candidates
  PROVE  Incumbents(c) \subseteq graph
  BY AgainstOwnSlot DEF Incumbents, OtherValues

\* What an item's record holds, and what its release would retire.
LEMMA RecordType ==
  ASSUME GovernedTypeOK, NEW k \in DOMAIN items
  PROVE  /\ items[k].record \in DOMAIN ruling
         /\ held[items[k].record].cand \in Candidates
         /\ Retires(held[items[k].record]) \in SUBSET Nat
  <1>0. items[k] \in Items(Len(held))
    BY SeqElement DEF GovernedTypeOK, Items
  <1>1. items[k].record \in 1..Len(held) /\ 1..Len(held) = DOMAIN held
    BY <1>0 DEF Items, GovernedTypeOK, TypeOK
  <1>2. held[items[k].record] \in [cand : Candidates, against : SUBSET Nat]
    BY <1>1, SeqElement DEF GovernedTypeOK, TypeOK
  <1>3. graph \subseteq Nat
    BY DEF GovernedTypeOK, TypeOK, Ids
  <1>4. items[k].record \in DOMAIN ruling
    BY <1>1 DEF GovernedTypeOK
  <1>5. /\ held[items[k].record].cand \in Candidates
        /\ held[items[k].record].against \in SUBSET Nat
    BY <1>2
  <1>. QED BY <1>3, <1>4, <1>5 DEF Retires, OtherValues

LEMMA ResolveKeeps ==
  ASSUME GovernedTypeOK, NEW k \in DOMAIN items, NEW status \in Rulings,
         Resolve(k, status), held' = held
  PROVE  /\ ruling' \in Seq(Rulings) /\ Len(ruling') = Len(held')
         /\ items' \in Seq([record : 1..Len(held'), resolved : BOOLEAN])
  <1>1. items[k].record \in DOMAIN ruling
    BY RecordType
  <1>2. ruling' \in Seq(Rulings) /\ Len(ruling') = Len(ruling)
    BY <1>1, SeqExcept DEF GovernedTypeOK, Resolve
  <1>3. items \in Seq(Items(Len(held))) /\ items[k] \in Items(Len(held))
    BY SeqElement DEF GovernedTypeOK, Items
  <1>4. [items[k] EXCEPT !.resolved = TRUE] \in Items(Len(held))
    BY <1>3 DEF Items
  <1>5. items' = [items EXCEPT ![k] = [items[k] EXCEPT !.resolved = TRUE]]
    BY DEF Resolve
  <1>6. items' \in Seq(Items(Len(held)))
    BY <1>3, <1>4, <1>5, SeqExcept
  <1>. QED BY <1>2, <1>6 DEF GovernedTypeOK, Items

LEMMA GovernedStep ==
  ASSUME GovernedInv, [GovernedNext \/ GovernedRestart]_gvars
  PROVE  GovernedInv'
  <1>. USE DEF GovernedInv
  <1>. DEFINE Reviews == /\ ruling \in Seq(Rulings) /\ Len(ruling) = Len(held)
                         /\ items \in Seq([record : 1..Len(held), resolved : BOOLEAN])
  <1>1. TypeOK /\ Reviews /\ Ids \subseteq Nat /\ graph \subseteq Ids
    BY DEF GovernedTypeOK, TypeOK, Ids
  <1>2. ASSUME (TypeOK /\ EdgesAreAcceptedRows)', Reviews'
        PROVE  GovernedInv'
    BY <1>2 DEF GovernedTypeOK
  <1>3. ASSUME UNCHANGED vars
        PROVE  (TypeOK /\ EdgesAreAcceptedRows)'
    BY <1>1, <1>3 DEF vars, TypeOK, EdgesAreAcceptedRows, Ids
  <1>4. ASSUME NEW c \in Candidates, NEW band \in Bands, NEW authoritative \in BOOLEAN
        PROVE  /\ RouteAccept(c, band, authoritative) => GovernedInv'
               /\ RouteSupersede(c, band, authoritative) => GovernedInv'
               /\ RouteReview(c, band, authoritative) => GovernedInv'
               /\ RouteReject(c, band, authoritative) => GovernedInv'
    <2>1. ASSUME RouteAccept(c, band, authoritative)
          PROVE  GovernedInv'
      BY <1>1, <1>2, <2>1, AcceptKeeps DEF RouteAccept
    <2>2. ASSUME RouteSupersede(c, band, authoritative)
          PROVE  GovernedInv'
      <3>1. Incumbents(c) \in SUBSET Nat
        BY <1>1, IncumbentsAreEdges
      <3>2. SupersedeWith(c, Incumbents(c))
        BY <2>2 DEF RouteSupersede
      <3>3. (TypeOK /\ EdgesAreAcceptedRows)' /\ held' = held
        BY <1>1, <3>1, <3>2, StaleSupersedeKeeps DEF SupersedeWith
      <3>. QED BY <1>1, <1>2, <2>2, <3>3 DEF RouteSupersede
    <2>3. ASSUME RouteReview(c, band, authoritative)
          PROVE  GovernedInv'
      <3>. DEFINE rec == [cand |-> c, against |-> Incumbents(c)]
                  item == [record |-> Len(held) + 1, resolved |-> FALSE]
      <3>1. rec \in [cand : Candidates, against : SUBSET Nat]
        BY <1>1, IncumbentsAreEdges
      <3>2. /\ held' = Append(held, rec)
            /\ UNCHANGED <<rows, links, prov, graph, linkEdges, pending, searchable>>
            /\ ruling' = Append(ruling, "unresolved") /\ items' = Append(items, item)
        BY <2>3 DEF RouteReview, Quarantine
      <3>. HIDE DEF rec
      <3>3. held \in Seq([cand : Candidates, against : SUBSET Nat])
        BY <1>1 DEF TypeOK
      <3>4. /\ held' \in Seq([cand : Candidates, against : SUBSET Nat])
            /\ Len(held') = Len(held) + 1 /\ Len(held) \in Nat
        BY <3>1, <3>2, <3>3
      <3>5. (TypeOK /\ EdgesAreAcceptedRows)'
        BY <1>1, <3>2, <3>4 DEF TypeOK, EdgesAreAcceptedRows, Ids
      <3>6. items \in Seq(Items(Len(held)))
        BY <1>1 DEF Items
      <3>7. items \in Seq(Items(Len(held')))
        BY <3>4, <3>6, ItemsGrow, SeqOfMore
      <3>8. item \in Items(Len(held'))
        BY <3>4 DEF Items
      <3>9. items' \in Seq(Items(Len(held')))
        BY <3>2, <3>7, <3>8
      <3>10. ruling' \in Seq(Rulings) /\ Len(ruling') = Len(held')
        BY <1>1, <3>2, <3>4 DEF Rulings
      <3>. QED BY <1>2, <3>5, <3>9, <3>10 DEF Items
    <2>4. ASSUME RouteReject(c, band, authoritative)
          PROVE  GovernedInv'
      <3>1. UNCHANGED gvars
        BY <2>4 DEF RouteReject
      <3>. QED BY <1>1, <1>2, <1>3, <3>1 DEF gvars, vars
    <2>. QED BY <2>1, <2>2, <2>3, <2>4
  <1>5. ASSUME NEW k \in DOMAIN items, Adjudicate(k)
        PROVE  GovernedInv'
    <2>. DEFINE rec == held[items[k].record]
    <2>1. rec.cand \in Candidates /\ Retires(rec) \in SUBSET Nat
      BY RecordType
    <2>2. ASSUME Release(k)
          PROVE  GovernedInv'
      <3>1. \/ SupersedeWith(rec.cand, Retires(rec))
            \/ AcceptNew(rec.cand) \/ Reaffirm(rec.cand)
        BY <2>2 DEF Release
      <3>2. Resolve(k, "resolved")
        BY <2>2 DEF Release
      <3>. HIDE DEF rec
      <3>3. (TypeOK /\ EdgesAreAcceptedRows)' /\ held' = held
        BY <1>1, <2>1, <3>1, StaleSupersedeKeeps, AcceptKeeps DEF SupersedeWith
      <3>. QED BY <1>2, <3>2, <3>3, ResolveKeeps DEF Rulings
    <2>3. ASSUME Hold(k) \/ Dismiss(k)
          PROVE  GovernedInv'
      <3>1. UNCHANGED vars /\ held' = held
        BY <2>3 DEF Hold, Dismiss, vars
      <3>2. \E status \in Rulings : Resolve(k, status)
        BY <2>3 DEF Hold, Dismiss, Rulings
      <3>. QED BY <1>2, <1>3, <3>1, <3>2, ResolveKeeps
    <2>. QED BY <1>5, <2>2, <2>3 DEF Adjudicate
  <1>6. ASSUME FlushVectors /\ UNCHANGED <<ruling, items>>
        PROVE  GovernedInv'
    BY <1>1, <1>2, <1>6 DEF FlushVectors, durable, TypeOK, EdgesAreAcceptedRows, Ids
  <1>7. ASSUME GovernedRestart
        PROVE  GovernedInv'
    <2>1. Restart /\ items' = <<>> /\ ruling' = ruling /\ held' = held
      BY <1>7 DEF GovernedRestart, Restart, durable
    <2>2. TypeOK'
      BY <1>1, <2>1 DEF Restart, Rebuilt, durable, TypeOK, Ids, Accepted
    <2>3. rows' = rows /\ graph' = Rebuilt /\ Accepted \subseteq Nat
      BY <1>1, <2>1 DEF Restart, durable, Accepted
    <2>4. EdgesAreAcceptedRows'
      BY <2>3 DEF Rebuilt, EdgesAreAcceptedRows, Accepted, SameTriple
    <2>. QED BY <1>1, <1>2, <2>1, <2>2, <2>4
  <1>8. ASSUME UNCHANGED gvars
        PROVE  GovernedInv'
    BY <1>1, <1>2, <1>3, <1>8 DEF gvars, vars
  <1>. QED BY <1>4, <1>5, <1>6, <1>7, <1>8 DEF GovernedNext, RouteWrite

LEMMA GovernedAlways == GovernedSpec => []GovernedInv
  <1>1. GovernedInit => GovernedInv
    BY DEF GovernedInit, Init, GovernedInv, GovernedTypeOK, TypeOK, EdgesAreAcceptedRows, Ids
  <1>2. GovernedInv /\ [GovernedNext \/ GovernedRestart]_gvars => GovernedInv'
    BY GovernedStep
  <1>. QED BY <1>1, <1>2, PTL DEF GovernedSpec

\* Whatever analysts release, repeat or dismiss, and whenever the process restarts,
\* every review item has its quarantine record and every record one ruling.
THEOREM GovernedIsTyped == GovernedSpec => []GovernedTypeOK
  <1>1. GovernedInv => GovernedTypeOK
    BY DEF GovernedInv
  <1>. QED BY <1>1, GovernedAlways, PTL

\* A late release against assertions long replaced leaves no superseded edge.
THEOREM ReviewedEdgesAreAccepted == GovernedSpec => []EdgesAreAcceptedRows
  <1>1. GovernedInv => EdgesAreAcceptedRows
    BY DEF GovernedInv
  <1>. QED BY <1>1, GovernedAlways, PTL

-----------------------------------------------------------------------------
(* One value per slot. *)

\* The contradiction gate judges, and no two windows are apart.
ReviewedGate == Policy = "gate" /\ \A v, w \in Windows : Overlaps(v, w)

\* A commit that retires the slot's other values leaves the slot with one.
LEMMA ReplacingKeepsOne ==
  ASSUME TypeOK, EdgesAreAcceptedRows, OneValuePerSlot, NEW c \in Candidates,
         NEW olds \in SUBSET Nat, SupersedeWith(c, olds), OtherValues(c) \subseteq olds
  PROVE  OneValuePerSlot'
  <1>. DEFINE n == Len(rows) + 1
  <1>1. /\ n \notin Ids
        /\ \A i \in Ids \ olds : rows'[i] = rows[i]
        /\ rows'[n] = RowOf(c)
        /\ graph' \subseteq (graph \ olds) \cup {n}
        /\ \A i \in graph' \ {n} : ~SameTriple(rows[i], c)
    BY StaleSupersede
  <1>2. graph \subseteq Ids
    BY DEF TypeOK
  <1>3. c.slot \in SingleValued => \A i \in graph' \ {n} : rows[i].slot # c.slot
    BY <1>1 DEF OtherValues, SameTriple
  <1>. QED BY <1>1, <1>2, <1>3, RowOfType DEF OneValuePerSlot

LEMMA AcceptingKeepsOne ==
  ASSUME TypeOK, EdgesAreAcceptedRows, OneValuePerSlot, NEW c \in Candidates,
         AcceptNew(c) \/ Reaffirm(c), OtherValues(c) = {}
  PROVE  OneValuePerSlot'
  <1>. DEFINE n == Len(rows) + 1
  <1>1. graph \subseteq Ids
    BY DEF TypeOK
  <1>2. ASSUME AcceptNew(c)
        PROVE  OneValuePerSlot'
    <2>1. /\ n \notin Ids /\ \A i \in Ids : rows'[i] = rows[i]
          /\ rows'[n] = RowOf(c) /\ graph' = graph \cup {n}
          /\ \A i \in graph : ~SameTriple(rows[i], c)
      BY <1>2, AcceptNewRows
    <2>2. c.slot \in SingleValued => \A i \in graph : rows[i].slot # c.slot
      BY <2>1 DEF OtherValues, SameTriple
    <2>. QED BY <1>1, <2>1, <2>2, RowOfType DEF OneValuePerSlot
  <1>3. ASSUME Reaffirm(c)
        PROVE  OneValuePerSlot'
    BY <1>3 DEF Reaffirm, OneValuePerSlot
  <1>. QED BY <1>2, <1>3

\* Under the gate, what a write would retire is all its slot holds beside its value.
LEMMA IncumbentsAreOthers ==
  ASSUME ReviewedGate, TypeOK, NEW c \in Candidates
  PROVE  OtherValues(c) \subseteq Incumbents(c)
  <1>0. \A i \in graph : rows[i] \in RowSet
    BY SeqElement DEF TypeOK, Ids
  <1>1. \A i \in graph : rows[i].win \in Windows
    BY <1>0 DEF RowSet
  <1>2. c.win \in Windows
    BY DEF Candidates
  <1>3. Conflicts(c, View) = OtherValues(c)
    BY <1>1, <1>2 DEF Conflicts, OtherValues, View, ReviewedGate
  <1>4. Verdict(c, View).against \in {{}, Conflicts(c, View)}
    BY DEF ReviewedGate, Verdict, GateVerdict, Decide
  <1>. QED BY <1>3, <1>4 DEF Incumbents

LEMMA CommitKeepsOne ==
  ASSUME ReviewedGate, GovernedInv, GovernedNext, OneValuePerSlot
  PROVE  OneValuePerSlot'
  <1>. USE DEF GovernedInv
  <1>1. TypeOK /\ Ids \subseteq Nat /\ graph \subseteq Ids
    BY DEF GovernedTypeOK, TypeOK, Ids
  <1>2. ASSUME UNCHANGED <<rows, graph>>
        PROVE  OneValuePerSlot'
    BY <1>2 DEF OneValuePerSlot
  <1>3. ASSUME NEW c \in Candidates, NEW band \in Bands, NEW authoritative \in BOOLEAN,
               \/ RouteAccept(c, band, authoritative)
               \/ RouteSupersede(c, band, authoritative)
               \/ RouteReview(c, band, authoritative)
               \/ RouteReject(c, band, authoritative)
        PROVE  OneValuePerSlot'
    <2>1. OtherValues(c) \subseteq Incumbents(c) /\ Incumbents(c) \in SUBSET Nat
      BY <1>1, IncumbentsAreOthers, IncumbentsAreEdges
    <2>2. CASE RouteAccept(c, band, authoritative)
      <3>1. Tier(c, band, authoritative) = "accept" /\ (AcceptNew(c) \/ Reaffirm(c))
        BY <2>2 DEF RouteAccept
      <3>2. Incumbents(c) = {}
        BY <3>1 DEF Tier
      <3>. QED BY <1>1, <2>1, <3>1, <3>2, AcceptingKeepsOne
    <2>3. CASE RouteSupersede(c, band, authoritative)
      <3>1. SupersedeWith(c, Incumbents(c))
        BY <2>3 DEF RouteSupersede
      <3>. QED BY <1>1, <2>1, <3>1, ReplacingKeepsOne
    <2>4. CASE RouteReview(c, band, authoritative) \/ RouteReject(c, band, authoritative)
      <3>1. UNCHANGED <<rows, graph>>
        BY <2>4 DEF RouteReview, RouteReject, Quarantine, gvars, vars
      <3>. QED BY <1>2, <3>1
    <2>. QED BY <1>3, <2>2, <2>3, <2>4
  <1>4. ASSUME NEW k \in DOMAIN items, Adjudicate(k)
        PROVE  OneValuePerSlot'
    <2>. DEFINE rec == held[items[k].record]
    <2>1. rec.cand \in Candidates /\ Retires(rec) \in SUBSET Nat
      BY RecordType
    <2>2. OtherValues(rec.cand) \subseteq Retires(rec)
      BY DEF Retires
    <2>3. CASE Release(k)
      <3>1. \/ SupersedeWith(rec.cand, Retires(rec))
            \/ Retires(rec) = {} /\ (AcceptNew(rec.cand) \/ Reaffirm(rec.cand))
        BY <2>3 DEF Release
      <3>. HIDE DEF rec
      <3>. QED BY <1>1, <2>1, <2>2, <3>1, ReplacingKeepsOne, AcceptingKeepsOne
    <2>4. CASE Hold(k) \/ Dismiss(k)
      <3>1. UNCHANGED <<rows, graph>>
        BY <2>4 DEF Hold, Dismiss, vars
      <3>. QED BY <1>2, <3>1
    <2>. QED BY <1>4, <2>3, <2>4 DEF Adjudicate
  <1>5. ASSUME FlushVectors
        PROVE  OneValuePerSlot'
    BY <1>2, <1>5 DEF FlushVectors, durable
  <1>. QED BY <1>3, <1>4, <1>5 DEF GovernedNext, RouteWrite

\* Whatever the scores and however stale the record an analyst releases, no routed
\* write and no adjudication gives a single-valued slot a second active value.
THEOREM CommitsAlwaysKeepOneValue ==
  ASSUME ReviewedGate
  PROVE  GovernedSpec => CommitsKeepOneValue
  <1>1. GovernedInv /\ [GovernedNext \/ GovernedRestart]_gvars
          => [GovernedNext /\ OneValuePerSlot => OneValuePerSlot']_gvars
    BY CommitKeepsOne
  <1>. QED BY <1>1, GovernedAlways, PTL DEF GovernedSpec, CommitsKeepOneValue

-----------------------------------------------------------------------------
(* Releases. *)

\* A commit that retires all of the slot's other values serves the candidate's value,
\* and a single-valued slot nothing else.
LEMMA CommittedIsServed ==
  ASSUME TypeOK, EdgesAreAcceptedRows, NEW c \in Candidates,
         \/ \E olds \in SUBSET Nat : SupersedeWith(c, olds) /\ OtherValues(c) \subseteq olds
         \/ OtherValues(c) = {} /\ (AcceptNew(c) \/ Reaffirm(c)),
         NEW now, now = {i \in graph' : rows'[i].slot = c.slot}
  PROVE  /\ \E i \in now : rows'[i].obj = c.obj
         /\ c.slot \in SingleValued => \A i \in now : rows'[i].obj = c.obj
  <1>. DEFINE n == Len(rows) + 1
  <1>1. graph \subseteq Ids
    BY DEF TypeOK
  <1>2. ASSUME NEW olds \in SUBSET Nat, SupersedeWith(c, olds), OtherValues(c) \subseteq olds
        PROVE  /\ \E i \in now : rows'[i].obj = c.obj
               /\ c.slot \in SingleValued => \A i \in now : rows'[i].obj = c.obj
    <2>1. /\ \A i \in Ids \ olds : rows'[i] = rows[i]
          /\ rows'[n] = RowOf(c)
          /\ graph' \subseteq (graph \ olds) \cup {n}
          /\ \A i \in graph' \ {n} : ~SameTriple(rows[i], c)
      BY <1>2, StaleSupersede
    <2>2. n \in graph'
      BY <1>2 DEF SupersedeWith, Replaced, AddEdge
    <2>3. c.slot \in SingleValued => \A i \in graph' \ {n} : rows[i].slot # c.slot
      BY <1>2, <2>1 DEF OtherValues, SameTriple
    <2>. QED BY <1>1, <2>1, <2>2, <2>3, RowOfType
  <1>3. ASSUME OtherValues(c) = {}, AcceptNew(c)
        PROVE  /\ \E i \in now : rows'[i].obj = c.obj
               /\ c.slot \in SingleValued => \A i \in now : rows'[i].obj = c.obj
    <2>1. /\ \A i \in Ids : rows'[i] = rows[i]
          /\ rows'[n] = RowOf(c) /\ graph' = graph \cup {n}
      BY <1>3, AcceptNewRows
    <2>. QED BY <1>1, <1>3, <2>1, RowOfType DEF OtherValues
  <1>4. ASSUME OtherValues(c) = {}, Reaffirm(c)
        PROVE  /\ \E i \in now : rows'[i].obj = c.obj
               /\ c.slot \in SingleValued => \A i \in now : rows'[i].obj = c.obj
    BY <1>4 DEF Reaffirm, Existing, SameTriple, OtherValues
  <1>. QED BY <1>2, <1>3, <1>4

\* However long a write was held, and whatever has become of what it was held
\* against, releasing it serves its value, and a single-valued slot nothing else.
THEOREM ReleasesAlwaysServeOneValue == GovernedSpec => ReleaseServesOneValue
  <1>1. ASSUME GovernedInv, NEW k \in DOMAIN items, Release(k)
        PROVE  LET c == held[items[k].record].cand
                   now == {i \in graph' : rows'[i].slot = c.slot}
               IN  /\ \E i \in now : rows'[i].obj = c.obj
                   /\ c.slot \in SingleValued => \A i \in now : rows'[i].obj = c.obj
    <2>. DEFINE rec == held[items[k].record]
    <2>1. TypeOK /\ EdgesAreAcceptedRows
      BY <1>1 DEF GovernedInv, GovernedTypeOK
    <2>2. rec.cand \in Candidates /\ Retires(rec) \in SUBSET Nat
      BY <1>1, RecordType DEF GovernedInv
    <2>3. OtherValues(rec.cand) \subseteq Retires(rec)
      BY DEF Retires
    <2>4. \/ SupersedeWith(rec.cand, Retires(rec))
          \/ Retires(rec) = {} /\ (AcceptNew(rec.cand) \/ Reaffirm(rec.cand))
      BY <1>1 DEF Release
    <2>. HIDE DEF rec
    <2>5. \/ \E olds \in SUBSET Nat :
               SupersedeWith(rec.cand, olds) /\ OtherValues(rec.cand) \subseteq olds
          \/ OtherValues(rec.cand) = {} /\ (AcceptNew(rec.cand) \/ Reaffirm(rec.cand))
      BY <2>2, <2>3, <2>4
    <2>6. LET c == rec.cand
              now == {i \in graph' : rows'[i].slot = c.slot}
          IN  /\ \E i \in now : rows'[i].obj = c.obj
              /\ c.slot \in SingleValued => \A i \in now : rows'[i].obj = c.obj
      BY <2>1, <2>2, <2>5, CommittedIsServed
    <2>. QED BY <2>6 DEF rec
  <1>2. GovernedInv /\ [GovernedNext \/ GovernedRestart]_gvars
          => [\A k \in DOMAIN items :
                Release(k) =>
                  LET c == held[items[k].record].cand
                      now == {i \in graph' : rows'[i].slot = c.slot}
                  IN  /\ \E i \in now : rows'[i].obj = c.obj
                      /\ c.slot \in SingleValued => \A i \in now : rows'[i].obj = c.obj]_gvars
    BY <1>1
  <1>. QED BY <1>2, GovernedAlways, PTL DEF GovernedSpec, ReleaseServesOneValue
=============================================================================
