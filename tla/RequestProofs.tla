--------------------------- MODULE RequestProofs ---------------------------
(***************************************************************************)
(* What requests keep, for every number of threads, stops and failures and *)
(* under every write policy.  However their calls interleave, edges and    *)
(* lineage stay true.  As long as they do not overlap, no vector is lost   *)
(* but to a failure, the gate keeps one confident value per slot, reads    *)
(* are fresh, and the stores change as in the serial pipeline.             *)
(***************************************************************************)
EXTENDS ConcurrentRequests, GateProofs, FiniteSetTheorems

-----------------------------------------------------------------------------
(* The shape of a request. *)

Flushing ==
  {"flush", "take ids", "take texts", "take metas", "new ids", "new texts", "new metas", "embed"}
Retiring == {"unedge", "oldsource"} \cup Flushing
Minted == {"edge", "queue", "text", "meta", "source", "link"}
RequestSteps ==
  {"check", "again", "insert", "flip", "hold"} \cup Retiring \cup Minted

Requests ==
  [kind : {"write", "query"}, step : RequestSteps, cand : Candidates \cup {"none"},
   olds : SUBSET Nat, todo : SUBSET Nat, old : Nat, row : Nat, left : 0..2,
   due : SUBSET Nat]

Shape ==
  /\ req \in [Workers -> {Idle} \cup Requests]
  /\ \A w \in Busy : req[w] \in Requests
  /\ \A w \in Busy : req[w].kind = "query" => req[w].step \in Flushing

\* The assertion and the row a write has in hand.
InHandOK ==
  \A w \in Writers :
    /\ IF req[w].step \in Retiring THEN req[w].old \in req[w].todo ELSE req[w].old = 0
    /\ req[w].step \in Minted \cup {"again"} => req[w].row \in Ids

\* Where a flush has one of the queue's lists in a local, and where the queue has
\* already another list in its place.
Naming(l) ==
  CASE l = "ids" -> {"take texts", "take metas", "new ids"}
    [] l = "texts" -> {"take metas", "new ids", "new texts"}
    [] l = "metas" -> {"new ids", "new texts", "new metas"}
Given(l) ==
  CASE l = "ids" -> {"new texts", "new metas", "embed"}
    [] l = "texts" -> {"new metas", "embed"}
    [] l = "metas" -> {"embed"}

LiveOK == \A l \in Lists : \A w \in live[l] : w \in Workers /\ req[w].step \in Naming(l)

TypeInv == RequestTypeOK /\ Shape /\ InHandOK /\ LiveOK

\* An accepting verdict names nothing to retire.
LEMMA AcceptNamesNothing ==
  ASSUME NEW c \in Candidates, Verdict(c, View).action = "accept"
  PROVE  Verdict(c, View).against = {}
  BY SMT DEF Verdict, GateVerdict, LatestValueVerdict, MemgptVerdict,
         EvidenceWeightedVerdict, Decide

\* Replacing the request of one thread.
LEMMA ReplaceOne ==
  ASSUME Shape, NEW w \in Workers, NEW r \in {Idle} \cup Requests,
         req' = [req EXCEPT ![w] = r],
         r \in Requests /\ r.kind = "query" => r.step \in Flushing
  PROVE  /\ Shape'
         /\ req'[w] = r /\ \A u \in Workers \ {w} : req'[u] = req[u]
         /\ Busy' = IF r = Idle THEN Busy \ {w} ELSE Busy \cup {w}
  <1>1. /\ req' \in [Workers -> {Idle} \cup Requests]
        /\ req'[w] = r /\ \A u \in Workers \ {w} : req'[u] = req[u]
    BY DEF Shape
  <1>2. \A u \in Requests : u.step # "idle"
    BY DEF Requests, RequestSteps, Retiring, Minted, Flushing
  <1>3. Idle.step = "idle" /\ Idle \notin Requests
    BY <1>2 DEF Idle
  <1>4. Busy' = IF r = Idle THEN Busy \ {w} ELSE Busy \cup {w}
    BY <1>1, <1>2, <1>3 DEF At, Busy
  <1>. QED BY <1>1, <1>2, <1>3, <1>4 DEF Shape

\* What stays of a request that is not over, and what of its progress may stay.
Carried(w) ==
  /\ req'[w].kind = req[w].kind /\ req'[w].cand = req[w].cand
  /\ req'[w].olds = req[w].olds
KeepsRow(w) == req'[w].row = req[w].row
KeepsAims(w) == req'[w].old = req[w].old /\ req'[w].todo = req[w].todo

SameRequest(q, r) == r.kind = q.kind /\ r.cand = q.cand /\ r.olds = q.olds

\* What each step does to the request it serves, if that is not over then.
Effect(w) ==
  /\ ~At(w, "again") /\ ~At(w, "hold")
  /\ At(w, "check") =>
       /\ KeepsAims(w)
       /\ \/ req'[w].step = "insert" /\ KeepsRow(w)
          \/ req'[w].step = "again" /\ req'[w].row \in Ids
  /\ At(w, "insert") =>
       KeepsAims(w) /\ req'[w].step = "edge" /\ req'[w].row = Len(rows) + 1
  /\ At(w, "edge") => KeepsRow(w) /\ KeepsAims(w) /\ req'[w].step = "queue"
  /\ At(w, "queue") => KeepsRow(w) /\ KeepsAims(w) /\ req'[w].step \in {"text", "source"}
  /\ At(w, "text") => KeepsRow(w) /\ KeepsAims(w) /\ req'[w].step = "meta"
  /\ At(w, "meta") => KeepsRow(w) /\ KeepsAims(w) /\ req'[w].step = "source"
  /\ At(w, "source") =>
       /\ KeepsRow(w) /\ req'[w].old = req[w].old
       /\ req'[w].step = "link" /\ req'[w].todo = req[w].olds
  /\ At(w, "link") =>
       /\ KeepsRow(w) /\ req'[w].old = req[w].old
       /\ req'[w].step = "link" /\ req'[w].todo \subseteq req[w].todo
  /\ At(w, "flip") =>
       /\ KeepsRow(w) /\ req'[w].todo = req[w].todo
       /\ req'[w].step = "unedge" /\ req'[w].old \in req[w].todo
       /\ rows' = Retire({req'[w].old})
  /\ At(w, "unedge") => KeepsRow(w) /\ KeepsAims(w) /\ req'[w].step = "flush"
  /\ req[w].step \in Flushing =>
       KeepsRow(w) /\ KeepsAims(w) /\ req'[w].step \in Flushing \cup {"oldsource"}
  /\ At(w, "oldsource") =>
       /\ KeepsRow(w)
       /\ req'[w].todo = req[w].todo \ {req[w].old} /\ req'[w].old = 0
       /\ req'[w].step = IF req'[w].todo = {} THEN "insert" ELSE "flip"

\* Every step, by the point of the request's code it is taken at.
LEMMA StepAt ==
  ASSUME NEW w \in Workers, ServeStep(w)
  PROVE  /\ At(w, "check") => CheckExisting(w)
         /\ At(w, "again") => AddProvenance(w)
         /\ At(w, "insert") => InsertRow(w)
         /\ At(w, "edge") => InsertEdge(w)
         /\ At(w, "queue") => QueueId(w)
         /\ At(w, "text") => QueueText(w)
         /\ At(w, "meta") => QueueMeta(w)
         /\ At(w, "source") => RecordSource(w)
         /\ At(w, "link") => LinkOld(w)
         /\ At(w, "flip") => FlipStatus(w)
         /\ At(w, "unedge") => DropEdge(w)
         /\ At(w, "oldsource") => KeepOldSource(w)
         /\ At(w, "hold") => HoldCandidate(w)
         /\ At(w, "flush") => CheckQueue(w) \/ Retag(w) \/ Search(w)
         /\ req[w].step \in Flushing \ {"flush"} => FlushStep(w) /\ ~CheckQueue(w)
         /\ req[w].step \in RequestSteps
  BY DEF ServeStep, WriteStep, FlushStep, CheckExisting, AddProvenance, InsertRow, InsertEdge,
     QueueId, QueueText, QueueMeta, RecordSource, LinkOld, FlipStatus, DropEdge, Retag,
     KeepOldSource, HoldCandidate, CheckQueue, TakeIds, TakeTexts, TakeMetas, NewIds, NewTexts,
     NewMetas, EmbedBatch, UpsertRaises, Search, At, Flushing, Retiring, Minted, RequestSteps

\* A step of thread w is one of these, is about no other thread, and ends the
\* request or moves it on.
LEMMA StepEffect ==
  ASSUME TypeInv, NEW w \in Workers, ServeStep(w)
  PROVE  /\ req[w] \in Requests /\ w \in Busy /\ Shape'
         /\ \A u \in Workers \ {w} : req'[u] = req[u]
         /\ Busy' \in {Busy, Busy \ {w}}
         /\ w \in Busy' => Carried(w) /\ Effect(w)
         /\ req[w].kind = "query" => req[w].step \in Flushing
  <1>. DEFINE Goal == /\ Shape' /\ \A u \in Workers \ {w} : req'[u] = req[u]
                      /\ Busy' \in {Busy, Busy \ {w}}
                      /\ w \in Busy' => Carried(w) /\ Effect(w)
  <1>1. req[w] \in Requests /\ w \in Busy
    <2>1. req[w].step \in RequestSteps /\ "idle" \notin RequestSteps
      BY StepAt DEF RequestSteps, Retiring, Minted, Flushing
    <2>. QED BY <2>1 DEF TypeInv, Shape, At, Busy
  <1>2. /\ Len(rows) + 1 \in Nat /\ Ids \subseteq Nat
        /\ graph \subseteq Ids /\ req[w].todo \subseteq Nat
        /\ req \in [Workers -> {Idle} \cup Requests]
        /\ 2 \in 0..2 /\ (req[w].left > 0 => req[w].left - 1 \in 0..2)
        /\ req[w].kind = "query" => req[w].step \in Flushing
    BY <1>1 DEF TypeInv, RequestTypeOK, TypeOK, Ids, Shape, Requests
  <1>. SUFFICES Goal
    BY <1>1, <1>2
  <1>3. ASSUME req' = [req EXCEPT ![w] = Idle]
        PROVE  Goal
    <2>1. Idle \notin Requests
      BY DEF Requests, RequestSteps, Retiring, Minted, Flushing, Idle
    <2>2. /\ Shape' /\ \A u \in Workers \ {w} : req'[u] = req[u]
          /\ Busy' = Busy \ {w}
      BY <1>3, <2>1, ReplaceOne DEF TypeInv
    <2>. QED BY <2>2
  <1>4. ASSUME NEW r \in Requests, req' = [req EXCEPT ![w] = r],
               SameRequest(req[w], r),
               r.kind = "query" => r.step \in Flushing
        PROVE  /\ Shape' /\ req'[w] = r /\ \A u \in Workers \ {w} : req'[u] = req[u]
               /\ Busy' = Busy /\ Carried(w)
    <2>1. Shape' /\ req'[w] = r /\ \A u \in Workers \ {w} : req'[u] = req[u]
      BY <1>4, ReplaceOne DEF TypeInv
    <2>2. r.step \in RequestSteps /\ r # Idle
      <3>1. r.step \in RequestSteps /\ "idle" \notin RequestSteps
        BY DEF Requests, RequestSteps, Retiring, Minted, Flushing
      <3>. QED BY <3>1 DEF Idle
    <2>3. Busy' = Busy \cup {w}
      BY <1>4, <2>2, ReplaceOne DEF TypeInv
    <2>. QED BY <1>1, <1>4, <2>1, <2>3 DEF Carried, SameRequest
  \* The steps that only move the request on.
  <1>5. ASSUME NEW x \in RequestSteps, Goto(w, x),
               req[w].step \notin Flushing \/ x \in Flushing \/ req[w].kind # "query"
        PROVE  /\ Shape' /\ \A u \in Workers \ {w} : req'[u] = req[u]
               /\ Busy' = Busy /\ Carried(w)
               /\ KeepsRow(w) /\ KeepsAims(w) /\ req'[w].step = x
    <2>. DEFINE r == [req[w] EXCEPT !.step = x]
    <2>1. /\ r \in Requests /\ SameRequest(req[w], r) /\ r.step = x
          /\ r.row = req[w].row /\ r.old = req[w].old /\ r.todo = req[w].todo
          /\ req' = [req EXCEPT ![w] = r]
      BY <1>1, <1>2, <1>5 DEF Requests, SameRequest, Goto
    <2>. HIDE DEF r
    <2>2. r.kind = "query" => r.step \in Flushing
      BY <1>2, <1>5, <2>1 DEF SameRequest
    <2>. QED BY <1>4, <2>1, <2>2 DEF KeepsRow, KeepsAims
  <1>6. CASE AddProvenance(w) \/ HoldCandidate(w) \/ Search(w) \/ UpsertRaises(w)
    BY <1>3, <1>6 DEF AddProvenance, HoldCandidate, Search, UpsertRaises, Done
  <1>7. ASSUME NEW x, NEW y, At(w, x), Goto(w, y),
               <<x, y>> \in {<<"check", "insert">>, <<"edge", "queue">>, <<"queue", "text">>,
                             <<"queue", "source">>, <<"text", "meta">>, <<"meta", "source">>,
                             <<"unedge", "flush">>}
        PROVE  Goal
    <2>1. y \in RequestSteps /\ x \notin Flushing /\ x = req[w].step
      BY <1>7 DEF RequestSteps, Retiring, Minted, Flushing, At
    <2>2. /\ Shape' /\ \A u \in Workers \ {w} : req'[u] = req[u]
          /\ Busy' = Busy /\ Carried(w)
          /\ KeepsRow(w) /\ KeepsAims(w) /\ req'[w].step = y
      BY <1>5, <1>7, <2>1
    <2>3. Effect(w)
      BY <1>7, <2>1, <2>2 DEF Effect, At
    <2>. QED BY <2>2, <2>3
  <1>8. ASSUME req[w].step \in Flushing, NEW y \in Flushing, Goto(w, y)
        PROVE  Goal
    <2>1. y \in RequestSteps
      BY DEF RequestSteps, Retiring
    <2>2. /\ Shape' /\ \A u \in Workers \ {w} : req'[u] = req[u]
          /\ Busy' = Busy /\ Carried(w)
          /\ KeepsRow(w) /\ KeepsAims(w) /\ req'[w].step = y
      BY <1>5, <1>8, <2>1
    <2>3. Effect(w)
      BY <1>8, <2>2 DEF Effect, At, Flushing
    <2>. QED BY <2>2, <2>3
  <1>9. CASE CheckExisting(w)
    <2>1. ASSUME NEW i \in Existing(req[w].cand),
               req' = [req EXCEPT ![w].step = "again", ![w].row = i]
        PROVE  Goal
      <3>. DEFINE r == [req[w] EXCEPT !.step = "again", !.row = i]
      <3>1. /\ r \in Requests /\ SameRequest(req[w], r)
            /\ r.step = "again" /\ r.row = i
            /\ r.old = req[w].old /\ r.todo = req[w].todo
        BY <1>1, <1>2, <1>9, <2>1 DEF Requests, RequestSteps, SameRequest, Existing
      <3>2. At(w, "check") /\ req' = [req EXCEPT ![w] = r]
        BY <1>2, <1>9, <2>1 DEF CheckExisting
      <3>. HIDE DEF r
      <3>3. r.kind = "query" => r.step \in Flushing
        BY <1>2, <3>1, <3>2 DEF At, SameRequest, Flushing
      <3>4. Effect(w)
        BY <1>2, <1>4, <2>1, <3>1, <3>2, <3>3 DEF Effect, KeepsAims, At, Existing, Flushing
      <3>. QED BY <1>4, <3>1, <3>2, <3>3, <3>4
    <2>2. CASE Goto(w, "insert")
      BY <1>7, <1>9, <2>2 DEF CheckExisting
    <2>. QED BY <1>9, <2>1, <2>2 DEF CheckExisting
  <1>10. CASE InsertRow(w)
    <2>. DEFINE r == [req[w] EXCEPT !.step = "edge", !.row = Len(rows) + 1]
    <2>1. /\ r \in Requests /\ SameRequest(req[w], r)
          /\ r.step = "edge" /\ r.row = Len(rows) + 1
          /\ r.old = req[w].old /\ r.todo = req[w].todo
      BY <1>1, <1>2, <1>10 DEF Requests, RequestSteps, Minted, SameRequest
    <2>2. At(w, "insert") /\ req' = [req EXCEPT ![w] = r]
      BY <1>2, <1>10 DEF InsertRow
    <2>. HIDE DEF r
    <2>3. r.kind = "query" => r.step \in Flushing
      BY <1>2, <2>1, <2>2 DEF At, SameRequest, Flushing
    <2>4. Effect(w)
      BY <1>4, <2>1, <2>2, <2>3 DEF Effect, KeepsAims, At, Flushing
    <2>. QED BY <1>4, <2>1, <2>2, <2>3, <2>4
  <1>11. CASE InsertEdge(w)
    BY <1>7, <1>11 DEF InsertEdge
  <1>12. CASE QueueId(w)
    <2>1. Goto(w, "source") \/ Goto(w, "text")
      BY <1>12 DEF QueueId
    <2>. QED BY <1>7, <1>12, <2>1 DEF QueueId
  <1>13. CASE QueueText(w) \/ QueueMeta(w)
    BY <1>7, <1>13 DEF QueueText, QueueMeta
  <1>14. CASE RecordSource(w)
    <2>1. CASE Done(w)
      BY <1>3, <2>1 DEF Done
    <2>2. CASE req' = [req EXCEPT ![w].step = "link", ![w].todo = req[w].olds]
      <3>. DEFINE r == [req[w] EXCEPT !.step = "link", !.todo = req[w].olds]
      <3>1. /\ r \in Requests /\ SameRequest(req[w], r)
            /\ r.step = "link" /\ r.todo = req[w].olds
            /\ r.row = req[w].row /\ r.old = req[w].old
        BY <1>1, <1>2, <1>14, <2>2 DEF Requests, RequestSteps, Minted, SameRequest
      <3>2. At(w, "source") /\ req' = [req EXCEPT ![w] = r]
        BY <1>2, <1>14, <2>2 DEF RecordSource
      <3>. HIDE DEF r
      <3>3. r.kind = "query" => r.step \in Flushing
        BY <1>2, <3>1, <3>2 DEF At, SameRequest, Flushing
      <3>4. Effect(w)
        BY <1>4, <3>1, <3>2, <3>3 DEF Effect, KeepsRow, At, Flushing
      <3>. QED BY <1>4, <3>1, <3>2, <3>3, <3>4
    <2>. QED BY <1>14, <2>1, <2>2 DEF RecordSource
  <1>15. CASE LinkOld(w)
    <2>1. CASE Done(w)
      BY <1>3, <2>1 DEF Done
    <2>2. ASSUME NEW o \in req[w].todo, req' = [req EXCEPT ![w].todo = @ \ {o}]
        PROVE  Goal
      <3>. DEFINE r == [req[w] EXCEPT !.todo = req[w].todo \ {o}]
      <3>1. /\ r \in Requests /\ SameRequest(req[w], r)
            /\ r.todo = req[w].todo \ {o}
            /\ r.step = req[w].step /\ r.row = req[w].row /\ r.old = req[w].old
        BY <1>1, <1>2, <1>15, <2>2 DEF Requests, SameRequest
      <3>2. At(w, "link") /\ req' = [req EXCEPT ![w] = r]
        BY <1>2, <1>15, <2>2 DEF LinkOld
      <3>. HIDE DEF r
      <3>3. r.kind = "query" => r.step \in Flushing
        BY <1>2, <3>1, <3>2 DEF At, SameRequest, Flushing
      <3>4. Effect(w)
        BY <1>4, <3>1, <3>2, <3>3 DEF Effect, KeepsRow, At, Flushing
      <3>. QED BY <1>4, <3>1, <3>2, <3>3, <3>4
    <2>. QED BY <1>15, <2>1, <2>2 DEF LinkOld
  <1>16. CASE FlipStatus(w)
    <2>1. PICK o \in req[w].todo :
            /\ rows' = Retire({o})
            /\ req' = [req EXCEPT ![w].step = "unedge", ![w].old = o, ![w].left = 2]
      BY <1>16 DEF FlipStatus
    <2>. DEFINE r == [req[w] EXCEPT !.step = "unedge", !.old = o, !.left = 2]
    <2>2. /\ r \in Requests /\ SameRequest(req[w], r)
          /\ r.step = "unedge" /\ r.old = o
          /\ r.row = req[w].row /\ r.todo = req[w].todo
      BY <1>1, <1>2, <1>16, <2>1 DEF Requests, RequestSteps, Retiring, SameRequest
    <2>3. At(w, "flip") /\ req' = [req EXCEPT ![w] = r]
      BY <1>2, <1>16, <2>1 DEF FlipStatus
    <2>. HIDE DEF r
    <2>4. r.kind = "query" => r.step \in Flushing
      BY <1>2, <2>2, <2>3 DEF At, SameRequest, Flushing
    <2>5. Effect(w)
      BY <1>4, <2>1, <2>2, <2>3, <2>4 DEF Effect, KeepsRow, At, Flushing
    <2>. QED BY <1>4, <2>2, <2>3, <2>4, <2>5
  <1>17. CASE DropEdge(w)
    BY <1>7, <1>17 DEF DropEdge
  <1>18. CASE Retag(w)
    <2>1. At(w, "flush") /\ Goto(w, "oldsource") /\ req[w].kind = "write"
      BY <1>18 DEF Retag
    <2>2. "oldsource" \in RequestSteps
      BY DEF RequestSteps, Retiring
    <2>3. /\ Shape' /\ \A u \in Workers \ {w} : req'[u] = req[u]
          /\ Busy' = Busy /\ Carried(w)
          /\ KeepsRow(w) /\ KeepsAims(w) /\ req'[w].step = "oldsource"
      BY <1>5, <2>1, <2>2
    <2>. QED BY <2>1, <2>3 DEF Effect, At
  <1>19. CASE KeepOldSource(w)
    <2>. DEFINE next == IF req[w].todo \ {req[w].old} = {} THEN "insert" ELSE "flip"
                r == [req[w] EXCEPT !.step = next, !.todo = req[w].todo \ {req[w].old}, !.old = 0]
    <2>1. /\ r \in Requests /\ SameRequest(req[w], r)
          /\ r.step = next /\ r.todo = req[w].todo \ {req[w].old} /\ r.old = 0
          /\ r.row = req[w].row
      BY <1>1, <1>2, <1>19 DEF Requests, RequestSteps, SameRequest
    <2>2. At(w, "oldsource") /\ req' = [req EXCEPT ![w] = r]
      BY <1>2, <1>19 DEF KeepOldSource
    <2>. HIDE DEF r
    <2>3. r.kind = "query" => r.step \in Flushing
      BY <1>2, <2>1, <2>2 DEF At, SameRequest, Flushing
    <2>4. Effect(w)
      BY <1>4, <2>1, <2>2, <2>3 DEF Effect, KeepsRow, At, Flushing
    <2>. QED BY <1>4, <2>1, <2>2, <2>3, <2>4
  <1>20. CASE CheckQueue(w)
    <2>. DEFINE next == IF pending = {} THEN "flush" ELSE "take ids"
                r == [req[w] EXCEPT !.left = req[w].left - 1, !.step = next]
    <2>1. next \in Flushing /\ next \in RequestSteps
      BY DEF Flushing, RequestSteps, Retiring
    <2>2. /\ r \in Requests /\ SameRequest(req[w], r) /\ r.step = next
          /\ r.row = req[w].row /\ r.old = req[w].old /\ r.todo = req[w].todo
      BY <1>1, <1>2, <1>20, <2>1 DEF Requests, SameRequest, CheckQueue
    <2>3. At(w, "flush") /\ req' = [req EXCEPT ![w] = r]
      BY <1>2, <1>20 DEF CheckQueue
    <2>. HIDE DEF r, next
    <2>4. Effect(w)
      BY <1>4, <2>1, <2>2, <2>3 DEF Effect, KeepsRow, KeepsAims, At
    <2>. QED BY <1>4, <2>1, <2>2, <2>3, <2>4
  <1>21. CASE FlushStep(w) /\ ~CheckQueue(w) /\ ~UpsertRaises(w)
    <2>1. \E x \in Flushing : Goto(w, x)
      BY <1>21 DEF FlushStep, TakeIds, TakeTexts, TakeMetas, NewIds, NewTexts, NewMetas,
        EmbedBatch, Flushing
    <2>2. req[w].step \in Flushing
      BY <1>21 DEF FlushStep, TakeIds, TakeTexts, TakeMetas, NewIds, NewTexts, NewMetas,
        EmbedBatch, Flushing, At
    <2>. QED BY <1>8, <2>1, <2>2
  <1>. QED BY <1>6, <1>9, <1>10, <1>11, <1>12, <1>13, <1>14, <1>15, <1>16, <1>17, <1>18,
              <1>19, <1>20, <1>21 DEF ServeStep, WriteStep

\* What the steps of a flush leave alone, and what every step but a few does.
LEMMA FlushLeaves ==
  ASSUME NEW w \in Workers, FlushStep(w)
  PROVE  /\ UNCHANGED <<durable, graph, linkEdges, lost, faults>>
         /\ ~At(w, "embed") => searchable' = searchable
         /\ ~At(w, "new ids") => pending' = pending
  BY DEF FlushStep, CheckQueue, TakeIds, TakeTexts, TakeMetas, TakeList, NewIds, NewTexts,
     NewMetas, NewBody, LetGo, EmbedBatch, UpsertRaises, At, vars, durable

LEMMA StepLeaves ==
  ASSUME NEW w \in Workers, ServeStep(w)
  PROVE  /\ ~At(w, "flip") /\ ~At(w, "insert") => rows' = rows
         /\ ~At(w, "edge") /\ ~At(w, "unedge") => graph' = graph
         /\ ~At(w, "link") => links' = links
         /\ ~At(w, "queue") /\ ~At(w, "new ids") => pending' = pending
         /\ ~At(w, "flush") /\ ~At(w, "embed") => searchable' = searchable
  <1>1. CASE FlushStep(w)
    BY <1>1, FlushLeaves DEF durable, At
  <1>2. CASE ~FlushStep(w)
    BY <1>2 DEF ServeStep, WriteStep, CheckExisting, AddProvenance, InsertRow, InsertEdge,
      QueueId, QueueText, QueueMeta, QueueBody, RecordSource, LinkOld, FlipStatus, DropEdge,
      Retag, KeepOldSource, HoldCandidate, Search, At, durable, vars
  <1>. QED BY <1>1, <1>2

\* What a step of a request leaves of the stores.
LEMMA StepStores ==
  ASSUME TypeInv, NEW w \in Workers, ServeStep(w)
  PROVE  /\ TypeOK' /\ Ids \subseteq Ids'
         /\ lost' = lost /\ faults' = faults
         /\ ~At(w, "insert") => Len(rows') = Len(rows)
         /\ At(w, "insert") => Ids' = Ids \cup {Len(rows) + 1}
  <1>. DEFINE c == req[w].cand
              n == req[w].row
              Goal == /\ TypeOK' /\ Ids \subseteq Ids' /\ lost' = lost /\ faults' = faults
                      /\ ~At(w, "insert") => Len(rows') = Len(rows)
                      /\ At(w, "insert") => Ids' = Ids \cup {Len(rows) + 1}
  <1>. USE DEF TypeInv
  <1>1. req[w] \in Requests /\ w \in Busy
    BY StepEffect
  <1>2. ASSUME req[w].step \notin Flushing
        PROVE  /\ req[w].kind = "write" /\ w \in Writers /\ c \in Candidates
               /\ c.source \in Sources
    <2>1. req[w].kind = "write"
      BY <1>1, <1>2 DEF Shape, Requests
    <2>2. c \in Candidates
      BY <1>1, <2>1 DEF RequestTypeOK
    <2>. QED BY <1>1, <2>1, <2>2 DEF Writers, Candidates
  <1>3. /\ req[w].olds \subseteq Ids /\ req[w].todo \subseteq req[w].olds
        /\ n \in Nat /\ Ids \subseteq Nat
        /\ rows \in Seq(RowSet) /\ Ids = 1..Len(rows) /\ Len(rows) \in Nat
    BY <1>1 DEF RequestTypeOK, TypeOK, Ids, Requests
  <1>4. req[w].step \in Minted \cup {"again"} => n \in Ids
    <2>1. ASSUME req[w].step \in Minted \cup {"again"}
          PROVE  req[w].step \notin Flushing
      BY <2>1 DEF Minted, Flushing
    <2>. QED BY <1>2, <2>1 DEF InHandOK
  \* The steps that leave every table and every edge.
  <1>5. ASSUME UNCHANGED <<durable, graph, linkEdges, lost, faults>>, ~At(w, "insert"),
               pending' \subseteq Ids, searchable' \subseteq Ids
        PROVE  Goal
    BY <1>5 DEF durable, RequestTypeOK, TypeOK, Ids
  <1>6. CASE CheckExisting(w) \/ Search(w)
    BY <1>5, <1>6 DEF CheckExisting, Search, vars, durable, RequestTypeOK, TypeOK, At
  <1>7. CASE AddProvenance(w)
    <2>1. c \in Candidates /\ c.source \in Sources
      BY <1>2, <1>7 DEF AddProvenance, At, Flushing
    <2>. QED BY <1>3, <1>7, <2>1 DEF AddProvenance, RequestTypeOK, TypeOK, Ids, At
  <1>8. CASE InsertRow(w)
    <2>1. RowOf(c) \in RowSet
      BY <1>2, <1>8, RowOfType DEF InsertRow, At, Flushing
    <2>2. rows' = Append(rows, RowOf(c))
      BY <1>8 DEF InsertRow
    <2>3. rows' \in Seq(RowSet) /\ Ids' = Ids \cup {Len(rows) + 1}
      BY <1>3, <2>1, <2>2 DEF Ids
    <2>. QED BY <1>8, <2>3 DEF InsertRow, RequestTypeOK, TypeOK, At
  <1>9. CASE InsertEdge(w)
    <2>1. n \in Ids
      BY <1>4, <1>9 DEF InsertEdge, At, Minted
    <2>. QED BY <1>9, <2>1 DEF InsertEdge, AddEdge, durable, RequestTypeOK, TypeOK, Ids, At
  <1>10. CASE QueueId(w)
    <2>1. n \in Ids
      BY <1>4, <1>10 DEF QueueId, At, Minted
    <2>2. pending' \subseteq Ids
      BY <1>10, <2>1 DEF QueueId, Queued, RequestTypeOK, TypeOK
    <2>. QED BY <1>5, <1>10, <2>2 DEF QueueId, RequestTypeOK, TypeOK, At
  <1>11. CASE QueueText(w) \/ QueueMeta(w)
    BY <1>5, <1>11 DEF QueueText, QueueMeta, QueueBody, vars, durable, RequestTypeOK, TypeOK, At
  <1>12. CASE RecordSource(w)
    <2>1. c \in Candidates /\ c.source \in Sources
      BY <1>2, <1>12 DEF RecordSource, At, Flushing
    <2>. QED BY <1>3, <1>12, <2>1 DEF RecordSource, RequestTypeOK, TypeOK, Ids, At
  <1>13. CASE LinkOld(w)
    <2>1. PICK o \in req[w].todo : links' = links \cup {<<n, o>>}
                                   /\ linkEdges' = linkEdges \cup {<<n, o>>}
      BY <1>13 DEF LinkOld, LinksTo
    <2>2. links' \subseteq Nat \X Nat /\ linkEdges' \subseteq links'
      BY <1>3, <2>1 DEF RequestTypeOK, TypeOK
    <2>. QED BY <1>13, <2>2 DEF LinkOld, RequestTypeOK, TypeOK, Ids, At
  <1>14. CASE FlipStatus(w)
    <2>1. PICK o \in req[w].todo : rows' = Retire({o})
      BY <1>14 DEF FlipStatus
    <2>2. rows' \in Seq(RowSet) /\ Len(rows') = Len(rows)
      BY <2>1, RetireRows DEF RequestTypeOK
    <2>3. Ids' = Ids
      BY <1>3, <2>2 DEF Ids
    <2>. QED BY <1>14, <2>2, <2>3 DEF FlipStatus, RequestTypeOK, TypeOK, At
  <1>15. CASE DropEdge(w)
    BY <1>15 DEF DropEdge, RemoveEdges, durable, RequestTypeOK, TypeOK, Ids, At
  <1>16. CASE Retag(w)
    BY <1>5, <1>16 DEF Retag, RequestTypeOK, TypeOK, At
  <1>17. CASE KeepOldSource(w)
    <2>1. req[w].old \in Ids
      BY <1>2, <1>3, <1>17 DEF InHandOK, KeepOldSource, At, Retiring, Flushing
    <2>2. rows[req[w].old] \in RowSet
      BY <1>3, <2>1
    <2>3. rows[req[w].old].source \in Sources /\ req[w].old \in Nat
      BY <1>3, <2>1, <2>2 DEF RowSet
    <2>4. prov' \in {prov, prov \cup {<<req[w].old, rows[req[w].old].source>>}}
      BY <1>17 DEF KeepOldSource
    <2>5. prov' \subseteq Nat \X Sources
      BY <2>3, <2>4 DEF RequestTypeOK, TypeOK
    <2>. QED BY <1>17, <2>5 DEF KeepOldSource, RequestTypeOK, TypeOK, Ids, At
  <1>18. CASE HoldCandidate(w)
    <2>1. [cand |-> c, against |-> req[w].olds] \in [cand : Candidates, against : SUBSET Nat]
      BY <1>2, <1>3, <1>18 DEF HoldCandidate, At, Flushing
    <2>2. held' \in Seq([cand : Candidates, against : SUBSET Nat])
      BY <1>18, <2>1 DEF HoldCandidate, RequestTypeOK, TypeOK
    <2>. QED BY <1>18, <2>2 DEF HoldCandidate, RequestTypeOK, TypeOK, Ids, At
  <1>19. CASE CheckQueue(w) \/ TakeIds(w) \/ TakeTexts(w) \/ TakeMetas(w) \/ UpsertRaises(w)
    BY <1>5, <1>19 DEF CheckQueue, TakeIds, TakeTexts, TakeMetas, TakeList, UpsertRaises, vars,
      durable, RequestTypeOK, TypeOK, At
  <1>20. CASE NewIds(w) \/ NewTexts(w) \/ NewMetas(w)
    BY <1>5, <1>20 DEF NewIds, NewTexts, NewMetas, NewBody, LetGo, RequestTypeOK, TypeOK, At
  <1>21. CASE EmbedBatch(w)
    <2>1. Local(w, "ids") \subseteq Ids
      BY DEF Local, Queue, Lists, RequestTypeOK, TypeOK
    <2>. QED BY <1>5, <1>21, <2>1 DEF EmbedBatch, RequestTypeOK, TypeOK, At
  <1>. QED BY <1>6, <1>7, <1>8, <1>9, <1>10, <1>11, <1>12, <1>13, <1>14, <1>15, <1>16, <1>17,
              <1>18, <1>19, <1>20, <1>21 DEF ServeStep, WriteStep, FlushStep

\* The lists of the queue and the locals, and who names what.
QueueOK ==
  /\ bodies \in [Bodies -> SUBSET Ids]
  /\ live \in [Lists -> SUBSET Busy]
  /\ got \in [Workers -> [Lists -> SUBSET Ids]]

\* A step of thread w does one of these to the lists: it adds its row, takes a list,
\* puts another one in a list's place, or lets its locals go.
Adds(w, l) ==
  l \in Bodies /\ bodies' = [bodies EXCEPT ![l] = @ \cup {req[w].row}] /\ UNCHANGED <<live, got>>
Takes(w, l) == live' = [live EXCEPT ![l] = @ \cup {w}] /\ UNCHANGED <<bodies, got>>
Swaps(w, l) ==
  /\ live' = [live EXCEPT ![l] = {}]
  /\ got' = [u \in Workers |-> [got[u] EXCEPT ![l] = Local(u, l)]]
  /\ bodies' = IF l \in Bodies THEN [bodies EXCEPT ![l] = {}] ELSE bodies

LEMMA ListsStep ==
  ASSUME TypeInv, NEW w \in Workers, ServeStep(w)
  PROVE  \/ UNCHANGED qvars /\ req[w].step \notin Flushing \ {"flush"}
         \/ \E l \in Bodies : Adds(w, l) /\ req[w].step = IF l = "texts" THEN "text" ELSE "meta"
         \/ \E l \in Lists : /\ Takes(w, l) /\ w \in Busy' /\ req'[w].step \in Naming(l)
                             /\ \A m \in Lists \ {l} :
                                  req[w].step \in Naming(m) => req'[w].step \in Naming(m)
         \/ \E l \in Lists : /\ Swaps(w, l) /\ req[w].step \in Naming(l) /\ w \in Busy'
                             /\ \A m \in Lists \ {l} :
                                  req[w].step \in Naming(m) => req'[w].step \in Naming(m)
         \/ Forget(w) /\ At(w, "embed")
  <1>1. /\ req \in [Workers -> {Idle} \cup Requests] /\ req[w] \in Requests
        /\ req[w].step \in RequestSteps
    BY StepEffect, StepAt DEF TypeInv, Shape
  <1>2. ASSUME NEW x \in Flushing, Goto(w, x)
        PROVE  req'[w].step = x /\ w \in Busy'
    <2>1. req'[w].step = x
      BY <1>1, <1>2 DEF Goto, Requests
    <2>. QED BY <2>1 DEF Busy, At, Flushing
  <1>3. CASE At(w, "take ids")
    <2>1. TakeIds(w)
      BY <1>3, StepAt DEF At, FlushStep, TakeTexts, TakeMetas, NewIds, NewTexts, NewMetas,
        EmbedBatch, UpsertRaises, Flushing
    <2>2. Takes(w, "ids") /\ req'[w].step = "take texts" /\ w \in Busy'
      BY <1>2, <2>1 DEF TakeIds, TakeList, Takes, Flushing
    <2>. QED BY <1>3, <2>2 DEF Naming, Lists, At
  <1>4. CASE At(w, "take texts")
    <2>1. TakeTexts(w)
      BY <1>4, StepAt DEF At, FlushStep, TakeIds, TakeMetas, NewIds, NewTexts, NewMetas,
        EmbedBatch, UpsertRaises, Flushing
    <2>2. Takes(w, "texts") /\ req'[w].step = "take metas" /\ w \in Busy'
      BY <1>2, <2>1 DEF TakeTexts, TakeList, Takes, Flushing
    <2>. QED BY <1>4, <2>2 DEF Naming, Lists, At
  <1>5. CASE At(w, "take metas")
    <2>1. TakeMetas(w)
      BY <1>5, StepAt DEF At, FlushStep, TakeIds, TakeTexts, NewIds, NewTexts, NewMetas,
        EmbedBatch, UpsertRaises, Flushing
    <2>2. Takes(w, "metas") /\ req'[w].step = "new ids" /\ w \in Busy'
      BY <1>2, <2>1 DEF TakeMetas, TakeList, Takes, Flushing
    <2>. QED BY <1>5, <2>2 DEF Naming, Lists, At
  <1>6. CASE At(w, "new ids")
    <2>1. NewIds(w)
      BY <1>6, StepAt DEF At, FlushStep, TakeIds, TakeTexts, TakeMetas, NewTexts, NewMetas,
        EmbedBatch, UpsertRaises, Flushing
    <2>2. Swaps(w, "ids") /\ req'[w].step = "new texts" /\ w \in Busy'
      BY <1>2, <2>1 DEF NewIds, LetGo, Swaps, Bodies, Flushing
    <2>. QED BY <1>6, <2>2 DEF Naming, Lists, At
  <1>7. CASE At(w, "new texts")
    <2>1. NewTexts(w)
      BY <1>7, StepAt DEF At, FlushStep, TakeIds, TakeTexts, TakeMetas, NewIds, NewMetas,
        EmbedBatch, UpsertRaises, Flushing
    <2>2. Swaps(w, "texts") /\ req'[w].step = "new metas" /\ w \in Busy'
      BY <1>2, <2>1 DEF NewTexts, NewBody, LetGo, Swaps, Lists, Bodies, Flushing
    <2>. QED BY <1>7, <2>2 DEF Naming, Lists, At
  <1>8. CASE At(w, "new metas")
    <2>1. NewMetas(w)
      BY <1>8, StepAt DEF At, FlushStep, TakeIds, TakeTexts, TakeMetas, NewIds, NewTexts,
        EmbedBatch, UpsertRaises, Flushing
    <2>2. Swaps(w, "metas") /\ req'[w].step = "embed" /\ w \in Busy'
      BY <1>2, <2>1 DEF NewMetas, NewBody, LetGo, Swaps, Lists, Bodies, Flushing
    <2>. QED BY <1>8, <2>2 DEF Naming, Lists, At
  <1>9. CASE At(w, "embed")
    BY <1>9, StepAt DEF At, FlushStep, TakeIds, TakeTexts, TakeMetas, NewIds, NewTexts, NewMetas,
      EmbedBatch, UpsertRaises, Flushing
  <1>10. CASE At(w, "text") \/ At(w, "meta")
    <2>1. CASE At(w, "text")
      BY <2>1, StepAt DEF QueueText, QueueBody, Adds, Lists, Bodies, At
    <2>2. CASE At(w, "meta")
      BY <2>2, StepAt DEF QueueMeta, QueueBody, Adds, Lists, Bodies, At
    <2>. QED BY <1>10, <2>1, <2>2
  <1>11. CASE req[w].step \notin {"text", "meta"} \cup (Flushing \ {"flush"})
    BY <1>1, <1>11, StepAt DEF At, RequestSteps, Retiring, Minted, Flushing, qvars,
      CheckExisting, AddProvenance, InsertRow, InsertEdge, QueueId, RecordSource, LinkOld,
      FlipStatus, DropEdge, Retag, KeepOldSource, HoldCandidate, CheckQueue, Search
  <1>. QED BY <1>3, <1>4, <1>5, <1>6, <1>7, <1>8, <1>9, <1>10, <1>11 DEF At, Flushing

LEMMA QueueStep ==
  ASSUME TypeInv, NEW w \in Workers, ServeStep(w)
  PROVE  QueueOK' /\ LiveOK'
  <1>. USE DEF TypeInv
  <1>1. /\ w \in Busy /\ \A u \in Workers \ {w} : req'[u] = req[u]
        /\ Busy' \in {Busy, Busy \ {w}} /\ req[w] \in Requests
    BY StepEffect
  <1>2. Ids \subseteq Ids' /\ pending \subseteq Ids
    BY StepStores DEF RequestTypeOK, TypeOK
  <1>3. /\ QueueOK /\ LiveOK /\ Busy \subseteq Workers /\ Bodies \subseteq Lists
    BY DEF QueueOK, RequestTypeOK, Busy, Bodies
  <1>4. \A l \in Lists : Naming(l) \cap (Flushing \ {"flush", "embed"}) = Naming(l)
    BY DEF Lists, Naming, Flushing
  <1>5. req[w].step \in Minted \cup {"again"} => req[w].row \in Ids
    <2>1. req[w].step \in Minted \cup {"again"} => req[w].step \notin Flushing
      BY DEF Minted, Flushing
    <2>. QED BY <1>1, <2>1 DEF InHandOK, Writers, Shape, Requests
  \* Enough: who names a list still does, and is at a step that has it.
  <1>6. ASSUME bodies' \in [Bodies -> SUBSET Ids], got' \in [Workers -> [Lists -> SUBSET Ids]],
               live' \in [Lists -> SUBSET Workers],
               \A l \in Lists : live'[l] \subseteq live[l] \cup {w},
               \A l \in Lists : w \in live'[l] => w \in Busy' /\ req'[w].step \in Naming(l)
        PROVE  QueueOK' /\ LiveOK'
    <2>1. LiveOK'
      BY <1>1, <1>3, <1>6 DEF LiveOK
    <2>2. live' \in [Lists -> SUBSET Busy']
      <3>1. \A l \in Lists : live'[l] \subseteq Busy'
        BY <1>1, <1>3, <1>6 DEF QueueOK
      <3>. QED BY <1>6, <3>1
    <2>3. bodies' \in [Bodies -> SUBSET Ids'] /\ got' \in [Workers -> [Lists -> SUBSET Ids']]
      BY <1>2, <1>6
    <2>. QED BY <2>1, <2>2, <2>3 DEF QueueOK
  <1>7. ASSUME UNCHANGED live, req[w].step \notin Flushing \ {"flush", "embed"}
        PROVE  \A l \in Lists : w \notin live'[l]
    BY <1>3, <1>4, <1>7 DEF LiveOK
  <1>8. live \in [Lists -> SUBSET Workers]
    BY <1>3 DEF QueueOK
  <1>9. CASE UNCHANGED qvars /\ req[w].step \notin Flushing \ {"flush"}
    BY <1>3, <1>6, <1>7, <1>8, <1>9 DEF QueueOK, qvars
  <1>10. ASSUME NEW l \in Bodies, Adds(w, l), req[w].step = IF l = "texts" THEN "text" ELSE "meta"
         PROVE  QueueOK' /\ LiveOK'
    <2>1. req[w].row \in Ids /\ req[w].step \notin Flushing
      BY <1>5, <1>10 DEF Minted, Flushing
    <2>2. bodies' \in [Bodies -> SUBSET Ids]
      BY <1>3, <1>10, <2>1 DEF QueueOK, Adds
    <2>. QED BY <1>3, <1>6, <1>7, <1>8, <1>10, <2>1, <2>2 DEF QueueOK, Adds
  <1>11. ASSUME NEW l \in Lists, Takes(w, l), w \in Busy', req'[w].step \in Naming(l),
                \A m \in Lists \ {l} : req[w].step \in Naming(m) => req'[w].step \in Naming(m)
         PROVE  QueueOK' /\ LiveOK'
    <2>1. live' \in [Lists -> SUBSET Workers] /\ \A m \in Lists : live'[m] \subseteq live[m] \cup {w}
      BY <1>8, <1>11 DEF Takes
    <2>2. \A m \in Lists : w \in live'[m] => req'[w].step \in Naming(m)
      BY <1>3, <1>8, <1>11 DEF Takes, LiveOK
    <2>. QED BY <1>3, <1>6, <1>11, <2>1, <2>2 DEF QueueOK, Takes
  <1>12. ASSUME NEW l \in Lists, Swaps(w, l), w \in Busy',
                \A m \in Lists \ {l} : req[w].step \in Naming(m) => req'[w].step \in Naming(m)
         PROVE  QueueOK' /\ LiveOK'
    <2>1. live' \in [Lists -> SUBSET Workers] /\ \A m \in Lists : live'[m] \subseteq live[m] \cup {w}
      BY <1>8, <1>12 DEF Swaps
    <2>2. \A m \in Lists : w \in live'[m] => req'[w].step \in Naming(m)
      BY <1>3, <1>8, <1>12 DEF Swaps, LiveOK
    <2>3. bodies' \in [Bodies -> SUBSET Ids]
      BY <1>3, <1>12 DEF QueueOK, Swaps
    <2>4. \A u \in Workers : Local(u, l) \subseteq Ids
      BY <1>2, <1>3 DEF QueueOK, Local, Queue, Bodies
    <2>5. got' \in [Workers -> [Lists -> SUBSET Ids]]
      BY <1>3, <1>12, <2>4 DEF QueueOK, Swaps
    <2>. QED BY <1>6, <1>12, <2>1, <2>2, <2>3, <2>5
  <1>13. CASE Forget(w) /\ At(w, "embed")
    <2>1. got' \in [Workers -> [Lists -> SUBSET Ids]]
      BY <1>3, <1>13 DEF QueueOK, Forget, NoLists
    <2>. QED BY <1>3, <1>6, <1>7, <1>8, <1>13, <2>1 DEF QueueOK, Forget, At
  <1>. QED BY <1>9, <1>10, <1>11, <1>12, <1>13, ListsStep

LEMMA TypeInvStep == TypeInv /\ [RequestsNext]_rvars => TypeInv'
  <1>. SUFFICES ASSUME TypeInv, [RequestsNext]_rvars
                PROVE  TypeInv'
    OBVIOUS
  <1>. USE DEF TypeInv
  <1>0. /\ Ids = 1..Len(rows) /\ Len(rows) \in Nat /\ Ids \subseteq Nat
        /\ graph \subseteq Ids /\ pending \subseteq Ids
        /\ MaxFaults \in Nat /\ faults \in 0..MaxFaults
        /\ QueueOK /\ \A l \in Lists : "idle" \notin Naming(l) /\ "embed" \notin Naming(l)
    BY RequestConstants DEF RequestTypeOK, TypeOK, Ids, QueueOK, Lists, Naming
  <1>1. ASSUME NEW w \in Workers, ServeStep(w)
        PROVE  TypeInv'
    <2>1. /\ w \in Busy /\ Shape' /\ \A u \in Workers \ {w} : req'[u] = req[u]
          /\ Busy' \subseteq Busy
          /\ w \in Busy' => Carried(w) /\ Effect(w)
      BY <1>1, StepEffect
    <2>2. TypeOK' /\ Ids \subseteq Ids' /\ lost' = lost /\ faults' = faults
      BY <1>1, StepStores
    <2>3. w \in Busy' => req'[w] \in Requests /\ (req'[w].kind = "query" => req'[w].step \in Flushing)
      BY <2>1 DEF Shape
    <2>4. ASSUME w \in Busy'
          PROVE  /\ req'[w].kind = "query" \/ req'[w].cand \in Candidates
                 /\ req'[w].olds \subseteq Ids /\ req'[w].todo \subseteq req'[w].olds
                 /\ req'[w].old \in req'[w].todo \cup {0}
                 /\ req'[w].row \in Ids' \cup {0}
                 /\ req'[w].left \in 0..2
                 /\ req'[w].kind = "write" =>
                      /\ IF req'[w].step \in Retiring THEN req'[w].old \in req'[w].todo
                         ELSE req'[w].old = 0
                      /\ req'[w].step \in Minted \cup {"again"} => req'[w].row \in Ids'
      <3>1. /\ req[w].kind \in {"write", "query"} /\ req[w].step \in RequestSteps
            /\ req[w].kind = "query" => req[w].step \in Flushing
            /\ req[w].kind = "query" \/ req[w].cand \in Candidates
            /\ req[w].olds \subseteq Ids /\ req[w].todo \subseteq req[w].olds
            /\ req[w].old \in req[w].todo \cup {0} /\ req[w].row \in Ids \cup {0}
        BY <2>1 DEF Shape, Requests, RequestTypeOK
      <3>2. req[w].kind = "write" =>
              /\ IF req[w].step \in Retiring THEN req[w].old \in req[w].todo
                 ELSE req[w].old = 0
              /\ req[w].step \in Minted \cup {"again"} => req[w].row \in Ids
        BY <2>1 DEF InHandOK, Writers
      <3>3. req'[w].left \in 0..2
        BY <2>3, <2>4 DEF Requests
      <3>4. /\ req'[w].kind = req[w].kind /\ req'[w].cand = req[w].cand
            /\ req'[w].olds = req[w].olds /\ Effect(w)
        BY <2>1, <2>4 DEF Carried
      <3>5. At(w, "insert") => Len(rows) + 1 \in Ids'
        BY <1>1, StepStores
      <3>6. CASE req[w].step \in Flushing
        <4>1. /\ KeepsRow(w) /\ KeepsAims(w)
              /\ req'[w].step \in Flushing \cup {"oldsource"}
          BY <3>4, <3>6 DEF Effect
        <4>2. req[w].step \in Retiring /\ req'[w].step \in Retiring
          BY <3>6, <4>1 DEF Retiring
        <4>3. req'[w].step \notin Minted \cup {"again"}
          BY <4>1 DEF Minted, Flushing
        <4>. QED BY <1>0, <2>2, <3>1, <3>2, <3>3, <3>4, <4>1, <4>2, <4>3 DEF KeepsRow, KeepsAims
      <3>7. CASE req[w].step \in {"check", "insert"} \cup Minted
        BY <1>0, <2>2, <3>1, <3>2, <3>3, <3>4, <3>5, <3>7 DEF Effect, KeepsRow, KeepsAims,
          At, Retiring, Minted, Flushing
      <3>8. CASE req[w].step \in {"flip", "unedge", "oldsource"}
        BY <1>0, <2>2, <3>1, <3>2, <3>3, <3>4, <3>8 DEF Effect, KeepsRow, KeepsAims,
          At, Retiring, Minted, Flushing
      <3>9. req[w].step \notin {"again", "hold"}
        BY <3>4 DEF Effect, At
      <3>. QED BY <3>1, <3>6, <3>7, <3>8, <3>9 DEF RequestSteps, Retiring
    <2>5. RequestTypeOK'
      <3>1. DOMAIN req' = Workers /\ faults' \in 0..MaxFaults /\ lost' \subseteq Ids'
        BY <2>1, <2>2 DEF Shape, RequestTypeOK
      <3>2. \A u \in Busy' : u \in Workers /\ (u # w => u \in Busy /\ req'[u] = req[u])
        BY <2>1 DEF Busy
      <3>3. QueueOK'
        BY <1>1, QueueStep
      <3>. QED BY <2>2, <2>4, <3>1, <3>2, <3>3 DEF RequestTypeOK, QueueOK
    <2>6. InHandOK'
      <3>1. \A u \in Writers' : u \in Busy' /\ req'[u].kind = "write"
                                /\ (u # w => u \in Writers /\ req'[u] = req[u])
        BY <2>1 DEF Busy, Writers
      <3>. QED BY <2>2, <2>4, <3>1 DEF InHandOK
    <2>. QED BY <1>1, <2>1, <2>5, <2>6, QueueStep
  <1>2. ASSUME NEW w \in Workers, NEW r \in Requests, At(w, "idle"),
               req' = [req EXCEPT ![w] = r], UNCHANGED <<vars, qvars, faults, lost>>,
               r.kind = "query" => r.step \in Flushing,
               r.kind = "query" \/ r.cand \in Candidates,
               r.olds \subseteq Ids, r.todo = r.olds, r.old = 0, r.row = 0,
               r.kind = "write" => r.step \in {"check", "flip", "hold"}
        PROVE  TypeInv'
    <2>1. /\ Shape' /\ req'[w] = r /\ \A u \in Workers \ {w} : req'[u] = req[u]
          /\ Busy \subseteq Busy'
      <3>1. r.step \in RequestSteps /\ "idle" \notin RequestSteps
        BY DEF Requests, RequestSteps, Retiring, Minted, Flushing
      <3>2. r # Idle
        BY <3>1 DEF Idle
      <3>. QED BY <1>2, <3>2, ReplaceOne
    <2>2. TypeOK' /\ Ids' = Ids
      BY <1>2 DEF vars, RequestTypeOK, TypeOK, Ids
    <2>3. \A u \in Busy' : u \in Workers /\ (u # w => u \in Busy /\ req'[u] = req[u])
      BY <2>1 DEF Busy, At
    <2>4. r.left \in 0..2
      BY <1>2 DEF Requests
    <2>5. QueueOK' /\ LiveOK'
      <3>1. \A l \in Lists : w \notin live[l]
        BY <1>0, <1>2 DEF LiveOK, At
      <3>2. UNCHANGED <<bodies, live, got>>
        BY <1>2 DEF qvars
      <3>3. LiveOK'
        BY <2>1, <3>1, <3>2 DEF LiveOK
      <3>. QED BY <1>0, <2>1, <2>2, <3>2, <3>3 DEF QueueOK
    <2>6. RequestTypeOK'
      BY <1>2, <2>1, <2>2, <2>3, <2>4, <2>5 DEF RequestTypeOK, Shape, QueueOK
    <2>7. InHandOK'
      <3>1. \A u \in Writers' : u \in Busy' /\ req'[u].kind = "write"
                                /\ (u # w => u \in Writers /\ req'[u] = req[u])
        BY <2>3 DEF Writers
      <3>2. r.kind = "write" => r.step \notin Retiring \cup Minted \cup {"again"}
        BY <1>2 DEF Retiring, Minted, Flushing
      <3>. QED BY <1>2, <2>1, <2>2, <3>1, <3>2 DEF InHandOK
    <2>. QED BY <2>1, <2>5, <2>6, <2>7
  <1>3. ASSUME NEW w \in Workers, NEW c \in Candidates, BeginWrite(w, c)
        PROVE  TypeInv'
    <2>. DEFINE v == Verdict(c, View)
                first == CASE v.action = "accept" -> "check"
                           [] v.action = "supersede" /\ v.against # {} -> "flip"
                           [] OTHER -> "hold"
                r == Begun("write", first, c, v.against, 2, {})
    <2>1. v.against \subseteq Ids
      BY <1>0, AgainstIsSubset
    <2>2. /\ req' = [req EXCEPT ![w] = r] /\ At(w, "idle")
          /\ UNCHANGED <<vars, qvars, faults, lost>>
      BY <1>3 DEF BeginWrite
    <2>3. first \in {"check", "flip", "hold"}
      OBVIOUS
    <2>. HIDE DEF first, v
    <2>4. /\ r \in Requests /\ r.kind = "write" /\ r.cand = c /\ r.olds = v.against
          /\ r.todo = r.olds /\ r.old = 0 /\ r.row = 0 /\ r.step = first
      BY <1>0, <2>1, <2>3 DEF Begun, Requests, RequestSteps
    <2>. HIDE DEF r
    <2>. QED BY <1>2, <2>1, <2>2, <2>3, <2>4
  <1>4. ASSUME NEW w \in Workers, BeginQuery(w)
        PROVE  TypeInv'
    <2>. DEFINE r == Begun("query", "flush", "none", {}, 1, Answered)
    <2>1. Answered \subseteq Nat
      BY <1>0 DEF Answered, Accepted
    <2>2. /\ req' = [req EXCEPT ![w] = r] /\ At(w, "idle")
          /\ UNCHANGED <<vars, qvars, faults, lost>>
      BY <1>4 DEF BeginQuery
    <2>4. /\ r \in Requests /\ r.kind = "query" /\ r.olds = {} /\ r.step \in Flushing
          /\ r.todo = r.olds /\ r.old = 0 /\ r.row = 0
      BY <2>1 DEF Begun, Requests, RequestSteps, Retiring, Flushing
    <2>. HIDE DEF r
    <2>. QED BY <1>2, <2>2, <2>4
  <1>5. ASSUME NEW w \in Workers, EmbedFails(w)
        PROVE  TypeInv'
    <2>1. /\ w \in Busy /\ At(w, "embed") /\ req' = [req EXCEPT ![w] = Idle] /\ UNCHANGED vars
          /\ Forget(w) /\ lost' = lost \cup Local(w, "ids")
      BY <1>5 DEF EmbedFails, At, Busy, Done
    <2>2. Idle \notin Requests
      BY DEF Requests, RequestSteps, Retiring, Minted, Flushing, Idle
    <2>3. Shape' /\ Busy' = Busy \ {w} /\ \A u \in Workers \ {w} : req'[u] = req[u]
      BY <2>1, <2>2, ReplaceOne
    <2>4. TypeOK' /\ Ids' = Ids
      BY <2>1 DEF vars, RequestTypeOK, TypeOK, Ids
    <2>5. \A u \in Busy' : u \in Workers /\ u \in Busy /\ req'[u] = req[u]
      BY <2>3 DEF Busy
    <2>6. faults' \in 0..MaxFaults
      BY <1>0, <1>5 DEF EmbedFails
    <2>7. lost' \subseteq Ids'
      <3>1. Local(w, "ids") \subseteq Ids
        BY <1>0 DEF QueueOK, Local, Queue, Lists
      <3>. QED BY <2>1, <2>4, <3>1 DEF RequestTypeOK
    <2>8. QueueOK' /\ LiveOK'
      <3>1. \A l \in Lists : w \notin live[l]
        BY <1>0, <2>1 DEF LiveOK, At
      <3>2. UNCHANGED <<bodies, live>> /\ got' \in [Workers -> [Lists -> SUBSET Ids]]
        BY <1>0, <2>1 DEF Forget, QueueOK, NoLists
      <3>3. LiveOK'
        BY <2>3, <3>1, <3>2 DEF LiveOK
      <3>4. live' \in [Lists -> SUBSET Busy']
        BY <1>0, <2>3, <3>1, <3>2 DEF QueueOK
      <3>. QED BY <1>0, <2>4, <3>2, <3>3, <3>4 DEF QueueOK
    <2>9. RequestTypeOK'
      BY <2>3, <2>4, <2>5, <2>6, <2>7, <2>8 DEF RequestTypeOK, Shape, QueueOK
    <2>10. InHandOK'
      BY <2>4, <2>5 DEF InHandOK, Writers
    <2>. QED BY <2>3, <2>8, <2>9, <2>10
  <1>6. CASE Stop
    <2>1. Busy' = {} /\ Writers' = {} /\ DOMAIN req' = Workers
          /\ req' \in [Workers -> {Idle} \cup Requests]
      BY <1>6 DEF Stop, Busy, Writers, At, Idle
    <2>2. TypeOK' /\ Ids' = Ids
      BY <1>6 DEF Stop, Restart, Rebuilt, durable, RequestTypeOK, TypeOK, Ids, Accepted
    <2>3. faults' \in 0..MaxFaults
      BY <1>0, <1>6 DEF Stop
    <2>4. lost' \subseteq Ids
      <3>1. InHand \ {0} \subseteq Ids
        BY DEF InHand, Writers, RequestTypeOK
      <3>. QED BY <1>6, <3>1 DEF Stop, Unembedded, RequestTypeOK
    <2>5. QueueOK' /\ LiveOK'
      BY <1>6 DEF Stop, QueueOK, LiveOK, NoLists
    <2>. QED BY <2>1, <2>2, <2>3, <2>4, <2>5 DEF RequestTypeOK, Shape, InHandOK, QueueOK
  <1>7. CASE UNCHANGED rvars
    <2>1. Ids' = Ids /\ Busy' = Busy /\ Writers' = Writers /\ req' = req
      BY <1>7 DEF rvars, vars, Ids, Busy, Writers, At
    <2>. QED BY <1>7, <2>1 DEF rvars, vars, qvars, RequestTypeOK, TypeOK, Shape, InHandOK, LiveOK
  <1>. QED BY <1>1, <1>3, <1>4, <1>5, <1>6, <1>7 DEF RequestsNext


-----------------------------------------------------------------------------
(* The edges and the lineage. *)

Superseded(olds) == \A o \in olds : rows[o].status = "superseded"

\* What a write in flight has done to the assertions it replaces, and its own row:
\* it is minted after everything it replaces is retired.
WriteOK(w) ==
  /\ \A o \in req[w].olds : rows[o].slot = req[w].cand.slot
  /\ At(w, "check") => req[w].olds = {}
  /\ At(w, "flip") => Superseded(req[w].olds \ req[w].todo)
  /\ req[w].step \in Retiring =>
       Superseded((req[w].olds \ req[w].todo) \cup {req[w].old})
  /\ req[w].step \in Minted \cup {"insert"} => Superseded(req[w].olds)
  /\ req[w].step \in Minted =>
       /\ rows[req[w].row].slot = req[w].cand.slot
       /\ \A o \in req[w].olds : o < req[w].row

\* A row without its edge is accepted and known to its own request alone.
OwnRow(w) ==
  At(w, "edge") =>
    /\ rows[req[w].row].status = "accepted" /\ req[w].row \notin graph
    /\ \A u \in Writers : req[w].row \notin req[u].olds
    /\ \A u \in Writers \ {w} : ~(At(u, "edge") /\ req[u].row = req[w].row)

RequestInv ==
  /\ TypeInv
  /\ \A w \in Writers : WriteOK(w) /\ OwnRow(w)
  /\ EdgesAreAcceptedOrLeaving
  /\ LinkedIsReplaced

\* A table that only grows and only retires.
RowsGrow ==
  \A i \in Ids : /\ rows'[i].slot = rows[i].slot
                 /\ rows[i].status = "superseded" => rows'[i].status = "superseded"

\* Only a write is at a step that is not a flush's.
LEMMA OfAWrite ==
  ASSUME TypeInv, NEW w \in Workers, ServeStep(w), req[w].step \notin Flushing
  PROVE  w \in Writers /\ req[w].kind = "write" /\ req[w].cand \in Candidates
  <1>1. w \in Busy /\ req[w].kind = "write"
    BY StepEffect DEF Requests
  <1>. QED BY <1>1 DEF Writers, TypeInv, RequestTypeOK

LEMMA RowsOnlyRetire ==
  ASSUME TypeInv, NEW w \in Workers, ServeStep(w)
  PROVE  /\ RowsGrow
         /\ ~At(w, "flip") => \A i \in Ids : rows'[i] = rows[i]
         /\ At(w, "flip") => /\ w \in Busy' /\ req'[w].step = "unedge"
                             /\ req'[w].old \in req[w].todo
                             /\ rows'[req'[w].old].status = "superseded"
                             /\ \A i \in Ids \ {req'[w].old} : rows'[i] = rows[i]
  <1>1. /\ rows \in Seq(RowSet) /\ Ids = 1..Len(rows) /\ Len(rows) \in Nat /\ TypeOK
        /\ \A i \in Ids : rows[i] \in RowSet
    BY DEF TypeInv, RequestTypeOK, TypeOK, Ids
  <1>2. w \in Busy /\ req[w].todo \subseteq Ids
    BY StepEffect DEF TypeInv, RequestTypeOK
  <1>3. CASE At(w, "flip")
    <2>1. FlipStatus(w)
      BY <1>3, StepAt
    <2>2. PICK o \in req[w].todo :
            /\ rows' = Retire({o})
            /\ req' = [req EXCEPT ![w].step = "unedge", ![w].old = o, ![w].left = 2]
      BY <2>1 DEF FlipStatus
    <2>3. req'[w].old = o /\ req'[w].step = "unedge" /\ w \in Busy'
      BY <1>2, <2>2, StepEffect DEF TypeInv, Shape, Requests, Busy, At
    <2>4. \A i \in Ids : rows'[i] = IF i = o THEN [rows[i] EXCEPT !.status = "superseded"]
                                    ELSE rows[i]
      BY <1>1, <2>2, RetireRows
    <2>5. o \in Ids
      BY <1>2
    <2>6. /\ rows'[o].status = "superseded" /\ rows'[o].slot = rows[o].slot
      <3>1. rows'[o] = [rows[o] EXCEPT !.status = "superseded"] /\ rows[o] \in RowSet
        BY <1>1, <2>4, <2>5
      <3>. QED BY <3>1, RetiredFields
    <2>. QED BY <1>3, <2>3, <2>4, <2>6 DEF RowsGrow
  <1>4. CASE At(w, "insert")
    <2>1. InsertRow(w)
      BY <1>4, StepAt
    <2>2. rows' = Append(rows, RowOf(req[w].cand))
      BY <2>1 DEF InsertRow
    <2>3. RowOf(req[w].cand) \in RowSet
      <3>1. req[w].kind = "write"
        BY <1>4, OfAWrite DEF At, Flushing
      <3>2. req[w].cand \in Candidates
        BY <1>2, <3>1 DEF TypeInv, RequestTypeOK
      <3>. QED BY <3>2, RowOfType
    <2>4. \A i \in Ids : rows'[i] = rows[i]
      BY <1>1, <2>2, <2>3
    <2>. QED BY <1>4, <2>4 DEF RowsGrow, At
  <1>5. CASE ~At(w, "flip") /\ ~At(w, "insert")
    <2>1. rows' = rows
      BY <1>5, StepLeaves
    <2>. QED BY <1>5, <2>1 DEF RowsGrow
  <1>. QED BY <1>3, <1>4, <1>5

\* The steps that change an edge, a link or the table.
LEMMA StepOf ==
  ASSUME NEW w \in Workers, ServeStep(w)
  PROVE  /\ At(w, "insert") => InsertRow(w)
         /\ At(w, "edge") => InsertEdge(w)
         /\ At(w, "unedge") => DropEdge(w)
         /\ At(w, "link") => LinkOld(w)
         /\ ~At(w, "edge") /\ ~At(w, "unedge") => graph' = graph
         /\ ~At(w, "link") => links' = links
  BY StepAt, StepLeaves

LEMMA ServeKeepsInv ==
  ASSUME RequestInv, NEW w \in Workers, ServeStep(w), TypeInv'
  PROVE  RequestInv'
  <1>. USE DEF RequestInv
  <1>1. /\ w \in Busy /\ Shape' /\ \A u \in Workers \ {w} : req'[u] = req[u]
        /\ Busy' \in {Busy, Busy \ {w}} /\ Busy \subseteq Workers
        /\ w \in Busy' => Carried(w) /\ Effect(w)
    BY StepEffect DEF Busy
  <1>2. /\ Ids \subseteq Ids' /\ Ids = 1..Len(rows) /\ Len(rows) \in Nat
        /\ At(w, "insert") => Ids' = Ids \cup {Len(rows) + 1}
        /\ ~At(w, "insert") => Ids' = Ids
    <2>1. /\ Ids \subseteq Ids' /\ rows' \in Seq(RowSet) /\ rows \in Seq(RowSet)
          /\ At(w, "insert") => Ids' = Ids \cup {Len(rows) + 1}
          /\ ~At(w, "insert") => Len(rows') = Len(rows)
      BY StepStores DEF TypeInv, RequestTypeOK, TypeOK
    <2>2. /\ Ids' = 1..Len(rows') /\ Ids = 1..Len(rows) /\ Len(rows) \in Nat
      BY <2>1 DEF Ids
    <2>. QED BY <2>1, <2>2
  <1>3. /\ RowsGrow
        /\ ~At(w, "flip") => \A i \in Ids : rows'[i] = rows[i]
        /\ At(w, "flip") => /\ w \in Busy' /\ req'[w].step = "unedge"
                            /\ req'[w].old \in req[w].todo
                            /\ rows'[req'[w].old].status = "superseded"
                            /\ \A i \in Ids \ {req'[w].old} : rows'[i] = rows[i]
    BY RowsOnlyRetire
  <1>4. \A u \in Writers : /\ u \in Workers /\ u \in Busy /\ req[u].cand \in Candidates
                           /\ req[u].olds \subseteq Ids /\ req[u].todo \subseteq req[u].olds
                           /\ req[u].row \in Ids \cup {0}
                           /\ IF req[u].step \in Retiring THEN req[u].old \in req[u].todo
                              ELSE req[u].old = 0
                           /\ req[u].step \in Minted => req[u].row \in Ids
    BY DEF TypeInv, RequestTypeOK, InHandOK, Writers, Busy, Candidates
  <1>5. \A u \in Writers' : /\ u \in Writers /\ req'[u].olds = req[u].olds
                            /\ req'[u].cand = req[u].cand
    BY <1>1 DEF Writers, Carried
  <1>6. At(w, "insert") =>
          /\ rows'[Len(rows) + 1].status = "accepted"
          /\ rows'[Len(rows) + 1].slot = req[w].cand.slot
    <2>1. SUFFICES ASSUME At(w, "insert")
                   PROVE  /\ rows'[Len(rows) + 1].status = "accepted"
                          /\ rows'[Len(rows) + 1].slot = req[w].cand.slot
      OBVIOUS
    <2>2. rows' = Append(rows, RowOf(req[w].cand))
      BY <2>1, StepOf DEF InsertRow
    <2>3. req[w].cand \in Candidates
      BY <2>1, OfAWrite DEF At, Flushing
    <2>4. RowOf(req[w].cand) \in RowSet /\ rows \in Seq(RowSet)
      BY <2>3, RowOfType DEF TypeInv, RequestTypeOK, TypeOK
    <2>5. rows'[Len(rows) + 1] = RowOf(req[w].cand)
      BY <1>2, <2>2, <2>4
    <2>. QED BY <2>3, <2>5, RowOfType
  <1>7. ASSUME NEW u \in Writers', u # w
        PROVE  WriteOK(u)'
    <2>1. u \in Writers /\ req'[u] = req[u] /\ WriteOK(u)
      BY <1>1, <1>4, <1>5, <1>7
    <2>. QED BY <1>2, <1>3, <1>4, <2>1 DEF WriteOK, RowsGrow, Superseded, At
  <1>8. ASSUME w \in Writers'
        PROVE  WriteOK(w)'
    <2>1. w \in Writers /\ w \in Busy' /\ WriteOK(w) /\ Effect(w)
      BY <1>1, <1>5, <1>8 DEF Writers
    <2>2. req[w].step \in RequestSteps
      BY <2>1 DEF Writers, TypeInv, Shape, Requests
    <2>3. \A o \in req[w].olds : /\ o \in Ids /\ rows'[o].slot = rows[o].slot
                                 /\ rows[o].status = "superseded" => rows'[o].status = "superseded"
      BY <1>3, <1>4, <2>1 DEF RowsGrow
    <2>4. CASE At(w, "check")
      <3>1. req[w].olds = {} /\ req'[w].olds = {}
        BY <1>5, <1>8, <2>1, <2>4 DEF WriteOK
      <3>2. req'[w].step \notin Minted
        BY <2>1, <2>4 DEF Effect, Minted
      <3>3. req'[w].step \notin Retiring
        BY <2>1, <2>4 DEF Effect, Retiring, Flushing
      <3>. QED BY <3>1, <3>2, <3>3 DEF WriteOK, Superseded
    <2>5. CASE req[w].step \in Minted \cup {"insert"}
      <3>1. req'[w].step \in Minted
        BY <2>1, <2>5 DEF Effect, Minted, At
      <3>2. req'[w].step \notin Retiring \cup {"check", "flip"}
        BY <3>1 DEF Minted, Retiring, Flushing
      <3>3. Superseded(req[w].olds)'
        BY <1>5, <1>8, <2>1, <2>3, <2>5 DEF WriteOK, Superseded
      <3>4. /\ rows'[req'[w].row].slot = req[w].cand.slot
            /\ \A o \in req[w].olds : o < req'[w].row
        <4>1. CASE At(w, "insert")
          <5>1. req'[w].row = Len(rows) + 1
            BY <2>1, <4>1 DEF Effect
          <5>. QED BY <1>2, <1>4, <1>6, <2>1, <4>1, <5>1
        <4>2. CASE req[w].step \in Minted
          <5>1. req'[w].row = req[w].row /\ req[w].row \in Ids
            BY <1>4, <2>1, <4>2 DEF Effect, KeepsRow, At, Minted
          <5>. QED BY <1>3, <2>1, <4>2, <5>1 DEF WriteOK, RowsGrow
        <4>. QED BY <2>5, <4>1, <4>2 DEF At
      <3>. QED BY <1>5, <1>8, <2>1, <2>3, <3>2, <3>3, <3>4 DEF WriteOK, At
    <2>6. CASE req[w].step = "flip"
      <3>1. /\ req'[w].step = "unedge" /\ req'[w].todo = req[w].todo
            /\ rows'[req'[w].old].status = "superseded"
        BY <1>3, <2>1, <2>6 DEF Effect, At
      <3>2. \A o \in req[w].olds \ req[w].todo : rows'[o].status = "superseded"
        BY <2>1, <2>3, <2>6 DEF WriteOK, Superseded, At
      <3>3. "unedge" \notin Minted \cup {"insert", "check", "flip"}
        BY DEF Minted
      <3>. QED BY <1>5, <1>8, <2>1, <2>3, <3>1, <3>2, <3>3 DEF WriteOK, Superseded, At
    <2>7. CASE req[w].step \in Flushing \cup {"unedge"}
      <3>1. /\ req'[w].step \in Flushing \cup {"oldsource"}
            /\ req'[w].old = req[w].old /\ req'[w].todo = req[w].todo
        BY <2>1, <2>7 DEF Effect, KeepsAims, At, Flushing
      <3>2. req[w].step \in Retiring
        BY <2>7 DEF Retiring
      <3>3. req'[w].step \notin Minted \cup {"insert", "check", "flip"}
        BY <3>1 DEF Minted, Flushing
      <3>4. req[w].old \in req[w].olds
        BY <1>4, <2>1, <3>2
      <3>. QED BY <1>5, <1>8, <2>1, <2>3, <3>1, <3>2, <3>3, <3>4 DEF WriteOK, Superseded, At
    <2>8. CASE At(w, "oldsource")
      <3>1. /\ req'[w].todo = req[w].todo \ {req[w].old} /\ req'[w].old = 0
            /\ req'[w].step = IF req'[w].todo = {} THEN "insert" ELSE "flip"
        BY <2>1, <2>8 DEF Effect
      <3>2. req[w].step \in Retiring
        BY <2>8 DEF Retiring, At
      <3>3. req'[w].step \notin Minted \cup Retiring \cup {"check"}
        BY <3>1 DEF Minted, Retiring, Flushing
      <3>4. \A o \in req[w].olds \ req'[w].todo : rows'[o].status = "superseded"
        BY <2>1, <2>3, <3>1, <3>2 DEF WriteOK, Superseded
      <3>. QED BY <1>5, <1>8, <2>1, <2>3, <3>1, <3>3, <3>4 DEF WriteOK, Superseded, At
    <2>. QED BY <2>1, <2>2, <2>4, <2>5, <2>6, <2>7, <2>8 DEF RequestSteps, Retiring, Effect, At
  <1>9. ASSUME NEW u \in Writers', u # w
        PROVE  OwnRow(u)'
    <2>1. SUFFICES ASSUME At(u, "edge")'
                   PROVE  /\ rows'[req'[u].row].status = "accepted"
                          /\ req'[u].row \notin graph'
                          /\ \A v \in Writers' : req'[u].row \notin req'[v].olds
                          /\ \A v \in Writers' \ {u} :
                               ~(At(v, "edge")' /\ req'[v].row = req'[u].row)
      BY DEF OwnRow
    <2>2. /\ u \in Writers /\ req'[u] = req[u] /\ At(u, "edge") /\ req[u].row \in Ids
          /\ OwnRow(u)
      BY <1>1, <1>4, <1>5, <1>9, <2>1 DEF At, Minted
    <2>3. rows'[req[u].row].status = "accepted"
      <3>1. CASE At(w, "flip")
        <4>1. w \in Writers
          BY <3>1, OfAWrite DEF At, Flushing
        <4>2. req[u].row \notin req[w].olds
          BY <2>1, <2>2, <4>1 DEF OwnRow
        <4>3. req'[w].old # req[u].row
          BY <1>3, <1>4, <3>1, <4>1, <4>2
        <4>. QED BY <1>3, <2>2, <3>1, <4>3 DEF OwnRow
      <3>2. CASE ~At(w, "flip")
        BY <1>3, <2>2, <3>2 DEF OwnRow
      <3>. QED BY <3>1, <3>2
    <2>4. req[u].row \notin graph'
      <3>1. CASE At(w, "edge")
        <4>1. graph' \subseteq graph \cup {req[w].row}
          BY <3>1, StepOf DEF InsertEdge, AddEdge
        <4>2. w \in Writers
          BY <3>1, OfAWrite DEF At, Flushing
        <4>3. req[w].row # req[u].row
          BY <1>9, <2>2, <3>1, <4>2 DEF OwnRow
        <4>. QED BY <2>2, <4>1, <4>3 DEF OwnRow
      <3>2. CASE At(w, "unedge")
        BY <2>2, <3>2, StepOf DEF DropEdge, RemoveEdges, OwnRow
      <3>3. CASE ~At(w, "edge") /\ ~At(w, "unedge")
        BY <2>2, <3>3, StepOf DEF OwnRow
      <3>. QED BY <3>1, <3>2, <3>3
    <2>5. \A v \in Writers' : req[u].row \notin req'[v].olds
      BY <1>5, <2>2 DEF OwnRow
    <2>6. ASSUME NEW v \in Writers' \ {u}, At(v, "edge")'
          PROVE  req'[v].row # req[u].row
      <3>1. CASE v = w
        <4>1. w \in Busy' /\ Effect(w) /\ req'[w].step = "edge" /\ req[w].step \in RequestSteps
          BY <1>1, <2>6, <3>1 DEF Writers, At, TypeInv, Shape, Requests
        <4>2. req'[w].row = Len(rows) + 1
          BY <4>1 DEF Effect, At, RequestSteps, Retiring, Flushing, Minted
        <4>. QED BY <1>2, <2>2, <3>1, <4>2
      <3>2. CASE v # w
        <4>1. v \in Writers \ {u} /\ req'[v] = req[v]
          BY <1>1, <1>4, <1>5, <3>2
        <4>. QED BY <2>2, <2>6, <4>1 DEF OwnRow, At
      <3>. QED BY <3>1, <3>2
    <2>. QED BY <2>2, <2>3, <2>4, <2>5, <2>6
  <1>10. ASSUME w \in Writers'
         PROVE  OwnRow(w)'
    <2>1. SUFFICES ASSUME At(w, "edge")'
                   PROVE  /\ rows'[req'[w].row].status = "accepted"
                          /\ req'[w].row \notin graph'
                          /\ \A v \in Writers' : req'[w].row \notin req'[v].olds
                          /\ \A v \in Writers' \ {w} :
                               ~(At(v, "edge")' /\ req'[v].row = req'[w].row)
      BY DEF OwnRow
    <2>2. w \in Busy' /\ Effect(w) /\ req'[w].step = "edge" /\ req[w].step \in RequestSteps
      BY <1>1, <1>10, <2>1 DEF Writers, At, TypeInv, Shape, Requests
    <2>3. At(w, "insert") /\ req'[w].row = Len(rows) + 1
      BY <2>2 DEF Effect, At, RequestSteps, Retiring, Flushing, Minted
    <2>4. graph' = graph /\ graph \subseteq Ids
      BY <2>3, StepOf DEF At, TypeInv, RequestTypeOK, TypeOK
    <2>5. \A v \in Writers' : req'[w].row \notin req'[v].olds
      BY <1>2, <1>4, <1>5, <2>3
    <2>6. ASSUME NEW v \in Writers' \ {w}, At(v, "edge")'
          PROVE  req'[v].row # req'[w].row
      <3>1. v \in Writers /\ req'[v] = req[v] /\ req[v].step = "edge"
        BY <1>1, <1>4, <1>5, <2>6 DEF At
      <3>2. req[v].row \in Ids
        BY <1>4, <3>1 DEF Minted
      <3>. QED BY <1>2, <2>3, <3>1, <3>2
    <2>. QED BY <1>2, <1>6, <2>3, <2>4, <2>5, <2>6
  <1>11. EdgesAreAcceptedOrLeaving'
    <2>1. SUFFICES ASSUME NEW i \in graph', rows'[i].status # "accepted"
                   PROVE  \E u \in Writers' : At(u, "unedge")' /\ req'[u].old = i
      BY DEF EdgesAreAcceptedOrLeaving
    <2>2. graph \subseteq Ids
      BY DEF TypeInv, RequestTypeOK, TypeOK
    <2>3. i \in graph
      <3>1. CASE At(w, "edge")
        <4>1. graph' \subseteq graph \cup {req[w].row}
          BY <3>1, StepOf DEF InsertEdge, AddEdge
        <4>2. w \in Writers
          BY <3>1, OfAWrite DEF At, Flushing
        <4>3. req[w].row \in Ids /\ rows[req[w].row].status = "accepted"
          BY <1>4, <3>1, <4>2 DEF OwnRow, At, Minted
        <4>4. rows'[req[w].row].status = "accepted"
          BY <1>3, <3>1, <4>3 DEF At
        <4>. QED BY <2>1, <4>1, <4>4
      <3>2. CASE At(w, "unedge")
        BY <3>2, StepOf DEF DropEdge, RemoveEdges
      <3>3. CASE ~At(w, "edge") /\ ~At(w, "unedge")
        BY <3>3, StepOf
      <3>. QED BY <3>1, <3>2, <3>3
    <2>4. CASE At(w, "flip") /\ i = req'[w].old
      <3>1. w \in Busy' /\ req'[w].step = "unedge" /\ req[w].kind = "write"
        BY <1>3, <2>4, OfAWrite DEF At, Flushing
      <3>2. w \in Writers'
        BY <1>1, <3>1 DEF Writers, Carried
      <3>. QED BY <2>4, <3>1, <3>2 DEF At
    <2>5. CASE rows[i].status # "accepted"
      <3>1. PICK u \in Writers : At(u, "unedge") /\ req[u].old = i
        BY <2>3, <2>5 DEF EdgesAreAcceptedOrLeaving
      <3>2. CASE u = w
        BY <2>1, <3>1, <3>2, StepOf DEF DropEdge, RemoveEdges, SameTriple
      <3>3. CASE u # w
        <4>1. u \in Writers' /\ req'[u] = req[u]
          BY <1>1, <1>4, <3>3 DEF Writers
        <4>. QED BY <3>1, <4>1 DEF At
      <3>. QED BY <3>2, <3>3
    <2>. QED BY <1>3, <2>1, <2>2, <2>3, <2>4, <2>5
  <1>12. LinkedIsReplaced'
    <2>1. \A l \in links : /\ l[1] \in Ids' /\ l[2] \in Ids' /\ l[2] < l[1]
                           /\ rows'[l[2]].status = "superseded"
                           /\ rows'[l[1]].slot = rows'[l[2]].slot
      BY <1>2, <1>3 DEF LinkedIsReplaced, RowsGrow
    <2>2. CASE At(w, "link")
      <3>1. w \in Writers
        BY <2>2, OfAWrite DEF At, Flushing
      <3>2. PICK o \in req[w].todo : links' = links \cup {<<req[w].row, o>>}
        BY <2>2, StepOf DEF LinkOld, LinksTo
      <3>3. /\ o \in req[w].olds /\ o \in Ids /\ req[w].row \in Ids
        BY <1>4, <2>2, <3>1 DEF At, Minted
      <3>4. /\ rows[o].status = "superseded" /\ o < req[w].row
            /\ rows[req[w].row].slot = rows[o].slot
        BY <2>2, <3>1, <3>3 DEF WriteOK, At, Minted, Superseded
      <3>5. /\ rows'[o].status = "superseded" /\ rows'[req[w].row].slot = rows'[o].slot
            /\ o \in Ids' /\ req[w].row \in Ids'
        BY <1>2, <1>3, <3>3, <3>4 DEF RowsGrow
      <3>. QED BY <2>1, <3>2, <3>4, <3>5 DEF LinkedIsReplaced
    <2>3. CASE ~At(w, "link")
      BY <2>1, <2>3, StepOf DEF LinkedIsReplaced
    <2>. QED BY <2>2, <2>3
  <1>. QED BY <1>7, <1>8, <1>9, <1>10, <1>11, <1>12

LEMMA RequestInvStep == RequestInv /\ [RequestsNext]_rvars => RequestInv'
  <1>. SUFFICES ASSUME RequestInv, [RequestsNext]_rvars
                PROVE  RequestInv'
    OBVIOUS
  <1>. USE DEF RequestInv
  <1>0. TypeInv'
    BY TypeInvStep
  <1>1. ASSUME NEW w \in Workers, ServeStep(w)
        PROVE  RequestInv'
    BY <1>0, <1>1, ServeKeepsInv
  <1>2. ASSUME UNCHANGED <<rows, links, graph>>,
               \A u \in Writers' : u \in Writers /\ req'[u] = req[u],
               \A u \in Writers : At(u, "unedge") => u \in Writers'
        PROVE  RequestInv'
    <2>1. \A u \in Writers' : WriteOK(u)' /\ OwnRow(u)'
      BY <1>2 DEF WriteOK, OwnRow, Superseded, At
    <2>2. EdgesAreAcceptedOrLeaving' /\ LinkedIsReplaced'
      BY <1>2 DEF EdgesAreAcceptedOrLeaving, LinkedIsReplaced, Ids, At
    <2>. QED BY <1>0, <2>1, <2>2
  <1>3. ASSUME NEW w \in Workers, NEW c \in Candidates, BeginWrite(w, c)
        PROVE  RequestInv'
    <2>. DEFINE v == Verdict(c, View)
                first == CASE v.action = "accept" -> "check"
                           [] v.action = "supersede" /\ v.against # {} -> "flip"
                           [] OTHER -> "hold"
                r == Begun("write", first, c, v.against, 2, {})
    <2>1. /\ v.against \subseteq {i \in graph : rows[i].slot = c.slot}
          /\ v.action = "accept" => v.against = {}
      BY AgainstOwnSlot, AcceptNamesNothing
    <2>2. /\ req' = [req EXCEPT ![w] = r] /\ At(w, "idle")
          /\ UNCHANGED <<rows, links, graph>>
      BY <1>3 DEF BeginWrite, vars
    <2>3. first \in {"check", "flip", "hold"} /\ (first = "check" => v.against = {})
      BY <2>1
    <2>. HIDE DEF first, v
    <2>4. r.step = first /\ r.kind = "write" /\ r.cand = c /\ r.olds = v.against
          /\ r.todo = r.olds /\ r.row = 0
      BY DEF Begun
    <2>. HIDE DEF r
    <2>5. req'[w] = r /\ \A u \in Workers \ {w} : req'[u] = req[u]
      BY <2>2 DEF TypeInv, Shape
    <2>6. /\ \A u \in Writers' : u # w => u \in Writers /\ req'[u] = req[u]
          /\ \A u \in Writers : u # w /\ u \in Writers' /\ req'[u] = req[u]
      BY <2>2, <2>5 DEF Writers, Busy, At
    <2>7. WriteOK(w)' /\ OwnRow(w)'
      <3>1. first \notin Minted \cup Retiring \cup {"insert"}
        BY <2>3 DEF Minted, Retiring, Flushing
      <3>2. ~At(w, "edge")'
        BY <2>3, <2>4, <2>5 DEF At
      <3>. QED BY <2>1, <2>2, <2>3, <2>4, <2>5, <3>1, <3>2 DEF WriteOK, OwnRow, Superseded, At
    <2>8. ASSUME NEW u \in Writers', u # w
          PROVE  WriteOK(u)' /\ OwnRow(u)'
      <3>1. u \in Writers /\ req'[u] = req[u] /\ WriteOK(u) /\ OwnRow(u)
        BY <2>6, <2>8
      <3>2. WriteOK(u)'
        BY <2>2, <3>1 DEF WriteOK, Superseded, At
      <3>3. At(u, "edge") => req[u].row \notin r.olds
        BY <2>1, <2>4, <3>1 DEF OwnRow
      <3>4. At(w, "edge")' = FALSE
        BY <2>3, <2>4, <2>5 DEF At
      <3>5. OwnRow(u)'
        BY <2>2, <2>5, <2>6, <3>1, <3>3, <3>4 DEF OwnRow, At
      <3>. QED BY <3>2, <3>5
    <2>9. EdgesAreAcceptedOrLeaving' /\ LinkedIsReplaced'
      BY <2>2, <2>6 DEF EdgesAreAcceptedOrLeaving, LinkedIsReplaced, Ids, At
    <2>. QED BY <1>0, <2>7, <2>8, <2>9
  <1>4. ASSUME NEW w \in Workers, BeginQuery(w)
        PROVE  RequestInv'
    <2>. DEFINE r == Begun("query", "flush", "none", {}, 1, Answered)
    <2>1. req' = [req EXCEPT ![w] = r] /\ At(w, "idle") /\ UNCHANGED <<rows, links, graph>>
      BY <1>4 DEF BeginQuery, vars
    <2>2. r.kind = "query"
      BY DEF Begun
    <2>. HIDE DEF r
    <2>3. req'[w] = r /\ \A u \in Workers \ {w} : req'[u] = req[u]
      BY <2>1 DEF TypeInv, Shape
    <2>4. \A u \in Writers' : u \in Writers /\ req'[u] = req[u]
      BY <2>2, <2>3 DEF Writers, Busy, At
    <2>5. \A u \in Writers : u \in Writers'
      BY <2>1, <2>3 DEF Writers, Busy, At
    <2>. QED BY <1>2, <2>1, <2>4, <2>5
  <1>5. ASSUME NEW w \in Workers, EmbedFails(w)
        PROVE  RequestInv'
    <2>1. req' = [req EXCEPT ![w] = Idle] /\ At(w, "embed") /\ UNCHANGED <<rows, links, graph>>
      BY <1>5 DEF EmbedFails, Done, vars
    <2>2. req'[w] = Idle /\ \A u \in Workers \ {w} : req'[u] = req[u]
      BY <2>1 DEF TypeInv, Shape
    <2>3. \A u \in Writers' : u \in Writers /\ req'[u] = req[u]
      BY <2>2 DEF Writers, Busy, At, Idle
    <2>4. \A u \in Writers : At(u, "unedge") => u \in Writers'
      BY <2>1, <2>2 DEF Writers, Busy, At
    <2>. QED BY <1>2, <2>1, <2>3, <2>4
  <1>6. CASE Stop
    <2>1. Writers' = {} /\ rows' = rows /\ links' = links /\ graph' = Rebuilt
      BY <1>6 DEF Stop, Restart, durable, Busy, Writers, At, Idle
    <2>2. EdgesAreAcceptedOrLeaving' /\ LinkedIsReplaced'
      BY <2>1 DEF EdgesAreAcceptedOrLeaving, LinkedIsReplaced, Ids, Rebuilt, Accepted
    <2>. QED BY <1>0, <2>1, <2>2
  <1>7. CASE UNCHANGED rvars
    <2>1. Writers' = Writers /\ req' = req /\ UNCHANGED <<rows, links, graph>>
      BY <1>7 DEF rvars, vars, Busy, Writers, At
    <2>. QED BY <1>2, <2>1
  <1>. QED BY <1>1, <1>3, <1>4, <1>5, <1>6, <1>7 DEF RequestsNext

LEMMA RequestInvAlways == RequestsSpec => []RequestInv
  <1>1. RequestsInit => RequestInv
    <2>. SUFFICES ASSUME RequestsInit
                  PROVE  RequestInv
      OBVIOUS
    <2>1. Busy = {} /\ Writers = {} /\ req \in [Workers -> {Idle} \cup Requests]
      BY DEF RequestsInit, Busy, Writers, At, Idle
    <2>2. TypeOK /\ graph = {} /\ links = {}
      BY DEF RequestsInit, Init, TypeOK, Ids
    <2>3. faults \in 0..MaxFaults /\ lost = {}
      BY RequestConstants DEF RequestsInit
    <2>4. QueueOK /\ LiveOK
      BY DEF RequestsInit, QueueOK, LiveOK, NoLists
    <2>. QED BY <2>1, <2>2, <2>3, <2>4 DEF RequestInv, TypeInv, RequestTypeOK, Shape, InHandOK,
           QueueOK, EdgesAreAcceptedOrLeaving, LinkedIsReplaced
  <1>. QED BY <1>1, RequestInvStep, PTL DEF RequestsSpec

\* A request is always at a step of its code, with what that step needs in hand,
\* whatever other threads do to the stores between its calls.
THEOREM RequestsAreTyped == RequestsSpec => []RequestTypeOK
  <1>1. RequestInv => RequestTypeOK
    BY DEF RequestInv, TypeInv
  <1>. QED BY <1>1, RequestInvAlways, PTL

\* However requests overlap, an edge of a superseded assertion is about to go.
THEOREM TraversalLagsOneCall == RequestsSpec => []EdgesAreAcceptedOrLeaving
  <1>1. RequestInv => EdgesAreAcceptedOrLeaving
    BY DEF RequestInv
  <1>. QED BY <1>1, RequestInvAlways, PTL

\* However requests overlap, the lineage is true.
THEOREM LineageIsTrue == RequestsSpec => []LinkedIsReplaced
  <1>1. RequestInv => LinkedIsReplaced
    BY DEF RequestInv
  <1>. QED BY <1>1, RequestInvAlways, PTL

-----------------------------------------------------------------------------
(* Requests that do not overlap. *)

\* No overlap so far means that at most one request is in flight.
AloneInv ==
  /\ IsFiniteSet(Busy)
  /\ ~overlapped => \A u, v \in Busy : u = v

LEMMA AtMostOne ==
  ASSUME NEW S, IsFiniteSet(S), ~(Cardinality(S) > 1), NEW u \in S, NEW v \in S
  PROVE  u = v
  <1>1. SUFFICES ASSUME u # v
                 PROVE  FALSE
    OBVIOUS
  <1>2. /\ Cardinality({u, v}) = 2 /\ IsFiniteSet({u})
    <2>1. IsFiniteSet({u}) /\ Cardinality({u}) = 1
      BY FS_Singleton
    <2>2. Cardinality({u} \cup {v}) = 2
      BY <1>1, <2>1, FS_AddElement
    <2>3. {u} \cup {v} = {u, v}
      OBVIOUS
    <2>. QED BY <2>1, <2>2, <2>3
  <1>3. Cardinality({u, v}) <= Cardinality(S) /\ Cardinality(S) \in Nat
    BY FS_Subset, FS_CardinalityType
  <1>. QED BY <1>2, <1>3

LEMMA AloneStep ==
  ASSUME TypeInv, AloneInv, [RequestsNext]_rvars
  PROVE  /\ AloneInv'
         /\ ~overlapped' => ~overlapped
  <1>1. req \in [Workers -> {Idle} \cup Requests] /\ Busy \subseteq Workers
    BY DEF TypeInv, Shape, Busy
  <1>2. CASE UNCHANGED rvars
    BY <1>2 DEF rvars, AloneInv, Busy, At
  <1>3. ASSUME RequestsNext
        PROVE  IsFiniteSet(Busy')
    <2>1. ASSUME NEW w \in Workers, NEW r, req' = [req EXCEPT ![w] = r]
          PROVE  IsFiniteSet(Busy')
      <3>1. Busy' \subseteq Busy \cup {w}
        BY <1>1, <2>1 DEF Busy, At
      <3>2. IsFiniteSet(Busy \cup {w})
        BY FS_AddElement DEF AloneInv
      <3>. QED BY <3>1, <3>2, FS_Subset
    <2>2. ASSUME NEW w \in Workers, ServeStep(w)
          PROVE  IsFiniteSet(Busy')
      <3>1. Busy' \subseteq Busy
        BY <2>2, StepEffect
      <3>. QED BY <3>1, FS_Subset DEF AloneInv
    <2>3. ASSUME NEW w \in Workers, NEW c \in Candidates, BeginWrite(w, c)
          PROVE  IsFiniteSet(Busy')
      BY <2>1, <2>3 DEF BeginWrite
    <2>4. ASSUME NEW w \in Workers, BeginQuery(w) \/ EmbedFails(w)
          PROVE  IsFiniteSet(Busy')
      BY <2>1, <2>4 DEF BeginQuery, EmbedFails, Done
    <2>5. CASE Stop
      <3>1. Busy' = {}
        BY <2>5 DEF Stop, Busy, At, Idle
      <3>. QED BY <3>1, FS_EmptySet
    <2>. QED BY <1>3, <2>2, <2>3, <2>4, <2>5 DEF RequestsNext
  <1>4. ASSUME RequestsNext
        PROVE  /\ ~overlapped' => ~overlapped
               /\ ~overlapped' => ~(Cardinality(Busy') > 1)
    BY <1>4 DEF RequestsNext, Observe
  <1>5. ASSUME RequestsNext
        PROVE  AloneInv'
    BY <1>3, <1>4, <1>5, AtMostOne DEF AloneInv
  <1>6. ~overlapped' => ~overlapped
    BY <1>2, <1>4 DEF rvars
  <1>. QED BY <1>2, <1>5, <1>6


LEMMA AloneAlways == RequestsSpec => []AloneInv
  <1>1. RequestsInit => AloneInv
    <2>1. RequestsInit => Busy = {}
      BY DEF RequestsInit, Busy, At, Idle
    <2>. QED BY <2>1, FS_EmptySet DEF AloneInv
  <1>2. RequestInv /\ AloneInv /\ [RequestsNext]_rvars => AloneInv'
    BY AloneStep DEF RequestInv
  <1>. QED BY <1>1, <1>2, RequestInvAlways, PTL DEF RequestsSpec

\* What a write in flight has still to append to a list of the queue.
Owed(l) ==
  CASE l = "ids" -> {} [] l = "texts" -> {"text"} [] l = "metas" -> {"text", "meta"}

\* A list as the flush of thread w, or the queue if it has none, has it.
Whole(w, l) == IF req[w].step \in Given(l) THEN got[w][l] ELSE Queue(l)

\* No flush is under way: the lists of the queue are about the same rows.
Even ==
  \A l \in Lists : live[l] = {} /\ Queue(l) = pending /\ \A u \in Workers : got[u][l] = {}

\* Where the three lists stand while no thread but w is at work.
Aligned(w) ==
  /\ \A l \in Lists : /\ live[l] = IF req[w].step \in Naming(l) THEN {w} ELSE {}
                      /\ req[w].step \in Given(l) => Queue(l) = {}
                      /\ req[w].step \notin Given(l) => got[w][l] = {}
                      /\ \A u \in Workers \ {w} : got[u][l] = {}
                      /\ Whole(w, "ids") = IF req[w].step \in Owed(l)
                                            THEN Whole(w, l) \cup {req[w].row} ELSE Whole(w, l)
  /\ req[w].step \in Flushing \ {"flush"} => Whole(w, "ids") # {}

Between == {"text", "meta"} \cup (Flushing \ {"flush"})

LEMMA EvenIsAligned ==
  \A u \in Workers : req[u].step \notin Between => (Aligned(u) <=> Even)
  <1>. SUFFICES ASSUME NEW w \in Workers, req[w].step \notin Between
                PROVE  Aligned(w) <=> Even
    OBVIOUS
  <1>1. \A l \in Lists : req[w].step \notin Naming(l) \cup Given(l) \cup Owed(l)
    BY DEF Between, Flushing, Lists, Naming, Given, Owed
  <1>2. \A l \in Lists : Whole(w, l) = Queue(l)
    BY <1>1 DEF Whole
  <1>3. "ids" \in Lists /\ Queue("ids") = pending /\ req[w].step \notin Flushing \ {"flush"}
    BY DEF Lists, Queue, Between
  <1>. QED BY <1>1, <1>2, <1>3 DEF Aligned, Even

LEMMA EvenIsAlignedNext ==
  (\A u \in Workers : req[u].step \notin Between => (Aligned(u) <=> Even))'
  BY EvenIsAligned, PTL

\* What a flush has of the list of ids is what the queue has of it, or had.
WholeIdsOf(w) ==
  /\ pending \cup Local(w, "ids") = Whole(w, "ids")
  /\ req[w].step \in Naming("ids") => Local(w, "ids") = pending
  /\ At(w, "embed") => Upsertable(w) /\ pending = {} /\ Local(w, "ids") = Whole(w, "ids")
  /\ req[w].step \notin Naming("ids") \cup Given("ids") => Local(w, "ids") = {}
  /\ req[w].step \notin Given("ids") => Whole(w, "ids") = pending

LEMMA WholeIds == \A w \in Workers : Aligned(w) => WholeIdsOf(w)
  <1>. SUFFICES ASSUME NEW w \in Workers, Aligned(w)
                PROVE  WholeIdsOf(w)
    OBVIOUS
  <1>1. "ids" \in Lists /\ Queue("ids") = pending
    BY DEF Lists, Queue
  <1>2. \A l \in Lists : Naming(l) \cap Given(l) = {} /\ "embed" \in Given(l) /\ "embed" \notin Owed(l)
    BY DEF Lists, Naming, Given, Owed
  <1>3. /\ req[w].step \in Naming("ids") => Local(w, "ids") = pending
        /\ req[w].step \notin Naming("ids") \cup Given("ids") => Local(w, "ids") = {}
        /\ req[w].step \in Given("ids") => Local(w, "ids") = Whole(w, "ids") /\ pending = {}
        /\ req[w].step \notin Given("ids") => Whole(w, "ids") = pending
    BY <1>1, <1>2 DEF Aligned, Whole, Local
  <1>4. ASSUME At(w, "embed")
        PROVE  Upsertable(w)
    <2>1. \A l \in Lists : Local(w, l) = Whole(w, l) /\ Whole(w, l) = Whole(w, "ids")
      BY <1>2, <1>4 DEF Aligned, Whole, Local, At
    <2>2. Whole(w, "ids") # {}
      BY <1>4 DEF Aligned, At, Flushing
    <2>. QED BY <1>1, <2>1, <2>2 DEF Upsertable
  <1>. QED BY <1>1, <1>2, <1>3, <1>4 DEF WholeIdsOf, At

LEMMA WholeIdsNext == (\A w \in Workers : Aligned(w) => WholeIdsOf(w))'
  BY WholeIds, PTL

\* What a step of a flush that nothing overlaps does.
FlushDone(w) ==
  /\ w \in Busy' /\ Aligned(w)' /\ req'[w].step \in Flushing
  /\ searchable \subseteq searchable'
  /\ searchable' \cup Whole(w, "ids")' = searchable \cup Whole(w, "ids")
  /\ IF At(w, "flush")
     THEN /\ req[w].left > 0 /\ req'[w].left = req[w].left - 1
          /\ req'[w].step = IF pending = {} THEN "flush" ELSE "take ids"
     ELSE /\ req'[w].left = req[w].left
          /\ At(w, "flush")' => pending' = {} /\ At(w, "embed")
  /\ UNCHANGED <<durable, graph, linkEdges, lost, faults>>
  /\ req'[w] = [req[w] EXCEPT !.step = req'[w].step, !.left = req'[w].left]

\* A flush that nothing overlaps: it loses no vector, leaves the tables and the
\* edges alone, and raises nothing.
LEMMA FlushMoves ==
  ASSUME TypeInv, NEW w \in Workers, Aligned(w), FlushStep(w)
  PROVE  FlushDone(w)
  <1>. DEFINE x == req[w].step
  <1>1. UNCHANGED <<durable, graph, linkEdges, lost, faults>>
    BY FlushLeaves
  <1>2. ServeStep(w)
    BY DEF ServeStep
  <1>3. /\ req \in [Workers -> {Idle} \cup Requests] /\ req[w] \in Requests
    BY <1>2, StepEffect DEF TypeInv, Shape
  <1>4. ASSUME NEW y \in Flushing, Goto(w, y)
        PROVE  /\ req'[w].step = y /\ req'[w].left = req[w].left /\ w \in Busy'
               /\ req'[w].row = req[w].row
               /\ req'[w] = [req[w] EXCEPT !.step = req'[w].step, !.left = req'[w].left]
    <2>1. req'[w] = [req[w] EXCEPT !.step = y]
      BY <1>3, <1>4 DEF Goto
    <2>2. req'[w].step = y /\ req'[w].left = req[w].left /\ req'[w].row = req[w].row
      BY <1>3, <2>1 DEF Requests
    <2>3. req'[w] = [req[w] EXCEPT !.step = y, !.left = req[w].left]
      BY <1>3, <2>1 DEF Requests
    <2>. QED BY <2>2, <2>3 DEF Busy, At, Flushing
  <1>5. QueueOK /\ \A l \in Lists : live[l] \subseteq Workers
    BY DEF TypeInv, RequestTypeOK, QueueOK, Busy
  <1>6. Queue("ids") = pending /\ "ids" \in Lists /\ \A l \in Bodies : Queue(l) = bodies[l] /\ l \in Lists
    BY DEF Queue, Bodies, Lists
  \* Taking a list.
  <1>7. ASSUME NEW l \in Lists, NEW y \in Flushing \ {"flush"}, Goto(w, y), TakeList(w, l),
               x \in Flushing \ {"flush"},
               \A m \in Lists : /\ x \notin Given(m) \cup Owed(m)
                                /\ y \notin Given(m) \cup Owed(m)
                                /\ y \in Naming(m) <=> x \in Naming(m) \/ m = l
        PROVE  FlushDone(w)
    <2>1. UNCHANGED <<pending, searchable, bodies, got>> /\ live' = [live EXCEPT ![l] = @ \cup {w}]
      BY <1>7 DEF TakeList, vars
    <2>2. \A m \in Lists : Queue(m)' = Queue(m) /\ Whole(w, m) = Queue(m) /\ Whole(w, m)' = Queue(m)
      BY <1>4, <1>7, <2>1 DEF Queue, Whole
    <2>3. \A m \in Lists : live'[m] = IF y \in Naming(m) THEN {w} ELSE {}
      BY <1>5, <1>7, <2>1 DEF Aligned, QueueOK
    <2>4. Aligned(w)'
      <3>1. req'[w].step = y /\ req'[w].row = req[w].row
        BY <1>4, <1>7
      <3>2. \A m \in Lists : req'[w].step \notin Given(m) /\ req'[w].step \notin Owed(m)
        BY <1>7, <3>1
      <3>3. \A m \in Lists : \A u \in Workers : got'[u][m] = {}
        BY <1>7, <2>1 DEF Aligned
      <3>4. \A m \in Lists : Whole(w, m) = Whole(w, "ids")
        BY <1>7 DEF Aligned
      <3>5. \A m \in Lists : Whole(w, m)' = Whole(w, "ids")'
        BY <1>6, <2>2, <3>4
      <3>6. Whole(w, "ids")' # {}
        BY <1>6, <1>7, <2>2 DEF Aligned
      <3>. QED BY <2>3, <3>1, <3>2, <3>3, <3>5, <3>6 DEF Aligned
    <2>5. req'[w].step = y /\ req'[w].left = req[w].left /\ w \in Busy'
          /\ req'[w] = [req[w] EXCEPT !.step = req'[w].step, !.left = req'[w].left]
      BY <1>4, <1>7
    <2>6. Whole(w, "ids")' = Whole(w, "ids")
      BY <1>6, <2>2
    <2>. QED BY <1>1, <1>7, <2>1, <2>4, <2>5, <2>6 DEF FlushDone, At
  <1>8. CASE TakeIds(w) \/ TakeTexts(w) \/ TakeMetas(w)
    <2>1. CASE TakeIds(w)
      <3>1. \A m \in Lists : /\ x \notin Given(m) \cup Owed(m)
                             /\ "take texts" \notin Given(m) \cup Owed(m)
                             /\ "take texts" \in Naming(m) <=> x \in Naming(m) \/ m = "ids"
        BY <2>1 DEF TakeIds, At, Lists, Naming, Given, Owed
      <3>2. x \in Flushing \ {"flush"} /\ "take texts" \in Flushing \ {"flush"}
        BY <2>1 DEF TakeIds, At, Flushing
      <3>. QED BY <1>6, <1>7, <2>1, <3>1, <3>2 DEF TakeIds
    <2>2. CASE TakeTexts(w)
      <3>1. \A m \in Lists : /\ x \notin Given(m) \cup Owed(m)
                             /\ "take metas" \notin Given(m) \cup Owed(m)
                             /\ "take metas" \in Naming(m) <=> x \in Naming(m) \/ m = "texts"
        BY <2>2 DEF TakeTexts, At, Lists, Naming, Given, Owed
      <3>2. x \in Flushing \ {"flush"} /\ "take metas" \in Flushing \ {"flush"} /\ "texts" \in Lists
        BY <2>2 DEF TakeTexts, At, Flushing, Lists
      <3>. QED BY <1>7, <2>2, <3>1, <3>2 DEF TakeTexts
    <2>3. CASE TakeMetas(w)
      <3>1. \A m \in Lists : /\ x \notin Given(m) \cup Owed(m)
                             /\ "new ids" \notin Given(m) \cup Owed(m)
                             /\ "new ids" \in Naming(m) <=> x \in Naming(m) \/ m = "metas"
        BY <2>3 DEF TakeMetas, At, Lists, Naming, Given, Owed
      <3>2. x \in Flushing \ {"flush"} /\ "new ids" \in Flushing \ {"flush"} /\ "metas" \in Lists
        BY <2>3 DEF TakeMetas, At, Flushing, Lists
      <3>. QED BY <1>7, <2>3, <3>1, <3>2 DEF TakeMetas
    <2>. QED BY <1>8, <2>1, <2>2, <2>3
  \* Putting a new list in the place of one.
  <1>9. ASSUME NEW l \in Lists, NEW y \in Flushing \ {"flush"}, Goto(w, y), LetGo(l),
               pending' = IF l = "ids" THEN {} ELSE pending,
               bodies' = IF l \in Bodies THEN [bodies EXCEPT ![l] = {}] ELSE bodies,
               x \in Flushing \ {"flush"}, x \in Naming(l),
               \A m \in Lists : /\ x \notin Owed(m) /\ y \notin Owed(m)
                                /\ y \in Naming(m) <=> x \in Naming(m) /\ m # l
                                /\ y \in Given(m) <=> x \in Given(m) \/ m = l
                                /\ ~(x \in Naming(m) /\ x \in Given(m))
        PROVE  FlushDone(w)
    <2>1. /\ UNCHANGED searchable /\ live' = [live EXCEPT ![l] = {}]
          /\ got' = [u \in Workers |-> [got[u] EXCEPT ![l] = Local(u, l)]]
      BY <1>9 DEF LetGo
    <2>2. \A m \in Lists : Queue(m)' = IF m = l THEN {} ELSE Queue(m)
      BY <1>5, <1>9 DEF Queue, QueueOK, Bodies
    <2>3. live[l] = {w} /\ Local(w, l) = Queue(l) /\ \A u \in Workers \ {w} : Local(u, l) = {}
      BY <1>9 DEF Aligned, Local
    <2>4. /\ got'[w][l] = Queue(l) /\ \A m \in Lists \ {l} : got'[w][m] = got[w][m]
          /\ \A u \in Workers \ {w} : \A m \in Lists : got'[u][m] = {}
      BY <1>5, <2>1, <2>3 DEF QueueOK, Aligned
    <2>5. \A m \in Lists : live'[m] = IF y \in Naming(m) THEN {w} ELSE {}
      BY <1>5, <1>9, <2>1 DEF Aligned, QueueOK
    <2>6. \A m \in Lists : Whole(w, m)' = Whole(w, m)
      BY <1>4, <1>9, <2>2, <2>4 DEF Whole
    <2>7. Whole(w, "ids")' = Whole(w, "ids")
      BY <1>6, <2>6
    <2>8. Aligned(w)'
      <3>1. req'[w].step = y /\ req'[w].row = req[w].row
        BY <1>4, <1>9
      <3>2. \A m \in Lists : req'[w].step \notin Owed(m) /\ req[w].step \notin Owed(m)
        BY <1>9, <3>1
      <3>3. \A m \in Lists : /\ req'[w].step \in Given(m) => Queue(m)' = {}
                             /\ req'[w].step \notin Given(m) => got'[w][m] = {}
        BY <1>9, <2>2, <2>4, <3>1 DEF Aligned
      <3>4. \A m \in Lists : Whole(w, m)' = Whole(w, "ids")'
        BY <2>6, <2>7, <3>2 DEF Aligned
      <3>5. Whole(w, "ids")' # {}
        BY <1>9, <2>7 DEF Aligned
      <3>. QED BY <2>4, <2>5, <3>1, <3>2, <3>3, <3>4, <3>5 DEF Aligned
    <2>9. req'[w].step = y /\ req'[w].left = req[w].left /\ w \in Busy'
          /\ req'[w] = [req[w] EXCEPT !.step = req'[w].step, !.left = req'[w].left]
      BY <1>4, <1>9
    <2>. QED BY <1>1, <1>9, <2>1, <2>7, <2>8, <2>9 DEF FlushDone, At
  <1>10. CASE NewIds(w) \/ NewTexts(w) \/ NewMetas(w)
    <2>1. CASE NewIds(w)
      <3>1. \A m \in Lists : /\ x \notin Owed(m) /\ "new texts" \notin Owed(m)
                             /\ "new texts" \in Naming(m) <=> x \in Naming(m) /\ m # "ids"
                             /\ "new texts" \in Given(m) <=> x \in Given(m) \/ m = "ids"
                             /\ ~(x \in Naming(m) /\ x \in Given(m))
        BY <2>1 DEF NewIds, At, Lists, Naming, Given, Owed
      <3>2. x \in Naming("ids") /\ "ids" \notin Bodies
        BY <2>1 DEF NewIds, At, Naming, Bodies
      <3>3. x \in Flushing \ {"flush"} /\ "new texts" \in Flushing \ {"flush"} /\ "ids" \in Lists
        BY <2>1 DEF NewIds, At, Flushing, Lists
      <3>4. /\ Goto(w, "new texts") /\ LetGo("ids")
            /\ pending' = IF "ids" = "ids" THEN {} ELSE pending
            /\ bodies' = IF "ids" \in Bodies THEN [bodies EXCEPT !["ids"] = {}] ELSE bodies
        BY <2>1, <3>2 DEF NewIds
      <3>. QED BY <1>9, <3>1, <3>2, <3>3, <3>4
    <2>2. CASE NewTexts(w)
      <3>1. \A m \in Lists : /\ x \notin Owed(m) /\ "new metas" \notin Owed(m)
                             /\ "new metas" \in Naming(m) <=> x \in Naming(m) /\ m # "texts"
                             /\ "new metas" \in Given(m) <=> x \in Given(m) \/ m = "texts"
                             /\ ~(x \in Naming(m) /\ x \in Given(m))
        BY <2>2 DEF NewTexts, At, Lists, Naming, Given, Owed
      <3>2. x \in Naming("texts") /\ "texts" \in Bodies
        BY <2>2 DEF NewTexts, At, Naming, Bodies, Lists
      <3>3. x \in Flushing \ {"flush"} /\ "new metas" \in Flushing \ {"flush"} /\ "texts" \in Lists
        BY <2>2 DEF NewTexts, At, Flushing, Lists
      <3>4. /\ Goto(w, "new metas") /\ LetGo("texts")
            /\ pending' = IF "texts" = "ids" THEN {} ELSE pending
            /\ bodies' = IF "texts" \in Bodies THEN [bodies EXCEPT !["texts"] = {}] ELSE bodies
        BY <2>2, <3>2 DEF NewTexts, NewBody
      <3>. QED BY <1>9, <3>1, <3>2, <3>3, <3>4
    <2>3. CASE NewMetas(w)
      <3>1. \A m \in Lists : /\ x \notin Owed(m) /\ "embed" \notin Owed(m)
                             /\ "embed" \in Naming(m) <=> x \in Naming(m) /\ m # "metas"
                             /\ "embed" \in Given(m) <=> x \in Given(m) \/ m = "metas"
                             /\ ~(x \in Naming(m) /\ x \in Given(m))
        BY <2>3 DEF NewMetas, At, Lists, Naming, Given, Owed
      <3>2. x \in Naming("metas") /\ "metas" \in Bodies
        BY <2>3 DEF NewMetas, At, Naming, Bodies, Lists
      <3>3. x \in Flushing \ {"flush"} /\ "embed" \in Flushing \ {"flush"} /\ "metas" \in Lists
        BY <2>3 DEF NewMetas, At, Flushing, Lists
      <3>4. /\ Goto(w, "embed") /\ LetGo("metas")
            /\ pending' = IF "metas" = "ids" THEN {} ELSE pending
            /\ bodies' = IF "metas" \in Bodies THEN [bodies EXCEPT !["metas"] = {}] ELSE bodies
        BY <2>3, <3>2 DEF NewMetas, NewBody
      <3>. QED BY <1>9, <3>1, <3>2, <3>3, <3>4
    <2>. QED BY <1>10, <2>1, <2>2, <2>3
  <1>11. CASE EmbedBatch(w)
    <2>1. At(w, "embed") /\ Goto(w, "flush") /\ Forget(w) /\ pending' = pending
          /\ searchable' = searchable \cup Local(w, "ids")
      BY <1>11 DEF EmbedBatch
    <2>2. \A l \in Lists : x \in Given(l) /\ x \notin Naming(l)
      BY <2>1 DEF At, Lists, Given, Naming
    <2>3. UNCHANGED <<bodies, live>> /\ got' = [got EXCEPT ![w] = NoLists]
      BY <2>1 DEF Forget
    <2>4. \A u \in Workers : \A l \in Lists : got'[u][l] = {}
      BY <1>5, <2>3 DEF Aligned, QueueOK, NoLists
    <2>5. \A l \in Lists : live'[l] = {} /\ Queue(l)' = {}
      BY <2>1, <2>2, <2>3 DEF Aligned, Queue
    <2>6. pending' = {}
      BY <1>6, <2>5 DEF Queue
    <2>7. Even'
      BY <2>4, <2>5, <2>6 DEF Even
    <2>8. req'[w].step = "flush" /\ "flush" \in Flushing
      BY <1>4, <2>1 DEF Flushing
    <2>9. req'[w].step \notin Between
      BY <2>8 DEF Between
    <2>10. Aligned(w)'
      BY <2>7, <2>9, EvenIsAlignedNext
    <2>11. Whole(w, "ids")' = {}
      BY <1>6, <2>5, <2>8 DEF Whole, Given
    <2>12. Local(w, "ids") = Whole(w, "ids")
      BY <2>1, WholeIds DEF WholeIdsOf
    <2>13. req'[w].left = req[w].left /\ w \in Busy'
           /\ req'[w] = [req[w] EXCEPT !.step = req'[w].step, !.left = req'[w].left]
      BY <1>4, <2>1, <2>8
    <2>. QED BY <1>1, <2>1, <2>6, <2>8, <2>10, <2>11, <2>12, <2>13 DEF FlushDone, At
  <1>12. CASE CheckQueue(w)
    <2>1. /\ x = "flush" /\ req[w].left > 0 /\ UNCHANGED <<pending, searchable, bodies, live, got>>
          /\ req' = [req EXCEPT ![w].left = req[w].left - 1,
                                ![w].step = IF pending = {} THEN "flush" ELSE "take ids"]
      BY <1>12 DEF CheckQueue, At, vars, qvars
    <2>. DEFINE y == IF pending = {} THEN "flush" ELSE "take ids"
    <2>2. req'[w] = [req[w] EXCEPT !.left = req[w].left - 1, !.step = y]
      BY <1>3, <2>1
    <2>3. req'[w].step = y /\ req'[w].left = req[w].left - 1 /\ y \in Flushing
      BY <1>3, <2>2 DEF Requests, Flushing
    <2>4. \A l \in Lists : x \notin Naming(l) \cup Given(l) \cup Owed(l)
                           /\ y \notin Naming(l) \cup Given(l) \cup Owed(l)
      BY <2>1 DEF Lists, Given, Naming, Owed
    <2>5. \A l \in Lists : Queue(l)' = Queue(l) /\ Whole(w, l) = Queue(l) /\ Whole(w, l)' = Queue(l)
      BY <2>1, <2>3, <2>4 DEF Queue, Whole
    <2>6. y # "flush" => pending # {}
      OBVIOUS
    <2>7. Aligned(w)'
      <3>1. req'[w].step = y
        BY <2>3
      <3>2. \A l \in Lists : live'[l] = {} /\ \A u \in Workers : got'[u][l] = {}
        BY <2>1, <2>4 DEF Aligned
      <3>3. \A l \in Lists : Whole(w, l)' = Whole(w, "ids")'
        BY <1>6, <2>4, <2>5 DEF Aligned
      <3>4. req'[w].step \in Flushing \ {"flush"} => Whole(w, "ids")' # {}
        BY <1>6, <2>5, <2>6, <3>1
      <3>5. \A l \in Lists : req'[w].step \notin Naming(l) \cup Given(l) \cup Owed(l)
        BY <2>4, <3>1
      <3>. QED BY <3>2, <3>3, <3>4, <3>5 DEF Aligned
    <2>8. w \in Busy'
      BY <2>3 DEF Busy, At, Flushing
    <2>9. req'[w] = [req[w] EXCEPT !.step = req'[w].step, !.left = req'[w].left]
      BY <1>3, <2>2, <2>3 DEF Requests
    <2>10. Whole(w, "ids")' = Whole(w, "ids") /\ searchable' = searchable
      BY <1>6, <2>1, <2>5
    <2>. QED BY <1>1, <2>1, <2>3, <2>7, <2>8, <2>9, <2>10 DEF FlushDone, At
  <1>13. CASE UpsertRaises(w)
    BY <1>13, WholeIds DEF UpsertRaises, WholeIdsOf
  <1>. QED BY <1>8, <1>10, <1>11, <1>12, <1>13 DEF FlushStep

\* A step of a request that nothing overlaps leaves the lists as its code says, and
\* its vectors where they were but for what it queues or re-tags.
LEMMA AlignedStep ==
  ASSUME TypeInv, NEW w \in Workers, Aligned(w), ServeStep(w)
  PROVE  /\ Aligned(w)'
         /\ ~FlushStep(w) => /\ Whole(w, "ids") = pending /\ Whole(w, "ids")' = pending'
                             /\ UNCHANGED live
                             /\ pending' = IF At(w, "queue")
                                           THEN pending \cup Queued(req[w].cand, req[w].row)
                                           ELSE pending
  <1>1. CASE FlushStep(w)
    BY <1>1, FlushMoves DEF FlushDone
  <1>. SUFFICES ASSUME ~FlushStep(w)
                PROVE  /\ Aligned(w)'
                       /\ Whole(w, "ids") = pending /\ Whole(w, "ids")' = pending' /\ UNCHANGED live
                       /\ pending' = IF At(w, "queue")
                                     THEN pending \cup Queued(req[w].cand, req[w].row)
                                     ELSE pending
    BY <1>1
  <1>2. /\ req[w] \in Requests /\ req[w].step \in RequestSteps
        /\ req \in [Workers -> {Idle} \cup Requests] /\ w \in Busy
        /\ w \in Busy' => Effect(w)
    BY StepEffect, StepAt DEF TypeInv, Shape
  <1>3. req[w].step \notin Flushing \ {"flush"}
    BY StepAt
  <1>4. "ids" \in Lists /\ Queue("ids") = pending /\ \A l \in Bodies : Queue(l) = bodies[l]
    BY DEF Lists, Queue, Bodies
  <1>5. QueueOK
    BY DEF TypeInv, RequestTypeOK, QueueOK
  <1>6. Whole(w, "ids") = pending
    BY <1>3 DEF Whole, Given, Flushing, Queue
  \* From one of the steps at which all three lists agree to another one.
  <1>7. ASSUME req[w].step \notin Between, req'[w].step \notin Between,
               UNCHANGED <<bodies, live, got, pending>>
        PROVE  Aligned(w)' /\ Whole(w, "ids")' = pending'
    <2>1. Even
      BY <1>7, EvenIsAligned
    <2>2. Even'
      BY <1>7, <2>1 DEF Even, Queue
    <2>3. Aligned(w)'
      BY <1>7, <2>2, EvenIsAlignedNext
    <2>4. req'[w].step \notin Given("ids")
      BY <1>7 DEF Between, Flushing, Given
    <2>. QED BY <2>3, <2>4 DEF Whole, Queue
  <1>8. CASE At(w, "queue")
    <2>1. /\ QueueId(w) /\ req[w].step \notin Between /\ UNCHANGED <<bodies, live, got>>
          /\ pending' = pending \cup Queued(req[w].cand, req[w].row)
      BY <1>8, StepAt DEF QueueId, qvars, At, Between, Flushing
    <2>2. Even
      BY <2>1, EvenIsAligned
    <2>3. CASE Queued(req[w].cand, req[w].row) = {}
      <3>1. req' = [req EXCEPT ![w].step = "source"] /\ pending' = pending
        BY <2>1, <2>3 DEF QueueId, Goto
      <3>2. req'[w].step = "source"
        BY <1>2, <3>1 DEF Requests
      <3>3. req'[w].step \notin Between
        BY <3>2 DEF Between, Flushing
      <3>. QED BY <1>6, <1>7, <1>8, <2>1, <3>1, <3>3
    <2>4. CASE Queued(req[w].cand, req[w].row) # {}
      <3>1. req' = [req EXCEPT ![w].step = "text"] /\ pending' = pending \cup {req[w].row}
        BY <2>1, <2>4 DEF QueueId, Goto, Queued
      <3>2. req'[w].step = "text" /\ req'[w].row = req[w].row
        BY <1>2, <3>1 DEF Requests
      <3>3. \A l \in Lists : req'[w].step \notin Naming(l) \cup Given(l)
                             /\ (req'[w].step \in Owed(l) <=> l # "ids")
        BY <3>2 DEF Lists, Naming, Given, Owed
      <3>4. \A l \in Lists : /\ live'[l] = {} /\ \A u \in Workers : got'[u][l] = {}
                             /\ Whole(w, l)' = IF l = "ids" THEN pending' ELSE pending
        BY <2>1, <2>2, <3>3 DEF Even, Whole, Queue
      <3>5. req'[w].step \notin Flushing
        BY <3>2 DEF Flushing
      <3>. QED BY <1>4, <1>6, <1>8, <2>1, <3>1, <3>2, <3>3, <3>4, <3>5 DEF Aligned
    <2>. QED BY <2>3, <2>4
  <1>9. CASE At(w, "text")
    <2>1. QueueText(w)
      BY <1>9, StepAt
    <2>2. /\ req' = [req EXCEPT ![w].step = "meta"] /\ UNCHANGED <<pending, live, got>>
          /\ bodies' = [bodies EXCEPT !["texts"] = @ \cup {req[w].row}]
      BY <2>1 DEF QueueText, QueueBody, Goto, vars
    <2>3. req'[w].step = "meta" /\ req'[w].row = req[w].row
      BY <1>2, <2>2 DEF Requests
    <2>4. \A l \in Lists : /\ req'[w].step \notin Naming(l) \cup Given(l)
                           /\ req'[w].step \in Owed(l) <=> l = "metas"
                           /\ req[w].step \notin Naming(l) \cup Given(l)
                           /\ req[w].step \in Owed(l) <=> l # "ids"
      BY <1>9, <2>3 DEF Lists, Naming, Given, Owed, At
    <2>5. \A l \in Lists : Queue(l)' = IF l = "texts" THEN Queue(l) \cup {req[w].row} ELSE Queue(l)
      BY <1>5, <2>2 DEF Queue, QueueOK, Bodies, Lists
    <2>6. \A l \in Lists : Whole(w, l) = Queue(l) /\ Whole(w, l)' = Queue(l)'
      BY <2>4 DEF Whole
    <2>7. \A l \in Lists : live'[l] = {} /\ \A u \in Workers : got'[u][l] = {}
      BY <2>2, <2>4 DEF Aligned
    <2>8. \A l \in Lists : Whole(w, "ids")' = IF req'[w].step \in Owed(l)
                                              THEN Whole(w, l)' \cup {req'[w].row} ELSE Whole(w, l)'
      <3>1. \A l \in Lists : Queue("ids") = IF l = "ids" THEN Queue(l) ELSE Queue(l) \cup {req[w].row}
        <4>1. \A l \in Lists : Whole(w, "ids") = IF req[w].step \in Owed(l)
                                                 THEN Whole(w, l) \cup {req[w].row}
                                                 ELSE Whole(w, l)
          BY <1>4 DEF Aligned
        <4>2. Whole(w, "ids") = Queue("ids")
          BY <2>6 DEF Lists
        <4>. QED BY <2>4, <2>6, <4>1, <4>2
      <3>2. Queue("ids")' = Queue("ids")
        BY <2>5 DEF Lists
      <3>3. ASSUME NEW l \in Lists
            PROVE  Queue("ids")' = IF l = "metas" THEN Queue(l)' \cup {req[w].row} ELSE Queue(l)'
        <4>1. CASE l = "ids"
          BY <3>2, <4>1
        <4>2. CASE l = "texts"
          <5>1. Queue(l)' = Queue(l) \cup {req[w].row}
            BY <2>5, <4>2
          <5>2. Queue("ids") = Queue(l) \cup {req[w].row}
            BY <3>1, <4>2
          <5>. QED BY <3>2, <4>2, <5>1, <5>2
        <4>3. CASE l = "metas"
          <5>1. Queue(l)' = Queue(l)
            BY <2>5, <4>3
          <5>2. Queue("ids") = Queue(l) \cup {req[w].row}
            BY <3>1, <4>3
          <5>. QED BY <3>2, <4>3, <5>1, <5>2
        <4>. QED BY <4>1, <4>2, <4>3 DEF Lists
      <3>4. "ids" \in Lists
        BY DEF Lists
      <3>. QED BY <2>3, <2>4, <2>6, <3>3, <3>4
    <2>9. req'[w].step \notin Flushing
      BY <2>3 DEF Flushing
    <2>. QED BY <1>4, <1>6, <1>9, <2>2, <2>4, <2>5, <2>6, <2>7, <2>8, <2>9 DEF Aligned, At
  <1>10. CASE At(w, "meta")
    <2>1. QueueMeta(w)
      BY <1>10, StepAt
    <2>2. /\ req' = [req EXCEPT ![w].step = "source"] /\ UNCHANGED <<pending, live, got>>
          /\ bodies' = [bodies EXCEPT !["metas"] = @ \cup {req[w].row}]
      BY <2>1 DEF QueueMeta, QueueBody, Goto, vars
    <2>3. req'[w].step = "source"
      BY <1>2, <2>2 DEF Requests
    <2>4. \A l \in Lists : /\ req[w].step \notin Naming(l) \cup Given(l)
                           /\ req[w].step \in Owed(l) <=> l = "metas"
      BY <1>10 DEF Lists, Naming, Given, Owed, At
    <2>5. \A l \in Lists : Queue(l)' = IF l = "metas" THEN Queue(l) \cup {req[w].row} ELSE Queue(l)
      BY <1>5, <2>2 DEF Queue, QueueOK, Bodies, Lists
    <2>6. \A l \in Lists : Whole(w, l) = Queue(l)
      BY <2>4 DEF Whole
    <2>7. \A l \in Lists : live'[l] = {} /\ \A u \in Workers : got'[u][l] = {}
      BY <2>2, <2>4 DEF Aligned
    <2>8. \A l \in Lists : Queue(l)' = pending'
      BY <1>4, <2>2, <2>4, <2>5, <2>6 DEF Aligned, Lists
    <2>9. Even'
      BY <2>7, <2>8 DEF Even
    <2>10. req'[w].step \notin Between /\ req'[w].step \notin Given("ids")
      BY <2>3 DEF Between, Flushing, Given
    <2>11. Aligned(w)'
      BY <2>9, <2>10, EvenIsAlignedNext
    <2>. QED BY <1>4, <1>6, <1>10, <2>2, <2>8, <2>10, <2>11 DEF Whole, At
  <1>11. CASE ~At(w, "queue") /\ ~At(w, "text") /\ ~At(w, "meta")
    <2>1. req[w].step \notin Between
      BY <1>3, <1>11 DEF Between, At
    <2>2. UNCHANGED qvars
      BY <1>2, <1>3, <1>11, StepAt DEF At, RequestSteps, Retiring, Minted, Flushing, qvars,
        CheckExisting, AddProvenance, InsertRow, InsertEdge, RecordSource, LinkOld, FlipStatus,
        DropEdge, Retag, KeepOldSource, HoldCandidate, CheckQueue, Search
    <2>3. pending' = pending
      <3>1. ~At(w, "new ids")
        BY <1>3 DEF At, Flushing
      <3>. QED BY <1>11, <3>1, StepLeaves
    <2>4. req'[w].step \notin Between
      <3>1. CASE At(w, "flush")
        <4>1. req' = [req EXCEPT ![w].step = "oldsource"] \/ req' = [req EXCEPT ![w] = Idle]
          BY <3>1, StepAt DEF Retag, Search, Goto, Done, FlushStep
        <4>2. req'[w].step = "oldsource" \/ req'[w] = Idle
          BY <1>2, <4>1 DEF Requests
        <4>3. req'[w].step \in {"oldsource", "idle"}
          BY <4>2 DEF Idle
        <4>. QED BY <4>3 DEF Between, Flushing
      <3>2. CASE w \notin Busy'
        BY <3>2 DEF Busy, At, Between, Flushing
      <3>3. CASE w \in Busy' /\ ~At(w, "flush")
        <4>1. Effect(w) /\ req[w].step \notin Flushing \cup {"queue", "text", "meta"}
          BY <1>2, <1>3, <1>11, <3>3 DEF At
        <4>2. req'[w].step \in {"insert", "again", "edge", "queue", "link", "unedge", "flush", "flip"}
          BY <1>2, <4>1 DEF Effect, RequestSteps, Retiring, Minted, At
        <4>. QED BY <4>2 DEF Between, Flushing
      <3>. QED BY <3>1, <3>2, <3>3
    <2>. QED BY <1>6, <1>7, <1>11, <2>1, <2>2, <2>3, <2>4 DEF qvars
  <1>. QED BY <1>8, <1>9, <1>10, <1>11

-----------------------------------------------------------------------------
(* The embedding queue: taken apart list by list, it loses no vector that a *)
(* failure did not drop, as long as requests do not overlap.               *)

AloneQueue == ~overlapped => \A w \in Workers : Busy \subseteq {w} => Aligned(w)

\* Where the vector of assertion i is.
AccountedFor(i) ==
  \/ rows[i].slot \in StatusSlots
  \/ i \in searchable \cup pending \cup lost
  \/ \E w \in Busy : i \in Local(w, "ids")
  \/ \E w \in Writers : req[w].row = i /\ req[w].step \in {"edge", "queue"}

VectorInv == RequestInv /\ AloneInv /\ AloneQueue /\ AloneVectorsAccountedFor

\* Which thread is about to run, or has just run, makes no difference.
LEMMA AlignedForAll ==
  \A u, w \in Workers :
    req[u].step \notin Between /\ req[w].step \notin Between => (Aligned(u) <=> Aligned(w))
  BY EvenIsAligned

LEMMA AlignedForAllNext ==
  (\A u, w \in Workers :
     req[u].step \notin Between /\ req[w].step \notin Between => (Aligned(u) <=> Aligned(w)))'
  BY AlignedForAll, PTL

LEMMA AloneWorker ==
  ASSUME TypeInv, AloneInv, AloneQueue, ~overlapped, NEW w \in Busy
  PROVE  w \in Workers /\ Busy = {w} /\ Aligned(w) /\ WholeIdsOf(w)
  <1>1. w \in Workers /\ Busy = {w}
    BY DEF AloneInv, Busy
  <1>. QED BY <1>1, WholeIds DEF AloneQueue

LEMMA ServeKeepsQueue ==
  ASSUME TypeInv, AloneInv, AloneQueue, NEW w \in Workers, ServeStep(w), ~overlapped
  PROVE  \A u \in Workers : Busy' \subseteq {u} => Aligned(u)'
  <1>1. w \in Busy
    BY StepEffect
  <1>2. Aligned(w)' /\ Busy' \in {Busy, Busy \ {w}} /\ Busy = {w}
    BY <1>1, AloneWorker, AlignedStep, StepEffect
  <1>3. ASSUME NEW u \in Workers, Busy' \subseteq {u}, u # w
        PROVE  Aligned(u)'
    <2>1. w \notin Busy' /\ u \notin Busy'
      BY <1>2, <1>3
    <2>2. req'[w].step \notin Between /\ req'[u].step \notin Between
      BY <2>1 DEF Busy, At, Between, Flushing
    <2>. QED BY <1>2, <2>2, AlignedForAllNext
  <1>. QED BY <1>2, <1>3

LEMMA ServeKeepsVectors ==
  ASSUME VectorInv, NEW w \in Workers, ServeStep(w), ~overlapped
  PROVE  VectorsAccountedFor'
  <1>. USE DEF VectorInv
  <1>1. TypeInv /\ w \in Busy /\ req[w] \in Requests /\ Busy \subseteq Workers
        /\ (\A u \in Workers \ {w} : req'[u] = req[u])
        /\ Busy' \in {Busy, Busy \ {w}}
        /\ (w \in Busy' => Carried(w) /\ Effect(w))
        /\ req \in [Workers -> {Idle} \cup Requests]
    BY StepEffect DEF RequestInv, Busy, TypeInv, Shape
  <1>2. /\ Busy = {w} /\ Aligned(w) /\ WholeIdsOf(w) /\ Aligned(w)' /\ WholeIdsOf(w)'
    BY <1>1, AloneWorker, AlignedStep, WholeIdsNext
  <1>3. /\ lost' = lost
        /\ At(w, "insert") => Ids' = Ids \cup {Len(rows) + 1}
        /\ ~At(w, "insert") => Ids' = Ids
    <2>1. /\ rows' \in Seq(RowSet) /\ rows \in Seq(RowSet) /\ lost' = lost
          /\ At(w, "insert") => Ids' = Ids \cup {Len(rows) + 1}
          /\ ~At(w, "insert") => Len(rows') = Len(rows)
      BY <1>1, StepStores DEF TypeInv, RequestTypeOK, TypeOK
    <2>2. Ids' = 1..Len(rows') /\ Ids = 1..Len(rows)
      BY <2>1 DEF Ids
    <2>. QED BY <2>1, <2>2
  <1>4. \A i \in Ids : /\ rows'[i].slot = rows[i].slot
                       /\ rows'[i].status = "accepted" => rows[i].status = "accepted"
    BY <1>1, RowsOnlyRetire DEF RowsGrow
  \* Enough: the vector is in the collection or in what the flush or the queue has.
  <1>5. ASSUME NEW i, i \in searchable' \cup Whole(w, "ids")'
        PROVE  AccountedFor(i)'
    <2>1. CASE w \in Busy'
      BY <1>2, <1>5, <2>1 DEF WholeIdsOf, AccountedFor
    <2>2. CASE w \notin Busy'
      <3>1. req'[w].step \notin Given("ids")
        BY <1>1, <2>2 DEF Busy, At, Given
      <3>. QED BY <1>2, <1>5, <3>1 DEF WholeIdsOf, AccountedFor
    <2>. QED BY <2>1, <2>2
  <1>6. ASSUME NEW i \in Accepted, i \in searchable \cup Whole(w, "ids")
        PROVE  i \in searchable' \cup Whole(w, "ids")'
    <2>1. CASE FlushStep(w)
      BY <1>1, <1>2, <1>6, <2>1, FlushMoves DEF FlushDone
    <2>2. CASE ~FlushStep(w)
      <3>1. Whole(w, "ids") \subseteq Whole(w, "ids")'
        BY <1>1, <1>2, <2>2, AlignedStep
      <3>2. CASE ~At(w, "flush")
        <4>1. ~At(w, "embed")
          BY <2>2, StepAt DEF At, Flushing
        <4>. QED BY <1>6, <3>1, <3>2, <4>1, StepLeaves
      <3>3. CASE At(w, "flush")
        <4>1. CASE Search(w)
          BY <1>6, <3>1, <4>1 DEF Search, vars
        <4>2. CASE Retag(w)
          <5>1. searchable' = searchable \ {req[w].old} /\ w \in Writers
            BY <1>1, <4>2 DEF Retag, Writers
          <5>2. WriteOK(w) /\ req[w].step \in Retiring
            BY <3>3, <5>1 DEF RequestInv, At, Retiring, Flushing
          <5>3. rows[req[w].old].status = "superseded"
            BY <5>2 DEF WriteOK, Superseded
          <5>. QED BY <1>6, <3>1, <5>1, <5>3 DEF Accepted
        <4>. QED BY <2>2, <3>3, <4>1, <4>2, StepAt DEF FlushStep
      <3>. QED BY <3>2, <3>3
    <2>. QED BY <2>1, <2>2
  <1>7. ASSUME NEW i \in Accepted'
        PROVE  AccountedFor(i)'
    <2>1. CASE i \notin Ids
      <3>1. At(w, "insert") /\ i = Len(rows) + 1
        BY <1>3, <1>7, <2>1 DEF Accepted
      <3>2. InsertRow(w)
        BY <3>1, StepAt
      <3>3. req' = [req EXCEPT ![w].step = "edge", ![w].row = Len(rows) + 1]
        BY <3>2 DEF InsertRow
      <3>4. req'[w].step = "edge" /\ req'[w].row = i /\ req'[w].kind = req[w].kind
        BY <1>1, <3>1, <3>3 DEF Requests
      <3>5. w \in Busy' /\ req[w].kind = "write"
        <4>1. w \in Busy'
          BY <3>4 DEF Busy, At
        <4>. QED BY <1>1, <3>1, <4>1, OfAWrite DEF At, Flushing
      <3>. QED BY <3>4, <3>5 DEF AccountedFor, Writers
    <2>2. CASE i \in Ids
      <3>1. i \in Accepted /\ rows'[i].slot = rows[i].slot
        BY <1>4, <1>7, <2>2 DEF Accepted
      <3>2. CASE rows[i].slot \in StatusSlots
        BY <3>1, <3>2 DEF AccountedFor
      <3>3. CASE i \in lost
        BY <1>3, <3>3 DEF AccountedFor
      <3>4. CASE i \in searchable \cup Whole(w, "ids")
        BY <1>5, <1>6, <3>1, <3>4
      <3>5. ASSUME NEW u \in Writers, req[u].row = i, req[u].step \in {"edge", "queue"}
            PROVE  AccountedFor(i)'
        <4>1. u = w
          BY <1>2 DEF Writers
        <4>2. CASE At(w, "edge")
          <5>1. InsertEdge(w)
            BY <4>2, StepAt
          <5>2. req' = [req EXCEPT ![w].step = "queue"]
            BY <5>1 DEF InsertEdge, Goto
          <5>3. req'[w].step = "queue" /\ req'[w].row = i /\ req'[w].kind = "write"
            BY <1>1, <3>5, <4>1, <5>2 DEF Requests, Writers
          <5>4. w \in Busy'
            BY <5>3 DEF Busy, At
          <5>. QED BY <5>3, <5>4 DEF AccountedFor, Writers
        <4>3. CASE At(w, "queue")
          <5>1. /\ QueueId(w) /\ rows[i].slot = req[w].cand.slot
            BY <3>5, <4>1, <4>3, StepAt DEF RequestInv, WriteOK, Minted, At
          <5>2. pending' = pending \cup Queued(req[w].cand, i)
            BY <3>5, <4>1, <5>1 DEF QueueId
          <5>. QED BY <3>1, <5>1, <5>2 DEF AccountedFor, Queued
        <4>. QED BY <3>5, <4>1, <4>2, <4>3 DEF At
      <3>6. AccountedFor(i)
        BY <3>1 DEF AloneVectorsAccountedFor, VectorsAccountedFor, AccountedFor
      <3>7. i \in pending \/ (\E u \in Busy : i \in Local(u, "ids")) => i \in Whole(w, "ids")
        BY <1>2 DEF WholeIdsOf
      <3>. QED BY <3>2, <3>3, <3>4, <3>5, <3>6, <3>7 DEF AccountedFor
    <2>. QED BY <2>1, <2>2
  <1>. QED BY <1>7 DEF VectorsAccountedFor, AccountedFor

LEMMA VectorInvStep ==
  ASSUME VectorInv, [RequestsNext]_rvars, RequestInv'
  PROVE  VectorInv'
  <1>. USE DEF VectorInv
  <1>0. TypeInv /\ req \in [Workers -> {Idle} \cup Requests] /\ Busy \subseteq Workers
    BY DEF RequestInv, TypeInv, Shape, Busy
  <1>1. AloneInv' /\ (~overlapped' => ~overlapped)
    BY <1>0, AloneStep
  <1>. SUFFICES ASSUME ~overlapped, ~overlapped'
                PROVE  /\ \A u \in Workers : Busy' \subseteq {u} => Aligned(u)'
                       /\ VectorsAccountedFor'
    BY <1>1 DEF AloneQueue, AloneVectorsAccountedFor
  <1>2. ASSUME NEW w \in Workers, ServeStep(w)
        PROVE  /\ \A u \in Workers : Busy' \subseteq {u} => Aligned(u)'
               /\ VectorsAccountedFor'
    BY <1>0, <1>2, ServeKeepsQueue, ServeKeepsVectors
  \* A request begins: none was in flight.
  <1>3. ASSUME NEW w \in Workers, NEW r, At(w, "idle"), r.step \notin Between \cup {"idle"},
               req' = [req EXCEPT ![w] = r], UNCHANGED <<vars, qvars, faults, lost>>
        PROVE  /\ \A u \in Workers : Busy' \subseteq {u} => Aligned(u)'
               /\ VectorsAccountedFor'
    <2>1. req'[w] = r /\ \A u \in Workers \ {w} : req'[u] = req[u]
      BY <1>0, <1>3
    <2>2. w \in Busy'
      BY <1>3, <2>1 DEF Busy, At
    <2>3. Busy = {}
      <3>1. \A u \in Busy : u # w /\ u \in Busy'
        BY <1>0, <1>3, <2>1 DEF Busy, At
      <3>. QED BY <1>1, <2>2, <3>1 DEF AloneInv
    <2>4. Aligned(w) /\ req[w].step \notin Between
      BY <1>3, <2>3 DEF AloneQueue, At, Between, Flushing
    <2>5. Even'
      <3>1. Even
        BY <2>4, EvenIsAligned
      <3>. QED BY <1>3, <3>1 DEF Even, Queue, qvars, vars
    <2>6. Aligned(w)'
      BY <1>3, <2>1, <2>5, EvenIsAlignedNext
    <2>7. \A i \in Accepted : /\ i \in searchable \cup pending \cup lost
                              \/ rows[i].slot \in StatusSlots
      BY <2>3 DEF AloneVectorsAccountedFor, VectorsAccountedFor, Writers
    <2>8. Accepted' = Accepted /\ UNCHANGED <<rows, searchable, pending, lost>>
      BY <1>3 DEF Accepted, Ids, vars
    <2>9. VectorsAccountedFor'
      BY <2>7, <2>8 DEF VectorsAccountedFor
    <2>. QED BY <2>2, <2>6, <2>9
  <1>4. ASSUME NEW w \in Workers, NEW c \in Candidates, BeginWrite(w, c)
        PROVE  /\ \A u \in Workers : Busy' \subseteq {u} => Aligned(u)'
               /\ VectorsAccountedFor'
    <2>. DEFINE olds == Verdict(c, View).against
    <2>1. PICK first \in {"check", "flip", "hold"} :
            req' = [req EXCEPT ![w] = Begun("write", first, c, olds, 2, {})]
      BY <1>4 DEF BeginWrite
    <2>. DEFINE r == Begun("write", first, c, olds, 2, {})
    <2>2. r.step \notin Between \cup {"idle"} /\ req' = [req EXCEPT ![w] = r]
      BY <2>1 DEF Begun, Between, Flushing
    <2>3. At(w, "idle") /\ UNCHANGED <<vars, qvars, faults, lost>>
      BY <1>4 DEF BeginWrite
    <2>. HIDE DEF r
    <2>. QED BY <1>3, <2>2, <2>3
  <1>5. ASSUME NEW w \in Workers, BeginQuery(w)
        PROVE  /\ \A u \in Workers : Busy' \subseteq {u} => Aligned(u)'
               /\ VectorsAccountedFor'
    <2>. DEFINE r == Begun("query", "flush", "none", {}, 1, Answered)
    <2>1. r.step \notin Between \cup {"idle"}
      BY DEF Begun, Between, Flushing
    <2>2. At(w, "idle") /\ req' = [req EXCEPT ![w] = r] /\ UNCHANGED <<vars, qvars, faults, lost>>
      BY <1>5 DEF BeginQuery
    <2>. HIDE DEF r
    <2>. QED BY <1>3, <2>1, <2>2
  <1>6. ASSUME NEW w \in Workers, EmbedFails(w)
        PROVE  /\ \A u \in Workers : Busy' \subseteq {u} => Aligned(u)'
               /\ VectorsAccountedFor'
    <2>1. /\ At(w, "embed") /\ req'[w] = Idle /\ \A u \in Workers \ {w} : req'[u] = req[u]
          /\ lost' = lost \cup Local(w, "ids") /\ UNCHANGED vars /\ Forget(w)
      BY <1>0, <1>6 DEF EmbedFails, Done
    <2>2. w \in Busy
      BY <1>0, <2>1 DEF Busy, At
    <2>3. Busy = {w} /\ Aligned(w) /\ WholeIdsOf(w)
      BY <1>0, <2>2, AloneWorker
    <2>4. \A u \in Workers : req'[u].step = "idle"
      BY <1>0, <2>1, <2>3 DEF Busy, At, Idle
    <2>5. Even'
      <3>1. \A l \in Lists : /\ req[w].step \in Given(l) /\ req[w].step \notin Naming(l)
        BY <2>1 DEF At, Lists, Given, Naming
      <3>2. \A l \in Lists : live[l] = {} /\ Queue(l) = {} /\ \A u \in Workers \ {w} : got[u][l] = {}
        BY <2>3, <3>1 DEF Aligned
      <3>3. \A l \in Lists : live'[l] = {} /\ Queue(l)' = {}
        BY <2>1, <3>2 DEF Forget, Queue, vars
      <3>4. pending' = {}
        BY <3>3 DEF Queue, Lists
      <3>5. \A u \in Workers : \A l \in Lists : got'[u][l] = {}
        BY <2>1, <3>2 DEF Forget, NoLists, TypeInv, RequestTypeOK, RequestInv
      <3>. QED BY <3>3, <3>4, <3>5 DEF Even
    <2>6. \A u \in Workers : Aligned(u)'
      BY <2>4, <2>5, EvenIsAlignedNext DEF Between, Flushing
    <2>7. Accepted' = Accepted /\ UNCHANGED <<rows, searchable, pending>>
      BY <2>1 DEF Accepted, Ids, vars
    <2>8. ASSUME NEW i \in Accepted
          PROVE  AccountedFor(i)'
      <3>1. AccountedFor(i)
        BY DEF AloneVectorsAccountedFor, VectorsAccountedFor, AccountedFor
      <3>2. \A u \in Busy : u = w /\ req[u].step \notin {"edge", "queue"}
        BY <2>1, <2>3 DEF At
      <3>. QED BY <2>1, <2>7, <3>1, <3>2 DEF AccountedFor, Writers
    <2>. QED BY <2>6, <2>7, <2>8 DEF VectorsAccountedFor, AccountedFor
  <1>7. CASE Stop
    <2>1. \A u \in Workers : req'[u].step = "idle"
      BY <1>7 DEF Stop, Idle
    <2>2. Accepted' = Accepted /\ rows' = rows /\ pending' = {}
          /\ searchable' = (IF PersistentVectors THEN searchable ELSE {})
      BY <1>7 DEF Stop, Restart, durable, Accepted, Ids
    <2>3. lost' = lost \cup (Unembedded \ {0}) \cup (IF PersistentVectors THEN {} ELSE Ids)
      BY <1>7 DEF Stop
    <2>4. Accepted \subseteq Ids /\ 0 \notin Ids
      BY <1>0 DEF TypeInv, RequestTypeOK, TypeOK, Accepted, Ids
    <2>5. ASSUME NEW i \in Accepted
          PROVE  AccountedFor(i)'
      <3>1. AccountedFor(i)
        BY DEF AloneVectorsAccountedFor, VectorsAccountedFor, AccountedFor
      <3>2. i \in Ids /\ i # 0
        BY <2>4
      <3>. QED BY <2>2, <2>3, <3>1, <3>2 DEF AccountedFor, Unembedded, InHand
    <2>6. Even'
      <3>1. bodies' = [l \in Bodies |-> {}] /\ live' = NoLists /\ got' = [w \in Workers |-> NoLists]
        BY <1>7 DEF Stop
      <3>. QED BY <2>2, <3>1 DEF Even, Queue, NoLists, Bodies
    <2>7. \A u \in Workers : Aligned(u)'
      BY <2>1, <2>6, EvenIsAlignedNext DEF Between, Flushing
    <2>. QED BY <2>2, <2>5, <2>7 DEF VectorsAccountedFor, AccountedFor
  <1>8. CASE UNCHANGED rvars
    <2>1. /\ Busy' = Busy /\ Writers' = Writers /\ Accepted' = Accepted /\ req' = req
          /\ UNCHANGED <<rows, searchable, pending, lost, bodies, live, got>>
      BY <1>8 DEF rvars, vars, qvars, Busy, Writers, At, Accepted, Ids
    <2>2. VectorsAccountedFor'
      BY <2>1 DEF AloneVectorsAccountedFor, VectorsAccountedFor, Local, Queue
    <2>3. \A u \in Workers : Aligned(u)' <=> Aligned(u)
      BY <2>1 DEF Aligned, Whole, Queue
    <2>. QED BY <2>1, <2>2, <2>3 DEF AloneQueue
  <1>. QED BY <1>2, <1>4, <1>5, <1>6, <1>7, <1>8 DEF RequestsNext

LEMMA VectorInvAlways == RequestsSpec => []VectorInv
  <1>1. RequestsInit => AloneQueue /\ AloneVectorsAccountedFor
    <2>. SUFFICES ASSUME RequestsInit
                  PROVE  AloneQueue /\ AloneVectorsAccountedFor
      OBVIOUS
    <2>1. \A w \in Workers : req[w].step \notin Between
      BY DEF RequestsInit, Idle, Between, Flushing
    <2>2. Even
      BY DEF RequestsInit, Init, Even, Queue, NoLists, Bodies
    <2>3. \A w \in Workers : Aligned(w)
      BY <2>1, <2>2, EvenIsAligned
    <2>4. Accepted = {}
      BY DEF RequestsInit, Init, Accepted, Ids
    <2>. QED BY <2>3, <2>4 DEF AloneQueue, AloneVectorsAccountedFor, VectorsAccountedFor
  <1>2. VectorInv /\ [RequestsNext]_rvars /\ RequestInv' => VectorInv'
    BY VectorInvStep
  <1>3. RequestInv /\ AloneInv /\ AloneQueue /\ AloneVectorsAccountedFor => VectorInv
    BY DEF VectorInv
  <1>. QED BY <1>1, <1>2, <1>3, RequestInvAlways, AloneAlways, PTL DEF RequestsSpec

\* As long as requests do not overlap, a flush that takes the queue apart list by
\* list loses no vector: only a failed embedding call or a stop does.
THEOREM NoVectorGoesMissing == RequestsSpec => []AloneVectorsAccountedFor
  <1>1. VectorInv => AloneVectorsAccountedFor
    BY DEF VectorInv
  <1>. QED BY <1>1, VectorInvAlways, PTL

-----------------------------------------------------------------------------
(* Reads. *)

\* A query in flight: what it began with has its vector somewhere, and once it has
\* flushed the queue is empty.
QueryFresh(w) ==
  req[w].kind = "query" =>
    /\ req[w].due \subseteq Ids \ lost
    /\ \A i \in req[w].due : rows[i].slot \notin StatusSlots
    /\ At(w, "flush") /\ req[w].left = 0 => pending = {}

FreshInv ==
  /\ VectorInv /\ AloneInv
  /\ ~overlapped => \A w \in Busy : QueryFresh(w)

LEMMA FreshStep ==
  ASSUME FreshInv, [RequestsNext]_rvars, VectorInv', AloneInv'
  PROVE  FreshInv'
  <1>. USE DEF FreshInv
  <1>0. /\ TypeInv /\ req \in [Workers -> {Idle} \cup Requests] /\ Busy \subseteq Workers
        /\ Len(rows) \in Nat /\ Ids = 1..Len(rows)
    BY DEF VectorInv, RequestInv, TypeInv, Shape, Busy, RequestTypeOK, TypeOK, Ids
  <1>1. SUFFICES ASSUME ~overlapped', NEW w \in Busy'
                 PROVE  QueryFresh(w)'
    OBVIOUS
  <1>2. ~overlapped
    BY <1>0, <1>1, AloneStep
  <1>3. CASE UNCHANGED rvars
    BY <1>1, <1>2, <1>3 DEF rvars, vars, Busy, At, QueryFresh, Ids
  <1>4. ASSUME NEW u \in Workers, ServeStep(u)
        PROVE  QueryFresh(w)'
    <2>1. /\ u \in Busy /\ Busy' \in {Busy, Busy \ {u}} /\ req[u] \in Requests
          /\ u \in Busy' => Carried(u)
          /\ req[u].kind = "query" => req[u].step \in Flushing
      BY <1>0, <1>4, StepEffect
    <2>2. w = u /\ w \in Busy /\ QueryFresh(w)
      BY <1>1, <1>2, <2>1 DEF AloneInv
    <2>3. SUFFICES ASSUME req[w].kind = "query"
                   PROVE  QueryFresh(w)'
      BY <1>1, <2>1, <2>2 DEF Carried, QueryFresh
    <2>4. CASE FlushStep(w)
      <3>1. Aligned(w)
        BY <1>0, <1>2, <2>2, AloneWorker DEF VectorInv
      <3>2. FlushDone(w)
        BY <1>0, <2>2, <2>4, <3>1, FlushMoves DEF Busy
      <3>3. req'[w].due = req[w].due /\ rows' = rows /\ lost' = lost
        BY <2>1, <2>2, <3>2 DEF FlushDone, Requests, durable
      <3>4. At(w, "flush") => pending' = pending
        BY <1>0, <2>2, <2>4, FlushLeaves DEF At, Busy
      <3>5. At(w, "flush")' /\ req'[w].left = 0 => pending' = {}
        BY <3>2, <3>4 DEF FlushDone, At
      <3>. QED BY <2>2, <2>3, <3>3, <3>5 DEF QueryFresh, Ids
    <2>5. CASE Search(w)
      <3>1. req'[w] = Idle
        BY <1>0, <2>1, <2>2, <2>5 DEF Search, Done
      <3>. QED BY <1>1, <3>1 DEF Busy, At, Idle
    <2>6. FlushStep(w) \/ Search(w)
      BY <1>0, <1>4, <2>1, <2>2, <2>3, StepAt DEF FlushStep, Retag, At, Flushing, Busy
    <2>. QED BY <2>4, <2>5, <2>6
  <1>5. ASSUME NEW u \in Workers, NEW c \in Candidates, BeginWrite(u, c)
        PROVE  QueryFresh(w)'
    <2>1. PICK first, olds : req' = [req EXCEPT ![u] = Begun("write", first, c, olds, 2, {})]
      BY <1>5 DEF BeginWrite
    <2>. DEFINE r == Begun("write", first, c, olds, 2, {})
    <2>2. r.kind = "write" /\ req' = [req EXCEPT ![u] = r] /\ UNCHANGED <<vars, lost>>
      BY <1>5, <2>1 DEF Begun, BeginWrite
    <2>. HIDE DEF r
    <2>3. req'[u] = r /\ \A v \in Workers \ {u} : req'[v] = req[v]
      BY <1>0, <2>2
    <2>4. w # u => w \in Busy /\ req'[w] = req[w]
      BY <1>0, <1>1, <2>3 DEF Busy, At
    <2>. QED BY <1>2, <2>2, <2>3, <2>4 DEF QueryFresh, vars, Ids, At
  <1>6. ASSUME NEW u \in Workers, BeginQuery(u)
        PROVE  QueryFresh(w)'
    <2>. DEFINE r == Begun("query", "flush", "none", {}, 1, Answered)
    <2>1. /\ r.due = Answered /\ r.left = 1 /\ req' = [req EXCEPT ![u] = r]
          /\ UNCHANGED <<vars, lost>>
      BY <1>6 DEF Begun, BeginQuery
    <2>. HIDE DEF r
    <2>2. req'[u] = r /\ \A v \in Workers \ {u} : req'[v] = req[v]
      BY <1>0, <2>1
    <2>3. CASE w # u
      <3>1. w \in Busy /\ req'[w] = req[w]
        BY <1>0, <1>1, <2>2, <2>3 DEF Busy, At
      <3>. QED BY <1>2, <2>1, <3>1 DEF QueryFresh, vars, Ids, At
    <2>4. CASE w = u
      <3>1. /\ Answered \subseteq Ids \ lost
            /\ \A i \in Answered : rows[i].slot \notin StatusSlots
        BY DEF Answered, Accepted
      <3>. QED BY <2>1, <2>2, <2>4, <3>1 DEF QueryFresh, vars, Ids, At
    <2>. QED BY <2>3, <2>4
  <1>7. ASSUME NEW u \in Workers, EmbedFails(u)
        PROVE  QueryFresh(w)'
    <2>1. req'[u] = Idle /\ (\A v \in Workers \ {u} : req'[v] = req[v]) /\ u \in Busy
      BY <1>0, <1>7 DEF EmbedFails, Done, Busy, At
    <2>2. w # u /\ w \in Busy
      BY <1>0, <1>1, <2>1 DEF Busy, At, Idle
    <2>. QED BY <1>2, <2>1, <2>2 DEF AloneInv
  <1>8. CASE Stop
    BY <1>1, <1>8 DEF Stop, Busy, At, Idle
  <1>. QED BY <1>3, <1>4, <1>5, <1>6, <1>7, <1>8 DEF RequestsNext

\* A request that runs alone reads what was written before it: its search finds every
\* assertion answered before it began that is accepted still, unless a failure or a
\* stop dropped its vector.
THEOREM AloneReadsAreAlwaysFresh == RequestsSpec => []AloneReadsAreFresh
  <1>1. RequestsInit => \A w \in Busy : QueryFresh(w)
    BY DEF RequestsInit, Busy, At, Idle
  <1>2. FreshInv /\ [RequestsNext]_rvars /\ VectorInv' /\ AloneInv' => FreshInv'
    BY FreshStep
  <1>3. VectorInv /\ AloneInv /\ (\A w \in Busy : QueryFresh(w)) => FreshInv
    BY DEF FreshInv
  <1>4. FreshInv => AloneReadsAreFresh
    <2>. SUFFICES ASSUME FreshInv, ~overlapped,
                         NEW w \in Busy, At(w, "flush"), req[w].left = 0, req[w].kind = "query",
                         NEW i \in req[w].due \cap Accepted
                  PROVE  i \in searchable
      BY DEF AloneReadsAreFresh, ReadsAreFresh
    <2>1. QueryFresh(w) /\ \A u \in Busy : u = w
      BY DEF FreshInv, AloneInv
    <2>2. WholeIdsOf(w) /\ req[w].step \notin Naming("ids") \cup Given("ids")
      BY AloneWorker DEF FreshInv, VectorInv, RequestInv, At, Naming, Given
    <2>3. AccountedFor(i) /\ Local(w, "ids") = {}
      BY <2>2 DEF FreshInv, VectorInv, AloneVectorsAccountedFor, VectorsAccountedFor,
        AccountedFor, WholeIdsOf
    <2>. QED BY <2>1, <2>3 DEF QueryFresh, AccountedFor, Writers, At
  <1>. QED BY <1>1, <1>2, <1>3, <1>4, VectorInvAlways, AloneAlways, PTL DEF RequestsSpec

-----------------------------------------------------------------------------
(* One confident value per slot, as long as requests do not overlap. *)

UniqueEdges == \A i, j \in graph : SameTriple(rows[i], rows[j]) => i = j

\* A high row is in the graph, or its own request is about to add its edge.
HighIsSeen ==
  \A i \in Ids : Guarded(i) =>
    i \in graph \/ \E w \in Writers : At(w, "edge") /\ req[w].row = i

\* No high row of the slot of c clashes with c; none is there at all that c would
\* repeat or rival.
ClearFor(c) ==
  \A i \in Ids : Guarded(i) /\ rows[i].slot = c.slot /\ High(c.conf) => rows[i].obj = c.obj
FreeFor(c) ==
  \A i \in Ids : Guarded(i) /\ rows[i].slot = c.slot => ~High(c.conf) /\ rows[i].obj # c.obj

\* What a write that runs alone knows of its slot: the only high row there is one it
\* has still to retire, and what it has still to retire has its own edge.
HighWrite(w) ==
  LET c == req[w].cand IN
  /\ At(w, "check") => ClearFor(c)
  /\ At(w, "insert") => FreeFor(c)
  /\ req[w].step \in Retiring \cup {"flip"} =>
       \A i \in Ids : Guarded(i) /\ rows[i].slot = c.slot => i \in req[w].todo
  /\ req[w].step \in {"flip", "unedge"} => req[w].todo \subseteq graph
  /\ req[w].step \in Retiring \ {"unedge"} => req[w].todo \ {req[w].old} \subseteq graph
  /\ At(w, "edge") =>
       /\ SameTriple(rows[req[w].row], c)
       /\ \A i \in Ids : Guarded(i) /\ SameTriple(rows[i], c) => i = req[w].row

HighState ==
  /\ UniqueEdges /\ OneHighValue /\ HighIsSeen /\ HighIsNewest
  /\ \A w \in Writers : HighWrite(w)

HighAlone == RequestInv /\ AloneInv /\ (~overlapped => HighState)

\* Retiring one row changes its status only, and no other row.
LEMMA RetiredRow ==
  ASSUME TypeOK, NEW o \in Ids, rows' = Retire({o})
  PROVE  /\ rows'[o].status = "superseded"
         /\ \A i \in Ids \ {o} : rows'[i] = rows[i]
         /\ \A i \in Ids : rows'[i].slot = rows[i].slot /\ rows'[i].obj = rows[i].obj
  <1>1. \A i \in Ids : rows'[i] = IF i = o THEN [rows[i] EXCEPT !.status = "superseded"]
                                  ELSE rows[i]
    BY RetireRows
  <1>2. rows[o] \in RowSet /\ rows'[o] = [rows[o] EXCEPT !.status = "superseded"]
    <2>1. \A i \in Ids : rows[i] \in RowSet
      BY DEF TypeOK, Ids
    <2>2. rows'[o] = [rows[o] EXCEPT !.status = "superseded"]
      BY <1>1
    <2>. QED BY <2>1, <2>2
  <1>3. /\ rows'[o].status = "superseded"
        /\ rows'[o].slot = rows[o].slot /\ rows'[o].obj = rows[o].obj
    BY <1>2, RetiredFields
  <1>. QED BY <1>1, <1>3

LEMMA ServeKeepsHigh ==
  ASSUME RequestInv, HighState, RequestInv', NEW w \in Workers, ServeStep(w),
         \A u \in Busy : u = w
  PROVE  HighState'
  <1>1. /\ w \in Busy /\ req[w] \in Requests /\ Busy' \in {Busy, Busy \ {w}}
        /\ w \in Busy' => Carried(w) /\ Effect(w)
        /\ TypeInv /\ TypeOK /\ req \in [Workers -> {Idle} \cup Requests]
        /\ req[w].kind = "query" => req[w].step \in Flushing
    BY StepEffect DEF RequestInv, TypeInv, RequestTypeOK, Shape
  <1>2. /\ Ids = 1..Len(rows) /\ Len(rows) \in Nat
        /\ At(w, "insert") => Ids' = Ids \cup {Len(rows) + 1}
        /\ ~At(w, "insert") => Ids' = Ids
        /\ \A i \in Ids : rows[i] \in RowSet
    <2>1. /\ rows' \in Seq(RowSet) /\ rows \in Seq(RowSet)
          /\ At(w, "insert") => Ids' = Ids \cup {Len(rows) + 1}
          /\ ~At(w, "insert") => Len(rows') = Len(rows)
      BY <1>1, StepStores DEF TypeOK
    <2>2. Ids' = 1..Len(rows') /\ Ids = 1..Len(rows) /\ Len(rows) \in Nat
      BY <2>1 DEF Ids
    <2>. QED BY <2>1, <2>2
  <1>3. /\ ~At(w, "flip") => \A i \in Ids : rows'[i] = rows[i]
        /\ At(w, "flip") => /\ w \in Busy' /\ req'[w].step = "unedge"
                            /\ req'[w].old \in req[w].todo
                            /\ rows'[req'[w].old].status = "superseded"
                            /\ \A i \in Ids \ {req'[w].old} : rows'[i] = rows[i]
    BY <1>1, RowsOnlyRetire
  <1>4. /\ Writers \subseteq {w} /\ Writers' \subseteq {w}
        /\ w \in Writers' => w \in Writers /\ w \in Busy'
        /\ req[w].step \notin Flushing => w \in Writers
    BY <1>1 DEF Writers, Carried, Requests
  <1>5. w \in Writers =>
          /\ req[w].cand \in Candidates /\ req[w].todo \subseteq Ids
          /\ WriteOK(w) /\ OwnRow(w) /\ HighWrite(w)
          /\ IF req[w].step \in Retiring THEN req[w].old \in req[w].todo ELSE req[w].old = 0
          /\ req[w].step \in Minted => req[w].row \in Ids
    BY <1>1 DEF RequestInv, TypeInv, RequestTypeOK, InHandOK, Writers, HighState
  <1>6. graph \subseteq Ids
    BY <1>1 DEF TypeOK
  <1>7. CASE At(w, "insert")
    <2>. DEFINE c == req[w].cand
    <2>1. PICK n : n = Len(rows) + 1
      OBVIOUS
    <2>2. w \in Writers /\ c \in Candidates /\ FreeFor(c)
      BY <1>4, <1>5, <1>7 DEF HighWrite, At, Flushing
    <2>3. rows' = Append(rows, RowOf(c)) /\ req'[w].row = n /\ w \in Busy' /\ req'[w].step = "edge"
          /\ req'[w].cand = c /\ req'[w].kind = "write"
      <3>1. InsertRow(w)
        BY <1>7, StepAt
      <3>2. req' = [req EXCEPT ![w].step = "edge", ![w].row = n] /\ rows' = Append(rows, RowOf(c))
        BY <2>1, <3>1 DEF InsertRow
      <3>3. /\ req'[w].step = "edge" /\ req'[w].row = n /\ req'[w].kind = req[w].kind
            /\ req'[w].cand = c
        BY <1>1, <3>2 DEF Requests
      <3>. QED BY <1>1, <2>2, <3>2, <3>3 DEF Writers, Busy, At
    <2>4. /\ Ids' = Ids \cup {n} /\ n \notin Ids /\ n \in Nat
          /\ \A i \in Ids : i \in Nat /\ i < n /\ rows'[i] = rows[i]
          /\ rows'[n] = RowOf(c) /\ graph' = graph
      <3>1. rows \in Seq(RowSet) /\ RowOf(c) \in RowSet
        BY <1>1, <2>2, RowOfType DEF TypeOK
      <3>2. rows'[n] = RowOf(c)
        BY <2>1, <2>3, <3>1
      <3>. QED BY <1>2, <1>3, <1>7, <2>1, <3>2, StepOf DEF At
    <2>5. /\ rows'[n].slot = c.slot /\ rows'[n].obj = c.obj /\ rows'[n].conf = c.conf
          /\ rows'[n].status = "accepted"
      BY <2>2, <2>4, RowOfType
    <2>. HIDE DEF c
    <2>6. /\ \A i \in Ids : Guarded(i)' <=> Guarded(i)
          /\ Guarded(n)' => High(c.conf)
          /\ Accepted' = Accepted \cup {n}
      BY <2>4, <2>5 DEF Guarded, HighRow, Accepted
    <2>7. UniqueEdges'
      BY <1>6, <2>4 DEF HighState, UniqueEdges
    <2>8. OneHighValue'
      <3>1. SUFFICES ASSUME NEW i \in Ids', NEW j \in Ids', Guarded(i)', Guarded(j)',
                            rows'[i].slot = rows'[j].slot
                     PROVE  i = j
        BY DEF OneHighValue, Guarded
      <3>2. CASE i \in Ids /\ j \in Ids
        BY <2>4, <2>6, <3>1, <3>2 DEF HighState, OneHighValue, Guarded
      <3>3. CASE i = n \/ j = n
        BY <2>2, <2>4, <2>5, <2>6, <3>1, <3>3 DEF FreeFor
      <3>. QED BY <2>4, <3>2, <3>3
    <2>9. HighIsSeen'
      <3>1. ASSUME NEW i \in Ids, Guarded(i)'
            PROVE  i \in graph'
        BY <1>4, <1>7, <2>4, <2>6, <3>1 DEF HighState, HighIsSeen, At
      <3>2. w \in Writers' /\ At(w, "edge")'
        BY <2>3 DEF Writers, At
      <3>. QED BY <2>3, <2>4, <3>1, <3>2 DEF HighIsSeen
    <2>10. HighIsNewest'
      <3>1. SUFFICES ASSUME NEW i \in Ids', NEW j \in Accepted', Guarded(i)',
                            SameTriple(rows'[i], rows'[j])
                     PROVE  j <= i
        BY DEF HighIsNewest
      <3>2. Accepted \subseteq Ids
        BY DEF Accepted
      <3>3. CASE i = n
        BY <2>4, <2>6, <3>2, <3>3
      <3>4. CASE i \in Ids /\ j \in Accepted
        BY <2>4, <2>6, <3>1, <3>2, <3>4 DEF HighState, HighIsNewest
      <3>5. CASE i \in Ids /\ j = n
        BY <2>2, <2>4, <2>5, <2>6, <3>1, <3>5 DEF FreeFor, SameTriple
      <3>. QED BY <2>4, <2>6, <3>3, <3>4, <3>5
    <2>11. HighWrite(w)'
      <3>1. \A i \in Ids' : Guarded(i)' /\ SameTriple(rows'[i], c) => i = n
        BY <2>2, <2>4, <2>6 DEF FreeFor, SameTriple
      <3>2. SameTriple(rows'[n], c)
        BY <2>5 DEF SameTriple
      <3>. QED BY <2>3, <3>1, <3>2 DEF HighWrite, At, Retiring, Flushing
    <2>. QED BY <1>4, <2>7, <2>8, <2>9, <2>10, <2>11 DEF HighState
  <1>8. ASSUME ~At(w, "insert"),
               UniqueEdges',
               \A i \in Ids : Guarded(i) /\ i \in graph /\ Guarded(i)' => i \in graph',
               At(w, "edge") => req[w].row \in graph',
               w \in Writers' => HighWrite(w)'
        PROVE  HighState'
    <2>1. \A i \in Ids : /\ rows'[i].slot = rows[i].slot /\ rows'[i].obj = rows[i].obj
                         /\ Guarded(i)' => Guarded(i)
                         /\ i \in Accepted' => i \in Accepted
      <3>1. CASE At(w, "flip")
        <4>1. PICK o : o = req'[w].old
          OBVIOUS
        <4>2. rows' = Retire({o}) /\ o \in Ids
          BY <1>1, <1>3, <1>4, <1>5, <3>1, <4>1 DEF Effect, At, Flushing
        <4>. QED BY <1>1, <4>2, RetiredRow DEF Guarded, HighRow, Accepted
      <3>2. CASE ~At(w, "flip")
        BY <1>3, <3>2 DEF Guarded, HighRow, Accepted
      <3>. QED BY <3>1, <3>2
    <2>2. Ids' = Ids /\ Accepted' \subseteq Ids
      BY <1>2, <1>8 DEF Accepted
    <2>3. OneHighValue'
      BY <2>1, <2>2 DEF HighState, OneHighValue, Guarded
    <2>4. HighIsNewest'
      BY <2>1, <2>2 DEF HighState, HighIsNewest, SameTriple
    <2>5. HighIsSeen'
      BY <1>4, <1>8, <2>1, <2>2 DEF HighState, HighIsSeen
    <2>. QED BY <1>4, <1>8, <2>3, <2>4, <2>5 DEF HighState
  <1>9. CASE At(w, "edge")
    <2>. DEFINE c == req[w].cand
                n == req[w].row
    <2>1. /\ w \in Writers /\ n \in Ids /\ SameTriple(rows[n], c)
          /\ \A i \in Ids : Guarded(i) /\ SameTriple(rows[i], c) => i = n
          /\ graph' = {i \in graph : ~SameTriple(rows[i], c)} \cup {n}
      BY <1>4, <1>5, <1>9, StepOf DEF InsertEdge, AddEdge, HighWrite, At, Minted, Flushing
    <2>2. Ids' = Ids /\ \A i \in Ids : rows'[i] = rows[i]
      BY <1>2, <1>3, <1>9 DEF At
    <2>. HIDE DEF c, n
    <2>3. UniqueEdges'
      BY <1>6, <2>1, <2>2 DEF HighState, UniqueEdges, SameTriple
    <2>4. w \in Writers' => HighWrite(w)'
      BY <1>1, <1>4, <1>9 DEF HighWrite, Effect, At, Retiring, Flushing
    <2>5. ~At(w, "insert") /\ req[w].row \in graph'
      BY <1>9, <2>1 DEF At, n
    <2>. QED BY <1>8, <2>1, <2>2, <2>3, <2>4, <2>5
  <1>10. CASE At(w, "unedge")
    <2>. DEFINE o == req[w].old
    <2>1. /\ w \in Writers /\ o \in req[w].todo /\ req[w].todo \subseteq graph /\ o \in graph
          /\ rows[o].status = "superseded"
          /\ graph' = {i \in graph : ~SameTriple(rows[i], rows[o])}
          /\ \A i \in Ids : Guarded(i) /\ rows[i].slot = req[w].cand.slot => i \in req[w].todo
      BY <1>4, <1>5, <1>10, StepOf DEF DropEdge, RemoveEdges, HighWrite, At, Retiring, Flushing,
        WriteOK, Superseded
    <2>2. Ids' = Ids /\ \A i \in Ids : rows'[i] = rows[i]
      BY <1>2, <1>3, <1>10 DEF At
    <2>3. \A i \in graph : SameTriple(rows[i], rows[o]) => i = o
      BY <2>1 DEF HighState, UniqueEdges
    <2>4. ~Guarded(o)
      BY <2>1 DEF Guarded, HighRow
    <2>. HIDE DEF o
    <2>5. UniqueEdges'
      BY <1>6, <2>1, <2>2 DEF HighState, UniqueEdges
    <2>6. ASSUME w \in Writers'
          PROVE  HighWrite(w)'
      <3>1. /\ req'[w].step = "flush" /\ req'[w].todo = req[w].todo /\ req'[w].old = o
            /\ req'[w].cand = req[w].cand
        BY <1>1, <1>4, <1>10, <2>6 DEF Effect, Carried, KeepsAims, o
      <3>2. req[w].todo \ {o} \subseteq graph'
        BY <2>1, <2>3
      <3>3. \A i \in Ids : Guarded(i)' => Guarded(i)
        BY <2>2 DEF Guarded, HighRow
      <3>. QED BY <2>1, <2>2, <3>1, <3>2, <3>3 DEF HighWrite, At, Retiring, Flushing
    <2>7. ~At(w, "insert") /\ ~At(w, "edge")
      BY <1>10 DEF At
    <2>8. \A i \in Ids : Guarded(i) /\ i \in graph => i \in graph'
      BY <2>1, <2>3, <2>4
    <2>. QED BY <1>8, <2>5, <2>6, <2>7, <2>8
  <1>11. CASE At(w, "flip")
    <2>1. /\ w \in Writers /\ w \in Busy' /\ req[w].todo \subseteq graph /\ graph' = graph
          /\ \A i \in Ids : Guarded(i) /\ rows[i].slot = req[w].cand.slot => i \in req[w].todo
      BY <1>3, <1>4, <1>5, <1>11, StepOf DEF HighWrite, At, Flushing
    <2>2. PICK o : o = req'[w].old
      OBVIOUS
    <2>3. /\ rows' = Retire({o}) /\ o \in Ids /\ req'[w].todo = req[w].todo
          /\ req'[w].step = "unedge" /\ req'[w].cand = req[w].cand
      BY <1>1, <1>3, <1>5, <1>11, <2>1, <2>2 DEF Effect, Carried
    <2>6. \A i \in Ids : /\ rows'[i].slot = rows[i].slot /\ rows'[i].obj = rows[i].obj
                         /\ Guarded(i)' => Guarded(i)
      BY <1>1, <2>3, RetiredRow DEF Guarded, HighRow
    <2>7. UniqueEdges'
      BY <1>6, <2>1, <2>6 DEF HighState, UniqueEdges, SameTriple
    <2>8. Ids' = Ids
      BY <1>2, <1>11 DEF At
    <2>9. HighWrite(w)'
      BY <2>1, <2>3, <2>6, <2>8 DEF HighWrite, At, Retiring, Flushing
    <2>10. ~At(w, "insert") /\ ~At(w, "edge")
      BY <1>11 DEF At
    <2>. QED BY <1>8, <2>1, <2>7, <2>9, <2>10
  <1>12. CASE req[w].step \notin {"insert", "edge", "unedge", "flip"}
    <2>1. /\ graph' = graph /\ Ids' = Ids /\ \A i \in Ids : rows'[i] = rows[i]
          /\ ~At(w, "insert") /\ ~At(w, "edge") /\ ~At(w, "flip")
      BY <1>2, <1>3, <1>12, StepOf DEF At
    <2>2. \A i \in Ids : Guarded(i)' <=> Guarded(i)
      BY <2>1 DEF Guarded, HighRow
    <2>3. UniqueEdges'
      BY <1>6, <2>1 DEF HighState, UniqueEdges
    <2>4. ASSUME w \in Writers'
          PROVE  HighWrite(w)'
      <3>1. /\ w \in Writers /\ Effect(w) /\ req'[w].cand = req[w].cand
            /\ HighWrite(w) /\ WriteOK(w)
        BY <1>1, <1>4, <1>5, <2>4 DEF Carried
      <3>2. CASE At(w, "check")
        <4>. DEFINE c == req[w].cand
        <4>1. ClearFor(c)
          BY <3>1, <3>2 DEF HighWrite
        <4>2. CASE req'[w].step = "insert"
          <5>1. Existing(c) = {}
            <6>1. CheckExisting(w)
              BY <3>2, StepAt
            <6>2. ASSUME NEW i, req' = [req EXCEPT ![w].step = "again", ![w].row = i]
                  PROVE  req'[w].step = "again"
              BY <1>1, <6>2 DEF Requests
            <6>. QED BY <4>2, <6>1, <6>2 DEF CheckExisting
          <5>2. \A i \in Ids : Guarded(i) => i \in graph /\ rows[i].status = "accepted"
            BY <1>4, <2>1 DEF HighState, HighIsSeen, Guarded, HighRow
          <5>3. FreeFor(c)
            BY <4>1, <5>1, <5>2 DEF FreeFor, ClearFor, Existing, SameTriple
          <5>4. FreeFor(c)'
            BY <2>1, <2>2, <3>1, <5>3 DEF FreeFor
          <5>. QED BY <3>1, <4>2, <5>4 DEF HighWrite, At, Retiring, Flushing
        <4>3. CASE req'[w].step = "again"
          BY <4>3 DEF HighWrite, At, Retiring, Flushing
        <4>. QED BY <3>1, <3>2, <4>2, <4>3 DEF Effect
      <3>3. CASE req[w].step \in {"queue", "text", "meta", "source", "link"}
        <4>1. req'[w].step \in {"text", "meta", "source", "link"}
          BY <3>1, <3>3 DEF Effect, At
        <4>. QED BY <4>1 DEF HighWrite, At, Retiring, Flushing
      <3>4. CASE req[w].step \in Flushing
        <4>1. /\ req'[w].todo = req[w].todo /\ req'[w].old = req[w].old
              /\ req'[w].step \in Flushing \cup {"oldsource"}
          BY <3>1, <3>4 DEF Effect, At, KeepsAims
        <4>2. /\ req[w].todo \ {req[w].old} \subseteq graph
              /\ \A i \in Ids : Guarded(i) /\ rows[i].slot = req[w].cand.slot => i \in req[w].todo
          BY <3>1, <3>4 DEF HighWrite, Retiring, Flushing
        <4>. QED BY <2>1, <2>2, <3>1, <4>1, <4>2 DEF HighWrite, At, Retiring, Flushing
      <3>5. CASE At(w, "oldsource")
        <4>1. /\ req'[w].todo = req[w].todo \ {req[w].old} /\ req'[w].old = 0
              /\ req'[w].step = IF req'[w].todo = {} THEN "insert" ELSE "flip"
          BY <3>1, <3>5 DEF Effect
        <4>2. /\ req[w].todo \ {req[w].old} \subseteq graph
              /\ \A i \in Ids : Guarded(i) /\ rows[i].slot = req[w].cand.slot => i \in req[w].todo
              /\ rows[req[w].old].status = "superseded"
          BY <3>1, <3>5 DEF HighWrite, Retiring, Flushing, At, WriteOK, Superseded
        <4>3. \A i \in Ids : Guarded(i)' /\ rows'[i].slot = req'[w].cand.slot => i \in req'[w].todo
          <5>1. ~Guarded(req[w].old)
            BY <4>2 DEF Guarded, HighRow
          <5>. QED BY <2>1, <2>2, <3>1, <4>1, <4>2, <5>1
        <4>4. req'[w].todo = {} => FreeFor(req[w].cand)'
          BY <2>1, <4>3 DEF FreeFor
        <4>. QED BY <2>1, <4>1, <4>2, <4>3, <4>4 DEF HighWrite, At, Retiring, Flushing
      <3>6. req[w].step \in RequestSteps /\ req[w].step \notin {"again", "hold"}
        BY <1>1, <3>1 DEF Requests, Effect, At
      <3>. QED BY <1>12, <3>2, <3>3, <3>4, <3>5, <3>6 DEF RequestSteps, Retiring, Flushing, Minted, At
    <2>. QED BY <1>8, <2>1, <2>3, <2>4
  <1>. QED BY <1>7, <1>9, <1>10, <1>11, <1>12 DEF At

LEMMA HighStep ==
  ASSUME GateGoverns, AlwaysOverlapping,
         HighAlone, [RequestsNext]_rvars, RequestInv', AloneInv'
  PROVE  HighAlone'
  <1>. USE DEF HighAlone
  <1>0. /\ TypeInv /\ TypeOK /\ req \in [Workers -> {Idle} \cup Requests] /\ Busy \subseteq Workers
        /\ \A i \in Ids : rows[i] \in RowSet
    BY DEF RequestInv, TypeInv, Shape, Busy, RequestTypeOK, TypeOK, Ids
  <1>1. SUFFICES ASSUME ~overlapped'
                 PROVE  HighState'
    OBVIOUS
  <1>2. ~overlapped /\ HighState /\ (\A u, v \in Busy : u = v) /\ (\A u, v \in Busy' : u = v)
    BY <1>0, <1>1, AloneStep DEF AloneInv
  <1>3. ASSUME UNCHANGED <<rows, graph>>, Writers' \subseteq Writers,
               \A u \in Writers' : req'[u] = req[u],
               \A u \in Writers : At(u, "edge") => u \in Writers'
        PROVE  HighState'
    <2>1. /\ Ids' = Ids /\ Accepted' = Accepted
          /\ \A i \in Ids : Guarded(i)' <=> Guarded(i)
      BY <1>3 DEF Ids, Accepted, Guarded, HighRow
    <2>2. UniqueEdges' /\ OneHighValue' /\ HighIsNewest'
      BY <1>2, <1>3, <2>1 DEF HighState, UniqueEdges, OneHighValue, HighRow, HighIsNewest
    <2>3. HighIsSeen'
      BY <1>2, <1>3, <2>1 DEF HighState, HighIsSeen, At
    <2>4. ASSUME NEW u \in Writers'
          PROVE  HighWrite(u)'
      <3>1. HighWrite(u) /\ req'[u] = req[u]
        BY <1>2, <1>3, <2>4 DEF HighState
      <3>. QED BY <1>3, <2>1, <3>1 DEF HighWrite, ClearFor, FreeFor, At
    <2>. QED BY <2>2, <2>3, <2>4 DEF HighState
  <1>4. ASSUME NEW w \in Workers, ServeStep(w)
        PROVE  HighState'
    <2>1. w \in Busy
      BY <1>0, <1>4, StepEffect
    <2>. QED BY <1>2, <1>4, <2>1, ServeKeepsHigh
  <1>5. ASSUME NEW w \in Workers, NEW c \in Candidates, BeginWrite(w, c)
        PROVE  HighState'
    <2>. DEFINE v == Verdict(c, View)
                first == CASE v.action = "accept" -> "check"
                           [] v.action = "supersede" /\ v.against # {} -> "flip"
                           [] OTHER -> "hold"
                r == Begun("write", first, c, v.against, 2, {})
    <2>1. /\ At(w, "idle") /\ req' = [req EXCEPT ![w] = r] /\ UNCHANGED <<rows, graph>>
      BY <1>5 DEF BeginWrite, vars
    <2>2. r.kind = "write" /\ r.step = first /\ r.cand = c /\ r.todo = v.against
      BY DEF Begun
    <2>3. first = "check" => v.action = "accept"
      OBVIOUS
    <2>4. first = "flip" => v.action = "supersede"
      OBVIOUS
    <2>5. first \in {"check", "flip", "hold"}
      OBVIOUS
    <2>. HIDE DEF r, first
    <2>6. req'[w] = r /\ \A u \in Workers \ {w} : req'[u] = req[u]
      BY <1>0, <2>1
    <2>7. Busy = {} /\ Writers = {} /\ Writers' \subseteq {w}
      <3>1. w \in Busy'
        BY <2>2, <2>5, <2>6 DEF Busy, At
      <3>2. \A u \in Busy : u # w /\ u \in Busy'
        BY <1>0, <2>1, <2>6 DEF Busy, At
      <3>. QED BY <1>2, <3>1, <3>2 DEF Writers
    <2>8. /\ Ids' = Ids /\ Accepted' = Accepted
          /\ \A i \in Ids : Guarded(i)' <=> Guarded(i)
      BY <2>1 DEF Ids, Accepted, Guarded, HighRow
    <2>9. UniqueEdges' /\ OneHighValue' /\ HighIsNewest'
      BY <1>2, <2>1, <2>8 DEF HighState, UniqueEdges, OneHighValue, HighRow, HighIsNewest
    <2>10. \A i \in Ids : Guarded(i) => i \in graph
      BY <1>2, <2>7 DEF HighState, HighIsSeen
    <2>11. HighIsSeen'
      BY <2>1, <2>8, <2>10 DEF HighIsSeen
    \* With no window to tell them apart, a high row of another value is a conflict.
    <2>12. \A i \in Ids : /\ Guarded(i) /\ rows[i].slot = c.slot /\ rows[i].obj # c.obj
                          => i \in Conflicts(c, View)
      <3>1. \A i \in Ids : Overlaps(c.win, rows[i].win)
        BY <1>0 DEF AlwaysOverlapping, RowSet, Candidates
      <3>. QED BY <2>10, <3>1, ConflictRows DEF Guarded
    <2>13. first = "check" => ClearFor(c)
      <3>1. SUFFICES ASSUME v.action = "accept", NEW i \in Ids, Guarded(i),
                            rows[i].slot = c.slot, High(c.conf), rows[i].obj # c.obj
                     PROVE  FALSE
        BY <2>3 DEF ClearFor
      <3>2. ~Blocking(c, View)
        BY <3>1, AcceptedIsClear
      <3>. QED BY <2>12, <3>1, <3>2, BlockingRows DEF Guarded, HighRow
    <2>14. first = "flip" =>
             \A i \in Ids : Guarded(i) /\ rows[i].slot = c.slot => i \in v.against
      <3>1. SUFFICES ASSUME v.action = "supersede", NEW i \in Ids, Guarded(i),
                            rows[i].slot = c.slot
                     PROVE  i \in v.against
        BY <2>4
      <3>2. v.against = Conflicts(c, View) /\ Blocking(c, View)
        BY <3>1, SupersedingDominates
      <3>3. PICK k \in Conflicts(c, View) : High(rows[k].conf)
        BY <3>2, BlockingRows
      <3>4. k \in graph /\ rows[k].slot = c.slot
        BY <3>3, ConflictRows
      <3>5. rows[k].status = "accepted" /\ k \in Ids
        BY <1>0, <2>7, <3>4 DEF RequestInv, EdgesAreAcceptedOrLeaving, TypeOK
      <3>6. i = k
        BY <1>2, <3>1, <3>3, <3>4, <3>5 DEF HighState, OneHighValue, Guarded, HighRow
      <3>. QED BY <3>2, <3>3, <3>6
    <2>15. v.against \subseteq graph
      BY AgainstIsSubset
    <2>16. ClearFor(c)' <=> ClearFor(c)
      BY <2>1, <2>8 DEF ClearFor
    <2>17. HighWrite(w)'
      BY <2>1, <2>2, <2>5, <2>6, <2>8, <2>13, <2>14, <2>15, <2>16 DEF HighWrite, At, Retiring, Flushing
    <2>. QED BY <2>7, <2>9, <2>11, <2>17 DEF HighState
  <1>6. ASSUME NEW w \in Workers, BeginQuery(w)
        PROVE  HighState'
    <2>. DEFINE r == Begun("query", "flush", "none", {}, 1, Answered)
    <2>1. req' = [req EXCEPT ![w] = r] /\ At(w, "idle") /\ UNCHANGED <<rows, graph>>
      BY <1>6 DEF BeginQuery, vars
    <2>2. r.kind = "query"
      BY DEF Begun
    <2>. HIDE DEF r
    <2>3. req'[w] = r /\ \A u \in Workers \ {w} : req'[u] = req[u]
      BY <1>0, <2>1
    <2>4. /\ \A u \in Writers' : u \in Writers /\ req'[u] = req[u]
          /\ \A u \in Writers : u \in Writers'
      BY <2>1, <2>2, <2>3 DEF Writers, Busy, At
    <2>. QED BY <1>3, <2>1, <2>4
  <1>7. ASSUME NEW w \in Workers, EmbedFails(w)
        PROVE  HighState'
    <2>1. req' = [req EXCEPT ![w] = Idle] /\ At(w, "embed") /\ UNCHANGED <<rows, graph>>
      BY <1>7 DEF EmbedFails, Done, vars
    <2>2. req'[w] = Idle /\ \A u \in Workers \ {w} : req'[u] = req[u]
      BY <1>0, <2>1
    <2>3. \A u \in Writers' : u \in Writers /\ req'[u] = req[u]
      BY <2>2 DEF Writers, Busy, At, Idle
    <2>4. \A u \in Writers : At(u, "edge") => u \in Writers'
      BY <2>1, <2>2 DEF Writers, Busy, At
    <2>. QED BY <1>3, <2>1, <2>3, <2>4
  <1>8. CASE Stop
    <2>1. Writers' = {} /\ rows' = rows /\ graph' = Rebuilt
      BY <1>8 DEF Stop, Restart, durable, Busy, Writers, At, Idle
    <2>2. /\ Ids' = Ids /\ Accepted' = Accepted
          /\ \A i \in Ids : Guarded(i)' <=> Guarded(i)
      BY <2>1 DEF Ids, Accepted, Guarded, HighRow
    <2>3. OneHighValue' /\ HighIsNewest'
      BY <1>2, <2>1, <2>2 DEF HighState, OneHighValue, HighRow, HighIsNewest
    <2>4. UniqueEdges'
      <3>1. \A i \in Ids : i \in Nat
        BY <1>0 DEF TypeOK, Ids
      <3>. QED BY <2>1, <3>1 DEF UniqueEdges, Rebuilt, Accepted, SameTriple
    <2>5. \A i \in Ids : Guarded(i) => i \in graph'
      BY <1>2, <2>1 DEF HighState, HighIsNewest, Rebuilt, Guarded, HighRow, Accepted
    <2>6. HighIsSeen'
      BY <2>2, <2>5 DEF HighIsSeen
    <2>. QED BY <2>1, <2>3, <2>4, <2>6 DEF HighState
  <1>9. CASE UNCHANGED rvars
    <2>1. Writers' = Writers /\ req' = req /\ UNCHANGED <<rows, graph>>
      BY <1>9 DEF rvars, vars, Busy, Writers, At
    <2>. QED BY <1>3, <2>1
  <1>. QED BY <1>4, <1>5, <1>6, <1>7, <1>8, <1>9 DEF RequestsNext

\* Under the gate, where windows always overlap: as long as requests do not overlap, no
\* stop and no failed embedding call, wherever in a write it falls, leaves a slot with
\* two confident values.
THEOREM AloneAlwaysOneHighValue ==
  ASSUME GateGoverns, AlwaysOverlapping
  PROVE  RequestsSpec => []AloneOneHighValue
  <1>1. RequestsInit => HighState
    BY DEF RequestsInit, Init, HighState, UniqueEdges, OneHighValue, HighIsSeen, HighIsNewest,
           Ids, Writers, Busy, At, Idle
  <1>2. HighAlone /\ [RequestsNext]_rvars /\ RequestInv' /\ AloneInv' => HighAlone'
    BY HighStep
  <1>3. RequestInv /\ AloneInv /\ HighState => HighAlone
    BY DEF HighAlone
  <1>4. HighAlone => AloneOneHighValue
    BY DEF HighAlone, HighState, AloneOneHighValue
  <1>. QED BY <1>1, <1>2, <1>3, <1>4, RequestInvAlways, AloneAlways, PTL DEF RequestsSpec
-----------------------------------------------------------------------------
(* A request that runs alone does, call by call, what one step of the      *)
(* serial pipeline does: "settled" are the stores when it began, and each   *)
(* point of its code says how far the stores are from there.  The operators *)
(* below take the settled stores s, and D, what has been retired of what    *)
(* the request replaces.                                                   *)

RetiredRows(s, D) ==
  [i \in DOMAIN s.rows |-> IF i \in D THEN [s.rows[i] EXCEPT !.status = "superseded"]
                           ELSE s.rows[i]]
EdgesWithout(s, D) ==
  {i \in s.graph : \A o \in D : ~SameTriple(s.rows[i], s.rows[o])}
ProvWith(s, D) ==
  s.prov \cup {<<o, s.rows[o].source>> :
                 o \in {k \in D : \A x \in Sources : <<k, x>> \notin s.prov}}
VectorsWithout(s, D) == (s.searchable \cup s.pending) \ D
SettledView(s) == [i \in s.graph |-> s.rows[i]]
ExistingIn(s, c) ==
  {i \in s.graph : SameTriple(s.rows[i], c) /\ s.rows[i].status = "accepted"}

\* The verdict a write acts on, and the room it was given.
ActsOn(w, s) ==
  LET v == Verdict(req[w].cand, SettledView(s))
      olds == req[w].olds
  IN
  /\ req[w].cand \in Candidates /\ v.against = olds /\ olds \subseteq DOMAIN s.rows
  /\ req[w].step \in {"check", "again"} => v.action = "accept"
  /\ req[w].step \in {"flip"} \cup Retiring => v.action = "supersede" /\ olds # {}
  /\ req[w].step \in {"insert"} \cup Minted =>
       v.action = IF olds = {} THEN "accept" ELSE "supersede"
  /\ At(w, "link") => olds # {}
  /\ At(w, "hold") => \/ v.action = "quarantine"
                      \/ v.action = "supersede" /\ olds = {}
  /\ IF At(w, "hold") THEN Len(s.held) < MaxHeld ELSE Len(s.rows) + 1 <= MaxRows

\* The stores while what is replaced is being retired, one assertion at a time.
Retired(w, s) ==
  LET done == req[w].olds \ req[w].todo
      more == done \cup {req[w].old}
  IN
  /\ held = s.held /\ links = s.links /\ linkEdges = s.linkEdges
  /\ rows = RetiredRows(s, IF At(w, "flip") THEN done ELSE more)
  /\ graph = EdgesWithout(s, IF req[w].step \in {"flip", "unedge"} THEN done ELSE more)
  /\ searchable \cup Whole(w, "ids") =
       VectorsWithout(s, IF At(w, "oldsource") THEN more ELSE done)
  /\ done # {} => pending = {}
  /\ req[w].step \in {"flush", "oldsource"} /\ req[w].left < 2 => pending = {}
  /\ At(w, "unedge") => req[w].left = 2
  /\ At(w, "oldsource") => req[w].left < 2
  /\ prov = ProvWith(s, done)

\* The stores while the new row is put together, once nothing is left to retire.
Assembled(w, s) ==
  LET c == req[w].cand
      olds == req[w].olds
      n == Len(s.rows) + 1
      new == IF At(w, "link") THEN LinksTo(n, olds \ req[w].todo) ELSE {}
  IN
  /\ held = s.held /\ links = s.links \cup new /\ linkEdges = s.linkEdges \cup new
  /\ rows = IF At(w, "insert") THEN RetiredRows(s, olds)
            ELSE Append(RetiredRows(s, olds), RowOf(c))
  /\ graph = IF req[w].step \in {"insert", "edge"} THEN EdgesWithout(s, olds)
             ELSE {i \in EdgesWithout(s, olds) : ~SameTriple(s.rows[i], c)} \cup {n}
  /\ searchable = IF olds = {} THEN s.searchable ELSE VectorsWithout(s, olds)
  /\ pending = (IF olds = {} THEN s.pending ELSE {})
                 \cup IF req[w].step \in {"text", "meta", "source", "link"}
                        THEN Queued(c, n) ELSE {}
  /\ prov = ProvWith(s, olds) \cup IF At(w, "link") THEN {<<n, c.source>>} ELSE {}
  /\ olds = {} => ExistingIn(s, c) = {}
  /\ req[w].step \in Minted => req[w].row = n

SerialWrite(w, s) ==
  /\ ActsOn(w, s)
  /\ req[w].step \in {"check", "again", "hold"} => stores = s
  /\ At(w, "again") => req[w].row \in ExistingIn(s, req[w].cand)
  /\ req[w].step \in {"flip"} \cup Retiring => Retired(w, s)
  /\ req[w].step \in {"insert"} \cup Minted => Assembled(w, s)

\* A query only moves the queue into the collection.
SerialQuery(w, s) ==
  /\ rows = s.rows /\ links = s.links /\ prov = s.prov /\ held = s.held
  /\ graph = s.graph /\ linkEdges = s.linkEdges
  /\ req[w].left \in {0, 1}
  /\ IF req[w].left = 1 THEN pending = s.pending /\ searchable = s.searchable /\ At(w, "flush")
     ELSE /\ searchable \cup Whole(w, "ids") = s.searchable \cup s.pending
          /\ At(w, "flush") => pending = {}

InProgress(w, s) == IF req[w].kind = "query" THEN SerialQuery(w, s) ELSE SerialWrite(w, s)

SettledOK(s) == s.rows \in Seq(RowSet) /\ s.graph \subseteq DOMAIN s.rows

SerialInv ==
  /\ VectorInv
  /\ SettledOK(settled)
  /\ Calm /\ Busy = {} => settled = stores
  /\ Calm => \A w \in Busy : InProgress(w, settled)

\* The serial pipeline on the settled stores takes the same verdicts.
LEMMA SameVerdict ==
  ASSUME NEW c, NEW view
  PROVE  Serial!Verdict(c, view) = Verdict(c, view)
  BY DEF Verdict, WellFormed, GateVerdict, LatestValueVerdict, MemgptVerdict,
    EvidenceWeightedVerdict, Decide, Blocking, High, Conflicts, Overlaps, MayReplace, Dominates,
    EvidenceUnits, Occupants, Serial!Verdict, Serial!WellFormed, Serial!GateVerdict,
    Serial!LatestValueVerdict, Serial!MemgptVerdict, Serial!EvidenceWeightedVerdict,
    Serial!Decide, Serial!Blocking, Serial!High, Serial!Conflicts, Serial!Overlaps,
    Serial!MayReplace, Serial!Dominates, Serial!EvidenceUnits, Serial!Occupants

LEMMA VerdictActions ==
  ASSUME NEW c, NEW view
  PROVE  Verdict(c, view).action \in {"accept", "supersede", "quarantine", "reject"}
  BY SMT DEF Verdict, GateVerdict, LatestValueVerdict, MemgptVerdict, EvidenceWeightedVerdict,
         Decide

LEMMA SettledVerdict == Serial!View = SettledView(settled)
  BY DEF Serial!View, SettledView

-----------------------------------------------------------------------------
(* The last call of a request completes the serial step. *)

LEMMA ReaffirmSettles ==
  ASSUME NEW w \in Workers, ActsOn(w, settled), settled = stores, settled' = stores',
         req[w].row \in ExistingIn(settled, req[w].cand), AddProvenance(w)
  PROVE  Serial!Next
  <1>1. Serial!Reaffirm(req[w].cand)
    <2>1. req[w].row \in Serial!Existing(req[w].cand)
      BY DEF ExistingIn, Serial!Existing, Serial!SameTriple, SameTriple
    <2>. QED BY <2>1 DEF AddProvenance, stores, Serial!Reaffirm
  <1>2. Serial!WriteReaffirmed(req[w].cand) /\ req[w].cand \in Candidates
    BY <1>1, SameVerdict, SettledVerdict DEF Serial!WriteReaffirmed, ActsOn, AddProvenance, At
  <1>. QED BY <1>2 DEF Serial!Next, Serial!Write, Serial!Candidates, Candidates

LEMMA HoldSettles ==
  ASSUME NEW w \in Workers, ActsOn(w, settled), settled = stores, settled' = stores',
         HoldCandidate(w)
  PROVE  Serial!Next
  <1>. DEFINE c == req[w].cand
              olds == req[w].olds
  <1>1. Serial!Quarantine(c, olds)
    BY DEF HoldCandidate, stores, Serial!Quarantine, ActsOn
  <1>2. Serial!WriteHeld(c) /\ c \in Candidates
    BY <1>1, SameVerdict, SettledVerdict DEF Serial!WriteHeld, ActsOn, HoldCandidate, At
  <1>. QED BY <1>2 DEF Serial!Next, Serial!Write, Serial!Candidates, Candidates

LEMMA AcceptSettles ==
  ASSUME NEW w \in Workers, SettledOK(settled), ActsOn(w, settled), Assembled(w, settled),
         settled' = stores', RecordSource(w), req[w].olds = {}
  PROVE  Serial!Next
  <1>. DEFINE c == req[w].cand
              n == Len(settled.rows) + 1
  <1>1. /\ RetiredRows(settled, {}) = settled.rows /\ EdgesWithout(settled, {}) = settled.graph
        /\ ProvWith(settled, {}) = settled.prov
    BY DEF SettledOK, RetiredRows, EdgesWithout, ProvWith
  <1>2. /\ rows = Append(settled.rows, RowOf(c)) /\ req[w].row = n
        /\ graph = {i \in settled.graph : ~SameTriple(settled.rows[i], c)} \cup {n}
        /\ searchable = settled.searchable /\ pending = settled.pending \cup Queued(c, n)
        /\ prov = settled.prov /\ held = settled.held
        /\ links = settled.links /\ linkEdges = settled.linkEdges
        /\ ExistingIn(settled, c) = {}
    BY <1>1 DEF Assembled, RecordSource, At, Minted
  <1>3. Serial!AcceptNew(c)
    <2>1. n <= MaxRows
      BY DEF ActsOn, RecordSource, At
    <2>2. Serial!Existing(c) = {}
      BY <1>2 DEF ExistingIn, Serial!Existing, Serial!SameTriple, SameTriple
    <2>3. /\ settled'.rows = Append(settled.rows, Serial!RowOf(c))
          /\ settled'.graph = Serial!AddEdge(settled.graph, c, n)
          /\ settled'.pending = settled.pending \cup Serial!Queued(c, n)
          /\ settled'.prov = settled.prov \cup {<<n, c.source>>}
          /\ settled'.links = settled.links /\ settled'.held = settled.held
          /\ settled'.linkEdges = settled.linkEdges /\ settled'.searchable = settled.searchable
      BY <1>2 DEF RecordSource, stores, Serial!RowOf, RowOf, Serial!AddEdge, Serial!SameTriple,
        SameTriple, Serial!Queued, Queued
    <2>. QED BY <2>1, <2>2, <2>3 DEF Serial!AcceptNew
  <1>4. Serial!WriteAccepted(c) /\ c \in Candidates
    BY <1>3, SameVerdict, SettledVerdict DEF Serial!WriteAccepted, ActsOn, RecordSource, At, Minted
  <1>. QED BY <1>4 DEF Serial!Next, Serial!Write, Serial!Candidates, Candidates

LEMMA LinkSettles ==
  ASSUME NEW w \in Workers, SettledOK(settled), ActsOn(w, settled), Assembled(w, settled),
         settled' = stores', NEW o, req[w].todo = {o}, o \in req[w].olds, LinkOld(w)
  PROVE  Serial!Next
  <1>. DEFINE c == req[w].cand
              olds == req[w].olds
              n == Len(settled.rows) + 1
  <1>1. /\ olds # {} /\ olds \subseteq DOMAIN settled.rows /\ n <= MaxRows
        /\ Verdict(c, SettledView(settled)).action = "supersede"
        /\ Verdict(c, SettledView(settled)).against = olds /\ c \in Candidates
    BY DEF ActsOn, LinkOld, At, Minted
  <1>2. /\ rows = Append(RetiredRows(settled, olds), RowOf(c)) /\ req[w].row = n
        /\ graph = {i \in EdgesWithout(settled, olds) : ~SameTriple(settled.rows[i], c)} \cup {n}
        /\ searchable = VectorsWithout(settled, olds) /\ pending = Queued(c, n)
        /\ prov = ProvWith(settled, olds) \cup {<<n, c.source>>} /\ held = settled.held
        /\ links = settled.links \cup LinksTo(n, olds \ {o})
        /\ linkEdges = settled.linkEdges \cup LinksTo(n, olds \ {o})
    BY <1>1 DEF Assembled, LinkOld, At, Minted
  <1>3. LinksTo(n, olds \ {o}) \cup LinksTo(n, {o}) = LinksTo(n, olds)
    BY DEF LinksTo
  <1>4. /\ links' = settled.links \cup LinksTo(n, olds)
        /\ linkEdges' = settled.linkEdges \cup LinksTo(n, olds)
        /\ UNCHANGED <<rows, prov, held, graph, pending, searchable>>
    BY <1>2, <1>3 DEF LinkOld
  <1>5. Serial!SupersedeWith(c, olds)
    <2>1. olds \cap Serial!Ids = olds
      BY <1>1 DEF Serial!Ids
    <2>2. settled'.rows = Append(Serial!Retire(olds), Serial!RowOf(c))
      BY <1>2, <1>4 DEF stores, RetiredRows, Serial!Retire, Serial!Ids, Serial!RowOf, RowOf
    <2>3. settled'.graph = Serial!Replaced(olds, c, n)
      BY <1>2, <1>4 DEF stores, EdgesWithout, Serial!Replaced, Serial!AddEdge,
        Serial!RemoveEdges, Serial!SameTriple, SameTriple
    <2>4. /\ settled'.links = settled.links \cup Serial!LinksTo(n, olds)
          /\ settled'.linkEdges = settled.linkEdges \cup Serial!LinksTo(n, olds)
      BY <1>4 DEF stores, Serial!LinksTo, LinksTo
    <2>5. settled'.pending = Serial!Queued(c, n) /\ settled'.searchable = Serial!Retagged(olds)
      BY <1>2, <1>4 DEF stores, Serial!Queued, Queued, Serial!Retagged, VectorsWithout
    <2>6. /\ settled'.prov = settled.prov \cup {<<n, c.source>>}
               \cup {<<k, settled.rows[k].source>> :
                       k \in {q \in olds : \A x \in Sources : <<q, x>> \notin settled.prov}}
          /\ settled'.held = settled.held
      BY <1>2, <1>4 DEF stores, ProvWith
    <2>. HIDE DEF c, olds, n
    <2>7. n = Len(settled.rows) + 1
      BY DEF n
    <2>. QED BY <1>1, <2>1, <2>2, <2>3, <2>4, <2>5, <2>6, <2>7 DEF Serial!SupersedeWith
  <1>6. Serial!WriteSupersedes(c)
    BY <1>1, <1>5, SameVerdict, SettledVerdict DEF Serial!WriteSupersedes
  <1>. QED BY <1>1, <1>6 DEF Serial!Next, Serial!Write, Serial!Candidates, Candidates

LEMMA SearchSettles ==
  ASSUME NEW w \in Workers, Aligned(w), SerialQuery(w, settled), settled' = stores', Search(w)
  PROVE  [Serial!Next]_(Serial!vars)
  <1>1. Whole(w, "ids") = pending /\ At(w, "flush")
    BY WholeIds DEF WholeIdsOf, Search, At, Given
  <1>2. /\ stores' = stores /\ rows = settled.rows /\ links = settled.links
        /\ prov = settled.prov /\ held = settled.held
        /\ graph = settled.graph /\ linkEdges = settled.linkEdges
        /\ pending = {} /\ searchable = settled.searchable \cup settled.pending
    BY <1>1 DEF Search, SerialQuery, stores, vars
  <1>3. CASE settled.pending = {}
    BY <1>2, <1>3 DEF stores, Serial!vars
  <1>4. CASE settled.pending # {}
    BY <1>2, <1>4 DEF stores, Serial!Next, Serial!FlushVectors, Serial!durable
  <1>. QED BY <1>3, <1>4

LEMMA StopSettles ==
  ASSUME settled = stores, settled' = stores', Restart
  PROVE  Serial!Next
  BY DEF stores, Restart, durable, Rebuilt, Accepted, Ids, SameTriple, Serial!Next, Serial!Restart,
         Serial!durable, Serial!Rebuilt, Serial!Accepted, Serial!Ids, Serial!SameTriple

-----------------------------------------------------------------------------
(* Every other call leaves the stores where its request's progress says. *)

LEMMA AcceptNames ==
  ASSUME NEW c, NEW view, Verdict(c, view).action = "accept"
  PROVE  Verdict(c, view).against = {}
  BY SMT DEF Verdict, GateVerdict, LatestValueVerdict, MemgptVerdict,
         EvidenceWeightedVerdict, Decide

LEMMA RetiredRowsTyped ==
  ASSUME NEW s, SettledOK(s), NEW D
  PROVE  /\ RetiredRows(s, D) \in Seq(RowSet) /\ Len(RetiredRows(s, D)) = Len(s.rows)
         /\ DOMAIN RetiredRows(s, D) = DOMAIN s.rows /\ DOMAIN s.rows = 1..Len(s.rows)
         /\ Len(s.rows) \in Nat
  <1>. DEFINE R == RetiredRows(s, D)
  <1>1. s.rows \in Seq(RowSet) /\ DOMAIN s.rows = 1..Len(s.rows) /\ Len(s.rows) \in Nat
    BY DEF SettledOK
  <1>2. \A i \in DOMAIN s.rows : s.rows[i] \in RowSet
    BY <1>1
  <1>3. \A i \in DOMAIN s.rows :
          (IF i \in D THEN [s.rows[i] EXCEPT !.status = "superseded"] ELSE s.rows[i]) \in RowSet
    BY <1>2 DEF RowSet
  <1>4. R \in [1..Len(s.rows) -> RowSet] /\ DOMAIN R = DOMAIN s.rows
    BY <1>1, <1>3 DEF RetiredRows
  <1>. HIDE DEF R
  <1>5. R \in Seq(RowSet) /\ Len(R) = Len(s.rows)
    BY <1>1, <1>4
  <1>. QED BY <1>1, <1>4, <1>5 DEF R

LEMMA RetiredRowIs ==
  ASSUME NEW s, SettledOK(s), NEW D, NEW i \in DOMAIN s.rows
  PROVE  /\ RetiredRows(s, D)[i].slot = s.rows[i].slot
         /\ RetiredRows(s, D)[i].obj = s.rows[i].obj
         /\ RetiredRows(s, D)[i].source = s.rows[i].source
  <1>1. s.rows[i] \in RowSet
    BY DEF SettledOK
  <1>. QED BY <1>1 DEF RetiredRows, RowSet

LEMMA QueryProgress ==
  ASSUME TypeInv, NEW w \in Workers, Aligned(w), ServeStep(w), w \in Busy',
         NEW s, req[w].kind = "query", SerialQuery(w, s)
  PROVE  SerialQuery(w, s)'
  <1>1. /\ w \in Busy /\ req[w] \in Requests /\ req \in [Workers -> {Idle} \cup Requests]
        /\ req[w].step \in Flushing
    BY StepEffect DEF TypeInv, Shape
  <1>2. CASE FlushStep(w)
    <2>1. FlushDone(w)
      BY <1>2, FlushMoves
    <2>2. req[w].step \notin Given("ids") => Whole(w, "ids") = pending
      BY WholeIds DEF WholeIdsOf
    <2>3. UNCHANGED <<rows, links, prov, held, graph, linkEdges>>
      BY <2>1 DEF FlushDone, durable
    <2>4. req[w].left \in {0, 1} /\ req'[w].left = 0
      <3>1. req[w].left \in {0, 1} /\ (req[w].left = 1 => At(w, "flush"))
        BY DEF SerialQuery
      <3>2. CASE At(w, "flush")
        <4>1. req[w].left > 0 /\ req'[w].left = req[w].left - 1
          BY <2>1, <3>2 DEF FlushDone
        <4>. QED BY <3>1, <4>1
      <3>3. CASE ~At(w, "flush")
        <4>1. req'[w].left = req[w].left
          BY <2>1, <3>3 DEF FlushDone
        <4>. QED BY <3>1, <3>3, <4>1
      <3>. QED BY <3>2, <3>3
    <2>5. searchable' \cup Whole(w, "ids")' = s.searchable \cup s.pending
      <3>1. CASE req[w].left = 1
        <4>1. At(w, "flush") /\ searchable = s.searchable /\ pending = s.pending
          BY <3>1 DEF SerialQuery
        <4>2. Whole(w, "ids") = pending
          BY <2>2, <4>1 DEF At, Given
        <4>. QED BY <2>1, <4>1, <4>2 DEF FlushDone
      <3>2. CASE req[w].left = 0
        BY <2>1, <3>2 DEF FlushDone, SerialQuery
      <3>. QED BY <2>4, <3>1, <3>2
    <2>6. At(w, "flush")' => pending' = {}
      <3>1. At(w, "flush") => pending' = pending
        BY <1>2, FlushLeaves DEF At
      <3>. QED BY <2>1, <3>1 DEF FlushDone, At
    <2>. QED BY <2>3, <2>4, <2>5, <2>6 DEF SerialQuery
  <1>3. CASE Search(w)
    <2>1. req'[w] = Idle
      BY <1>1, <1>3 DEF Search, Done
    <2>. QED BY <2>1 DEF Busy, At, Idle
  <1>4. FlushStep(w) \/ Search(w)
    BY <1>1, StepAt DEF FlushStep, Retag, At, Flushing
  <1>. QED BY <1>2, <1>3, <1>4

LEMMA ActsOnStays ==
  ASSUME TypeInv, NEW w \in Workers, ServeStep(w), w \in Busy', req[w].kind = "write",
         NEW s, ActsOn(w, s)
  PROVE  ActsOn(w, s)'
  <1>1. /\ w \in Busy /\ req[w] \in Requests /\ Carried(w) /\ Effect(w)
        /\ req \in [Workers -> {Idle} \cup Requests] /\ req[w].step \in RequestSteps
    BY StepEffect DEF TypeInv, Shape, Requests
  <1>2. req'[w].cand = req[w].cand /\ req'[w].olds = req[w].olds
    BY <1>1 DEF Carried
  <1>3. At(w, "check") => req[w].olds = {}
    BY AcceptNames DEF ActsOn, At
  <1>4. At(w, "source") => req[w].olds # {}
    <2>1. SUFFICES ASSUME At(w, "source"), req[w].olds = {}
                   PROVE  FALSE
      OBVIOUS
    <2>2. RecordSource(w)
      BY <2>1, StepAt
    <2>3. req'[w] = Idle
      BY <1>1, <2>1, <2>2 DEF RecordSource, Done
    <2>. QED BY <2>3 DEF Busy, At, Idle
  <1>5. CASE req[w].step \in {"check", "again", "insert", "hold"}
    BY <1>1, <1>2, <1>3, <1>5 DEF ActsOn, Effect, At, Retiring, Flushing, Minted
  <1>6. CASE req[w].step \in Minted
    BY <1>1, <1>2, <1>4, <1>6 DEF ActsOn, Effect, At, Retiring, Flushing, Minted
  <1>7. CASE req[w].step \in {"flip", "unedge", "oldsource"}
    BY <1>1, <1>2, <1>7 DEF ActsOn, Effect, At, Retiring, Flushing, Minted
  <1>8. CASE req[w].step \in Flushing
    <2>1. req'[w].step \in Retiring /\ req[w].step \in Retiring
      BY <1>1, <1>8 DEF Effect, Retiring, Flushing
    <2>2. \A x \in Retiring : x \notin {"check", "again", "insert", "link", "hold"}
      BY DEF Retiring, Flushing
    <2>3. \A x \in Retiring : x \notin Minted
      BY DEF Retiring, Flushing, Minted
    <2>. QED BY <1>2, <2>1, <2>2, <2>3 DEF ActsOn, At
  <1>. QED BY <1>1, <1>5, <1>6, <1>7, <1>8 DEF RequestSteps, Retiring, Flushing

LEMMA AssemblyProgress ==
  ASSUME TypeInv, NEW w \in Workers, w \in Busy, req[w] \in Requests,
         \/ InsertRow(w) \/ InsertEdge(w) \/ QueueId(w) \/ QueueText(w) \/ QueueMeta(w)
         \/ RecordSource(w) \/ LinkOld(w),
         w \in Busy', NEW s, SettledOK(s), ActsOn(w, s), Assembled(w, s)
  PROVE  Assembled(w, s)' /\ req'[w].step \in Minted
  <1>. DEFINE c == req[w].cand
              olds == req[w].olds
              n == Len(s.rows) + 1
              R == RetiredRows(s, olds)
  <1>0. /\ req \in [Workers -> {Idle} \cup Requests]
        /\ olds \subseteq DOMAIN s.rows /\ c \in Candidates /\ req[w].todo \subseteq olds
    BY DEF TypeInv, Shape, ActsOn, RequestTypeOK
  <1>1. /\ R \in Seq(RowSet) /\ Len(R) = Len(s.rows) /\ Len(s.rows) \in Nat
        /\ DOMAIN s.rows = 1..Len(s.rows)
        /\ \A i \in DOMAIN s.rows : R[i].slot = s.rows[i].slot /\ R[i].obj = s.rows[i].obj
    BY RetiredRowsTyped, RetiredRowIs
  <1>2. RowOf(c) \in RowSet
    BY <1>0, RowOfType
  <1>3. CASE InsertRow(w)
    <2>1. /\ req' = [req EXCEPT ![w].step = "edge", ![w].row = Len(rows) + 1]
          /\ rows' = Append(rows, RowOf(c)) /\ rows = R
          /\ UNCHANGED <<links, prov, held, graph, linkEdges, pending, searchable>>
          /\ At(w, "insert")
      BY <1>3 DEF InsertRow, Assembled, At
    <2>2. /\ req'[w].step = "edge" /\ req'[w].row = Len(rows) + 1
          /\ req'[w].cand = c /\ req'[w].olds = olds /\ req'[w].todo = req[w].todo
      BY <1>0, <2>1 DEF Requests
    <2>. HIDE DEF R
    <2>3. req'[w].row = n
      BY <1>1, <2>1, <2>2
    <2>. QED BY <2>1, <2>2, <2>3 DEF Assembled, At, Minted, R
  <1>4. CASE InsertEdge(w)
    <2>1. /\ req' = [req EXCEPT ![w].step = "queue"]
          /\ graph' = AddEdge(graph, c, req[w].row)
          /\ graph = EdgesWithout(s, olds) /\ rows = Append(R, RowOf(c)) /\ req[w].row = n
          /\ UNCHANGED <<rows, links, prov, held, linkEdges, pending, searchable>>
          /\ At(w, "edge")
      BY <1>4 DEF InsertEdge, Assembled, At, Goto, durable, Minted
    <2>2. /\ req'[w].step = "queue" /\ req'[w].row = req[w].row
          /\ req'[w].cand = c /\ req'[w].olds = olds /\ req'[w].todo = req[w].todo
      BY <1>0, <2>1 DEF Requests
    <2>3. \A i \in EdgesWithout(s, olds) :
            rows[i].slot = s.rows[i].slot /\ rows[i].obj = s.rows[i].obj
      <3>1. \A i \in EdgesWithout(s, olds) : i \in DOMAIN s.rows
        BY DEF EdgesWithout, SettledOK
      <3>. HIDE DEF R
      <3>2. \A i \in DOMAIN s.rows : rows[i] = R[i]
        BY <1>1, <1>2, <2>1
      <3>. QED BY <1>1, <3>1, <3>2
    <2>4. graph' = {i \in EdgesWithout(s, olds) : ~SameTriple(s.rows[i], c)} \cup {n}
      BY <2>1, <2>3 DEF AddEdge, SameTriple
    <2>. QED BY <2>1, <2>2, <2>4 DEF Assembled, At, Minted
  <1>5. CASE QueueId(w)
    <2>. DEFINE x == IF Queued(c, n) = {} THEN "source" ELSE "text"
    <2>1. /\ req' = [req EXCEPT ![w].step = x] /\ req[w].row = n
          /\ pending' = pending \cup Queued(c, n) /\ At(w, "queue")
          /\ UNCHANGED <<rows, links, prov, held, graph, linkEdges, searchable>>
      BY <1>5 DEF QueueId, Goto, durable, Assembled, Minted, At
    <2>2. /\ req'[w].step = x /\ req'[w].row = req[w].row
          /\ req'[w].cand = c /\ req'[w].olds = olds /\ req'[w].todo = req[w].todo
      BY <1>0, <2>1 DEF Requests
    <2>3. x \in {"source", "text"}
      OBVIOUS
    <2>. HIDE DEF x
    <2>. QED BY <2>1, <2>2, <2>3 DEF Assembled, At, Minted
  <1>8. CASE QueueText(w) \/ QueueMeta(w)
    <2>. DEFINE x == IF At(w, "text") THEN "meta" ELSE "source"
    <2>1. /\ req' = [req EXCEPT ![w].step = x] /\ req[w].row = n
          /\ req[w].step \in {"text", "meta"}
          /\ UNCHANGED <<rows, links, prov, held, graph, linkEdges, pending, searchable>>
      BY <1>8 DEF QueueText, QueueMeta, QueueBody, Goto, vars, Assembled, Minted, At
    <2>2. /\ req'[w].step = x /\ req'[w].row = req[w].row
          /\ req'[w].cand = c /\ req'[w].olds = olds /\ req'[w].todo = req[w].todo
      BY <1>0, <2>1 DEF Requests
    <2>3. x \in {"source", "meta"}
      OBVIOUS
    <2>. HIDE DEF x
    <2>. QED BY <2>1, <2>2, <2>3 DEF Assembled, At, Minted
  <1>6. CASE RecordSource(w)
    <2>1. req' # [req EXCEPT ![w] = Idle]
      BY <1>0 DEF Busy, At, Idle
    <2>2. /\ req' = [req EXCEPT ![w].step = "link", ![w].todo = olds] /\ req[w].row = n
          /\ prov' = prov \cup {<<req[w].row, c.source>>} /\ At(w, "source")
          /\ UNCHANGED <<rows, links, held, graph, linkEdges, pending, searchable>>
      BY <1>6, <2>1 DEF RecordSource, Done, Assembled, Minted, At
    <2>3. /\ req'[w].step = "link" /\ req'[w].row = req[w].row
          /\ req'[w].cand = c /\ req'[w].olds = olds /\ req'[w].todo = olds
      BY <1>0, <2>2 DEF Requests
    <2>4. LinksTo(n, olds \ olds) = {}
      BY DEF LinksTo
    <2>. QED BY <2>2, <2>3, <2>4 DEF Assembled, At, Minted
  <1>7. CASE LinkOld(w)
    <2>1. req' # [req EXCEPT ![w] = Idle]
      BY <1>0 DEF Busy, At, Idle
    <2>2. PICK o \in req[w].todo :
            /\ req' = [req EXCEPT ![w].todo = req[w].todo \ {o}]
            /\ links' = links \cup LinksTo(req[w].row, {o})
            /\ linkEdges' = linkEdges \cup LinksTo(req[w].row, {o})
      BY <1>7, <2>1 DEF LinkOld, Done
    <2>3. /\ req[w].row = n /\ At(w, "link")
          /\ UNCHANGED <<rows, prov, held, graph, pending, searchable>>
      BY <1>7 DEF LinkOld, Assembled, Minted, At
    <2>4. /\ req'[w].step = "link" /\ req'[w].row = req[w].row
          /\ req'[w].cand = c /\ req'[w].olds = olds /\ req'[w].todo = req[w].todo \ {o}
      BY <1>0, <2>2, <2>3 DEF Requests, At
    <2>5. LinksTo(n, olds \ req[w].todo) \cup LinksTo(n, {o}) = LinksTo(n, olds \ (req[w].todo \ {o}))
      BY <1>0, <2>2 DEF LinksTo
    <2>. QED BY <2>2, <2>3, <2>4, <2>5 DEF Assembled, At, Minted
  <1>. QED BY <1>3, <1>4, <1>5, <1>6, <1>7, <1>8

LEMMA FlipProgress ==
  ASSUME TypeInv, NEW w \in Workers, w \in Writers, req[w] \in Requests, FlipStatus(w),
         NEW s, SettledOK(s), ActsOn(w, s), Retired(w, s)
  PROVE  Retired(w, s)' /\ req'[w].step \in Retiring
  <1>. DEFINE done == req[w].olds \ req[w].todo
  <1>1. PICK o \in req[w].todo :
          /\ rows' = Retire({o})
          /\ req' = [req EXCEPT ![w].step = "unedge", ![w].old = o, ![w].left = 2]
    BY DEF FlipStatus
  <1>2. /\ req'[w].step = "unedge" /\ req'[w].old = o /\ req'[w].left = 2
        /\ req'[w].olds = req[w].olds /\ req'[w].todo = req[w].todo
    BY <1>1 DEF TypeInv, Shape, Requests
  <1>3. /\ At(w, "flip") /\ UNCHANGED <<links, prov, held, graph, linkEdges, pending, searchable>>
    BY DEF FlipStatus
  <1>4. rows = RetiredRows(s, done) /\ DOMAIN rows = DOMAIN s.rows /\ o \notin done
    BY <1>1, <1>3, RetiredRowsTyped DEF Retired
  <1>5. \A i \in DOMAIN s.rows :
          (IF i \in {o} THEN [rows[i] EXCEPT !.status = "superseded"] ELSE rows[i])
            = IF i \in done \cup {o} THEN [s.rows[i] EXCEPT !.status = "superseded"] ELSE s.rows[i]
    BY <1>4 DEF RetiredRows
  <1>6. rows' = RetiredRows(s, done \cup {o})
    BY <1>1, <1>4, <1>5 DEF Retire, Ids, RetiredRows
  <1>7. /\ held' = s.held /\ links' = s.links /\ linkEdges' = s.linkEdges
        /\ graph' = EdgesWithout(s, done) /\ prov' = ProvWith(s, done)
        /\ searchable' \cup Whole(w, "ids")' = VectorsWithout(s, done)
        /\ done # {} => pending' = {}
    BY <1>2, <1>3 DEF Retired, At, Whole, Given, Queue
  <1>. QED BY <1>2, <1>6, <1>7 DEF Retired, At, Retiring, Flushing

LEMMA DropProgress ==
  ASSUME TypeInv, NEW w \in Workers, w \in Writers, req[w] \in Requests, DropEdge(w),
         NEW s, SettledOK(s), ActsOn(w, s), Retired(w, s)
  PROVE  Retired(w, s)' /\ req'[w].step \in Retiring
  <1>. DEFINE done == req[w].olds \ req[w].todo
              more == done \cup {req[w].old}
  <1>1. /\ req' = [req EXCEPT ![w].step = "flush"] /\ At(w, "unedge")
        /\ graph' = RemoveEdges(graph, {req[w].old})
        /\ UNCHANGED <<rows, links, prov, held, linkEdges, pending, searchable>>
    BY DEF DropEdge, Goto, durable
  <1>2. /\ req'[w].step = "flush" /\ req'[w].old = req[w].old /\ req'[w].left = req[w].left
        /\ req'[w].olds = req[w].olds /\ req'[w].todo = req[w].todo
    BY <1>1 DEF TypeInv, Shape, Requests
  <1>3. /\ rows = RetiredRows(s, more) /\ graph = EdgesWithout(s, done)
        /\ req[w].old \in DOMAIN s.rows
    BY <1>1 DEF Retired, At, TypeInv, InHandOK, RequestTypeOK, Writers, Retiring, Flushing, ActsOn
  <1>4. \A i \in DOMAIN s.rows : rows[i].slot = s.rows[i].slot /\ rows[i].obj = s.rows[i].obj
    BY <1>3, RetiredRowIs
  <1>5. \A i \in graph : i \in DOMAIN s.rows
    BY <1>3 DEF EdgesWithout, SettledOK
  <1>6. graph' = EdgesWithout(s, more)
    BY <1>1, <1>3, <1>4, <1>5 DEF RemoveEdges, EdgesWithout, SameTriple
  <1>7. Whole(w, "ids") = pending /\ Whole(w, "ids")' = pending
    <2>1. {"unedge", "flush"} \cap Given("ids") = {}
      BY DEF Given
    <2>2. req[w].step \notin Given("ids") /\ req'[w].step \notin Given("ids")
      BY <1>1, <1>2, <2>1 DEF At
    <2>. QED BY <1>1, <2>2 DEF Whole, Queue
  <1>8. /\ held' = s.held /\ links' = s.links /\ linkEdges' = s.linkEdges
        /\ rows' = RetiredRows(s, more) /\ prov' = ProvWith(s, done)
        /\ searchable' \cup Whole(w, "ids")' = VectorsWithout(s, done)
        /\ done # {} => pending' = {}
        /\ req[w].left = 2
    BY <1>1, <1>3, <1>7 DEF Retired, At
  <1>. QED BY <1>2, <1>6, <1>8 DEF Retired, At, Retiring, Flushing

LEMMA FlushProgress ==
  ASSUME TypeInv, NEW w \in Workers, Aligned(w), w \in Writers, req[w] \in Requests,
         FlushStep(w) \/ Retag(w), NEW s, ActsOn(w, s), Retired(w, s)
  PROVE  Retired(w, s)' /\ req'[w].step \in Retiring
  <1>. DEFINE done == req[w].olds \ req[w].todo
              more == done \cup {req[w].old}
  <1>1. /\ req[w].step \in Flushing /\ req \in [Workers -> {Idle} \cup Requests]
        /\ \A x \in Flushing : x \notin {"flip", "unedge", "oldsource"}
    BY DEF FlushStep, CheckQueue, TakeIds, TakeTexts, TakeMetas, NewIds, NewTexts, NewMetas,
      EmbedBatch, UpsertRaises, Retag, At, Flushing, TypeInv, Shape
  <1>2. /\ held = s.held /\ links = s.links /\ linkEdges = s.linkEdges
        /\ rows = RetiredRows(s, more) /\ graph = EdgesWithout(s, more)
        /\ prov = ProvWith(s, done)
        /\ searchable \cup Whole(w, "ids") = VectorsWithout(s, done)
        /\ done # {} => pending = {}
        /\ At(w, "flush") /\ req[w].left < 2 => pending = {}
    BY <1>1 DEF Retired, At
  <1>3. CASE FlushStep(w)
    <2>1. FlushDone(w)
      BY <1>3, FlushMoves
    <2>2. UNCHANGED <<rows, links, prov, held, graph, linkEdges>>
      BY <2>1 DEF FlushDone, durable
    <2>3. /\ req'[w].old = req[w].old /\ req'[w].olds = req[w].olds /\ req'[w].todo = req[w].todo
          /\ req'[w].step \in Flushing
      BY <2>1 DEF FlushDone, Requests
    <2>4. searchable' \cup Whole(w, "ids")' = VectorsWithout(s, done)
      BY <1>2, <2>1 DEF FlushDone
    <2>5. pending' \in {pending, {}}
      BY <1>3, FlushLeaves, StepAt DEF At, FlushStep, NewIds, CheckQueue, TakeIds, TakeTexts,
        TakeMetas, NewTexts, NewMetas, EmbedBatch, UpsertRaises
    <2>6. At(w, "flush")' => pending' = {}
      <3>1. At(w, "flush") => pending' = pending
        BY <1>3, FlushLeaves DEF At
      <3>. QED BY <2>1, <3>1 DEF FlushDone, At
    <2>. QED BY <1>1, <1>2, <2>2, <2>3, <2>4, <2>5, <2>6 DEF Retired, At, Retiring, Flushing
  <1>4. CASE Retag(w)
    <2>1. /\ req' = [req EXCEPT ![w].step = "oldsource"] /\ At(w, "flush") /\ req[w].left = 0
          /\ searchable' = searchable \ {req[w].old} /\ pending' = pending
          /\ UNCHANGED <<rows, links, prov, held, graph, linkEdges>>
      BY <1>4 DEF Retag, Goto, durable
    <2>2. /\ req'[w].step = "oldsource" /\ req'[w].left = 0
          /\ req'[w].old = req[w].old /\ req'[w].olds = req[w].olds /\ req'[w].todo = req[w].todo
      BY <1>1, <2>1 DEF Requests
    <2>3. pending = {} /\ pending' = {}
      BY <1>2, <2>1
    <2>4. Whole(w, "ids") = {} /\ Whole(w, "ids")' = {}
      <3>1. {"flush", "oldsource"} \cap Given("ids") = {}
        BY DEF Given
      <3>2. req[w].step \notin Given("ids") /\ req'[w].step \notin Given("ids")
        BY <2>1, <2>2, <3>1 DEF At
      <3>. QED BY <2>3, <3>2 DEF Whole, Queue
    <2>5. searchable' \cup Whole(w, "ids")' = VectorsWithout(s, more)
      BY <1>2, <2>1, <2>4 DEF VectorsWithout
    <2>6. /\ rows' = RetiredRows(s, more) /\ graph' = EdgesWithout(s, more)
          /\ prov' = ProvWith(s, done) /\ held' = s.held /\ links' = s.links
          /\ linkEdges' = s.linkEdges
      BY <1>2, <2>1
    <2>7. "oldsource" \in Retiring
      BY DEF Retiring
    <2>. QED BY <2>2, <2>3, <2>5, <2>6, <2>7 DEF Retired, At
  <1>. QED BY <1>3, <1>4

LEMMA KeepProgress ==
  ASSUME TypeInv, NEW w \in Workers, w \in Writers, req[w] \in Requests,
         KeepOldSource(w), NEW s, SettledOK(s), ActsOn(w, s), Retired(w, s)
  PROVE  /\ req'[w].step = "flip" => Retired(w, s)'
         /\ req'[w].step = "insert" => Assembled(w, s)'
         /\ req'[w].step \in {"flip", "insert"}
  <1>. DEFINE done == req[w].olds \ req[w].todo
              o == req[w].old
              more == done \cup {o}
              rest == req[w].todo \ {o}
  <1>1. /\ UNCHANGED <<rows, links, held, graph, linkEdges, pending, searchable>>
        /\ At(w, "oldsource") /\ w \in Busy
        /\ req \in [Workers -> {Idle} \cup Requests]
        /\ req[w].todo \subseteq req[w].olds /\ o \in req[w].todo /\ o \in DOMAIN s.rows
        /\ req[w].olds # {}
    BY DEF KeepOldSource, At, Writers, TypeInv, Shape, InHandOK, RequestTypeOK, Retiring, Flushing, ActsOn
  <1>2. /\ held = s.held /\ links = s.links /\ linkEdges = s.linkEdges
        /\ rows = RetiredRows(s, more) /\ graph = EdgesWithout(s, more)
        /\ prov = ProvWith(s, done)
        /\ searchable = VectorsWithout(s, more) /\ pending = {}
    BY <1>1 DEF Retired, At, Whole, Given, Queue
  <1>3. req' = [req EXCEPT ![w].step = IF rest = {} THEN "insert" ELSE "flip",
                           ![w].todo = rest, ![w].old = 0]
    BY DEF KeepOldSource
  <1>4. /\ req'[w].step = (IF rest = {} THEN "insert" ELSE "flip")
        /\ req'[w].todo = rest /\ req'[w].olds = req[w].olds /\ req'[w].cand = req[w].cand
        /\ req'[w].left = req[w].left
    BY <1>1, <1>3 DEF Requests
  <1>5. prov' = ProvWith(s, more)
    <2>1. rows[o].source = s.rows[o].source
      <3>. HIDE DEF more, o
      <3>. QED BY <1>1, <1>2, RetiredRowIs
    <2>2. o \notin done
      BY <1>1
    <2>3. \A x \in Sources : <<o, x>> \in prov <=> <<o, x>> \in s.prov
      BY <1>2, <2>2 DEF ProvWith
    <2>4. prov' = IF \A x \in Sources : <<o, x>> \notin s.prov
                  THEN prov \cup {<<o, s.rows[o].source>>} ELSE prov
      BY <2>1, <2>3 DEF KeepOldSource
    <2>. HIDE DEF o, done
    <2>. QED BY <1>2, <2>2, <2>4 DEF ProvWith, more
  <1>6. req'[w].step \notin Given("ids")
    BY <1>4 DEF Given
  <1>7. CASE rest # {}
    <2>1. req'[w].olds \ req'[w].todo = more
      BY <1>1, <1>4
    <2>. QED BY <1>1, <1>2, <1>4, <1>5, <1>6, <1>7, <2>1 DEF Retired, At, Whole, Queue
  <1>8. CASE rest = {}
    <2>1. req[w].olds = more
      BY <1>1, <1>8
    <2>2. searchable' = VectorsWithout(s, req[w].olds) /\ pending' = {}
      BY <1>1, <1>2, <2>1
    <2>3. /\ held' = s.held /\ links' = s.links /\ linkEdges' = s.linkEdges
          /\ rows' = RetiredRows(s, req[w].olds) /\ graph' = EdgesWithout(s, req[w].olds)
          /\ prov' = ProvWith(s, req[w].olds)
      BY <1>1, <1>2, <1>5, <2>1
    <2>. QED BY <1>1, <1>4, <1>8, <2>2, <2>3 DEF Assembled, At, Minted
  <1>. QED BY <1>7, <1>8

LEMMA NothingRetired ==
  ASSUME NEW s, SettledOK(s)
  PROVE  /\ RetiredRows(s, {}) = s.rows /\ EdgesWithout(s, {}) = s.graph
         /\ ProvWith(s, {}) = s.prov /\ VectorsWithout(s, {}) = s.searchable \cup s.pending
  BY DEF SettledOK, RetiredRows, EdgesWithout, ProvWith, VectorsWithout

LEMMA CheckProgress ==
  ASSUME TypeInv, NEW w \in Workers, req[w] \in Requests, CheckExisting(w),
         NEW s, SettledOK(s), ActsOn(w, s), stores = s
  PROVE  /\ req'[w].step = "insert" => Assembled(w, s)'
         /\ req'[w].step = "again" => stores' = s /\ req'[w].row \in ExistingIn(s, req'[w].cand)
         /\ req'[w].step \in {"insert", "again"}
  <1>. DEFINE c == req[w].cand
  <1>1. /\ req[w].olds = {} /\ UNCHANGED vars /\ req \in [Workers -> {Idle} \cup Requests]
    BY AcceptNames DEF CheckExisting, ActsOn, At, TypeInv, Shape
  <1>2. /\ rows' = s.rows /\ links' = s.links /\ prov' = s.prov /\ held' = s.held
        /\ graph' = s.graph /\ linkEdges' = s.linkEdges /\ pending' = s.pending
        /\ searchable' = s.searchable /\ stores' = s
    BY <1>1 DEF stores, vars
  <1>3. Existing(c) = ExistingIn(s, c)
    BY DEF stores, Existing, ExistingIn
  <1>4. CASE Existing(c) = {}
    <2>1. req' = [req EXCEPT ![w].step = "insert"]
      BY <1>4 DEF CheckExisting, Goto
    <2>2. /\ req'[w].step = "insert" /\ req'[w].olds = {} /\ req'[w].cand = c
      BY <1>1, <2>1 DEF Requests
    <2>3. ExistingIn(s, req'[w].cand) = {}
      BY <1>3, <1>4, <2>2
    <2>. QED BY <1>2, <2>2, <2>3, NothingRetired DEF Assembled, At, Minted
  <1>5. CASE Existing(c) # {}
    <2>1. PICK i \in Existing(c) : req' = [req EXCEPT ![w].step = "again", ![w].row = i]
      BY <1>5 DEF CheckExisting
    <2>2. /\ req'[w].step = "again" /\ req'[w].row = i /\ req'[w].cand = c
      BY <1>1, <2>1 DEF Requests
    <2>. QED BY <1>2, <1>3, <2>1, <2>2
  <1>. QED BY <1>4, <1>5

LEMMA WriteProgress ==
  ASSUME TypeInv, NEW w \in Workers, Aligned(w), ServeStep(w), w \in Busy',
         req[w].kind = "write", NEW s, SettledOK(s), SerialWrite(w, s)
  PROVE  SerialWrite(w, s)'
  <1>1. /\ w \in Busy /\ w \in Writers /\ req[w] \in Requests
    BY StepEffect DEF Writers
  <1>2. ActsOn(w, s) /\ ActsOn(w, s)'
    BY ActsOnStays DEF SerialWrite
  <1>3. CASE CheckExisting(w)
    <2>1. stores = s
      BY <1>3 DEF SerialWrite, CheckExisting, At
    <2>. QED BY <1>1, <1>2, <1>3, <2>1, CheckProgress DEF SerialWrite, At, Retiring, Flushing, Minted
  <1>4. CASE \/ InsertRow(w) \/ InsertEdge(w) \/ QueueId(w) \/ QueueText(w) \/ QueueMeta(w)
             \/ RecordSource(w) \/ LinkOld(w)
    <2>1. Assembled(w, s)
      BY <1>4 DEF SerialWrite, InsertRow, InsertEdge, QueueId, QueueText, QueueMeta,
        RecordSource, LinkOld, At, Minted
    <2>2. Assembled(w, s)' /\ req'[w].step \in Minted
      BY <1>1, <1>2, <1>4, <2>1, AssemblyProgress
    <2>3. \A x \in Minted : x \notin {"check", "again", "hold", "flip"} \cup Retiring
      BY DEF Retiring, Flushing, Minted, Flushing
    <2>. QED BY <1>2, <2>2, <2>3 DEF SerialWrite, At
  <1>5. CASE FlipStatus(w) \/ DropEdge(w) \/ FlushStep(w) \/ Retag(w)
    <2>1. Retired(w, s)
      <3>1. req[w].step \in {"flip"} \cup Retiring
        BY <1>5 DEF FlipStatus, DropEdge, FlushStep, CheckQueue, TakeIds, TakeTexts, TakeMetas,
          NewIds, NewTexts, NewMetas, EmbedBatch, UpsertRaises, Retag, At, Retiring, Flushing
      <3>. QED BY <3>1 DEF SerialWrite
    <2>2. Retired(w, s)' /\ req'[w].step \in Retiring
      BY <1>1, <1>2, <1>5, <2>1, FlipProgress, DropProgress, FlushProgress
    <2>3. \A x \in Retiring : x \notin {"check", "again", "hold", "insert"} \cup Minted
      BY DEF Retiring, Flushing, Minted, Flushing
    <2>. QED BY <1>2, <2>2, <2>3 DEF SerialWrite, At
  <1>6. CASE KeepOldSource(w)
    <2>1. Retired(w, s)
      BY <1>6 DEF SerialWrite, KeepOldSource, At, Retiring, Flushing
    <2>. QED BY <1>1, <1>2, <1>6, <2>1, KeepProgress DEF SerialWrite, At, Retiring, Flushing, Minted
  <1>7. CASE AddProvenance(w) \/ HoldCandidate(w) \/ Search(w)
    <2>1. req'[w] = Idle
      BY <1>1, <1>7 DEF AddProvenance, HoldCandidate, Search, Done, TypeInv, Shape
    <2>. QED BY <2>1 DEF Busy, At, Idle
  <1>. QED BY <1>3, <1>4, <1>5, <1>6, <1>7 DEF ServeStep, WriteStep

LEMMA BeginWriteSettled ==
  ASSUME TypeInv, NEW w \in Workers, NEW c \in Candidates, BeginWrite(w, c), Busy = {},
         NEW s, SettledOK(s), s = stores
  PROVE  SerialWrite(w, s)' /\ req'[w].kind = "write"
  <1>1. PICK v : v = Verdict(c, View)
    OBVIOUS
  <1>2. PICK first : first = CASE v.action = "accept" -> "check"
                               [] v.action = "supersede" /\ v.against # {} -> "flip"
                               [] OTHER -> "hold"
    OBVIOUS
  <1>3. /\ req' = [req EXCEPT ![w] = Begun("write", first, c, v.against, 2, {})]
        /\ v.action # "reject" /\ UNCHANGED vars /\ Room
    BY <1>1, <1>2 DEF BeginWrite
  <1>4. /\ req'[w].kind = "write" /\ req'[w].step = first /\ req'[w].cand = c
        /\ req'[w].olds = v.against /\ req'[w].todo = v.against /\ req'[w].left = 2
    BY <1>3 DEF TypeInv, Shape, Begun
  <1>5. View = SettledView(s) /\ v.against \subseteq DOMAIN s.rows
    <2>1. View = SettledView(s) /\ graph = s.graph
      BY DEF View, SettledView, stores
    <2>2. Verdict(c, View).against \subseteq graph
      BY AgainstIsSubset
    <2>3. v.against \subseteq graph
      BY <1>1, <2>2
    <2>. QED BY <2>1, <2>3 DEF SettledOK
  <1>6. v.action \in {"accept", "supersede", "quarantine"} /\ (v.action = "accept" => v.against = {})
    BY <1>1, <1>3, VerdictActions, AcceptNames
  <1>7. Len(s.rows) + 1 <= MaxRows /\ Len(s.held) < MaxHeld
    <2>1. Inserting = {} /\ Holding = {}
      BY DEF Inserting, Holding, Writers
    <2>2. Cardinality({}) = 0
      BY FS_EmptySet
    <2>3. Len(rows) \in Nat /\ Len(held) \in Nat
      BY DEF TypeInv, RequestTypeOK, TypeOK
    <2>. QED BY <1>3, <2>1, <2>2, <2>3, StoreConstants DEF Room, stores
  <1>8. ActsOn(w, s)'
    BY <1>1, <1>2, <1>4, <1>5, <1>6, <1>7 DEF ActsOn, At, Retiring, Flushing, Minted
  <1>9. /\ rows' = s.rows /\ links' = s.links /\ prov' = s.prov /\ held' = s.held
        /\ graph' = s.graph /\ linkEdges' = s.linkEdges /\ pending' = s.pending
        /\ searchable' = s.searchable /\ stores' = s
    BY <1>3 DEF stores, vars
  <1>10. first = "flip" => Retired(w, s)'
    <2>1. req'[w].olds \ req'[w].todo = {}
      BY <1>4
    <2>2. first = "flip" => searchable' \cup Whole(w, "ids")' = VectorsWithout(s, {})
      BY <1>4, <1>9, NothingRetired DEF Whole, Given, Queue
    <2>. QED BY <1>4, <1>9, <2>1, <2>2, NothingRetired DEF Retired, At
  <1>. QED BY <1>2, <1>4, <1>8, <1>9, <1>10 DEF SerialWrite, At, Retiring, Flushing, Minted

LEMMA BeginQuerySettled ==
  ASSUME TypeInv, NEW w \in Workers, BeginQuery(w), NEW s, s = stores
  PROVE  SerialQuery(w, s)' /\ req'[w].kind = "query"
  <1>1. /\ req'[w].kind = "query" /\ req'[w].step = "flush" /\ req'[w].left = 1
        /\ UNCHANGED vars
    BY DEF BeginQuery, TypeInv, Shape, Begun
  <1>2. /\ rows' = s.rows /\ links' = s.links /\ prov' = s.prov /\ held' = s.held
        /\ graph' = s.graph /\ linkEdges' = s.linkEdges /\ pending' = s.pending
        /\ searchable' = s.searchable
    BY <1>1 DEF stores, vars
  <1>. QED BY <1>1, <1>2 DEF SerialQuery, At

\* The last call of the request that is in flight alone.
LEMMA LastCallSettles ==
  ASSUME TypeInv, NEW w \in Workers, Aligned(w), ServeStep(w), w \notin Busy',
         SettledOK(settled), InProgress(w, settled), settled' = stores'
  PROVE  [Serial!Next]_(Serial!vars)
  <1>1. /\ req[w] \in Requests /\ w \in Busy /\ req \in [Workers -> {Idle} \cup Requests]
        /\ req[w].kind = "query" => req[w].step \in Flushing
    BY StepEffect DEF TypeInv, Shape
  <1>2. \A x \in RequestSteps : x # "idle"
    BY DEF RequestSteps, Retiring, Flushing, Minted, Flushing
  <1>3. CASE Search(w)
    <2>1. SerialQuery(w, settled)
      BY <1>1, <1>3 DEF Search, InProgress
    <2>. QED BY <1>3, <2>1, SearchSettles
  <1>4. ASSUME ~Search(w)
        PROVE  Serial!Next
    <2>1. req[w].step \in {"again", "hold", "source", "link"}
      <3>1. ~FlushStep(w)
        BY FlushMoves DEF FlushDone
      <3>2. ASSUME NEW x \in RequestSteps,
                   \E i : \/ req' = [req EXCEPT ![w].step = x]
                          \/ req' = [req EXCEPT ![w].step = x, ![w].row = i]
                          \/ req' = [req EXCEPT ![w].step = x, ![w].old = i, ![w].left = 2]
                          \/ req' = [req EXCEPT ![w].step = x, ![w].todo = i, ![w].old = 0]
            PROVE  FALSE
        <4>1. req'[w].step = x
          BY <1>1, <3>2 DEF Requests
        <4>. QED BY <1>2, <4>1 DEF Busy, At
      <3>3. {"insert", "again", "edge", "queue", "text", "meta", "source", "unedge", "flush",
             "oldsource", "flip"} \subseteq RequestSteps
        BY DEF RequestSteps, Retiring, Flushing, Minted, Flushing
      <3>4. ~CheckExisting(w)
        BY <3>2, <3>3 DEF CheckExisting, Goto
      <3>5. ~InsertRow(w)
        BY <3>2, <3>3 DEF InsertRow
      <3>6. ~InsertEdge(w) /\ ~DropEdge(w) /\ ~Retag(w) /\ ~QueueText(w) /\ ~QueueMeta(w)
        BY <3>2, <3>3 DEF InsertEdge, DropEdge, Retag, QueueText, QueueMeta, Goto
      <3>7. ~QueueId(w)
        BY <3>2, <3>3 DEF QueueId, Goto
      <3>8. ~FlipStatus(w)
        BY <3>2, <3>3 DEF FlipStatus
      <3>9. ~KeepOldSource(w)
        BY <3>2, <3>3 DEF KeepOldSource
      <3>10. AddProvenance(w) \/ HoldCandidate(w) \/ RecordSource(w) \/ LinkOld(w)
        BY <1>4, <3>1, <3>4, <3>5, <3>6, <3>7, <3>8, <3>9 DEF ServeStep, WriteStep
      <3>. QED BY <3>10 DEF AddProvenance, HoldCandidate, RecordSource, LinkOld, At
    <2>2. SerialWrite(w, settled)
      BY <1>1, <2>1 DEF InProgress, Requests, Flushing
    <2>3. ActsOn(w, settled)
      BY <2>2 DEF SerialWrite
    <2>4. CASE At(w, "again")
      <3>1. AddProvenance(w)
        BY <2>4, StepAt
      <3>2. settled = stores /\ req[w].row \in ExistingIn(settled, req[w].cand)
        BY <2>2, <2>4 DEF SerialWrite, At
      <3>. QED BY <2>3, <3>1, <3>2, ReaffirmSettles
    <2>5. CASE At(w, "hold")
      <3>1. HoldCandidate(w)
        BY <2>5, StepAt
      <3>2. settled = stores
        BY <2>2, <2>5 DEF SerialWrite, At
      <3>. QED BY <2>3, <3>1, <3>2, HoldSettles
    <2>6. CASE At(w, "source")
      <3>1. RecordSource(w)
        BY <2>6, StepAt
      <3>2. Assembled(w, settled)
        BY <2>2, <2>6 DEF SerialWrite, At, Minted
      <3>3. req[w].olds = {}
        <4>1. SUFFICES ASSUME req[w].olds # {}
                       PROVE  FALSE
          OBVIOUS
        <4>2. req'[w].step = "link"
          BY <1>1, <3>1, <4>1 DEF RecordSource, Requests
        <4>. QED BY <4>2 DEF Busy, At
      <3>. QED BY <2>3, <3>1, <3>2, <3>3, AcceptSettles
    <2>7. CASE At(w, "link")
      <3>1. LinkOld(w)
        BY <2>7, StepAt
      <3>2. Assembled(w, settled)
        BY <2>2, <2>7 DEF SerialWrite, At, Minted
      <3>3. PICK o \in req[w].todo :
              \/ req[w].todo = {o}
              \/ req' = [req EXCEPT ![w].todo = req[w].todo \ {o}]
        BY <3>1 DEF LinkOld
      <3>4. req[w].todo = {o}
        <4>1. SUFFICES ASSUME req' = [req EXCEPT ![w].todo = req[w].todo \ {o}]
                       PROVE  FALSE
          BY <3>3
        <4>2. req'[w].step = "link"
          BY <1>1, <2>7, <4>1 DEF Requests, At
        <4>. QED BY <4>2 DEF Busy, At
      <3>5. o \in req[w].olds
        BY <1>1, <3>3 DEF TypeInv, RequestTypeOK
      <3>. QED BY <2>3, <3>1, <3>2, <3>4, <3>5, LinkSettles
    <2>. QED BY <2>1, <2>4, <2>5, <2>6, <2>7 DEF At
  <1>. QED BY <1>3, <1>4

LEMMA SerialStep ==
  ASSUME SerialInv, [RequestsNext]_rvars, VectorInv'
  PROVE  SerialInv' /\ [Serial!Next]_(Serial!vars)
  <1>1. /\ AloneInv' /\ (~overlapped' => ~overlapped) /\ TypeInv /\ TypeInv'
        /\ SettledOK(settled) /\ req \in [Workers -> {Idle} \cup Requests]
    BY AloneStep DEF SerialInv, VectorInv, RequestInv, TypeInv, Shape
  <1>2. CASE UNCHANGED rvars
    <2>1. /\ settled' = settled /\ stores' = stores /\ Busy' = Busy /\ Calm' = Calm
          /\ SettledOK(settled)'
      BY <1>1, <1>2 DEF rvars, vars, stores, Busy, At, Calm, SettledOK, RowSet
    <2>2. \A w \in Busy : InProgress(w, settled)' <=> InProgress(w, settled)
      BY <1>2 DEF rvars, qvars, vars, InProgress, SerialQuery, SerialWrite, ActsOn, Retired,
        Assembled, At, stores, Whole, Queue
    <2>3. [Serial!Next]_(Serial!vars)
      BY <2>1 DEF Serial!vars
    <2>. QED BY <1>1, <2>1, <2>2, <2>3 DEF SerialInv
  <1>3. ASSUME RequestsNext
        PROVE  /\ SettledOK(settled)'
               /\ settled' = IF Calm' /\ Busy' = {} THEN stores' ELSE settled
    <2>1. settled' = IF Calm' /\ Busy' = {} THEN stores' ELSE settled
      BY <1>3 DEF RequestsNext, Observe
    <2>2. stores'.rows \in Seq(RowSet) /\ stores'.graph \subseteq DOMAIN stores'.rows
      BY <1>1 DEF TypeInv, RequestTypeOK, TypeOK, RowSet, Ids, stores
    <2>. QED BY <1>1, <2>1, <2>2 DEF SettledOK, RowSet
  <1>4. CASE RequestsNext /\ ~Calm'
    <2>1. settled' = settled
      BY <1>3, <1>4
    <2>. QED BY <1>1, <1>3, <1>4, <2>1 DEF SerialInv, Serial!vars
  <1>5. CASE RequestsNext /\ Calm'
    <2>1. /\ Calm /\ \A u, v \in Busy : u = v
          /\ \A u, v \in Busy' : u = v
      <3>1. faults' = 0 => faults = 0
        <4>1. faults \in Nat
          BY <1>1 DEF TypeInv, RequestTypeOK
        <4>2. ASSUME NEW w \in Workers, ServeStep(w)
              PROVE  faults' = faults
          BY <1>1, <4>2, StepStores
        <4>3. ASSUME NEW w \in Workers, NEW c \in Candidates, BeginWrite(w, c)
              PROVE  faults' = faults
          BY <4>3 DEF BeginWrite
        <4>4. ASSUME NEW w \in Workers, BeginQuery(w)
              PROVE  faults' = faults
          BY <4>4 DEF BeginQuery
        <4>5. ASSUME NEW w \in Workers, EmbedFails(w)
              PROVE  faults' = 0 => faults = 0
          BY <4>1, <4>5 DEF EmbedFails
        <4>6. CASE Stop
          BY <4>1, <4>6 DEF Stop
        <4>. QED BY <1>5, <4>2, <4>3, <4>4, <4>5, <4>6 DEF RequestsNext
      <3>. QED BY <1>1, <1>5, <3>1 DEF Calm, SerialInv, VectorInv, AloneInv
    <2>2. \A w \in Busy : InProgress(w, settled)
      BY <2>1 DEF SerialInv
    <2>3. Busy = {} => settled = stores
      BY <2>1 DEF SerialInv
    <2>. SUFFICES /\ [Serial!Next]_(Serial!vars)
                  /\ \A w \in Busy' : InProgress(w, settled)'
      BY <1>1, <1>3, <1>5 DEF SerialInv
    <2>4. ASSUME NEW w \in Workers, NEW c \in Candidates, BeginWrite(w, c)
          PROVE  /\ [Serial!Next]_(Serial!vars)
                 /\ \A u \in Busy' : InProgress(u, settled)'
      <3>1. /\ w \in Busy' /\ Busy \subseteq Busy' /\ w \notin Busy
        BY <1>1, <2>4 DEF BeginWrite, Begun, Busy, At
      <3>2. Busy' = {w} /\ Busy = {} /\ settled' = settled /\ settled = stores
        BY <1>3, <1>5, <2>1, <2>3, <3>1
      <3>3. PICK s : s = settled
        OBVIOUS
      <3>4. SerialWrite(w, s)' /\ req'[w].kind = "write"
        BY <1>1, <2>4, <3>2, <3>3, BeginWriteSettled
      <3>5. SerialWrite(w, settled)'
        BY <3>2, <3>3, <3>4
      <3>. QED BY <3>2, <3>4, <3>5 DEF InProgress, Serial!vars
    <2>5. ASSUME NEW w \in Workers, BeginQuery(w)
          PROVE  /\ [Serial!Next]_(Serial!vars)
                 /\ \A u \in Busy' : InProgress(u, settled)'
      <3>1. /\ w \in Busy' /\ Busy \subseteq Busy' /\ w \notin Busy
        BY <1>1, <2>5 DEF BeginQuery, Begun, Busy, At
      <3>2. Busy' = {w} /\ Busy = {} /\ settled' = settled /\ settled = stores
        BY <1>3, <1>5, <2>1, <2>3, <3>1
      <3>3. PICK s : s = settled
        OBVIOUS
      <3>4. SerialQuery(w, s)' /\ req'[w].kind = "query"
        BY <1>1, <2>5, <3>2, <3>3, BeginQuerySettled
      <3>5. SerialQuery(w, settled)'
        BY <3>2, <3>3, <3>4
      <3>. QED BY <3>2, <3>4, <3>5 DEF InProgress, Serial!vars
    <2>6. ASSUME NEW w \in Workers, ServeStep(w)
          PROVE  /\ [Serial!Next]_(Serial!vars)
                 /\ \A u \in Busy' : InProgress(u, settled)'
      <3>1. /\ w \in Busy /\ Busy' \subseteq Busy /\ req[w] \in Requests
            /\ w \in Busy' => Carried(w)
            /\ Aligned(w)
        BY <1>1, <2>1, <2>6, StepEffect, AloneWorker DEF Calm, SerialInv, VectorInv
      <3>2. CASE w \in Busy'
        <4>1. Busy' = {w} /\ settled' = settled /\ req'[w].kind = req[w].kind
          BY <1>3, <1>5, <2>1, <3>1, <3>2 DEF Carried
        <4>2. PICK s : s = settled
          OBVIOUS
        <4>3. CASE req[w].kind = "query"
          <5>1. SerialQuery(w, s)'
            BY <1>1, <2>2, <2>6, <3>1, <3>2, <4>2, <4>3, QueryProgress DEF InProgress
          <5>2. SerialQuery(w, settled)'
            BY <4>1, <4>2, <5>1
          <5>. QED BY <4>1, <4>3, <5>2 DEF InProgress, Serial!vars
        <4>4. CASE req[w].kind = "write"
          <5>1. SerialWrite(w, s)'
            BY <1>1, <2>2, <2>6, <3>1, <3>2, <4>2, <4>4, WriteProgress DEF InProgress
          <5>2. SerialWrite(w, settled)'
            BY <4>1, <4>2, <5>1
          <5>. QED BY <4>1, <4>4, <5>2 DEF InProgress, Serial!vars
        <4>. QED BY <3>1, <4>3, <4>4 DEF Requests
      <3>3. CASE w \notin Busy'
        <4>1. Busy' = {} /\ settled' = stores'
          BY <1>3, <1>5, <2>1, <3>1, <3>3
        <4>. QED BY <1>1, <2>2, <2>6, <3>1, <3>3, <4>1, LastCallSettles
      <3>. QED BY <3>2, <3>3
    <2>7. ASSUME NEW w \in Workers, EmbedFails(w)
          PROVE  FALSE
      BY <1>1, <1>5, <2>1, <2>7 DEF EmbedFails, Calm
    <2>8. CASE Stop
      <3>1. Busy = {} /\ Busy' = {}
        BY <1>1, <1>5, <2>1, <2>8 DEF Stop, Calm, Busy, At, Idle
      <3>2. settled = stores /\ settled' = stores' /\ Restart
        BY <1>3, <1>5, <2>3, <2>8, <3>1 DEF Stop
      <3>. QED BY <3>1, <3>2, StopSettles
    <2>. QED BY <1>5, <2>4, <2>5, <2>6, <2>7, <2>8 DEF RequestsNext
  <1>. QED BY <1>2, <1>4, <1>5

LEMMA SerialInitially ==
  RequestsInit => SettledOK(settled) /\ settled = stores /\ Busy = {} /\ Serial!Init
  <1>. SUFFICES ASSUME RequestsInit
                PROVE  SettledOK(settled) /\ settled = stores /\ Busy = {} /\ Serial!Init
    OBVIOUS
  <1>1. settled = stores /\ Busy = {}
    BY DEF RequestsInit, Busy, At, Idle
  <1>2. Serial!Init
    BY <1>1 DEF RequestsInit, Init, Serial!Init, stores
  <1>3. SettledOK(settled)
    BY <1>1 DEF RequestsInit, Init, stores, SettledOK
  <1>. QED BY <1>1, <1>2, <1>3

\* ConcurrentRequests, ImplementsSerialPipeline: a request that runs alone does to
\* the stores, over all its calls, exactly what one step of the serial pipeline
\* does, and so does a stop between two requests.
THEOREM LoneRequestsAreSerial == RequestsSpec => ImplementsSerialPipeline
  <1>1. RequestsInit /\ VectorInv => SerialInv /\ Serial!Init
    BY SerialInitially DEF SerialInv
  <1>2. SerialInv /\ [RequestsNext]_rvars /\ VectorInv' => SerialInv' /\ [Serial!Next]_(Serial!vars)
    BY SerialStep
  <1>3. RequestsSpec => []VectorInv
    BY VectorInvAlways
  <1>. QED BY <1>1, <1>2, <1>3, PTL DEF RequestsSpec, ImplementsSerialPipeline, Serial!Spec
=============================================================================
