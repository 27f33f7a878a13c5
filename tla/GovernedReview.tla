--------------------------- MODULE GovernedReview ---------------------------
(***************************************************************************)
(* The risk-adaptive commit manager with its review queue.  The gate's     *)
(* verdict is not carried out as it stands: a router turns it into a tier, *)
(* held writes become review items, and an analyst may release them later, *)
(* when the memory they were judged against has changed.                   *)
(*                                                                         *)
(* The escalation score depends on features this module does not have      *)
(* (authority, consequence, evidence, adapted coefficients), so the band it *)
(* falls in, and whether source and time make a write authoritative, are   *)
(* open choices.                                                           *)
(***************************************************************************)
EXTENDS CommitManager

VARIABLES
  ruling,   \* durable: status of each quarantine record
  items     \* memory: the review queue, [record, resolved]

gvars == <<vars, ruling, items>>

Rulings == {"unresolved", "resolved", "dismissed"}

\* Below tau_l, between the thresholds, at or above tau_h.
Bands == {"low", "mid", "high"}

GovernedTypeOK ==
  /\ TypeOK
  /\ ruling \in Seq(Rulings) /\ Len(ruling) = Len(held)
  /\ items \in Seq([record : 1..Len(held), resolved : BOOLEAN])

GovernedInit == Init /\ ruling = <<>> /\ items = <<>>

OtherValues(c) ==
  IF c.slot \notin SingleValued THEN {}
  ELSE {i \in graph : rows[i].slot = c.slot /\ rows[i].obj # c.obj}

\* What the write would retire: what the gate found, else the slot's other values.
Incumbents(c) ==
  LET against == Verdict(c, View).against
  IN  IF against # {} THEN against ELSE OtherValues(c)

\* The condition h(u): authority and timing are the open choice.
MayCorrect(c) == c.intent \in {"update", "correction"} /\ Incumbents(c) # {}

\* Mutant of Tier: a low score is accepted beside the slot's other values.
TierLowAccepts(c, band, authoritative) ==
  CASE ~WellFormed(c) -> "reject"
    [] WellFormed(c) /\ band = "low" -> "accept"
    [] WellFormed(c) /\ band = "mid" /\ authoritative /\ MayCorrect(c) -> "supersede"
    [] OTHER -> "review"

\* Equation (6).  No mandatory check judges a well-formed slot write, so m(u) = 0.
Tier(c, band, authoritative) ==
  CASE ~WellFormed(c) -> "reject"
    [] WellFormed(c) /\ band = "low" ->
         IF Incumbents(c) # {} THEN "supersede" ELSE "accept"
    [] WellFormed(c) /\ band = "mid" /\ authoritative /\ MayCorrect(c) -> "supersede"
    [] OTHER -> "review"

RouteAccept(c, band, authoritative) ==
  /\ Tier(c, band, authoritative) = "accept"
  /\ AcceptNew(c) \/ Reaffirm(c)
  /\ UNCHANGED <<ruling, items>>

RouteSupersede(c, band, authoritative) ==
  /\ Tier(c, band, authoritative) = "supersede"
  /\ SupersedeWith(c, Incumbents(c))
  /\ UNCHANGED <<ruling, items>>

\* The write is quarantined and its review item enqueued.
RouteReview(c, band, authoritative) ==
  /\ Tier(c, band, authoritative) = "review"
  /\ Quarantine(c, Incumbents(c))
  /\ ruling' = Append(ruling, "unresolved")
  /\ items' = Append(items, [record |-> Len(held) + 1, resolved |-> FALSE])

RouteReject(c, band, authoritative) ==
  /\ Tier(c, band, authoritative) = "reject"
  /\ UNCHANGED gvars

\* Mutant of Resolve: the decision is recorded as a further quarantine row.
ResolveAsNewRecord(k, status) ==
  /\ ruling' = Append(ruling, status)
  /\ items' = [items EXCEPT ![k].resolved = TRUE]

Resolve(k, status) ==
  /\ ruling' = [ruling EXCEPT ![items[k].record] = status]
  /\ items' = [items EXCEPT ![k].resolved = TRUE]

\* Mutant of Retires: the conflicts recorded when the write was held.
RetiresHeldAgainst(rec) == rec.against

\* What a release retires: the slot's other values as they are now; only if there
\* are none, what the write was held against.
Retires(rec) ==
  LET now == OtherValues(rec.cand)
  IN  IF now # {} THEN now ELSE rec.against

\* The analyst accepts or supersedes: either commits the held write.
Release(k) ==
  LET rec == held[items[k].record] IN
  /\ \/ Retires(rec) # {} /\ SupersedeWith(rec.cand, Retires(rec))
     \/ Retires(rec) = {} /\ (AcceptNew(rec.cand) \/ Reaffirm(rec.cand))
  /\ Resolve(k, "resolved")

\* The analyst keeps the write out of memory, for now or for good.
Hold(k) == Resolve(k, "unresolved") /\ UNCHANGED vars
Dismiss(k) == Resolve(k, "dismissed") /\ UNCHANGED vars

Adjudicate(k) == Release(k) \/ Hold(k) \/ Dismiss(k)

RouteWrite ==
  \E c \in Candidates, band \in Bands, authoritative \in BOOLEAN :
    \/ RouteAccept(c, band, authoritative)
    \/ RouteSupersede(c, band, authoritative)
    \/ RouteReview(c, band, authoritative)
    \/ RouteReject(c, band, authoritative)

\* Everything that happens while the process lives.
GovernedNext ==
  \/ RouteWrite
  \/ \E k \in DOMAIN items : Adjudicate(k)
  \/ FlushVectors /\ UNCHANGED <<ruling, items>>

\* The queue is in memory; the quarantine records are not.
GovernedRestart == Restart /\ items' = <<>> /\ UNCHANGED ruling

GovernedSpec == GovernedInit /\ [][GovernedNext \/ GovernedRestart]_gvars

-----------------------------------------------------------------------------
\* review_queue.py:546-550, _release: a release serves the released value, and on
\* a single-valued slot it serves nothing else, however stale what the write was
\* held against has become.
ReleaseServesOneValue ==
  [][\A k \in DOMAIN items :
       Release(k) =>
         LET c == held[items[k].record].cand
             now == {i \in graph' : rows'[i].slot = c.slot}
         IN  /\ \E i \in now : rows'[i].obj = c.obj
             /\ c.slot \in SingleValued => \A i \in now : rows'[i].obj = c.obj]_gvars

\* policy.py:325-331 and review_queue.py:546-550: whatever the scores, no routed
\* write and no adjudication gives a single-valued slot a second active value.
CommitsKeepOneValue == [][GovernedNext /\ OneValuePerSlot => OneValuePerSlot']_gvars
=============================================================================
