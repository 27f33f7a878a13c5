------------------------- MODULE ContradictionGate -------------------------
(***************************************************************************)
(* The verdict a write of a single-valued value receives before commit:    *)
(* the contradiction gate C7 with the contradiction checker it delegates   *)
(* to, and the narrower write policies the settings can put in its place.  *)
(* A slot is a (subject, predicate) pair; a view is the accepted-only      *)
(* graph as the gate reads it, a function from assertion ids to rows.      *)
(* Confidences are integers (hundredths), so that the strict comparisons   *)
(* of the code are exact.                                                  *)
(***************************************************************************)
EXTENDS Integers

CONSTANTS
  Slots,                \* (subject, predicate) pairs
  SingleValued,         \* the slots whose predicate has cardinality m:1
  StatusSlots,          \* the slots whose predicate is HAS_STATUS
  Objects,              \* the values a slot can be given
  Confidences,          \* confidences a write can carry, in hundredths
  Windows,              \* validity windows [from, to]; open ends at the extremes
  Intents,              \* write intents the extractor produces
  Sources,              \* provenance references; Blank is the missing one
  Blank,
  Threshold,            \* contradiction_high_confidence
  Margin,               \* supersede_margin
  EvidenceMin,          \* supersede_evidence_min
  AuthoritativeUpdate,  \* authoritative_update_supersede
  Policy                \* which write policy the settings select

Policies == {"gate", "ungated", "latest_value", "memgpt", "evidence"}

ASSUME GateConstants ==
  /\ SingleValued \subseteq Slots /\ StatusSlots \subseteq SingleValued
  /\ Confidences \subseteq Nat
  /\ Windows \subseteq [from : Nat, to : Nat]
  /\ Threshold \in Nat /\ Margin \in Nat /\ EvidenceMin \in Nat
  /\ AuthoritativeUpdate \in BOOLEAN
  /\ Policy \in Policies

Candidates ==
  [slot : Slots, obj : Objects, conf : Confidences, win : Windows,
   intent : Intents, source : Sources]

High(conf) == conf > Threshold

\* Mutant of Overlaps: windows that touch are taken to be apart.
OverlapsStrictly(v, w) == v.from < w.to /\ w.from < v.to

\* Closed intervals: windows that only touch do overlap.  An undated write has
\* both ends open and overlaps every window.
Overlaps(v, w) == v.from <= w.to /\ w.from <= v.to

\* Mutant of Conflicts: every predicate is taken to be single-valued.
ConflictsOfAnySlot(c, view) ==
  {i \in DOMAIN view : /\ view[i].slot = c.slot /\ view[i].obj # c.obj
                       /\ Overlaps(c.win, view[i].win)}

\* The accepted values a write of c contradicts.
Conflicts(c, view) ==
  IF c.slot \notin SingleValued THEN {}
  ELSE {i \in DOMAIN view : /\ view[i].slot = c.slot
                            /\ view[i].obj # c.obj
                            /\ Overlaps(c.win, view[i].win)}

\* Only a clash of two high-confidence values blocks a write.
Blocking(c, view) ==
  High(c.conf) /\ \E i \in Conflicts(c, view) : High(view[i].conf)

\* A slot's subject is never the target of EVIDENCE_FOR, so the evidence a write
\* carries is its own source reference.
EvidenceUnits(c) == IF c.source = Blank THEN 0 ELSE 1

\* Mutant of Dominates: beating one of the contradicted values is enough.
DominatesOne(c, view) ==
  /\ \E i \in Conflicts(c, view) : c.conf - view[i].conf > Margin
  /\ EvidenceUnits(c) >= EvidenceMin

\* Algorithm 1: a correction earns the right to replace what it contradicts.
Dominates(c, view) ==
  /\ \A i \in Conflicts(c, view) : c.conf - view[i].conf > Margin
  /\ EvidenceUnits(c) >= EvidenceMin

MayReplace(c, view) ==
  \/ c.intent = "update" /\ AuthoritativeUpdate
  \/ c.intent = "correction" /\ Dominates(c, view)

Decide(action, against) == [action |-> action, against |-> against]

GateVerdict(c, view) ==
  IF ~Blocking(c, view) THEN Decide("accept", {})
  ELSE Decide(IF MayReplace(c, view) THEN "supersede" ELSE "quarantine",
              Conflicts(c, view))

-----------------------------------------------------------------------------
(* The policies the settings substitute for the gate. *)

Occupants(c, view) == {i \in DOMAIN view : view[i].slot = c.slot}

\* Keep the newest value: whatever the slot holds, the same value included, is
\* replaced.
LatestValueVerdict(c, view) ==
  IF c.slot \in SingleValued /\ Occupants(c, view) # {}
  THEN Decide("supersede", Occupants(c, view))
  ELSE Decide("accept", {})

\* The model's own intent decides: only an update overwrites.
MemgptVerdict(c, view) ==
  IF c.intent = "update" THEN LatestValueVerdict(c, view) ELSE Decide("accept", {})

\* Mutant of EvidenceWeightedVerdict: the loser is let in beside the winner.
EvidenceLoserStays(c, view) ==
  LET rivals == {i \in Occupants(c, view) : view[i].obj # c.obj}
  IN  IF rivals # {} /\ \A i \in rivals : c.conf >= view[i].conf
      THEN Decide("supersede", rivals) ELSE Decide("accept", {})

\* The more confident side wins, the newer one on a tie; the loser is rejected.
EvidenceWeightedVerdict(c, view) ==
  LET rivals == {i \in Occupants(c, view) : view[i].obj # c.obj}
  IN  IF c.slot \notin SingleValued \/ rivals = {} THEN Decide("accept", {})
      ELSE Decide(IF \A i \in rivals : c.conf >= view[i].conf
                  THEN "supersede" ELSE "reject", rivals)

\* The structural check W5 comes first: a write with no source is malformed.
WellFormed(c) == c.source # Blank

Verdict(c, view) ==
  IF ~WellFormed(c) THEN Decide("reject", {})
  ELSE CASE Policy = "latest_value"  -> LatestValueVerdict(c, view)
         [] Policy = "memgpt"        -> MemgptVerdict(c, view)
         [] Policy = "evidence"      -> EvidenceWeightedVerdict(c, view)
         [] Policy = "ungated"       -> Decide("accept", {})
         [] OTHER                    -> GateVerdict(c, view)
=============================================================================
