--------------------------- MODULE GovernedMemory ---------------------------
(***************************************************************************)
(* What governed memory promises a reader, with no stores, identifiers or  *)
(* processes: a set of values, into which a value is learned only if it    *)
(* clashes with none, and in which the values a new one is a rival of are  *)
(* replaced, all at once, only by one that beats each of them.  Nothing    *)
(* else changes the set: a restart is invisible.                           *)
(***************************************************************************)
EXTENDS Integers

CONSTANTS Slots, SingleValued, Objects, Confidences, Windows, Threshold, Margin

VARIABLE active     \* the values a reader is served

Values == [slot : Slots, obj : Objects, conf : Confidences, win : Windows]

Same(v, w) == v.slot = w.slot /\ v.obj = w.obj

\* Two values of a single-valued slot that claim the same moment.
Rivals(v, w) ==
  /\ v.slot = w.slot /\ v.slot \in SingleValued
  /\ v.obj # w.obj
  /\ v.win.from <= w.win.to /\ w.win.from <= v.win.to

Clash(v, w) == Rivals(v, w) /\ v.conf > Threshold /\ w.conf > Threshold

Init == active = {}

Learn(v) ==
  /\ \A w \in active : ~Clash(v, w) /\ ~Same(v, w)
  /\ active' = active \cup {v}

Replace(v) ==
  /\ \E w \in active : Clash(v, w)
  /\ \A w \in active : Rivals(v, w) => v.conf - w.conf > Margin
  /\ active' = {w \in active : ~Rivals(v, w) /\ ~Same(v, w)} \cup {v}

Next == \E v \in Values : Learn(v) \/ Replace(v)

Spec == Init /\ [][Next]_active

-----------------------------------------------------------------------------
\* No two confident values of a single-valued slot claim the same moment.
Coherent == \A v, w \in active : ~Clash(v, w)
=============================================================================
