------------------------ MODULE GovernedMemoryProofs ------------------------
(* The abstract memory never contradicts itself. *)
EXTENDS GovernedMemory, TLAPS

LEMMA ClashIsSymmetric ==
  ASSUME NEW v, NEW w, Clash(v, w)
  PROVE  Clash(w, v)
  BY DEF Clash, Rivals

LEMMA CoherentStep == Coherent /\ [Next]_active => Coherent'
  <1>. SUFFICES ASSUME Coherent, [Next]_active
                PROVE  Coherent'
    OBVIOUS
  <1>1. ASSUME NEW v \in Values, Learn(v)
        PROVE  Coherent'
    <2>1. ~Clash(v, v)
      BY DEF Clash, Rivals
    <2>. QED BY <1>1, <2>1, ClashIsSymmetric DEF Learn, Coherent
  <1>2. ASSUME NEW v \in Values, Replace(v)
        PROVE  Coherent'
    <2>1. ~Clash(v, v) /\ \A w \in active' : Clash(v, w) => w = v
      BY <1>2 DEF Replace, Clash, Rivals
    <2>2. \A w \in active' : w = v \/ w \in active
      BY <1>2 DEF Replace
    <2>. QED BY <2>1, <2>2, ClashIsSymmetric DEF Coherent
  <1>. QED BY <1>1, <1>2 DEF Next, Coherent

\* No reader of the abstract memory is ever served two confident values of one
\* slot for the same moment.
THEOREM CoherentAlways == Spec => []Coherent
  <1>1. Init => Coherent
    BY DEF Init, Coherent
  <1>. QED BY <1>1, CoherentStep, PTL DEF Spec
=============================================================================
