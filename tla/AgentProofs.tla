---------------------------- MODULE AgentProofs ----------------------------
(***************************************************************************)
(* What entity linking and the questions asked of memory keep, for every   *)
(* set of names and likenesses, texts of any length, every write policy    *)
(* and every restart.                                                      *)
(***************************************************************************)
EXTENDS AgentMemory, WritePipelineProofs, FiniteSetTheorems

-----------------------------------------------------------------------------
(* The resolver. *)

Distinct(ns) == \A j, n \in DOMAIN ns : ns[j].name = ns[n].name => j = n

\* A mention resolves to an entity it shares a key with, or mints one whose name no
\* entity has.
LEMMA Resolves ==
  ASSUME NEW ns \in Seq(Mentions), Distinct(ns), NEW m \in Mentions
  PROVE  /\ Resolve(m, ns).existing =>
              /\ Resolve(m, ns).node \in DOMAIN ns
              /\ Keys(ns[Resolve(m, ns).node]) \cap Keys(m) # {}
         /\ ~Resolve(m, ns).existing =>
              Resolve(m, ns).node = Len(ns) + 1 /\ ByName(m, ns) = {}
         /\ Resolve(m, ns).matches \subseteq DOMAIN ns
  <1>. DEFINE found == Matching(m, ns)
  <1>1. DOMAIN ns = 1..Len(ns) /\ Len(ns) \in Nat
    OBVIOUS
  <1>2. found \subseteq DOMAIN ns /\ \A n \in found : Keys(ns[n]) \cap Keys(m) # {}
    BY DEF Matching, ByName, ByAlias, Keys
  <1>3. IsFiniteSet(found) /\ Cardinality(found) \in Nat
    <2>1. IsFiniteSet(1..Len(ns)) /\ found \in SUBSET (1..Len(ns))
      BY <1>1, <1>2, FS_Interval
    <2>. HIDE DEF found
    <2>. QED BY <2>1, FS_Subset, FS_CardinalityType
  <1>4. ASSUME Cardinality(found) # 1
        PROVE  ByName(m, ns) = {}
    <2>1. SUFFICES ASSUME NEW n \in ByName(m, ns) PROVE FALSE
      OBVIOUS
    <2>2. found = {n}
      BY <2>1 DEF Matching, ByName, Distinct
    <2>. QED BY <1>4, <2>2, FS_Singleton
  <1>5. CASE Cardinality(found) = 1
    <2>1. PICK n : found = {n}
      BY <1>3, <1>5, FS_Singleton
    <2>. DEFINE r == [node |-> CHOOSE x \in found : TRUE, existing |-> TRUE, matches |-> {}]
    <2>2. r.node \in found /\ r.existing = TRUE /\ r.matches = {}
      BY <2>1
    <2>3. Resolve(m, ns) = r
      BY <1>5 DEF Resolve
    <2>. QED BY <1>2, <2>2, <2>3
  <1>6. ASSUME NEW matches, matches \subseteq DOMAIN ns, Cardinality(found) # 1,
               Resolve(m, ns) = Minted(ns, matches)
        PROVE  /\ ~Resolve(m, ns).existing
               /\ Resolve(m, ns).node = Len(ns) + 1 /\ ByName(m, ns) = {}
               /\ Resolve(m, ns).matches \subseteq DOMAIN ns
    BY <1>4, <1>6 DEF Minted
  <1>7. CASE Cardinality(found) > 1
    <2>1. Resolve(m, ns) = Minted(ns, found)
      BY <1>3, <1>7 DEF Resolve
    <2>. QED BY <1>2, <1>3, <1>6, <1>7, <2>1
  <1>8. CASE Cardinality(found) # 1 /\ ~(Cardinality(found) > 1)
    <2>1. Resolve(m, ns) = Minted(ns, Alike(m, ns))
      BY <1>3, <1>8 DEF Resolve
    <2>2. Alike(m, ns) \subseteq DOMAIN ns
      BY DEF Alike
    <2>. QED BY <1>6, <1>8, <2>1, <2>2
  <1>. QED BY <1>5, <1>7, <1>8

-----------------------------------------------------------------------------
(* What a text has persisted after its first k mentions. *)

\* Entities are the known ones, then mentions; what a name resolved to is known only
\* if the text's mention of it resolved to a known entity or to one that an earlier
\* mention with a common key brought in.
StageOK(s, ns, ms, k) ==
  /\ s.nodes \in Seq(Mentions) /\ Distinct(s.nodes)
  /\ Len(ns) <= Len(s.nodes) /\ \A n \in DOMAIN ns : s.nodes[n] = ns[n]
  /\ \A n \in DOMAIN s.nodes \ DOMAIN ns : \E j \in 1..k : s.nodes[n] = ms[j]
  /\ \A x \in DOMAIN s.trace :
       /\ s.trace[x].node \in DOMAIN s.nodes /\ s.trace[x].matches \subseteq DOMAIN s.nodes
       /\ \E j \in 1..k :
            /\ ms[j].name = x
            /\ s.trace[x].existing =>
                 \/ s.trace[x].node \in DOMAIN ns
                 \/ \E i \in 1..(j - 1) : Keys(ms[i]) \cap Keys(ms[j]) # {}

LEMMA PersistKeeps ==
  ASSUME NEW ns \in Seq(Mentions), NEW ms \in Seq(Mentions), NEW k \in DOMAIN ms,
         NEW s, StageOK(s, ns, ms, k - 1)
  PROVE  StageOK(Persist(s, ms[k]), ns, ms, k)
  <1>. DEFINE m == ms[k]
              r == Resolve(m, s.nodes)
              u == Persist(s, m)
  <1>1. /\ s.nodes \in Seq(Mentions) /\ Distinct(s.nodes) /\ m \in Mentions
        /\ Len(s.nodes) \in Nat /\ DOMAIN s.nodes = 1..Len(s.nodes)
        /\ DOMAIN ns = 1..Len(ns) /\ Len(ns) \in Nat /\ Len(ns) <= Len(s.nodes)
        /\ k \in Nat /\ k >= 1
    BY DEF StageOK
  <1>2. /\ r.existing =>
             r.node \in DOMAIN s.nodes /\ Keys(s.nodes[r.node]) \cap Keys(m) # {}
        /\ ~r.existing => r.node = Len(s.nodes) + 1 /\ ByName(m, s.nodes) = {}
        /\ r.matches \subseteq DOMAIN s.nodes
    BY <1>1, Resolves
  <1>3. /\ u.nodes = IF r.existing THEN s.nodes ELSE Append(s.nodes, m)
        /\ u.trace = [x \in DOMAIN s.trace \cup {m.name} |->
                        IF x = m.name THEN r ELSE s.trace[x]]
    BY DEF Persist
  <1>. HIDE DEF r, u
  <1>4. /\ u.nodes \in Seq(Mentions) /\ DOMAIN u.nodes = 1..Len(u.nodes)
        /\ Len(u.nodes) = IF r.existing THEN Len(s.nodes) ELSE Len(s.nodes) + 1
        /\ \A n \in DOMAIN s.nodes : u.nodes[n] = s.nodes[n]
        /\ ~r.existing => u.nodes[Len(s.nodes) + 1] = m
    BY <1>1, <1>3
  <1>5. Distinct(u.nodes)
    <2>1. CASE r.existing
      BY <1>1, <1>3, <2>1
    <2>2. CASE ~r.existing
      <3>1. \A n \in DOMAIN s.nodes : s.nodes[n].name # m.name
        BY <1>2, <2>2 DEF ByName
      <3>2. SUFFICES ASSUME NEW i \in DOMAIN u.nodes, NEW j \in DOMAIN u.nodes,
                            u.nodes[i].name = u.nodes[j].name
                     PROVE  i = j
        BY DEF Distinct
      <3>3. /\ i \in DOMAIN s.nodes \/ i = Len(s.nodes) + 1
            /\ j \in DOMAIN s.nodes \/ j = Len(s.nodes) + 1
        BY <1>1, <1>4, <2>2
      <3>. QED BY <1>1, <1>4, <2>2, <3>1, <3>2, <3>3 DEF Distinct
    <2>. QED BY <2>1, <2>2
  <1>6. Len(ns) <= Len(u.nodes) /\ \A n \in DOMAIN ns : u.nodes[n] = ns[n]
    <2>1. \A n \in DOMAIN ns : n \in DOMAIN s.nodes /\ s.nodes[n] = ns[n]
      BY <1>1 DEF StageOK
    <2>. QED BY <1>1, <1>4, <2>1
  <1>7. ASSUME NEW n \in DOMAIN u.nodes \ DOMAIN ns
        PROVE  \E j \in 1..k : u.nodes[n] = ms[j]
    <2>1. CASE n \in DOMAIN s.nodes
      BY <1>1, <1>4, <1>7, <2>1 DEF StageOK
    <2>2. CASE n = Len(s.nodes) + 1 /\ ~r.existing
      BY <1>1, <1>4, <2>2
    <2>. QED BY <1>1, <1>4, <1>7, <2>1, <2>2
  <1>8. ASSUME NEW x \in DOMAIN u.trace
        PROVE  /\ u.trace[x].node \in DOMAIN u.nodes
               /\ u.trace[x].matches \subseteq DOMAIN u.nodes
               /\ \E j \in 1..k :
                    /\ ms[j].name = x
                    /\ u.trace[x].existing =>
                         \/ u.trace[x].node \in DOMAIN ns
                         \/ \E i \in 1..(j - 1) : Keys(ms[i]) \cap Keys(ms[j]) # {}
    <2>1. CASE x = m.name
      <3>1. u.trace[x] = r
        BY <1>3, <2>1
      <3>2. r.node \in DOMAIN u.nodes /\ r.matches \subseteq DOMAIN u.nodes
        BY <1>1, <1>2, <1>4
      <3>3. ASSUME r.existing, r.node \notin DOMAIN ns
            PROVE  \E i \in 1..(k - 1) : Keys(ms[i]) \cap Keys(ms[k]) # {}
        <4>1. r.node \in DOMAIN s.nodes \ DOMAIN ns
          BY <1>2, <3>3
        <4>2. PICK i \in 1..(k - 1) : s.nodes[r.node] = ms[i]
          BY <4>1 DEF StageOK
        <4>. QED BY <1>2, <3>3, <4>2
      <3>4. k \in 1..k /\ ms[k].name = x
        BY <1>1, <2>1
      <3>5. r.existing => \/ r.node \in DOMAIN ns
                          \/ \E i \in 1..(k - 1) : Keys(ms[i]) \cap Keys(ms[k]) # {}
        BY <3>3
      <3>. HIDE DEF m
      <3>. QED BY <3>1, <3>2, <3>4, <3>5
    <2>2. CASE x # m.name
      <3>1. x \in DOMAIN s.trace /\ u.trace[x] = s.trace[x]
        BY <1>3, <1>8, <2>2
      <3>2. /\ s.trace[x].node \in DOMAIN s.nodes /\ s.trace[x].matches \subseteq DOMAIN s.nodes
            /\ \E j \in 1..(k - 1) :
                 /\ ms[j].name = x
                 /\ s.trace[x].existing =>
                      \/ s.trace[x].node \in DOMAIN ns
                      \/ \E i \in 1..(j - 1) : Keys(ms[i]) \cap Keys(ms[j]) # {}
        BY <3>1 DEF StageOK
      <3>3. DOMAIN s.nodes \subseteq DOMAIN u.nodes /\ 1..(k - 1) \subseteq 1..k
        BY <1>1, <1>4
      <3>4. PICK j \in 1..(k - 1) :
              /\ ms[j].name = x
              /\ s.trace[x].existing =>
                   \/ s.trace[x].node \in DOMAIN ns
                   \/ \E i \in 1..(j - 1) : Keys(ms[i]) \cap Keys(ms[j]) # {}
        BY <3>2
      <3>5. j \in 1..k
        BY <3>3
      <3>6. u.trace[x].node \in DOMAIN u.nodes /\ u.trace[x].matches \subseteq DOMAIN u.nodes
        BY <3>1, <3>2, <3>3
      <3>7. u.trace[x].existing =>
              \/ u.trace[x].node \in DOMAIN ns
              \/ \E i \in 1..(j - 1) : Keys(ms[i]) \cap Keys(ms[j]) # {}
        BY <3>1, <3>4
      <3>. QED BY <3>4, <3>5, <3>6, <3>7
    <2>. QED BY <2>1, <2>2
  <1>9. StageOK(u, ns, ms, k)
    BY <1>4, <1>5, <1>6, <1>7, <1>8 DEF StageOK
  <1>. QED BY <1>9 DEF u

\* The stages of a text are what their recursive definition says.
LEMMA StagesOf ==
  ASSUME NEW t \in Texts
  PROVE  /\ Stages(t)[0] = [nodes |-> nodes, trace |-> <<>>]
         /\ \A k \in DOMAIN t.mentions :
              Stages(t)[k] = Persist(Stages(t)[k - 1], t.mentions[k])
  <1>. DEFINE ms == t.mentions
              base == [nodes |-> nodes, trace |-> <<>>]
              Solves(g, n) ==
                g = [k \in 0..n |-> IF k = 0 THEN base ELSE Persist(g[k - 1], ms[k])]
              S == {n \in Nat : \E g : Solves(g, n)}
  <1>1. Len(ms) \in Nat /\ DOMAIN ms = 1..Len(ms)
    BY LinkingInputs
  <1>2. 0 \in S
    <2>1. Solves([k \in 0..0 |-> base], 0)
      OBVIOUS
    <2>. QED BY <2>1
  <1>3. ASSUME NEW n \in S
        PROVE  n + 1 \in S
    <2>1. PICK g : Solves(g, n)
      OBVIOUS
    <2>. DEFINE h == [k \in 0..(n + 1) |-> IF k = n + 1 THEN Persist(g[n], ms[n + 1]) ELSE g[k]]
    <2>2. \A k \in 0..n : h[k] = g[k]
      OBVIOUS
    <2>3. h[n + 1] = Persist(h[n], ms[n + 1])
      BY <2>2
    <2>4. ASSUME NEW k \in 0..n
          PROVE  h[k] = IF k = 0 THEN base ELSE Persist(h[k - 1], ms[k])
      <3>1. h[k] = IF k = 0 THEN base ELSE Persist(g[k - 1], ms[k])
        BY <2>1, <2>2
      <3>2. k # 0 => k - 1 \in 0..n
        OBVIOUS
      <3>. QED BY <2>2, <3>1, <3>2
    <2>. DEFINE f == [k \in 0..(n + 1) |-> IF k = 0 THEN base ELSE Persist(h[k - 1], ms[k])]
    <2>5. \A k \in 0..(n + 1) : h[k] = f[k]
      <3>. SUFFICES ASSUME NEW k \in 0..(n + 1) PROVE h[k] = f[k]
        OBVIOUS
      <3>1. CASE k \in 0..n
        BY <2>4, <3>1
      <3>2. CASE k = n + 1
        BY <2>3, <3>2
      <3>. QED BY <3>1, <3>2
    <2>6. h = f
      BY <2>5
    <2>7. Solves(h, n + 1) /\ n + 1 \in Nat
      BY <2>6
    <2>. HIDE DEF h, Solves
    <2>. QED BY <2>7
  <1>4. S = Nat
    BY <1>2, <1>3, SetInduction
  <1>5. \E g : Solves(g, Len(ms))
    BY <1>1, <1>4
  <1>6. Stages(t) = CHOOSE g : Solves(g, Len(ms))
    BY DEF Stages
  <1>7. Solves(Stages(t), Len(ms))
    BY <1>5, <1>6
  <1>. QED BY <1>1, <1>7

\* After all its mentions a text has the names still distinct, and the subject of its
\* relation is one it mentions.
LEMMA PersistedOK ==
  ASSUME nodes \in Seq(Mentions), NamesAreDistinct, NEW t \in Texts
  PROVE  StageOK(Persisted(t), nodes, t.mentions, Len(t.mentions))
  <1>. DEFINE ms == t.mentions
              S == {n \in Nat : n <= Len(ms) => StageOK(Stages(t)[n], nodes, ms, n)}
  <1>1. ms \in Seq(Mentions) /\ Len(ms) \in Nat /\ DOMAIN ms = 1..Len(ms)
    BY LinkingInputs
  <1>2. 0 \in S
    <2>1. Stages(t)[0].nodes = nodes /\ Stages(t)[0].trace = <<>>
      BY StagesOf
    <2>. QED BY <2>1 DEF StageOK, Distinct, NamesAreDistinct
  <1>3. ASSUME NEW n \in S
        PROVE  n + 1 \in S
    <2>1. SUFFICES ASSUME n + 1 <= Len(ms)
                   PROVE  StageOK(Stages(t)[n + 1], nodes, ms, n + 1)
      OBVIOUS
    <2>2. n + 1 \in DOMAIN ms /\ (n + 1) - 1 = n /\ StageOK(Stages(t)[n], nodes, ms, n)
      BY <1>1, <2>1
    <2>3. Stages(t)[n + 1] = Persist(Stages(t)[n], ms[n + 1])
      BY <2>2, StagesOf
    <2>. HIDE DEF ms
    <2>. QED BY <1>1, <2>2, <2>3, PersistKeeps
  <1>4. S = Nat
    <2>. HIDE DEF S
    <2>1. S \in SUBSET Nat
      BY DEF S
    <2>. QED BY <1>2, <1>3, <2>1, SetInduction
  <1>. QED BY <1>1, <1>4 DEF Persisted

-----------------------------------------------------------------------------
(* The steps. *)

LinkingInv ==
  /\ TypeOK
  /\ EdgesAreAcceptedRows
  /\ SlotsAreServed
  /\ nodes \in Seq(Mentions) /\ Len(nodes) <= MaxNodes
  /\ NamesAreDistinct

LEMMA CandidateTyped ==
  ASSUME NEW t \in Texts, NEW n \in 1..MaxNodes
  PROVE  /\ CandidateAbout(t, n) \in Candidates
         /\ CandidateAbout(t, n).slot = NodeId(n)
  <1>1. NodeId(n) \in Slots /\ (CHOOSE w \in Windows : TRUE) \in Windows
    BY LinkingInputs DEF AllNodeIds
  <1>2. /\ t.obj \in Objects /\ t.conf \in Confidences
        /\ t.intent \in Intents /\ t.source \in Sources
    BY LinkingInputs
  <1>. QED BY <1>1, <1>2 DEF CandidateAbout, Candidates

\* A relation is written about an entity the text has resolved or brought in.
LEMMA SubjectTyped ==
  ASSUME LinkingInv, NEW t \in Texts, Len(Persisted(t).nodes) <= MaxNodes,
         t.about \in DOMAIN Persisted(t).trace
  PROVE  LET r == Persisted(t).trace[t.about]
         IN  r.node \in 1..MaxNodes /\ r.matches \subseteq 1..MaxNodes
  <1>1. StageOK(Persisted(t), nodes, t.mentions, Len(t.mentions))
    BY PersistedOK DEF LinkingInv
  <1>2. DOMAIN Persisted(t).nodes \subseteq 1..MaxNodes
    BY <1>1, LinkingConstants DEF StageOK
  <1>. QED BY <1>1, <1>2 DEF StageOK

LEMMA WriteTyped ==
  ASSUME TypeOK, EdgesAreAcceptedRows, NEW c \in Candidates, Write(c)
  PROVE  TypeOK' /\ EdgesAreAcceptedRows'
  BY AgainstIsSubset, AcceptNewTyped, ReaffirmTyped, SupersedeTyped, QuarantineTyped,
     UnchangedTyped
     DEF Write, WriteAccepted, WriteReaffirmed, WriteSupersedes, WriteHeld, WriteRejected

\* A relation held by the linkage guard or by C5, whatever it is held against.
LEMMA LinkageHeld ==
  ASSUME TypeOK, EdgesAreAcceptedRows, NEW c \in Candidates, NEW against \in SUBSET Nat,
         Quarantine(c, against)
  PROVE  TypeOK' /\ EdgesAreAcceptedRows'
  <1>1. [cand |-> c, against |-> against] \in [cand : Candidates, against : SUBSET Nat]
    OBVIOUS
  <1>2. held' \in Seq([cand : Candidates, against : SUBSET Nat])
    BY <1>1 DEF Quarantine, TypeOK
  <1>. QED BY <1>2 DEF Quarantine, TypeOK, Ids, EdgesAreAcceptedRows

LEMMA WriteTextKeeps ==
  ASSUME LinkingInv, NEW t \in Texts, WriteText(t)
  PROVE  LinkingInv'
  <1>. DEFINE p == Persisted(t)
  <1>1. /\ Len(p.nodes) <= MaxNodes /\ nodes' = p.nodes
        /\ t.about \in DOMAIN p.trace => WriteRelation(t, p.trace[t.about])
        /\ t.about \notin DOMAIN p.trace => UNCHANGED vars
    BY DEF WriteText
  <1>2. StageOK(p, nodes, t.mentions, Len(t.mentions))
    BY PersistedOK DEF LinkingInv
  <1>3. nodes' \in Seq(Mentions) /\ Len(nodes') <= MaxNodes /\ NamesAreDistinct'
    BY <1>1, <1>2 DEF StageOK, Distinct, NamesAreDistinct
  <1>4. TypeOK /\ EdgesAreAcceptedRows /\ SlotsAreServed
    BY DEF LinkingInv
  <1>5. CASE t.about \notin DOMAIN p.trace
    BY <1>1, <1>3, <1>4, <1>5, UnchangedTyped, UnchangedServes DEF LinkingInv, vars
  <1>6. CASE t.about \in DOMAIN p.trace
    <2>. DEFINE r == p.trace[t.about]
    <2>1. r.node \in 1..MaxNodes /\ r.matches \subseteq 1..MaxNodes
      BY <1>1, <1>6, SubjectTyped
    <2>2. PICK c : c = CandidateAbout(t, r.node)
      OBVIOUS
    <2>3. PICK against : against = LinkageAgainst(r)
      OBVIOUS
    <2>4. c \in Candidates
      BY <2>1, <2>2, CandidateTyped
    <2>5. against \in SUBSET Nat
      <3>1. \A n \in r.matches : NodeId(n) \in Nat
        BY <2>1, StoreConstants, LinkingConstants DEF NodeId
      <3>2. graph \subseteq Nat
        BY <1>4 DEF TypeOK, Ids
      <3>. QED BY <2>3, <3>1, <3>2 DEF LinkageAgainst, OthersKnown
    <2>6. Quarantine(c, against) \/ Quarantine(c, {}) \/ Write(c)
      BY <1>1, <1>6, <2>2, <2>3 DEF WriteRelation
    <2>7. ASSUME NEW ids \in SUBSET Nat, Quarantine(c, ids)
          PROVE  LinkingInv'
      <3>1. UNCHANGED <<rows, graph>>
        BY <2>7 DEF Quarantine
      <3>. QED BY <1>3, <1>4, <2>4, <2>7, <3>1, LinkageHeld, UnchangedServes DEF LinkingInv
    <2>8. CASE Write(c)
      BY <1>3, <1>4, <2>4, <2>8, WriteTyped, WriteServes DEF LinkingInv
    <2>. QED BY <2>5, <2>6, <2>7, <2>8
  <1>. QED BY <1>5, <1>6

LEMMA LinkingInvStep ==
  ASSUME LinkingInv, [AgentNext]_evars
  PROVE  LinkingInv'
  <1>1. TypeOK /\ EdgesAreAcceptedRows /\ SlotsAreServed
    BY DEF LinkingInv
  <1>2. ASSUME [Next]_vars, UNCHANGED nodes, SlotsAreServed', EdgesAreAcceptedRows'
        PROVE  LinkingInv'
    BY <1>1, <1>2, TypeOKStep DEF LinkingInv, NamesAreDistinct
  <1>3. CASE Retrieve
    <2>1. FlushVectors /\ UNCHANGED nodes /\ UNCHANGED <<rows, graph>>
      BY <1>3 DEF Retrieve, FlushVectors, durable
    <2>2. EdgesAreAcceptedRows'
      BY <1>1, <2>1 DEF EdgesAreAcceptedRows
    <2>. QED BY <1>1, <1>2, <2>1, <2>2, UnchangedServes DEF Next
  <1>4. CASE LinkingRestart
    <2>1. Restart /\ UNCHANGED nodes
      BY <1>4 DEF LinkingRestart
    <2>2. EdgesAreAcceptedRows'
      BY <1>1, <2>1 DEF Restart, Rebuilt, durable, EdgesAreAcceptedRows, Accepted, SameTriple,
                        TypeOK, Ids
    <2>. QED BY <1>1, <1>2, <2>1, <2>2, RestartServes DEF Next
  <1>5. CASE UNCHANGED evars
    <2>1. UNCHANGED vars /\ UNCHANGED nodes
      BY <1>5 DEF evars
    <2>2. EdgesAreAcceptedRows' /\ SlotsAreServed'
      BY <1>1, <2>1, UnchangedTyped, UnchangedServes DEF vars
    <2>. QED BY <1>2, <2>1, <2>2
  <1>. QED BY <1>3, <1>4, <1>5, WriteTextKeeps DEF AgentNext, Tell

LEMMA LinkingInvAlways == AgentSpec => []LinkingInv
  <1>1. LinkingInit => LinkingInv
    <2>1. SUFFICES ASSUME LinkingInit PROVE LinkingInv
      OBVIOUS
    <2>2. TypeOK /\ EdgesAreAcceptedRows
      BY <2>1, StoresAgreeInit DEF LinkingInit, StoresAgree
    <2>3. nodes = <<>> /\ Accepted = {}
      BY <2>1 DEF LinkingInit, Init, Accepted, Ids
    <2>. QED BY <2>2, <2>3, LinkingConstants
             DEF LinkingInv, SlotsAreServed, NamesAreDistinct
  <1>. QED BY <1>1, LinkingInvStep, PTL DEF AgentSpec

\* Whatever texts mention, in whatever order and however many at once, a name is the
\* name of one entity: the exact-name step of the resolver never finds two.
THEOREM NamesAlwaysDistinct == AgentSpec => []NamesAreDistinct
  <1>1. LinkingInv => NamesAreDistinct
    BY DEF LinkingInv
  <1>. QED BY <1>1, LinkingInvAlways, PTL

-----------------------------------------------------------------------------
(* Questions. *)

\* A question about a task with an accepted assignee gets an uncontested answer or is
\* shown a conflict, whatever was held, displaced, repeated or rebuilt before it.
THEOREM QuestionsAlwaysServed == AgentSpec => []QuestionsAreServed
  <1>1. ASSUME LinkingInv, NEW name \in Names, NEW nearest \in NearestOf(searchable \cup pending)
        PROVE  LET known == {i \in Accepted : rows[i].slot \in Asked(name)} IN
               /\ known # {} =>
                    \/ Answers(name, nearest) # {}
                    \/ /\ ShownItems(name, nearest) # {}
                       /\ ShownRecords(name, nearest) # {}
               /\ \A obj \in Answers(name, nearest) :
                    \E i \in known \ Contradicted : rows[i].obj = obj
    <2>. DEFINE known == {i \in Accepted : rows[i].slot \in Asked(name)}
    <2>1. graph \subseteq Accepted
      BY <1>1 DEF LinkingInv, TypeOK, EdgesAreAcceptedRows, Accepted
    <2>2. ASSUME NEW k \in known
          PROVE  \/ Answers(name, nearest) # {}
                 \/ ShownItems(name, nearest) # {} /\ ShownRecords(name, nearest) # {}
      <3>1. PICK i \in graph : rows[i].slot = rows[k].slot
        BY <1>1, <2>2 DEF LinkingInv, SlotsAreServed
      <3>2. i \in Hits(name)
        BY <2>2, <3>1 DEF Hits
      <3>3. CASE i \in Contradicted
        <4>1. PICK h \in DOMAIN held : i \in held[h].against
          BY <3>3 DEF Contradicted
        <4>2. h \in ShownRecords(name, nearest)
          BY <3>2, <4>1 DEF ShownRecords, Relevant
        <4>. QED BY <3>2, <3>3, <4>2 DEF ShownItems
      <3>4. CASE i \notin Contradicted
        BY <3>2, <3>4 DEF Answers, Supporting
      <3>. QED BY <3>3, <3>4
    <2>3. ASSUME NEW obj \in Answers(name, nearest)
          PROVE  \E i \in known \ Contradicted : rows[i].obj = obj
      BY <2>1, <2>3 DEF Answers, Supporting, Hits
    <2>. QED BY <2>2, <2>3
  <1>2. LinkingInv => QuestionsAreServed
    BY <1>1 DEF QuestionsAreServed
  <1>. QED BY <1>2, LinkingInvAlways, PTL

-----------------------------------------------------------------------------
(* New subjects. *)

\* A write that leaves a new row has its candidate's slot.
LEMMA WrittenSlot ==
  ASSUME TypeOK, EdgesAreAcceptedRows, NEW c \in Candidates, Write(c), Len(rows') > Len(rows)
  PROVE  rows'[Len(rows')].slot = c.slot /\ WellFormed(c)
  <1>0. Len(rows) \in Nat
    BY DEF TypeOK
  <1>1. WellFormed(c)
    <2>1. ~WellFormed(c) => Verdict(c, View).action = "reject"
      BY DEF Verdict, Decide
    <2>. QED BY <1>0, <2>1 DEF Write, WriteAccepted, WriteReaffirmed, WriteSupersedes,
                   WriteHeld, WriteRejected, vars, Quarantine, Reaffirm
  <1>2. CASE AcceptNew(c)
    <2>1. rows' = Append(rows, RowOf(c))
      BY <1>2 DEF AcceptNew
    <2>. QED BY <1>0, <1>1, <2>1, RowOfType DEF TypeOK
  <1>3. ASSUME NEW olds, SupersedeWith(c, olds)
        PROVE  rows'[Len(rows')].slot = c.slot
    <2>1. PICK known : rows' = Append(Retire(known), RowOf(c))
      BY <1>3 DEF SupersedeWith
    <2>. QED BY <2>1, RetireRows, RowOfType
  <1>4. CASE UNCHANGED rows
    BY <1>0, <1>4
  <1>. QED BY <1>1, <1>2, <1>3, <1>4
           DEF Write, WriteAccepted, WriteReaffirmed, WriteSupersedes, WriteHeld,
               WriteRejected, vars, Quarantine, Reaffirm

\* A text that refers to its subject once resolves it to what was known before, or
\* does not resolve it.
LEMMA SubjectIsKnownOrNew ==
  ASSUME LinkingInv, NEW t \in Texts, MentionsOnce(t), t.about \in DOMAIN Persisted(t).trace,
         Persisted(t).trace[t.about].existing
  PROVE  Persisted(t).trace[t.about].node \in DOMAIN nodes
  <1>. DEFINE ms == t.mentions
              r == Persisted(t).trace[t.about]
  <1>1. StageOK(Persisted(t), nodes, ms, Len(ms))
    BY PersistedOK DEF LinkingInv
  <1>2. ms \in Seq(Mentions) /\ DOMAIN ms = 1..Len(ms) /\ Len(ms) \in Nat
    BY LinkingInputs
  <1>3. PICK j \in 1..Len(ms) :
          /\ ms[j].name = t.about
          /\ r.existing => \/ r.node \in DOMAIN nodes
                           \/ \E i \in 1..(j - 1) : Keys(ms[i]) \cap Keys(ms[j]) # {}
    BY <1>1 DEF StageOK
  <1>4. PICK k \in DOMAIN ms :
          /\ ms[k].name = t.about
          /\ \A i \in DOMAIN ms \ {k} : Keys(ms[i]) \cap Keys(ms[k]) = {}
    BY DEF MentionsOnce
  <1>5. j = k
    <2>1. t.about \in Keys(ms[j]) \cap Keys(ms[k])
      BY <1>3, <1>4 DEF Keys
    <2>. QED BY <1>2, <1>4, <2>1
  <1>6. ASSUME NEW i \in 1..(j - 1)
        PROVE  Keys(ms[i]) \cap Keys(ms[j]) = {}
    <2>1. i \in DOMAIN ms \ {k}
      BY <1>2, <1>5, <1>6
    <2>. QED BY <1>4, <1>5, <2>1
  <1>. QED BY <1>3, <1>6

LEMMA NewSubjectWaits ==
  ASSUME Policy # "ungated", LinkingInv, AgentNext, Len(rows') > Len(rows),
         rows'[Len(rows')].slot \notin {NodeId(k) : k \in DOMAIN nodes},
         NEW i \in graph, rows[i].slot # rows'[Len(rows')].slot
  PROVE  \E t \in Texts : ~MentionsOnce(t) /\ WriteText(t)
  <1>0. TypeOK /\ EdgesAreAcceptedRows /\ Len(rows) \in Nat
    BY DEF LinkingInv, TypeOK
  <1>1. PICK t \in Texts : WriteText(t)
    BY <1>0 DEF AgentNext, Tell, Retrieve, LinkingRestart, FlushVectors, Restart, durable
  <1>. DEFINE p == Persisted(t)
  <1>2. t.about \in DOMAIN p.trace /\ WriteRelation(t, p.trace[t.about]) /\ Len(p.nodes) <= MaxNodes
    BY <1>0, <1>1 DEF WriteText, vars
  <1>. DEFINE r == p.trace[t.about]
  <1>3. r.node \in 1..MaxNodes
    BY <1>2, SubjectTyped
  <1>4. PICK c : c = CandidateAbout(t, r.node)
    OBVIOUS
  <1>5. c \in Candidates /\ c.slot = NodeId(r.node)
    BY <1>3, <1>4, CandidateTyped
  <1>6. Write(c) /\ ~(WellFormed(c) /\ Unattributed(r))
    <2>1. \A ids : ~Quarantine(c, ids)
      BY <1>0 DEF Quarantine
    <2>. QED BY <1>2, <1>4, <2>1 DEF WriteRelation
  <1>7. rows'[Len(rows')].slot = NodeId(r.node) /\ WellFormed(c)
    BY <1>0, <1>5, <1>6, WrittenSlot
  <1>8. r.existing
    BY <1>6, <1>7 DEF Unattributed, OthersKnown
  <1>9. r.node \notin DOMAIN nodes
    BY <1>7
  <1>. QED BY <1>1, <1>2, <1>8, <1>9, SubjectIsKnownOrNew

\* No text that refers to its subject once, and is the first to do so, adds an accepted
\* assertion beside those about other subjects, wherever constraints are validated.
\* What the guard lets a text do that refers to it twice is no part of it.
THEOREM FreshSubjectsAlwaysWait ==
  ASSUME Policy # "ungated"
  PROVE  AgentSpec => FreshSubjectsWait
  <1>1. LinkingInv /\ [AgentNext]_evars
          => [LET n == Len(rows') IN
                /\ n > Len(rows)
                /\ rows'[n].slot \notin {NodeId(k) : k \in DOMAIN nodes}
                /\ \E i \in graph : rows[i].slot # rows'[n].slot
                => \E t \in Texts : ~MentionsOnce(t) /\ WriteText(t)]_evars
    BY NewSubjectWaits
  <1>. QED BY <1>1, LinkingInvAlways, PTL DEF AgentSpec, FreshSubjectsWait
=============================================================================
