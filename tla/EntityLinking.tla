---------------------------- MODULE EntityLinking ----------------------------
(***************************************************************************)
(* How a text's mentions become the subjects of its assertions: the        *)
(* resolver, the entities a text persists whatever becomes of its          *)
(* relation, and the guard that holds a relation about a subject the text  *)
(* has just brought in.  Subjects are entities of one type (tasks) and the *)
(* predicate is single-valued (ASSIGNED_TO); an entity's id is an offset   *)
(* beyond the ids of assertions, since a held write can name either.  The  *)
(* values are people.  Policy "ungated" is the settings with constraint    *)
(* validation off, and with it every check but the structural one.         *)
(***************************************************************************)
EXTENDS WritePipeline, FiniteSets

CONSTANTS
  Names,      \* normalized names and aliases
  Near,       \* pairs of names alike enough to be the same thing, in both orders
  Texts,      \* texts as extracted: [mentions, about, obj, conf, intent, source]
  NoName,     \* a text that states no relation is about NoName
  Inactive,   \* the values that are people known to be inactive
  MaxNodes    \* bound: entities

ASSUME LinkingConstants ==
  /\ Near \subseteq Names \X Names
  /\ \A p \in Near : <<p[2], p[1]>> \in Near
  /\ NoName \notin Names
  /\ Inactive \subseteq Objects
  /\ MaxNodes \in Nat

VARIABLE nodes    \* durable, and mirrored as graph nodes: [name, aliases]

evars == <<vars, nodes>>

NodeId(n) == MaxRows + n
AllNodeIds == {NodeId(n) : n \in 1..MaxNodes}

Mentions == [name : Names, aliases : SUBSET Names]
Keys(m) == {m.name} \cup m.aliases

\* Every entity can be a subject, and a text states well-typed values.
ASSUME LinkingInputs ==
  /\ AllNodeIds \subseteq Slots
  /\ Windows # {}
  /\ \A t \in Texts :
       /\ t.mentions \in Seq(Mentions)
       /\ t.obj \in Objects /\ t.conf \in Confidences
       /\ t.intent \in Intents /\ t.source \in Sources

-----------------------------------------------------------------------------
(* The resolver: the node a mention is about among the nodes ns. *)

ByName(m, ns) == {n \in DOMAIN ns : ns[n].name = m.name}
ByAlias(m, ns) ==
  {n \in DOMAIN ns \ ByName(m, ns) : Keys(m) \cap Keys(ns[n]) # {}}
Alike(m, ns) ==
  {n \in DOMAIN ns \ ByName(m, ns) : <<m.name, ns[n].name>> \in Near}

\* Mutant of Matching: aliases count as much as the name.
MatchingKeys(m, ns) == ByName(m, ns) \cup ByAlias(m, ns)

\* The name decides before the aliases are looked at.
Matching(m, ns) == IF ByName(m, ns) # {} THEN ByName(m, ns) ELSE ByAlias(m, ns)

Minted(ns, matches) ==
  [node |-> Len(ns) + 1, existing |-> FALSE, matches |-> matches]

\* One match resolves; several, or only a likeness, mint a node beside them.
Resolve(m, ns) ==
  LET found == Matching(m, ns) IN
  CASE Cardinality(found) = 1 ->
         [node |-> CHOOSE n \in found : TRUE, existing |-> TRUE, matches |-> {}]
    [] Cardinality(found) > 1 -> Minted(ns, found)
    [] OTHER                  -> Minted(ns, Alike(m, ns))

\* Persisting one mention: a new node, and what is known of the name, which a later
\* mention of the same name overwrites.
Persist(state, m) ==
  LET r == Resolve(m, state.nodes) IN
  [nodes |-> IF r.existing THEN state.nodes ELSE Append(state.nodes, m),
   trace |-> [x \in DOMAIN state.trace \cup {m.name} |->
                IF x = m.name THEN r ELSE state.trace[x]]]

\* What a text leaves mention by mention, and after all of them, before its relation
\* is looked at.
Stages(t) ==
  LET after[k \in 0..Len(t.mentions)] ==
        IF k = 0 THEN [nodes |-> nodes, trace |-> <<>>]
        ELSE Persist(after[k - 1], t.mentions[k])
  IN  after
Persisted(t) == Stages(t)[Len(t.mentions)]

-----------------------------------------------------------------------------
(* The relation. *)

CandidateAbout(t, node) ==
  [slot |-> NodeId(node), obj |-> t.obj, conf |-> t.conf,
   win |-> CHOOSE w \in Windows : TRUE, intent |-> t.intent, source |-> t.source]

\* Accepted assertions of the predicate about other entities of the type.
OthersKnown(node) == {i \in graph : rows[i].slot # NodeId(node)}

\* Mutant of Unattributed: only a likeness makes a mention suspect.
UnattributedWhenAlike(r) ==
  Policy # "ungated" /\ r.matches # {} /\ OthersKnown(r.node) # {}

\* A subject not resolved to an entity the store knew, where the store already has
\* something to compare with.
Unattributed(r) == Policy # "ungated" /\ ~r.existing /\ OthersKnown(r.node) # {}

\* Held against the entities it may be the same as, or else against every
\* assertion of the predicate.
LinkageAgainst(r) ==
  IF r.matches # {} THEN {NodeId(n) : n \in r.matches} ELSE OthersKnown(r.node)

\* C5, where constraints are validated: the other policies decide without them.
InactiveAssignee(c) == Policy = "gate" /\ c.obj \in Inactive

\* The checks in their order: structure, linkage, C5, the policy.  A write C5 holds is
\* held against the person alone, who is the end of no edge.
WriteRelation(t, r) ==
  LET c == CandidateAbout(t, r.node) IN
  CASE WellFormed(c) /\ Unattributed(r) -> Quarantine(c, LinkageAgainst(r))
    [] WellFormed(c) /\ ~Unattributed(r) /\ InactiveAssignee(c) -> Quarantine(c, {})
    [] OTHER -> Write(c)

\* A relation whose subject no mention names is dropped; the mentions stay.
WriteText(t) ==
  LET after == Persisted(t) IN
  /\ Len(after.nodes) <= MaxNodes
  /\ nodes' = after.nodes
  /\ IF t.about \in DOMAIN after.trace THEN WriteRelation(t, after.trace[t.about])
     ELSE UNCHANGED vars

LinkingInit == Init /\ nodes = <<>>

\* Entities are rows of a table of their own and come back with the graph.
LinkingRestart == Restart /\ UNCHANGED nodes

-----------------------------------------------------------------------------
\* The text refers to the entity it is about once: no second mention has its name
\* or one of its keys.
MentionsOnce(t) ==
  \E k \in DOMAIN t.mentions :
    /\ t.mentions[k].name = t.about
    /\ \A j \in DOMAIN t.mentions \ {k} :
         Keys(t.mentions[j]) \cap Keys(t.mentions[k]) = {}

\* write_pipeline.py:732-738: accepting a relation whose subject the text itself has
\* minted would turn a resolver miss into a gate bypass, so once the store has
\* assertions about other subjects such a relation waits - if its text mentions the
\* subject once.  It is false of a text that mentions it again, by name or alias: the
\* second mention resolves to the entity the first has minted, and the guard takes it
\* for one the store knew.
FreshSubjectsWait ==
  [][LET n == Len(rows') IN
       /\ n > Len(rows)
       /\ rows'[n].slot \notin {NodeId(k) : k \in DOMAIN nodes}
       /\ \E i \in graph : rows[i].slot # rows'[n].slot
       => \E t \in Texts : ~MentionsOnce(t) /\ WriteText(t)]_evars

\* Whatever is mentioned by name, alias or likeness, in whatever order, an entity's
\* name stays its own: the exact-name step never finds two.
NamesAreDistinct ==
  \A m, n \in DOMAIN nodes : nodes[m].name = nodes[n].name => m = n
=============================================================================
