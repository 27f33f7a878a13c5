----------------------------- MODULE AgentMemory -----------------------------
(***************************************************************************)
(* Questions asked of governed memory, by agents and other clients: what   *)
(* retrieval finds, what the answer may be and which conflicts are shown   *)
(* beside it.  An agent's turn retrieves for the user's message and then   *)
(* writes it if it is a statement; it keeps nothing from turn to turn, so  *)
(* turns are retrievals and writes in any order, restarts between them.  A *)
(* question asks who a task is assigned to, by the task's name.            *)
(***************************************************************************)
EXTENDS EntityLinking

CONSTANT TopK      \* semantic hits a retrieval asks for

ASSUME AgentConstants == TopK \in Nat

-----------------------------------------------------------------------------
(* Retrieval. *)

\* A question finds nodes by name; their aliases are no labels.
Asked(name) == {NodeId(n) : n \in {k \in DOMAIN nodes : nodes[k].name = name}}

\* Symbolic hits: the edges of the nodes asked about, each an exact match.
Hits(name) == {i \in graph : rows[i].slot \in Asked(name)}

\* Semantic hits: any vectors tagged accepted, at most TopK; claims and documents,
\* which are vectors too, may take the other places.
NearestOf(vectors) == {s \in SUBSET vectors : Cardinality(s) <= TopK}

\* What unresolved held writes were held against.
Contradicted == UNION {held[h].against : h \in DOMAIN held}

\* Mutant of Supporting: a contradicted assertion supports an answer.
SupportingAll(name, nearest) == Hits(name) \cup nearest

Supporting(name, nearest) == (Hits(name) \cup nearest) \ Contradicted

\* The values an answer may give: those of exact hits that support it.  Which of
\* several is the first in rank is left open.
Answers(name, nearest) ==
  {rows[i].obj : i \in Hits(name) \cap Supporting(name, nearest)}

\* What the question is about: what was retrieved, the ends of the exact hits, and
\* the nodes it names.
Relevant(name, nearest) ==
  Hits(name) \cup nearest \cup Asked(name)

ShownItems(name, nearest) == (Hits(name) \cup nearest) \cap Contradicted
ShownRecords(name, nearest) ==
  {h \in DOMAIN held : held[h].against \cap Relevant(name, nearest) # {}}

-----------------------------------------------------------------------------
(* Turns. *)

\* Searching embeds what is queued, and is all a question's turn changes.
Retrieve == FlushVectors /\ UNCHANGED nodes

\* A statement is written, whatever was retrieved for it.
Tell(t) == WriteText(t)

AgentNext ==
  \/ Retrieve
  \/ \E t \in Texts : Tell(t)
  \/ LinkingRestart

AgentSpec == LinkingInit /\ [][AgentNext]_evars

-----------------------------------------------------------------------------
\* Whatever was written, held or superseded, before or after restarts, a question
\* about a task with an accepted assignee is either answered or shows a conflict,
\* and every answer is the value of an accepted assertion of a task of that name that
\* no held write contests (evidence_packager.py:238-243, :506-513).
QuestionsAreServed ==
  \A name \in Names : \A nearest \in NearestOf(searchable \cup pending) :
    LET known == {i \in Accepted : rows[i].slot \in Asked(name)} IN
    /\ known # {} =>
         \/ Answers(name, nearest) # {}
         \/ /\ ShownItems(name, nearest) # {}
            /\ ShownRecords(name, nearest) # {}
    /\ \A obj \in Answers(name, nearest) : \E i \in known \ Contradicted : rows[i].obj = obj

\* A held write that concerns a node: it is about it, or may be.
Concerns(h, node) == held[h].cand.slot = node \/ node \in held[h].against

\* evidence_packager.py:361-362: a question shows the conflicts on the very entity it
\* asks about and is not flooded with unrelated ones.  A task with an accepted
\* assignee, and no held write that concerns it, is answered.
UncontestedIsAnswered ==
  \A name \in Names : \A nearest \in NearestOf(searchable \cup pending) :
    /\ Hits(name) # {}
    /\ \A h \in DOMAIN held : \A node \in Asked(name) : ~Concerns(h, node)
    => Answers(name, nearest) # {}
=============================================================================
