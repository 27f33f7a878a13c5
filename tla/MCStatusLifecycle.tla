------------------------- MODULE MCStatusLifecycle -------------------------
(* Values for the constants of StatusLifecycle in TLC's runs. *)
EXTENDS StatusLifecycle

StatusWords == {"todo", "in_progress", "done", "draft", "final"}
MCObjects == StatusWords \cup Entities
MCStatusSlots == {StatusOf(e) : e \in Bearers}
MCSlots == MCStatusSlots \cup {Backs(b) : b \in Backers}
AnyTime == {[from |-> 0, to |-> 1]}

\* A text says one thing of a task, or contradicts itself about its completion.
TaskSayings ==
  {<<<<t, s>>>> : t \in Tasks, s \in {"unknown", "todo", "in_progress", "done"}}
  \cup {<<<<t, "todo">>, <<t, "done">>>> : t \in Tasks}
  \cup {<<<<t, "done">>, <<t, "todo">>>> : t \in Tasks}
\* Of a decision it says one thing, or two.
DecisionSayings ==
  {<<<<d, s>>>> : d \in Decisions, s \in {"draft", "final"}}
  \cup {<<<<d, "final">>, <<d, "draft">>>> : d \in Decisions}
  \cup {<<<<d, "draft">>, <<d, "final">>>> : d \in Decisions}
\* The empty one names nothing but what a relation calls a backing.
MCSayings == {<<>>} \cup TaskSayings \cup DecisionSayings

AtMostOneBacking ==
  {<<>>} \cup {<<<<v, e>>>> : v \in Events, e \in Bearers}
         \cup {<<<<w, d>>>> : w \in Documents, d \in Decisions}

\* What a later step, or a property but the type invariant, can tell apart: not what a
\* held write says, and not provenance, links or embeddings.
Onward == <<rows, graph, Len(held), node, stored, work, orphans>>
=============================================================================
