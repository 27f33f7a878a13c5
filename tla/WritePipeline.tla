--------------------------- MODULE WritePipeline ---------------------------
(***************************************************************************)
(* The write path of one relation: the verdict on a candidate, taken on    *)
(* the graph as it stands, and the commit that carries it out.  Requests   *)
(* are served one at a time; the process may restart between them.         *)
(***************************************************************************)
EXTENDS CommitManager

WriteAccepted(c) == Verdict(c, View).action = "accept" /\ AcceptNew(c)

WriteReaffirmed(c) == Verdict(c, View).action = "accept" /\ Reaffirm(c)

WriteSupersedes(c) ==
  LET v == Verdict(c, View)
  IN  v.action = "supersede" /\ SupersedeWith(c, v.against)

\* A supersession that names nothing to retire is held instead.
WriteHeld(c) ==
  LET v == Verdict(c, View) IN
  /\ \/ v.action = "quarantine"
     \/ v.action = "supersede" /\ v.against = {}
  /\ Quarantine(c, v.against)

\* A rejected candidate is logged and leaves no trace in memory.
WriteRejected(c) == Verdict(c, View).action = "reject" /\ UNCHANGED vars

Write(c) ==
  \/ WriteAccepted(c)
  \/ WriteReaffirmed(c)
  \/ WriteSupersedes(c)
  \/ WriteHeld(c)
  \/ WriteRejected(c)

Next ==
  \/ \E c \in Candidates : Write(c)
  \/ FlushVectors
  \/ Restart

Spec == Init /\ [][Next]_vars

-----------------------------------------------------------------------------
HighRow(i) == rows[i].status = "accepted" /\ High(rows[i].conf)

\* Two closed windows share a moment.
ValidTogether(v, w) == \E t \in v.from .. v.to : t \in w.from .. w.to

\* The gate's purpose: a single-valued slot never has two active high-confidence
\* values that are valid at the same time.
NoHighClash ==
  \A i, j \in graph :
    /\ rows[i].slot = rows[j].slot /\ rows[i].slot \in SingleValued
    /\ rows[i].obj # rows[j].obj
    /\ ValidTogether(rows[i].win, rows[j].win)
    => ~(High(rows[i].conf) /\ High(rows[j].conf))

\* Where writes carry no validity window, at most one accepted row of a
\* single-valued slot is high-confidence, in durable storage too, so a restart
\* cannot bring a second one back.
OneHighValue ==
  \A i, j \in Ids :
    /\ HighRow(i) /\ HighRow(j)
    /\ rows[i].slot = rows[j].slot /\ rows[i].slot \in SingleValued
    => i = j

\* Replacement never leaves a hole: a slot that has an active value has one after
\* every step, a restart included.
SlotKeepsValue ==
  [][\A i \in graph : \E j \in graph' : rows'[j].slot = rows[i].slot]_vars

\* A high-confidence value is displaced only by a write that beats every value it
\* displaces by the margin, or by an authoritative update.
DisplacedOnlyByStronger ==
  [][\A i \in Ids :
       rows[i].status = "accepted" /\ High(rows[i].conf)
         /\ rows'[i].status = "superseded"
       => LET n == Len(rows')
          IN  /\ n = Len(rows) + 1
              /\ \/ rows'[n].conf - rows[i].conf > Margin
                 \/ AuthoritativeUpdate]_vars

\* graph_store.py:304-305, of the values of slots: a restart gives back exactly the
\* edges it found.  It is false of SUPERSEDES edges, which a restart loses.
RestartKeepsValues == [][Restart => graph' = graph]_vars

-----------------------------------------------------------------------------
\* What a reader of the graph is served, as the abstract memory has it.
ValueOf(i) == [slot |-> rows[i].slot, obj |-> rows[i].obj, conf |-> rows[i].conf,
               win |-> rows[i].win]
Served == {ValueOf(i) : i \in graph}

Memory == INSTANCE GovernedMemory WITH active <- Served

\* Under the default policy the whole pipeline, restarts included, is the
\* abstract memory: quarantine, identical writes, embedding and restart change
\* nothing a reader is served.
ImplementsGovernedMemory == Memory!Spec
=============================================================================
