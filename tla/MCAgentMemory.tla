---------------------------- MODULE MCAgentMemory ----------------------------
(* Values for the constants of AgentMemory in TLC's runs. *)
EXTENDS AgentMemory

Undated == [from |-> 0, to |-> 9]
UndatedOnly == {Undated}
TaskIds == AllNodeIds

\* T1 and T01 are alike; Deploy is a name of its own.
AlikeNames == {<<"T1", "T01">>, <<"T01", "T1">>}

Plain(name) == [name |-> name, aliases |-> {}]
Alias(name, other) == [name |-> name, aliases |-> other]

Mentioning(mentions) ==
  [mentions |-> mentions, about |-> "none", obj |-> "p", conf |-> 50,
   intent |-> "new_fact", source |-> "s1"]
Stating(mentions, about, obj, conf, intent) ==
  [mentions |-> mentions, about |-> about, obj |-> obj, conf |-> conf,
   intent |-> intent, source |-> "s1"]

\* Assignments, one of them to somebody inactive, and a correction, entities brought in
\* alone, in pairs and under each other's names, and an entity whose two aliases name
\* two entities.
SomeTexts ==
  {Mentioning(<<Plain("T01")>>),
   Mentioning(<<Alias("Deploy", {"T1", "T01"})>>),
   Stating(<<Plain("T1")>>, "T1", "p", 85, "new_fact"),
   Stating(<<Plain("T1")>>, "T1", "q", 99, "correction"),
   Stating(<<Plain("T1")>>, "T1", "r", 99, "correction"),
   Stating(<<Plain("T01")>>, "T01", "q", 85, "new_fact"),
   Stating(<<Plain("T1"), Plain("T01")>>, "T01", "q", 85, "new_fact"),
   Stating(<<Alias("Deploy", {"T1"})>>, "Deploy", "q", 85, "new_fact"),
   Stating(<<Plain("T01"), Alias("Deploy", {"T01"})>>, "Deploy", "p", 85, "new_fact")}
=============================================================================
