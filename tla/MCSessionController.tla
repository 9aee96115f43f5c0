------------------------- MODULE MCSessionController -------------------------
EXTENDS SessionController

CONSTANTS p1, p2, n1, t1, l1

\* Priorities of normalize_event: user prompts 10, host events 30, task
\* notifications 40, system messages 50 (scaled down).
MCKind == [e \in Events |->
  CASE e \in {p1, p2} -> "prompt" [] e = n1 -> "notice" [] e = t1 -> "transcript"
    [] OTHER -> "local"]
MCPriority == [e \in Events |->
  CASE e \in {p1, p2} -> 1 [] e = l1 -> 3 [] OTHER -> 4]

CONSTANT MCApart  \* events and tasks that take part only while nobody closes the session

\* Two scenarios in one run: several tasks drain three events, or several tasks close
\* the session under one drain.
OneScenario ==
  (\E k \in Closers : closer[k] # "idle") =>
    /\ \A i \in 1..Len(arrived) : arrived[i] \notin MCApart
    /\ \A c \in Calls \cap MCApart : call[c].pc = "idle"

MCNext == Next /\ OneScenario'
=============================================================================
