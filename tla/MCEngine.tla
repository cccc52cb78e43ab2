------------------------------ MODULE MCEngine ------------------------------
(* A small instance of the engine: one authored event at the start, one      *)
(* audit-only event on the same instant as the earliest timer, and one event *)
(* released by the agent's message.                                          *)
EXTENDS Engine

MCAuthored == {"report", "audit", "reply"}
MCPlan ==
  [report |-> [at |-> 0, seq |-> 0, trigger |-> Fixed],
   audit |-> [at |-> 1, seq |-> 1, trigger |-> Fixed],
   reply |-> [at |-> 1, seq |-> 2, trigger |-> OnAction(SendMessage)]]
MCTimers == {"timer"}
MCEventType == [i \in MCAuthored \cup MCTimers |-> i]
MCActionTypes == {SendMessage, RequestException}
MCReads == [a \in MCActionTypes \cup {Complete} |->
              IF a = RequestException THEN {} ELSE {"registry"}]
MCDelays == {1, 2}
=============================================================================
