---------------------------- MODULE MCAuditBudget -----------------------------
EXTENDS AuditBudget, TLC

CONSTANTS timers, notices

MCMaxOccurrences == timers :> 1 @@ notices :> 2
MCMaxEvents == timers :> 2 @@ notices :> 1
Alike == Permutations(Intents) \cup Permutations(Transitions)
===============================================================================
