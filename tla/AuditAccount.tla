----------------------------- MODULE AuditAccount -----------------------------
(* What an audit budget promises, without reservations: intents are charged   *)
(* one whole transition at a time, each intent once and each transition once, *)
(* within what every source declared, until the account closes for ever.      *)
EXTENDS Naturals, FiniteSets

CONSTANTS
    Sources,        \* who may author intents
    MaxOccurrences, \* per source: in how many transitions it may do so
    MaxEvents       \* per source: how many intents in one transition

VARIABLES
    charged,        \* what was charged: [intent, source, transition]
    open            \* whether anything may still be charged

account == <<charged, open>>

TransitionsOf(rows) == {r.transition : r \in rows}
Batch(rows, t, s)   == {r \in rows : r.transition = t /\ r.source = s}
Occurrences(rows, s) == {r.transition : r \in {x \in rows : x.source = s}}

Init == charged = {} /\ open = TRUE

ChargeOneTransition ==
    LET new == charged' \ charged IN
    /\ open /\ open'
    /\ charged \subseteq charged'
    /\ Cardinality(TransitionsOf(new)) = 1
    /\ TransitionsOf(new) \cap TransitionsOf(charged) = {}
    /\ \A r, x \in charged' : r.intent = x.intent => r = x
    /\ \A s \in Sources :
         /\ \A t \in TransitionsOf(new) : Cardinality(Batch(new, t, s)) <= MaxEvents[s]
         /\ Cardinality(Occurrences(charged', s)) <= MaxOccurrences[s]

Close == open /\ ~open' /\ charged' = charged

Next == ChargeOneTransition \/ Close

Spec == Init /\ [][Next]_account
===============================================================================
