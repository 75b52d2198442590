------------------------------ MODULE LossyFifo ------------------------------
(***************************************************************************)
(* What the telemetry dispatcher promises the extensions that feed it: the *)
(* events it accepts reach the providers in the order they were accepted,  *)
(* none twice; one is given up only when a full queue of newer ones        *)
(* follows it; and once it is closing it accepts nothing, yet hands over   *)
(* all it has before it opens again.  An event is the number of its        *)
(* acceptance.                                                             *)
(***************************************************************************)
EXTENDS Integers, FiniteSets

CONSTANTS
  Cap,      \* how many newer events make one expendable
  Provider

VARIABLES
  taken,   \* how many events were accepted
  waiting, \* the events accepted and neither handed over nor given up
  last,    \* the event each provider was given last
  open     \* whether events are accepted

fifoVars == <<taken, waiting, last, open>>

Init == taken = 0 /\ waiting = {} /\ last = [p \in Provider |-> 0] /\ open = TRUE

Expendable(n) == Cardinality({m \in waiting : m > n}) = Cap - 1

Accept ==
  /\ open
  /\ taken' = taken + 1
  /\ \E lost \in {{}} \cup {{n} : n \in {m \in waiting : Expendable(m)}} :
       waiting' = (waiting \ lost) \cup {taken + 1}
  /\ UNCHANGED <<last, open>>

(* The oldest event goes to those providers that listen. *)
HandOver ==
  /\ \E n \in waiting, to \in SUBSET Provider :
       /\ \A m \in waiting : n <= m
       /\ \A p \in to : last[p] < n
       /\ last' = [p \in Provider |-> IF p \in to THEN n ELSE last[p]]
       /\ waiting' = waiting \ {n}
  /\ UNCHANGED <<taken, open>>

Close == open /\ open' = FALSE /\ UNCHANGED <<taken, waiting, last>>

Reopen == ~open /\ waiting = {} /\ open' = TRUE /\ UNCHANGED <<taken, waiting, last>>

Next == Accept \/ HandOver \/ Close \/ Reopen

Spec == Init /\ [][Next]_fifoVars
=============================================================================
