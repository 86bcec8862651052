-------------------------------- MODULE Lanes --------------------------------
(***************************************************************************)
(* What workers.go promises, without workers: every chat of a company has  *)
(* a serial lane of its own.  A lane is a first-in first-out queue with at *)
(* most one message in progress; lanes do not know of each other.          *)
(*                                                                         *)
(* Messages are numbered as they arrive, so that a set of them is a queue: *)
(* its head is its least member.                                           *)
(***************************************************************************)
EXTENDS Naturals

CONSTANTS Keys,       \* one lane per (company, chat)
          Ids         \* the numbers, from 1

VARIABLES waiting,    \* [Keys -> SUBSET Ids]: accepted, not yet begun
          active      \* [Keys -> Ids]: the message in progress, or Nobody

laneVars == <<waiting, active>>

Nobody == 0

LanesInit == /\ waiting = [k \in Keys |-> {}]
             /\ active  = [k \in Keys |-> Nobody]

Accept(k, i) == /\ \A j \in waiting[k] \cup {active[k]} : j < i
                /\ waiting' = [waiting EXCEPT ![k] = @ \cup {i}]
                /\ UNCHANGED active

Begin(k) == /\ active[k] = Nobody
            /\ \E i \in waiting[k] :
                  /\ \A j \in waiting[k] : i <= j
                  /\ active'  = [active EXCEPT ![k] = i]
                  /\ waiting' = [waiting EXCEPT ![k] = @ \ {i}]

End(k) == /\ active[k] # Nobody
          /\ active' = [active EXCEPT ![k] = Nobody]
          /\ UNCHANGED waiting

\* The process dies: what is in memory is lost, in every lane at once.
Lose == /\ waiting' = [k \in Keys |-> {}]
        /\ active'  = [k \in Keys |-> Nobody]

LanesNext == \/ \E k \in Keys : Begin(k) \/ End(k)
             \/ \E k \in Keys, i \in Ids : Accept(k, i)
             \/ Lose

LanesSpec == LanesInit /\ [][LanesNext]_laneVars
==============================================================================
