----------------------------- MODULE Semaphore -----------------------------
(***************************************************************************)
(* What P and V of kern/thread/synch.c promise, with no wait channel, no   *)
(* lock and no scheduler: a P that has begun completes by taking one unit, *)
(* in no particular order (the comment in P: "we don't maintain strict     *)
(* FIFO ordering"), and while units and waiting threads remain some        *)
(* waiting thread completes.                                               *)
(***************************************************************************)
EXTENDS Naturals

CONSTANT Callers      \* the threads that may call P

VARIABLES count,      \* units available
          waiting     \* threads inside P

Init == count = 0 /\ waiting = {}

Begin(t) ==
  /\ t \notin waiting
  /\ waiting' = waiting \cup {t} /\ UNCHANGED count

Take(t) ==
  /\ t \in waiting /\ count > 0
  /\ count' = count - 1 /\ waiting' = waiting \ {t}

Post == count' = count + 1 /\ UNCHANGED waiting

Complete == \E t \in Callers : Take(t)

Next == Complete \/ Post \/ \E t \in Callers : Begin(t)

Spec == Init /\ [][Next]_<<count, waiting>>

FairSpec == Spec /\ WF_<<count, waiting>>(Complete)
=============================================================================
