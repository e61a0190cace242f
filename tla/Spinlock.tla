------------------------------ MODULE Spinlock ------------------------------
(***************************************************************************)
(* The kernel's spinlocks (kern/thread/spinlock.c) together with the       *)
(* deadlock detector they call into, hangman (kern/thread/hangman.c), as   *)
(* built with "options hangman".                                           *)
(*                                                                         *)
(* A CPU runs code that enters and leaves critical sections in any order.  *)
(* Every access to shared memory that another CPU can observe is a step of *)
(* its own: the registration with hangman (one critical section of         *)
(* hangman_lock), the test-and-set, the write of splk_holder, and the two  *)
(* writes of a release, whose order a memory barrier fixes.                *)
(* Interrupts stay off from spinlock_acquire to spinlock_release           *)
(* (splraise), so no other code of the same CPU runs in between.           *)
(***************************************************************************)
EXTENDS Naturals, FiniteSets

CONSTANTS Cpus,       \* the processors, the actors hangman tracks
          Spinlocks,  \* the lockables
          Null        \* the null pointer

ASSUME NullAssumption == Null \notin Cpus /\ Null \notin Spinlocks
ASSUME FiniteAssumption == IsFiniteSet(Spinlocks)

VARIABLES
  splk_lock,    \* the lock words, TRUE when taken
  splk_holder,  \* the CPU recorded as the holder of each lock
  c_spinlocks,  \* each CPU's count of spinlocks held or being acquired
  l_holding,    \* hangman: the actor registered as holding a lockable
  a_waiting,    \* hangman: the lockable an actor is registered as waiting for
  held,         \* the locks whose critical section each CPU's code is inside
  pc,           \* where each CPU is in the spinlock code
  arg,          \* the lock that code was called on
  panic         \* "none", or the reason the kernel panicked

vars == <<splk_lock, splk_holder, c_spinlocks, l_holding, a_waiting, held, pc, arg, panic>>

Init ==
  /\ splk_lock = [l \in Spinlocks |-> FALSE]
  /\ splk_holder = [l \in Spinlocks |-> Null]
  /\ c_spinlocks = [c \in Cpus |-> 0]
  /\ l_holding = [l \in Spinlocks |-> Null]
  /\ a_waiting = [c \in Cpus |-> Null]
  /\ held = [c \in Cpus |-> {}]
  /\ pc = [c \in Cpus |-> "run"]
  /\ arg = [c \in Cpus |-> Null]
  /\ panic = "none"

-----------------------------------------------------------------------------
(* The waits-for graph.  An actor waits for at most one lockable and a       *)
(* lockable has at most one holder, so the graph is a partial function, and  *)
(* the loop of hangman_check visits exactly the least set that contains the  *)
(* first holder and is closed under WaitsFor.                                *)

WaitsFor(c) == IF a_waiting[c] = Null THEN Null ELSE l_holding[a_waiting[c]]

Closed(S) == \A c \in S : WaitsFor(c) = Null \/ WaitsFor(c) \in S

Reaches(c, d) == \A S \in SUBSET Cpus : c \in S /\ Closed(S) => d \in S

\* Mutant: only the first holder is compared with the target.
hangman_check_firstholder(l, target) == l_holding[l] = target

\* Mutant: a holder that itself waits is taken for a deadlock.
hangman_check_anywaiter(l, target) ==
  l_holding[l] # Null /\ a_waiting[l_holding[l]] # Null

hangman_check(l, target) == l_holding[l] # Null /\ Reaches(l_holding[l], target)

\* The panics of hangman_wait, hangman_acquire and hangman_release, in the
\* order the code tests for them.
hangman_wait(c, l) ==
  IF a_waiting[c] # Null THEN "already waiting"
  ELSE IF hangman_check(l, c) THEN "deadlock"
  ELSE "none"

hangman_acquire(c, l) ==
  IF a_waiting[c] # l THEN "not waiting"
  ELSE IF l_holding[l] # Null THEN "still held"
  ELSE "none"

hangman_release(c, l) ==
  IF a_waiting[c] # Null THEN "waiting"
  ELSE IF l_holding[l] # c THEN "not the holder"
  ELSE "none"

-----------------------------------------------------------------------------
\* spinlock_acquire up to the spin loop: panic if this CPU already holds the
\* lock, count it, and register as waiting for it.
BeginAcquire(c, l) ==
  /\ panic = "none" /\ pc[c] = "run"
  /\ arg' = [arg EXCEPT ![c] = l]
  /\ IF splk_holder[l] = c
     THEN panic' = "own lock" /\ UNCHANGED c_spinlocks
     ELSE /\ panic' = hangman_wait(c, l)
          /\ c_spinlocks' = [c_spinlocks EXCEPT ![c] = @ + 1]
  /\ IF panic' = "none"
     THEN /\ pc' = [pc EXCEPT ![c] = "spin"]
          /\ a_waiting' = [a_waiting EXCEPT ![c] = l]
     ELSE /\ pc' = [pc EXCEPT ![c] = "panic"]
          /\ UNCHANGED a_waiting
  /\ UNCHANGED <<splk_lock, splk_holder, l_holding, held>>

\* Mutant: the lock word is written without testing it.
TestAndSet_blind(c) ==
  /\ panic = "none" /\ pc[c] = "spin"
  /\ splk_lock' = [splk_lock EXCEPT ![arg[c]] = TRUE]
  /\ pc' = [pc EXCEPT ![c] = "got"]
  /\ UNCHANGED <<splk_holder, c_spinlocks, l_holding, a_waiting, held, arg, panic>>

\* The spin loop: an atomic test-and-set that finds the word clear.
TestAndSet(c) ==
  /\ panic = "none" /\ pc[c] = "spin"
  /\ ~splk_lock[arg[c]]
  /\ splk_lock' = [splk_lock EXCEPT ![arg[c]] = TRUE]
  /\ pc' = [pc EXCEPT ![c] = "got"]
  /\ UNCHANGED <<splk_holder, c_spinlocks, l_holding, a_waiting, held, arg, panic>>

SetHolder(c) ==
  /\ panic = "none" /\ pc[c] = "got"
  /\ splk_holder' = [splk_holder EXCEPT ![arg[c]] = c]
  /\ pc' = [pc EXCEPT ![c] = "held"]
  /\ UNCHANGED <<splk_lock, c_spinlocks, l_holding, a_waiting, held, arg, panic>>

\* The end of spinlock_acquire: register the holder, stop waiting, return.
EndAcquire(c) ==
  /\ panic = "none" /\ pc[c] = "held"
  /\ panic' = hangman_acquire(c, arg[c])
  /\ IF panic' = "none"
     THEN /\ l_holding' = [l_holding EXCEPT ![arg[c]] = c]
          /\ a_waiting' = [a_waiting EXCEPT ![c] = Null]
          /\ held' = [held EXCEPT ![c] = @ \cup {arg[c]}]
          /\ pc' = [pc EXCEPT ![c] = "run"]
          /\ arg' = [arg EXCEPT ![c] = Null]
     ELSE /\ pc' = [pc EXCEPT ![c] = "panic"]
          /\ UNCHANGED <<l_holding, a_waiting, held, arg>>
  /\ UNCHANGED <<splk_lock, splk_holder, c_spinlocks>>

\* Mutant: the release does not give back the count.
BeginRelease_nocount(c, l) ==
  /\ panic = "none" /\ pc[c] = "run" /\ l \in held[c]
  /\ panic' = "none"
  /\ l_holding' = [l_holding EXCEPT ![l] = Null]
  /\ held' = [held EXCEPT ![c] = @ \ {l}]
  /\ arg' = [arg EXCEPT ![c] = l]
  /\ pc' = [pc EXCEPT ![c] = "drop"]
  /\ UNCHANGED <<splk_lock, splk_holder, c_spinlocks, a_waiting>>

\* spinlock_release up to the deregistration.  The code asserts that this CPU
\* is the holder and that its count is positive.
BeginRelease(c, l) ==
  /\ panic = "none" /\ pc[c] = "run" /\ l \in held[c]
  /\ panic' = IF splk_holder[l] # c \/ c_spinlocks[c] = 0 THEN "assertion"
              ELSE hangman_release(c, l)
  /\ arg' = [arg EXCEPT ![c] = l]
  /\ IF panic' = "none"
     THEN /\ c_spinlocks' = [c_spinlocks EXCEPT ![c] = @ - 1]
          /\ l_holding' = [l_holding EXCEPT ![l] = Null]
          /\ held' = [held EXCEPT ![c] = @ \ {l}]
          /\ pc' = [pc EXCEPT ![c] = "drop"]
     ELSE /\ pc' = [pc EXCEPT ![c] = "panic"]
          /\ UNCHANGED <<c_spinlocks, l_holding, held>>
  /\ UNCHANGED <<splk_lock, splk_holder, a_waiting>>

ClearHolder(c) ==
  /\ panic = "none" /\ pc[c] = "drop"
  /\ splk_holder' = [splk_holder EXCEPT ![arg[c]] = Null]
  /\ pc' = [pc EXCEPT ![c] = "clear"]
  /\ UNCHANGED <<splk_lock, c_spinlocks, l_holding, a_waiting, held, arg, panic>>

ClearLock(c) ==
  /\ panic = "none" /\ pc[c] = "clear"
  /\ splk_lock' = [splk_lock EXCEPT ![arg[c]] = FALSE]
  /\ pc' = [pc EXCEPT ![c] = "run"]
  /\ arg' = [arg EXCEPT ![c] = Null]
  /\ UNCHANGED <<splk_holder, c_spinlocks, l_holding, a_waiting, held, panic>>

\* A panic stops the machine.
Halt == panic # "none" /\ UNCHANGED vars

Next ==
  \/ \E c \in Cpus :
       \/ \E l \in Spinlocks : BeginAcquire(c, l) \/ BeginRelease(c, l)
       \/ TestAndSet(c) \/ SetHolder(c) \/ EndAcquire(c)
       \/ ClearHolder(c) \/ ClearLock(c)
  \/ Halt

Spec == Init /\ [][Next]_vars

-----------------------------------------------------------------------------
\* Type invariant.
TypeOK ==
  /\ splk_lock \in [Spinlocks -> BOOLEAN]
  /\ splk_holder \in [Spinlocks -> Cpus \cup {Null}]
  /\ c_spinlocks \in [Cpus -> Nat]
  /\ l_holding \in [Spinlocks -> Cpus \cup {Null}]
  /\ a_waiting \in [Cpus -> Spinlocks \cup {Null}]
  /\ held \in [Cpus -> SUBSET Spinlocks]
  /\ pc \in [Cpus -> {"run", "spin", "got", "held", "drop", "clear", "panic"}]
  /\ arg \in [Cpus -> Spinlocks \cup {Null}]
  /\ panic \in {"none", "own lock", "already waiting", "deadlock", "not waiting",
                "still held", "waiting", "not the holder", "assertion"}

\* c is past the spin loop on l and has not yet cleared the lock word.
Owns(c, l) ==
  l \in held[c] \/ (arg[c] = l /\ pc[c] \in {"got", "held", "drop", "clear"})

\* Mutual exclusion: from the end of the spin loop in spinlock_acquire to the
\* clearing of the lock word in spinlock_release, two CPUs never own one lock.
MutualExclusion ==
  \A l \in Spinlocks : \A c, d \in Cpus : Owns(c, l) /\ Owns(d, l) => c = d

\* A set of CPUs none of which can ever move again: each spins, or has just
\* been stopped, on a lock whose critical section another of them is inside.
Deadlocked(D) ==
  /\ D # {}
  /\ \A c \in D : pc[c] \in {"spin", "panic"} /\ \E d \in D : arg[c] \in held[d]

\* hangman misses no deadlock: as long as it has not panicked, no set of CPUs
\* is deadlocked on spinlocks, although locks are taken and released outside
\* hangman_lock and the record lags behind them.
NoUndetectedDeadlock ==
  panic = "none" => \A D \in SUBSET Cpus : ~Deadlocked(D)

\* hangman raises no false alarm, and none of its own consistency panics or of
\* the assertions in spinlock_release ever goes off: a panic means that some
\* CPUs really are deadlocked.
OnlyDeadlocksPanic ==
  panic # "none" => /\ panic \in {"own lock", "deadlock"}
                    /\ \E D \in SUBSET Cpus : Deadlocked(D)

\* c_spinlocks counts the locks a CPU is inside or is acquiring: the value
\* wchan_sleep and the VM system compare with 1 and 0 to decide whether it is
\* safe to sleep.
SpinlockCount ==
  panic = "none" =>
    \A c \in Cpus : c_spinlocks[c] =
      Cardinality(held[c]) + IF pc[c] \in {"spin", "got", "held"} THEN 1 ELSE 0
=============================================================================
