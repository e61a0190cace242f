------------------------------ MODULE MCThread ------------------------------
(* Model checking instances of Thread.  Two CPUs and four threads are enough *)
(* for a CPU that idles on the stack of a thread that is ready again, last   *)
(* in a queue long enough to be shared; see MCThread.cfg.                    *)
EXTENDS Thread, TLC

Symmetry == Permutations(Threads)

\* The liveness run has no symmetry to use.  Its boot threads are fixed and its
\* threads are long-lived; the restriction is on what threads ask for, never on
\* what the kernel does.
LongLived == \A c \in Cpus : pc'[c] # "exit"

LongLivedFairSpec ==
  /\ Init /\ c_curthread = CHOOSE boot \in [Cpus -> Threads] : IsInjective(boot)
  /\ [][Next /\ LongLived]_vars
  /\ Fairness
=============================================================================
