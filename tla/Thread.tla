------------------------------- MODULE Thread -------------------------------
(***************************************************************************)
(* The thread system of kern/thread/thread.c: run queues, context switch,  *)
(* the idle loop, wait channels, thread creation and exit, and migration,  *)
(* driven by hardclock (kern/thread/clock.c) and by one semaphore          *)
(* (P and V of kern/thread/synch.c), the only client of wait channels that *)
(* the kernel has besides the clock.                                       *)
(*                                                                         *)
(* pc[c] is what CPU c is doing.  In "run" it executes the code of its     *)
(* current thread, in "idle" it waits in cpu_idle; only there can it take  *)
(* an interrupt, everything else runs with interrupts off.  An interrupt   *)
(* handler therefore runs on the stack of the current thread, and returns  *)
(* to the idle loop exactly when c_isidle is set.  A spinlock that is held *)
(* across steps is a variable; a critical section that a CPU enters and    *)
(* leaves within one step is guarded by the lock being free.               *)
(***************************************************************************)
EXTENDS Naturals, FiniteSets, FiniteSetsExt, Sequences, Functions

CONSTANTS NumCpus,    \* length of the allcpus array
          Threads,    \* the thread structures that can exist at one time
          MaxCount,   \* bound on the semaphore's count
          Null        \* the null pointer

Cpus == 0 .. NumCpus - 1

ASSUME CpuAssumption == NumCpus \in Nat \ {0}
ASSUME ThreadAssumption == Null \notin Threads /\ Null \notin Cpus /\ IsFiniteSet(Threads)
ASSUME CountAssumption == MaxCount \in Nat

VARIABLES
  c_curthread,      \* the thread whose stack each CPU is on
  c_runqueue,       \* each CPU's queue of ready threads
  c_isidle,         \* set from the choice of the next thread until there is one
  c_zombies,        \* threads that exited on each CPU and are not destroyed yet
  c_runqueue_lock,  \* the CPU holding each CPU's run queue lock, or Null
  c_ipi,            \* the interrupt line for IPIs, raised for IPI_UNIDLE
  t_state,          \* each thread's state; "none" when it does not exist
  t_cpu,            \* the CPU each thread belongs to
  t_context,        \* where a thread resumes when it is switched to
  sem_count, sem_lock, sem_wchan,  \* the semaphore
  pc,               \* what each CPU is doing
  target,           \* local of wchan_wakeone
  mig               \* locals of thread_consider_migration

cpuvars == <<c_curthread, c_runqueue, c_isidle, c_zombies, c_runqueue_lock, c_ipi>>
threadvars == <<t_state, t_cpu, t_context>>
semvars == <<sem_count, sem_lock, sem_wchan>>
vars == <<cpuvars, threadvars, semvars, pc, target, mig>>

NoMigration == [i |-> 0, my_count |-> 0, total |-> 0, to_send |-> 0, victims |-> <<>>]

\* thread_bootstrap and thread_start_cpus: every CPU runs a thread of its own.
Init ==
  \E boot \in [Cpus -> Threads] :
    /\ IsInjective(boot)
    /\ c_curthread = boot
    /\ c_runqueue = [c \in Cpus |-> <<>>]
    /\ c_isidle = [c \in Cpus |-> FALSE]
    /\ c_zombies = [c \in Cpus |-> <<>>]
    /\ c_runqueue_lock = [c \in Cpus |-> Null]
    /\ c_ipi = [c \in Cpus |-> FALSE]
    /\ t_state = [t \in Threads |-> IF t \in Range(boot) THEN "S_RUN" ELSE "none"]
    /\ t_cpu = [t \in Threads |-> IF t \in Range(boot) THEN CHOOSE c \in Cpus : boot[c] = t ELSE Null]
    /\ t_context = [t \in Threads |-> "run"]
    /\ sem_count = 0 /\ sem_lock = Null /\ sem_wchan = <<>>
    /\ pc = [c \in Cpus |-> "run"]
    /\ target = [c \in Cpus |-> Null]
    /\ mig = [c \in Cpus |-> NoMigration]

-----------------------------------------------------------------------------
\* Where a handler, or code called from one, returns to.
Resume(c) == IF c_isidle[c] THEN "unidle" ELSE "run"

\* ipi_send of IPI_UNIDLE if the CPU that got a thread is idle.
Unidle(me, c) ==
  c_ipi' = [c_ipi EXCEPT ![c] = @ \/ (c_isidle[c] /\ c # me)]

\* thread_make_runnable(t, false) called on CPU me.
thread_make_runnable(me, t) ==
  LET c == t_cpu[t] IN
    /\ c_runqueue_lock[c] = Null
    /\ t_state' = [t_state EXCEPT ![t] = "S_READY"]
    /\ c_runqueue' = [c_runqueue EXCEPT ![c] = Append(@, t)]
    /\ Unidle(me, c)

\* thread_fork: the new thread starts on the caller's CPU.
thread_fork(c, t) ==
  /\ pc[c] = "run" /\ t_state[t] = "none" /\ c_runqueue_lock[c] = Null
  /\ t_cpu' = [t_cpu EXCEPT ![t] = c]
  /\ t_context' = [t_context EXCEPT ![t] = "run"]
  /\ t_state' = [t_state EXCEPT ![t] = "S_READY"]
  /\ c_runqueue' = [c_runqueue EXCEPT ![c] = Append(@, t)]
  /\ UNCHANGED <<c_curthread, c_isidle, c_zombies, c_runqueue_lock, c_ipi,
                 semvars, pc, target, mig>>

\* A thread calls P, thread_yield, thread_exit; a thread or a device's
\* interrupt handler calls V.
Call(c) ==
  /\ \/ /\ pc[c] = "run"
        /\ pc' \in {[pc EXCEPT ![c] = op] : op \in {"P", "yield", "exit"}}
     \/ /\ pc[c] \in {"run", "idle"}
        /\ sem_count + Cardinality({d \in Cpus : pc[d] = "V"}) < MaxCount
        /\ pc' = [pc EXCEPT ![c] = "V"]
  /\ UNCHANGED <<cpuvars, threadvars, semvars, target, mig>>

\* Mutant: P returns without taking the unit it found.
P_nodecrement(c) ==
  /\ pc[c] = "P" /\ sem_lock = Null
  /\ IF sem_count > 0
     THEN /\ pc' = [pc EXCEPT ![c] = "run"]
          /\ UNCHANGED sem_lock
     ELSE /\ pc' = [pc EXCEPT ![c] = "sleep"]
          /\ sem_lock' = c
  /\ UNCHANGED <<cpuvars, threadvars, sem_count, sem_wchan, target, mig>>

\* P, from taking sem_lock: either take a unit, or go on to wchan_sleep with
\* the lock held.
P(c) ==
  /\ pc[c] = "P" /\ sem_lock = Null
  /\ IF sem_count > 0
     THEN /\ sem_count' = sem_count - 1
          /\ pc' = [pc EXCEPT ![c] = "run"]
          /\ UNCHANGED sem_lock
     ELSE /\ sem_lock' = c
          /\ pc' = [pc EXCEPT ![c] = "sleep"]
          /\ UNCHANGED sem_count
  /\ UNCHANGED <<cpuvars, threadvars, sem_wchan, target, mig>>

\* Mutant: V wakes a sleeper only when the count was 0.
V_onlyzero(c) ==
  /\ pc[c] = "V" /\ sem_lock = Null
  /\ sem_count' = sem_count + 1
  /\ IF sem_wchan = <<>> \/ sem_count > 0
     THEN /\ pc' = [pc EXCEPT ![c] = Resume(c)]
          /\ UNCHANGED <<sem_lock, sem_wchan, target>>
     ELSE /\ target' = [target EXCEPT ![c] = Head(sem_wchan)]
          /\ sem_wchan' = Tail(sem_wchan)
          /\ sem_lock' = c
          /\ pc' = [pc EXCEPT ![c] = "wake"]
  /\ UNCHANGED <<cpuvars, threadvars, mig>>

\* V up to the removal of a sleeper in wchan_wakeone.
V(c) ==
  /\ pc[c] = "V" /\ sem_lock = Null
  /\ sem_count' = sem_count + 1
  /\ IF sem_wchan = <<>>
     THEN /\ pc' = [pc EXCEPT ![c] = Resume(c)]
          /\ UNCHANGED <<sem_lock, sem_wchan, target>>
     ELSE /\ target' = [target EXCEPT ![c] = Head(sem_wchan)]
          /\ sem_wchan' = Tail(sem_wchan)
          /\ sem_lock' = c
          /\ pc' = [pc EXCEPT ![c] = "wake"]
  /\ UNCHANGED <<cpuvars, threadvars, mig>>

\* The rest of wchan_wakeone and of V, sem_lock still held.
Wake(c) ==
  /\ pc[c] = "wake"
  /\ thread_make_runnable(c, target[c])
  /\ sem_lock' = Null
  /\ target' = [target EXCEPT ![c] = Null]
  /\ pc' = [pc EXCEPT ![c] = Resume(c)]
  /\ UNCHANGED <<c_curthread, c_isidle, c_zombies, c_runqueue_lock, t_cpu, t_context,
                 sem_count, sem_wchan, mig>>

-----------------------------------------------------------------------------
(* thread_switch: take the run queue lock, put the current thread in the     *)
(* right place, choose the next one, switch to it and, on its stack, release *)
(* the lock and destroy the zombies.                                         *)

\* newstate S_READY with nothing else to run.
YieldNothing(c) ==
  /\ pc[c] = "yield" /\ c_runqueue_lock[c] = Null /\ c_runqueue[c] = <<>>
  /\ pc' = [pc EXCEPT ![c] = "run"]
  /\ UNCHANGED <<cpuvars, threadvars, semvars, target, mig>>

SwitchReady(c) ==
  LET cur == c_curthread[c] IN
  /\ pc[c] = "yield" /\ c_runqueue_lock[c] = Null /\ c_runqueue[c] # <<>>
  /\ c_runqueue_lock' = [c_runqueue_lock EXCEPT ![c] = c]
  /\ c_runqueue' = [c_runqueue EXCEPT ![c] = Append(@, cur)]
  /\ t_state' = [t_state EXCEPT ![cur] = "S_READY"]
  /\ t_context' = [t_context EXCEPT ![cur] = "run"]
  /\ c_isidle' = [c_isidle EXCEPT ![c] = TRUE]
  /\ pc' = [pc EXCEPT ![c] = "pick"]
  /\ UNCHANGED <<c_curthread, c_zombies, c_ipi, t_cpu, semvars, target, mig>>

\* Mutant: the wait channel's lock is released before the thread is on it.
SwitchSleep_early(c) ==
  LET cur == c_curthread[c] IN
  \/ /\ pc[c] = "sleep" /\ sem_lock = c
     /\ sem_lock' = Null
     /\ UNCHANGED <<cpuvars, threadvars, sem_count, sem_wchan, pc, target, mig>>
  \/ /\ pc[c] = "sleep" /\ sem_lock # c /\ c_runqueue_lock[c] = Null
     /\ c_runqueue_lock' = [c_runqueue_lock EXCEPT ![c] = c]
     /\ sem_wchan' = Append(sem_wchan, cur)
     /\ t_state' = [t_state EXCEPT ![cur] = "S_SLEEP"]
     /\ t_context' = [t_context EXCEPT ![cur] = "P"]
     /\ c_isidle' = [c_isidle EXCEPT ![c] = TRUE]
     /\ pc' = [pc EXCEPT ![c] = "pick"]
     /\ UNCHANGED <<c_curthread, c_runqueue, c_zombies, c_ipi, t_cpu,
                    sem_count, sem_lock, target, mig>>

SwitchSleep(c) ==
  LET cur == c_curthread[c] IN
  /\ pc[c] = "sleep" /\ c_runqueue_lock[c] = Null
  /\ c_runqueue_lock' = [c_runqueue_lock EXCEPT ![c] = c]
  /\ sem_wchan' = Append(sem_wchan, cur)
  /\ sem_lock' = Null
  /\ t_state' = [t_state EXCEPT ![cur] = "S_SLEEP"]
  /\ t_context' = [t_context EXCEPT ![cur] = "P"]
  /\ c_isidle' = [c_isidle EXCEPT ![c] = TRUE]
  /\ pc' = [pc EXCEPT ![c] = "pick"]
  /\ UNCHANGED <<c_curthread, c_runqueue, c_zombies, c_ipi, t_cpu,
                 sem_count, target, mig>>

\* thread_exit.
SwitchZombie(c) ==
  LET cur == c_curthread[c] IN
  /\ pc[c] = "exit" /\ c_runqueue_lock[c] = Null
  /\ c_runqueue_lock' = [c_runqueue_lock EXCEPT ![c] = c]
  /\ c_zombies' = [c_zombies EXCEPT ![c] = Append(@, cur)]
  /\ t_state' = [t_state EXCEPT ![cur] = "S_ZOMBIE"]
  /\ c_isidle' = [c_isidle EXCEPT ![c] = TRUE]
  /\ pc' = [pc EXCEPT ![c] = "pick"]
  /\ UNCHANGED <<c_curthread, c_runqueue, c_ipi, t_cpu, t_context, semvars, target, mig>>

\* No next thread: release the run queue lock and idle, staying on the stack of
\* the thread that went away.
PickNone(c) ==
  /\ pc[c] = "pick" /\ c_runqueue[c] = <<>>
  /\ c_runqueue_lock' = [c_runqueue_lock EXCEPT ![c] = Null]
  /\ pc' = [pc EXCEPT ![c] = "idle"]
  /\ UNCHANGED <<c_curthread, c_runqueue, c_isidle, c_zombies, c_ipi, threadvars,
                 semvars, target, mig>>

\* Switch to the next thread.  The tail of thread_switch, or thread_startup for
\* a new thread, runs on its stack; exorcise destroys this CPU's zombies.
PickNext(c) ==
  LET next == Head(c_runqueue[c]) IN
  /\ pc[c] = "pick" /\ c_runqueue[c] # <<>>
  /\ c_runqueue' = [c_runqueue EXCEPT ![c] = Tail(@)]
  /\ c_isidle' = [c_isidle EXCEPT ![c] = FALSE]
  /\ c_curthread' = [c_curthread EXCEPT ![c] = next]
  /\ t_state' = [t \in Threads |-> CASE t = next -> "S_RUN"
                                     [] t \in Range(c_zombies[c]) \ {next} -> "none"
                                     [] OTHER -> t_state[t]]
  /\ c_runqueue_lock' = [c_runqueue_lock EXCEPT ![c] = Null]
  /\ c_zombies' = [c_zombies EXCEPT ![c] = <<>>]
  /\ pc' = [pc EXCEPT ![c] = t_context[next]]
  /\ UNCHANGED <<c_ipi, t_cpu, t_context, semvars, target, mig>>

\* Back in the idle loop after an interrupt.
Reacquire(c) ==
  /\ pc[c] = "unidle" /\ c_runqueue_lock[c] = Null
  /\ c_runqueue_lock' = [c_runqueue_lock EXCEPT ![c] = c]
  /\ pc' = [pc EXCEPT ![c] = "pick"]
  /\ UNCHANGED <<c_curthread, c_runqueue, c_isidle, c_zombies, c_ipi, threadvars,
                 semvars, target, mig>>

-----------------------------------------------------------------------------
\* interprocessor_interrupt has nothing to do for IPI_UNIDLE; mainbus_interrupt
\* then lowers the line, and with it an IPI sent meanwhile.
interprocessor_interrupt(c) ==
  /\ pc[c] \in {"run", "idle"} /\ c_ipi[c]
  /\ pc' = [pc EXCEPT ![c] = "ipi"]
  /\ UNCHANGED <<cpuvars, threadvars, semvars, target, mig>>

lamebus_clear_ipi(c) ==
  /\ pc[c] = "ipi"
  /\ c_ipi' = [c_ipi EXCEPT ![c] = FALSE]
  /\ pc' = [pc EXCEPT ![c] = Resume(c)]
  /\ UNCHANGED <<c_curthread, c_runqueue, c_isidle, c_zombies, c_runqueue_lock,
                 threadvars, semvars, target, mig>>

\* Mutant: hardclock does not yield.
AfterMigration_noyield(c) == IF c_isidle[c] THEN "unidle" ELSE "run"

\* The end of hardclock: thread_yield, which does nothing on an idle CPU.
AfterMigration(c) == IF c_isidle[c] THEN "unidle" ELSE "yield"

\* hardclock.  Every MIGRATE_HARDCLOCKS-th one considers migration; the model
\* lets any one do so.
hardclock(c) ==
  /\ pc[c] \in {"run", "idle"}
  /\ \/ pc' = [pc EXCEPT ![c] = "count"]
     \/ pc' = [pc EXCEPT ![c] = AfterMigration(c)]
  /\ UNCHANGED <<cpuvars, threadvars, semvars, target, mig>>

DIVROUNDUP(a, b) == (a + b - 1) \div b

one_share(c) == DIVROUNDUP(mig[c].total, NumCpus)

\* One turn of the counting loop, under the run queue lock of CPU i.
MigrateCount(c) ==
  LET m == mig[c] IN
  /\ pc[c] = "count" /\ m.i < NumCpus /\ c_runqueue_lock[m.i] = Null
  /\ mig' = [mig EXCEPT ![c] = [m EXCEPT !.i = m.i + 1,
                                         !.total = @ + Len(c_runqueue[m.i]),
                                         !.my_count = IF m.i = c THEN Len(c_runqueue[c]) ELSE @]]
  /\ UNCHANGED <<cpuvars, threadvars, semvars, pc, target>>

MigrateNothing(c) ==
  /\ pc[c] = "count" /\ mig[c].i = NumCpus /\ mig[c].my_count < one_share(c)
  /\ mig' = [mig EXCEPT ![c] = NoMigration]
  /\ pc' = [pc EXCEPT ![c] = AfterMigration(c)]
  /\ UNCHANGED <<cpuvars, threadvars, semvars, target>>

to_send(c) == mig[c].my_count - one_share(c)

\* Move to_send threads from the tail of the own run queue to victims.
MigrateTake(c) ==
  LET q == c_runqueue[c]
      rest == Len(q) - Min({to_send(c), Len(q)})
  IN
  /\ pc[c] = "count" /\ mig[c].i = NumCpus /\ mig[c].my_count >= one_share(c)
  /\ c_runqueue_lock[c] = Null
  /\ mig' = [mig EXCEPT ![c].i = 0, ![c].to_send = to_send(c),
                        ![c].victims = SubSeq(q, rest + 1, Len(q))]
  /\ c_runqueue' = [c_runqueue EXCEPT ![c] = SubSeq(q, 1, rest)]
  /\ pc' = [pc EXCEPT ![c] = "send"]
  /\ UNCHANGED <<c_curthread, c_isidle, c_zombies, c_runqueue_lock, c_ipi,
                 threadvars, semvars, target>>

\* Mutant: curthread is migrated like any other thread.
Skipped_nobody(c) == Null

\* The thread that must not be migrated: this CPU may be idle on its stack.
Skipped(c) == c_curthread[c]

\* The list s without t, which is in it at most once.
Without(s, t) ==
  IF t \notin Range(s) THEN s
  ELSE LET i == CHOOSE j \in DOMAIN s : s[j] = t IN SubSeq(s, 1, i - 1) \o SubSeq(s, i + 1, Len(s))

\* The threads that move when n victims are taken from the head of the list, and
\* the one that goes to its end instead.
Moved(c, n) == Without(SubSeq(mig[c].victims, 1, n), Skipped(c))
PutBack(c, n) == IF Skipped(c) \in Range(SubSeq(mig[c].victims, 1, n)) THEN <<Skipped(c)>> ELSE <<>>

\* n victims are enough for CPU d: it has its share, or to_send is used up.
Enough(c, d, n) == n = mig[c].to_send \/ Len(c_runqueue[d]) + Len(Moved(c, n)) >= one_share(c)

\* One turn of the sending loop, for another CPU d, under its run queue lock:
\* victims are taken one by one until there are enough.
MigrateSend(c) ==
  LET d == mig[c].i IN
  /\ pc[c] = "send" /\ d < NumCpus /\ mig[c].to_send > 0
  /\ \/ /\ d = c
        /\ mig' = [mig EXCEPT ![c].i = d + 1]
        /\ UNCHANGED <<c_runqueue, t_cpu, c_ipi>>
     \/ /\ d # c /\ c_runqueue_lock[d] = Null
        /\ \E n \in 0 .. mig[c].to_send :
             /\ Enough(c, d, n) /\ \A k \in 0 .. n - 1 : ~Enough(c, d, k)
             /\ c_runqueue' = [c_runqueue EXCEPT ![d] = @ \o Moved(c, n)]
             /\ t_cpu' = [t \in Threads |-> IF t \in Range(Moved(c, n)) THEN d ELSE t_cpu[t]]
             /\ IF Moved(c, n) = <<>> THEN UNCHANGED c_ipi ELSE Unidle(c, d)
             /\ mig' = [mig EXCEPT ![c].i = d + 1, ![c].to_send = @ - n,
                                   ![c].victims = SubSeq(@, n + 1, Len(@)) \o PutBack(c, n)]
  /\ UNCHANGED <<c_curthread, c_isidle, c_zombies, c_runqueue_lock, t_state, t_context,
                 semvars, pc, target>>

Leftovers(c) == mig[c].victims

\* The leftovers go back on the own run queue.
MigrateEnd(c) ==
  /\ pc[c] = "send" /\ (mig[c].i = NumCpus \/ mig[c].to_send = 0)
  /\ mig[c].victims = <<>> \/ c_runqueue_lock[c] = Null
  /\ c_runqueue' = [c_runqueue EXCEPT ![c] = @ \o Leftovers(c)]
  /\ mig' = [mig EXCEPT ![c] = NoMigration]
  /\ pc' = [pc EXCEPT ![c] = AfterMigration(c)]
  /\ UNCHANGED <<c_curthread, c_isidle, c_zombies, c_runqueue_lock, c_ipi,
                 threadvars, semvars, target>>

-----------------------------------------------------------------------------
Step(c) ==
  \/ P(c) \/ V(c) \/ Wake(c)
  \/ YieldNothing(c) \/ SwitchReady(c) \/ SwitchSleep(c) \/ SwitchZombie(c)
  \/ PickNone(c) \/ PickNext(c) \/ Reacquire(c)
  \/ interprocessor_interrupt(c) \/ lamebus_clear_ipi(c)
  \/ MigrateCount(c) \/ MigrateNothing(c) \/ MigrateTake(c) \/ MigrateSend(c) \/ MigrateEnd(c)

Next ==
  \E c \in Cpus : \/ Step(c) \/ Call(c) \/ hardclock(c)
                  \/ \E t \in Threads : thread_fork(c, t)

Spec == Init /\ [][Next]_vars

\* A CPU goes on executing, a CPU that spins on a lock that is free again and
\* again gets it, and the timer goes on interrupting.
Fairness == \A c \in Cpus : SF_vars(Step(c)) /\ SF_vars(hardclock(c))

FairSpec == Spec /\ Fairness

-----------------------------------------------------------------------------
\* Type invariant.
TypeOK ==
  /\ c_curthread \in [Cpus -> Threads]
  /\ \A c \in Cpus : Range(c_runqueue[c]) \cup Range(c_zombies[c]) \subseteq Threads
  /\ c_isidle \in [Cpus -> BOOLEAN] /\ c_ipi \in [Cpus -> BOOLEAN]
  /\ \A c \in Cpus : c_runqueue_lock[c] \in {c, Null}
  /\ t_state \in [Threads -> {"none", "S_RUN", "S_READY", "S_SLEEP", "S_ZOMBIE"}]
  /\ t_cpu \in [Threads -> Cpus \cup {Null}]
  /\ t_context \in [Threads -> {"run", "P"}]
  /\ sem_count \in 0 .. MaxCount /\ sem_lock \in Cpus \cup {Null}
  /\ pc \in [Cpus -> {"run", "P", "V", "wake", "sleep", "yield", "exit", "pick", "idle",
                      "unidle", "ipi", "count", "send"}]

\* The places where thread.c keeps a thread that exists, with one element for
\* each time it is there.
Places(t) ==
  {<<"running", c>> : c \in {d \in Cpus : c_curthread[d] = t /\ ~c_isidle[d]}}
  \cup {<<"waking", c>> : c \in {d \in Cpus : target[d] = t}}
  \cup (UNION {{<<"queue", c, i>> : i \in {j \in DOMAIN c_runqueue[c] : c_runqueue[c][j] = t}} : c \in Cpus})
  \cup (UNION {{<<"victims", c, i>> : i \in {j \in DOMAIN mig[c].victims : mig[c].victims[j] = t}} : c \in Cpus})
  \cup (UNION {{<<"zombies", c, i>> : i \in {j \in DOMAIN c_zombies[c] : c_zombies[c][j] = t}} : c \in Cpus})
  \cup {<<"wchan", i>> : i \in {j \in DOMAIN sem_wchan : sem_wchan[j] = t}}

\* No thread is lost or duplicated: each one that exists is in exactly one
\* place (running, on one run queue, on the wait channel, being woken, being
\* migrated, or a zombie), whatever switches, wakeups and migrations overlap.
OnePlace ==
  \A t \in Threads : Cardinality(Places(t)) = IF t_state[t] = "none" THEN 0 ELSE 1

\* No stack is ever used by two CPUs, none is freed under a CPU, and a CPU that
\* idles on the stack of a thread that became ready again keeps that thread to
\* itself.  Violating this is what the comment in thread_consider_migration
\* means by "bad things" (the Exercise at line 907).
StacksExclusive ==
  \A c \in Cpus :
    LET cur == c_curthread[c] IN
      /\ t_state[cur] # "none" /\ t_cpu[cur] = c
      /\ \A d \in Cpus \ {c} :
           /\ c_curthread[d] # cur
           /\ cur \notin Range(c_runqueue[d])
           /\ cur \notin Range(mig[d].victims)

\* A CPU waiting in cpu_idle with something to run has an interrupt coming: a
\* wakeup does not have to wait for the next timer tick.
IdleNoticed ==
  \A c \in Cpus : pc[c] = "idle" /\ c_runqueue[c] # <<>> => c_ipi[c]

\* Threads that are in P and not asleep.
AwakeInP ==
  {t \in Threads : \/ t_state[t] = "S_READY" /\ t_context[t] = "P"
                   \/ \E c \in Cpus : target[c] = t
                   \/ \E c \in Cpus : c_curthread[c] = t /\ pc[c] = "P"
                   \/ \E c \in Cpus : t \in Range(mig[c].victims) /\ t_context[t] = "P"}

\* No wakeup is lost: while threads sleep on the semaphore, every available
\* unit is matched by a thread on its way to look at the count again.
NoLostWakeup == sem_wchan # <<>> => sem_count <= Cardinality(AwakeInP)

\* thread_consider_migration counts, then takes and sends with the locks
\* dropped in between; remtail and remhead never find a list empty.
MigrationInBounds ==
  \A c \in Cpus :
    /\ pc[c] = "count" /\ mig[c].i > c => mig[c].my_count <= Len(c_runqueue[c])
    /\ pc[c] = "send" => mig[c].to_send <= Len(mig[c].victims)

\* Switches, wakeups, exits and migrations that overlap lose no thread, run none
\* twice and free no stack in use, and a migration takes no more threads than
\* there are (thread_switch, thread_make_runnable, thread_consider_migration).
ThreadsKept == TypeOK /\ OnePlace /\ StacksExclusive /\ MigrationInBounds

\* No wakeup is lost, neither of a thread in P nor of an idle CPU with something
\* to run (wchan_wakeone, thread_make_runnable, cpu_idle).
WakeupsArrive == NoLostWakeup /\ IdleNoticed

\* Threads inside P: on a CPU, or switched away from in wchan_sleep.
InP ==
  {t \in Threads :
     \/ \E c \in Cpus : c_curthread[c] = t /\ ~c_isidle[c] /\ pc[c] \in {"P", "sleep"}
     \/ t_state[t] \in {"S_SLEEP", "S_READY"} /\ t_context[t] = "P"}

Sem == INSTANCE Semaphore WITH Callers <- Threads, count <- sem_count, waiting <- InP

\* P and V, with their wait channel, over this thread system implement the
\* abstract semaphore: a P completes only by taking a unit, once.
ImplementsSemaphore == Sem!Spec

\* The same with its progress: while units remain, some waiting P completes.
ImplementsFairSemaphore == Sem!FairSpec

\* Round robin: a thread that is ready runs eventually, although the timer of
\* any CPU may migrate it.
ReadyRuns == \A t \in Threads : t_state[t] = "S_READY" ~> t_state[t] = "S_RUN"
=============================================================================
