--------------------------- MODULE ThreadInvariant ---------------------------
(***************************************************************************)
(* The structure of the thread system, for any number of CPUs and threads: *)
(* who holds which lock, and where every thread is.  The state of a thread *)
(* and its t_cpu say where it is; that, and no list having an element      *)
(* twice, is what every switch, wakeup and migration keeps.                *)
(***************************************************************************)
EXTENDS Thread, SequenceLemmas, TLAPS

States == {"none", "S_RUN", "S_READY", "S_SLEEP", "S_ZOMBIE"}
Labels == {"run", "P", "V", "wake", "sleep", "yield", "exit", "pick", "idle",
           "unidle", "ipi", "count", "send"}

Types ==
  /\ c_curthread \in [Cpus -> Threads]
  /\ c_runqueue \in [Cpus -> Seq(Threads)]
  /\ c_isidle \in [Cpus -> BOOLEAN]
  /\ c_zombies \in [Cpus -> Seq(Threads)]
  /\ c_ipi \in [Cpus -> BOOLEAN]
  /\ t_state \in [Threads -> States]
  /\ t_cpu \in [Threads -> Cpus \cup {Null}]
  /\ t_context \in [Threads -> {"run", "P"}]
  /\ sem_count \in Nat /\ sem_lock \in Cpus \cup {Null} /\ sem_wchan \in Seq(Threads)
  /\ pc \in [Cpus -> Labels]
  /\ target \in [Cpus -> Threads \cup {Null}]
  /\ mig \in [Cpus -> [i : Nat, my_count : Nat, total : Nat, to_send : Nat, victims : Seq(Threads)]]

\* Who holds which lock, and who is on the stack of a thread that is not its own.
LocksOf(c) ==
  /\ c_runqueue_lock[c] = IF pc[c] = "pick" THEN c ELSE Null
  /\ sem_lock = c <=> pc[c] \in {"sleep", "wake"}
  /\ target[c] # Null <=> pc[c] = "wake"
  /\ pc[c] \in {"run", "P", "sleep", "yield", "exit"} => ~c_isidle[c]
  /\ pc[c] \in {"pick", "idle", "unidle"} => c_isidle[c]

Locks == c_runqueue_lock \in [Cpus -> Cpus \cup {Null}] /\ \A c \in Cpus : LocksOf(c)

\* The run queue of a CPU that has counted it does not get shorter, and the
\* victims are as many as are to be sent.
MigrationOf(c) ==
  /\ pc[c] \notin {"count", "send"} => mig[c] = NoMigration
  /\ pc[c] = "count" => /\ mig[c].victims = <<>>
                        /\ mig[c].i > c => mig[c].my_count <= Len(c_runqueue[c])
  /\ pc[c] = "send" => mig[c].to_send <= Len(mig[c].victims)

\* The lists of a CPU, of the semaphore: no element twice.
ListsOf(c) ==
  /\ IsInjective(c_runqueue[c]) /\ IsInjective(c_zombies[c]) /\ IsInjective(mig[c].victims)
  /\ Range(c_runqueue[c]) \cap Range(mig[c].victims) = {}

\* Where a thread is follows from its state and its t_cpu.
Whereabouts(t, c) ==
  /\ c_curthread[c] = t /\ ~c_isidle[c] <=> t_state[t] = "S_RUN" /\ t_cpu[t] = c
  /\ t \in Range(c_runqueue[c]) \cup Range(mig[c].victims) <=> t_state[t] = "S_READY" /\ t_cpu[t] = c
  /\ t \in Range(c_zombies[c]) <=> t_state[t] = "S_ZOMBIE" /\ t_cpu[t] = c
  /\ c_curthread[c] = t => t_state[t] # "none" /\ t_cpu[t] = c

Sleeping(t) ==
  /\ t \in Range(sem_wchan) \/ (\E c \in Cpus : target[c] = t) <=> t_state[t] = "S_SLEEP"
  /\ t \in Range(sem_wchan) => \A c \in Cpus : target[c] # t
  /\ t_state[t] # "none" => t_cpu[t] \in Cpus

Lists ==
  /\ IsInjective(sem_wchan)
  /\ \A c \in Cpus : ListsOf(c) /\ MigrationOf(c)
  /\ \A t \in Threads : Sleeping(t) /\ \A c \in Cpus : Whereabouts(t, c)

Structure == Types /\ Locks /\ Lists

-----------------------------------------------------------------------------
\* After thread_bootstrap and thread_start_cpus every CPU runs its own thread and
\* all lists are empty.
LEMMA StructureInit ==
  ASSUME Init
  PROVE  Structure
<1>1. PICK boot \in [Cpus -> Threads] :
        /\ IsInjective(boot)
        /\ c_curthread = boot
        /\ c_runqueue = [c \in Cpus |-> <<>>]
        /\ c_isidle = [c \in Cpus |-> FALSE]
        /\ c_zombies = [c \in Cpus |-> <<>>]
        /\ c_runqueue_lock = [c \in Cpus |-> Null]
        /\ c_ipi = [c \in Cpus |-> FALSE]
        /\ t_state = [t \in Threads |-> IF t \in Range(boot) THEN "S_RUN" ELSE "none"]
        /\ t_cpu = [t \in Threads |-> IF t \in Range(boot) THEN CHOOSE c \in Cpus : boot[c] = t ELSE Null]
        /\ t_context = [t \in Threads |-> "run"]
        /\ sem_count = 0 /\ sem_lock = Null /\ sem_wchan = <<>>
        /\ pc = [c \in Cpus |-> "run"]
        /\ target = [c \in Cpus |-> Null]
        /\ mig = [c \in Cpus |-> NoMigration]
  BY Zenon DEF Init
<1>2. ASSUME NEW t \in Range(boot) PROVE \E c \in Cpus : boot[c] = t
  BY <1>2 DEF Range
<1>3. \A c \in Cpus : boot[c] \in Range(boot) /\ (CHOOSE d \in Cpus : boot[d] = boot[c]) = c
  BY <1>1 DEF Range, IsInjective
<1>4. <<>> \in Seq(Threads) /\ Range(<<>>) = {} /\ IsInjective(<<>>)
  <2>1. <<>> \in Seq(Threads)
    OBVIOUS
  <2>2. QED
    BY <2>1, EmptyFacts, Zenon
<1>5. Types
  <2>1. t_cpu \in [Threads -> Cpus \cup {Null}]
    BY <1>1, <1>2
  <2>2. mig \in [Cpus -> [i : Nat, my_count : Nat, total : Nat, to_send : Nat, victims : Seq(Threads)]]
    BY <1>1, <1>4 DEF NoMigration
  <2>3. QED
    BY <1>1, <1>4, <2>1, <2>2 DEF Types, States, Labels
<1>6. Locks
  BY <1>1, ThreadAssumption DEF Locks, LocksOf
<1>7. Lists
  <2>1. ASSUME NEW c \in Cpus PROVE ListsOf(c) /\ MigrationOf(c)
    BY <1>1, <1>4 DEF ListsOf, MigrationOf, NoMigration
  <2>2. ASSUME NEW t \in Threads PROVE Sleeping(t)
    <3>1. t_state[t] # "S_SLEEP" /\ t_state[t] = "S_RUN" <=> t \in Range(boot)
      BY <1>1
    <3>2. t \in Range(boot) => t_cpu[t] \in Cpus
      BY <1>1, <1>2
    <3>3. QED
      BY <1>1, <1>4, <3>1, <3>2, ThreadAssumption DEF Sleeping
  <2>3. ASSUME NEW t \in Threads, NEW c \in Cpus PROVE Whereabouts(t, c)
    <3>1. CASE t \in Range(boot)
      <4>1. PICK d \in Cpus : boot[d] = t
        BY <1>2, <3>1
      <4>2. t_state[t] = "S_RUN" /\ t_cpu[t] = d
        BY <1>1, <1>3, <3>1, <4>1
      <4>3. c_curthread[c] = t <=> c = d
        BY <1>1, <4>1 DEF IsInjective
      <4>4. QED
        BY <1>1, <1>4, <4>2, <4>3, Zenon DEF Whereabouts, NoMigration
    <3>2. CASE t \notin Range(boot)
      <4>1. t_state[t] = "none" /\ c_curthread[c] # t
        BY <1>1, <1>3, <3>2
      <4>2. QED
        BY <1>1, <1>4, <4>1 DEF Whereabouts, NoMigration
    <3>3. QED
      BY <3>1, <3>2
  <2>4. QED
    BY <1>1, <1>4, <2>1, <2>2, <2>3 DEF Lists
<1>8. QED
  BY <1>5, <1>6, <1>7 DEF Structure

-----------------------------------------------------------------------------
\* A step of CPU c leaves the locks of the others alone.
LEMMA LocksFrame ==
  ASSUME Types, Locks, NEW c \in Cpus, LocksOf(c)',
         c_runqueue_lock' \in [Cpus -> Cpus \cup {Null}],
         \A d \in Cpus \ {c} : /\ pc'[d] = pc[d] /\ target'[d] = target[d]
                               /\ c_isidle'[d] = c_isidle[d] /\ c_runqueue_lock'[d] = c_runqueue_lock[d],
         sem_lock' = sem_lock \/ (sem_lock \in {c, Null} /\ sem_lock' \in {c, Null})
  PROVE  Locks'
<1>1. ASSUME NEW d \in Cpus \ {c} PROVE LocksOf(d)'
  BY ThreadAssumption DEF Locks, LocksOf
<1>2. QED
  BY <1>1 DEF Locks

\* A step that moves no thread leaves the lists as they are.
LEMMA QuietLists ==
  ASSUME Types, Lists, NEW c \in Cpus, NEW l,
         pc' = [pc EXCEPT ![c] = l], pc[c] \notin {"count", "send"}, l # "send",
         UNCHANGED <<c_curthread, c_runqueue, c_isidle, c_zombies, t_state, t_cpu, sem_wchan, target, mig>>
  PROVE  Lists'
<1>1. pc \in [Cpus -> Labels]
  BY DEF Types
<1>2. ASSUME NEW d \in Cpus PROVE ListsOf(d)' /\ MigrationOf(d)'
  <2>1. ListsOf(d)'
    BY DEF Lists, ListsOf
  <2>2. CASE d = c
    <3>1. mig[c] = NoMigration
      BY DEF Lists, MigrationOf
    <3>2. mig'[c].victims = <<>> /\ mig'[c].i = 0
      BY <3>1 DEF NoMigration
    <3>3. ~(0 > c)
      BY CpuAssumption DEF Cpus
    <3>4. QED
      BY <1>1, <2>1, <2>2, <3>1, <3>2, <3>3 DEF MigrationOf
  <2>3. CASE d # c
    BY <1>1, <2>1, <2>3 DEF Lists, MigrationOf
  <2>4. QED
    BY <2>2, <2>3
<1>3. ASSUME NEW t \in Threads PROVE Sleeping(t)' /\ \A d \in Cpus : Whereabouts(t, d)'
  BY DEF Lists, Sleeping, Whereabouts
<1>4. QED
  BY <1>2, <1>3 DEF Lists

\* The same for the whole invariant.
LEMMA QuietKeeps ==
  ASSUME Structure, NEW c \in Cpus, NEW l \in Labels,
         pc' = [pc EXCEPT ![c] = l], pc[c] \notin {"count", "send"}, l # "send",
         UNCHANGED <<c_curthread, c_runqueue, c_isidle, c_zombies, threadvars, sem_wchan, target, mig>>,
         c_ipi' \in [Cpus -> BOOLEAN], sem_count' \in Nat,
         c_runqueue_lock' \in [Cpus -> Cpus \cup {Null}],
         \A d \in Cpus \ {c} : c_runqueue_lock'[d] = c_runqueue_lock[d],
         sem_lock' = sem_lock \/ (sem_lock \in {c, Null} /\ sem_lock' \in {c, Null}),
         LocksOf(c)'
  PROVE  Types' /\ Locks' /\ Lists'
<1>1. Types /\ Locks /\ Lists
  BY DEF Structure
<1>2. Types'
  BY <1>1, SMTT(20) DEF Types, threadvars
<1>3. Locks'
  BY <1>1, LocksFrame, Zenon DEF Types
<1>4. Lists'
  BY <1>1, QuietLists, Zenon DEF threadvars
<1>5. QED
  BY <1>2, <1>3, <1>4

LEMMA CallKeeps ==
  ASSUME Structure, NEW c \in Cpus, Call(c)
  PROVE  Structure'
<1>1. Types /\ Locks /\ Lists /\ LocksOf(c)
  BY DEF Structure, Locks
<1>2. UNCHANGED <<cpuvars, threadvars, semvars, target, mig>>
  BY DEF Call
<1>3. PICK op \in {"P", "yield", "exit", "V"} :
        /\ pc' = [pc EXCEPT ![c] = op] /\ pc[c] \in {"run", "idle"}
        /\ op # "V" => pc[c] = "run"
  BY DEF Call
<1>4. LocksOf(c)'
  BY <1>1, <1>2, <1>3 DEF LocksOf, Types, cpuvars, semvars
<1>5. Types' /\ Locks' /\ Lists'
  BY <1>1, <1>2, <1>3, <1>4, QuietKeeps, Zenon DEF Types, Locks, Labels, cpuvars, semvars
<1>6. QED
  BY <1>5 DEF Structure

LEMMA PKeeps ==
  ASSUME Structure, NEW c \in Cpus, P(c)
  PROVE  Structure'
<1>1. Types /\ Locks /\ Lists /\ LocksOf(c)
  BY DEF Structure, Locks
<1>2. pc[c] = "P" /\ sem_lock = Null /\ UNCHANGED <<cpuvars, threadvars, sem_wchan, target, mig>>
  BY DEF P
<1>3. PICK l \in {"run", "sleep"} :
        /\ pc' = [pc EXCEPT ![c] = l] /\ sem_lock' = IF l = "run" THEN Null ELSE c
        /\ sem_count' \in Nat
  BY <1>1, <1>2 DEF P, Types
<1>4. LocksOf(c)'
  BY <1>1, <1>2, <1>3, ThreadAssumption DEF LocksOf, Types, cpuvars
<1>5. Types' /\ Locks' /\ Lists'
  BY <1>1, <1>2, <1>3, <1>4, QuietKeeps, Zenon DEF Types, Locks, Labels, cpuvars
<1>6. QED
  BY <1>5 DEF Structure

\* The steps of thread_switch and of the interrupt handlers that move no thread.
LEMMA QuietStepsKeep ==
  ASSUME Structure, NEW c \in Cpus,
         \/ YieldNothing(c) \/ PickNone(c) \/ Reacquire(c)
         \/ interprocessor_interrupt(c) \/ lamebus_clear_ipi(c) \/ hardclock(c)
  PROVE  Structure'
<1>1. Types /\ Locks /\ Lists /\ LocksOf(c)
  BY DEF Structure, Locks
<1> DEFINE Free == c_runqueue_lock' \in [Cpus -> Cpus \cup {Null}]
                     /\ \A d \in Cpus \ {c} : c_runqueue_lock'[d] = c_runqueue_lock[d]
           Same == UNCHANGED <<c_curthread, c_runqueue, c_isidle, c_zombies, threadvars, semvars, target, mig>>
<1>2. SUFFICES ASSUME NEW l \in Labels \ {"send"}, pc' = [pc EXCEPT ![c] = l],
                      pc[c] \notin {"count", "send"}, Same, Free, c_ipi' \in [Cpus -> BOOLEAN], LocksOf(c)'
               PROVE  Structure'
  <2>1. c_runqueue_lock \in [Cpus -> Cpus \cup {Null}] /\ c_ipi \in [Cpus -> BOOLEAN] /\ pc \in [Cpus -> Labels]
    BY <1>1, Zenon DEF Locks, Types
  <2> USE <1>1, <1>2, <2>1 DEF LocksOf, Labels
  <2>2. CASE YieldNothing(c)
    BY <2>2, Zenon DEF YieldNothing, cpuvars, semvars
  <2>3. CASE PickNone(c)
    BY <2>3, Zenon DEF PickNone, semvars
  <2>4. CASE Reacquire(c)
    BY <2>4, ThreadAssumption, Zenon DEF Reacquire, semvars
  <2>5. CASE interprocessor_interrupt(c)
    BY <2>5, Zenon DEF interprocessor_interrupt, cpuvars, semvars
  <2>6. CASE lamebus_clear_ipi(c)
    BY <2>6, Zenon DEF lamebus_clear_ipi, Resume, semvars
  <2>7. CASE hardclock(c)
    BY <2>7 DEF hardclock, AfterMigration, cpuvars, semvars
  <2>8. QED
    BY <2>2, <2>3, <2>4, <2>5, <2>6, <2>7
<1>3. Types' /\ Locks' /\ Lists'
  BY <1>1, <1>2, QuietKeeps, Zenon DEF Types, semvars
<1>4. QED
  BY <1>3 DEF Structure

-----------------------------------------------------------------------------
\* A run queue with a thread added at its tail.
LEMMA Enqueue ==
  ASSUME Types, Lists, NEW c \in Cpus, NEW t \in Threads,
         t \notin Range(c_runqueue[c]) \cup Range(mig[c].victims),
         c_runqueue' = [c_runqueue EXCEPT ![c] = Append(@, t)], mig' = mig
  PROVE  /\ c_runqueue' \in [Cpus -> Seq(Threads)]
         /\ \A d \in Cpus : /\ IsInjective(c_runqueue'[d]) /\ IsInjective(mig'[d].victims)
                            /\ Range(c_runqueue'[d]) \cap Range(mig'[d].victims) = {}
                            /\ Range(c_runqueue'[d]) = Range(c_runqueue[d]) \cup (IF d = c THEN {t} ELSE {})
                            /\ Len(c_runqueue'[d]) \in Nat /\ Len(c_runqueue'[d]) >= Len(c_runqueue[d])
<1>1. c_runqueue \in [Cpus -> Seq(Threads)] /\ \A d \in Cpus : ListsOf(d)
  BY DEF Types, Lists
<1>2. c_runqueue' \in [Cpus -> Seq(Threads)]
  BY <1>1, AppendFacts
<1>3. ASSUME NEW d \in Cpus
      PROVE  /\ IsInjective(c_runqueue'[d]) /\ IsInjective(mig'[d].victims)
             /\ Range(c_runqueue'[d]) \cap Range(mig'[d].victims) = {}
             /\ Range(c_runqueue'[d]) = Range(c_runqueue[d]) \cup (IF d = c THEN {t} ELSE {})
             /\ Len(c_runqueue'[d]) \in Nat /\ Len(c_runqueue'[d]) >= Len(c_runqueue[d])
  <2>0. c_runqueue[d] \in Seq(Threads) /\ Len(c_runqueue[d]) \in Nat /\ ListsOf(d)
    BY <1>1
  <2>1. CASE d = c
    <3>1. c_runqueue'[d] = Append(c_runqueue[d], t)
      BY <1>1, <2>1
    <3>2. /\ Len(c_runqueue'[d]) = Len(c_runqueue[d]) + 1
          /\ Range(c_runqueue'[d]) = Range(c_runqueue[d]) \cup {t} /\ IsInjective(c_runqueue'[d])
      BY <2>0, <2>1, <3>1, AppendFacts DEF ListsOf
    <3>3. QED
      BY <2>0, <2>1, <3>2 DEF ListsOf
  <2>2. CASE d # c
    BY <1>1, <2>0, <2>2 DEF ListsOf
  <2>3. QED
    BY <2>1, <2>2
<1>4. QED
  BY <1>2, <1>3, Zenon

\* A step of a CPU that is not migrating leaves every migration its bounds, if
\* it makes no run queue of another CPU shorter.
LEMMA MigrationFrame ==
  ASSUME Types, Lists, NEW c \in Cpus, NEW l, pc' = [pc EXCEPT ![c] = l],
         pc[c] \notin {"count", "send"}, l \notin {"count", "send"}, mig' = mig,
         \A d \in Cpus \ {c} : Len(c_runqueue'[d]) \in Nat /\ Len(c_runqueue'[d]) >= Len(c_runqueue[d])
  PROVE  \A d \in Cpus : MigrationOf(d)'
<1>1. /\ pc \in [Cpus -> Labels] /\ \A d \in Cpus : MigrationOf(d)
      /\ \A d \in Cpus : mig[d].my_count \in Nat /\ Len(c_runqueue[d]) \in Nat
  BY SMTT(20) DEF Types, Lists
<1>2. MigrationOf(c)'
  BY <1>1 DEF MigrationOf
<1>3. ASSUME NEW d \in Cpus \ {c} PROVE MigrationOf(d)'
  <2>1. pc'[d] = pc[d] /\ mig'[d] = mig[d]
    BY <1>1
  <2>2. \A n, k, m \in Nat : n <= k /\ m >= k => n <= m
    OBVIOUS
  <2>3. QED
    BY <1>1, <2>1, <2>2 DEF MigrationOf
<1>4. QED
  BY <1>2, <1>3

LEMMA thread_forkKeeps ==
  ASSUME Structure, NEW c \in Cpus, NEW t \in Threads, thread_fork(c, t)
  PROVE  Structure'
<1>1. Types /\ Locks /\ Lists
  BY DEF Structure
<1>2. /\ pc[c] = "run" /\ t_state[t] = "none"
      /\ t_cpu' = [t_cpu EXCEPT ![t] = c]
      /\ t_context' = [t_context EXCEPT ![t] = "run"]
      /\ t_state' = [t_state EXCEPT ![t] = "S_READY"]
      /\ c_runqueue' = [c_runqueue EXCEPT ![c] = Append(@, t)]
      /\ UNCHANGED <<c_curthread, c_isidle, c_zombies, c_runqueue_lock, c_ipi,
                     sem_count, sem_lock, sem_wchan, pc, target, mig>>
  BY DEF thread_fork, semvars
<1>3. Sleeping(t) /\ \A d \in Cpus : Whereabouts(t, d)
  BY <1>1 DEF Lists
<1>4. /\ c_runqueue' \in [Cpus -> Seq(Threads)]
      /\ \A d \in Cpus : /\ IsInjective(c_runqueue'[d]) /\ IsInjective(mig'[d].victims)
                         /\ Range(c_runqueue'[d]) \cap Range(mig'[d].victims) = {}
                         /\ Range(c_runqueue'[d]) = Range(c_runqueue[d]) \cup (IF d = c THEN {t} ELSE {})
                         /\ Len(c_runqueue'[d]) \in Nat /\ Len(c_runqueue'[d]) >= Len(c_runqueue[d])
  <2>1. t \notin Range(c_runqueue[c]) \cup Range(mig[c].victims)
    BY <1>2, <1>3 DEF Whereabouts
  <2>2. QED
    BY <1>1, <1>2, <2>1, Enqueue, Zenon
<1>5. Types'
  BY <1>1, <1>2, <1>4, Zenon DEF Types, States
<1>6. Locks'
  BY <1>1, <1>2 DEF Locks, LocksOf
<1>7. Lists'
  <2>1. pc' = [pc EXCEPT ![c] = "run"]
    BY <1>1, <1>2 DEF Types
  <2>2. \A d \in Cpus : MigrationOf(d)'
    BY <1>1, <1>2, <1>4, <2>1, MigrationFrame, Zenon
  <2>3. ASSUME NEW d \in Cpus PROVE ListsOf(d)'
    BY <1>1, <1>2, <1>4, Zenon DEF Lists, ListsOf
  <2>4. ASSUME NEW u \in Threads PROVE Sleeping(u)'
    BY <1>1, <1>2 DEF Lists, Sleeping, Types
  <2>5. ASSUME NEW u \in Threads, NEW d \in Cpus PROVE Whereabouts(u, d)'
    <3>1. Whereabouts(u, d)
      BY <1>1 DEF Lists
    <3>2. /\ t_state'[u] = IF u = t THEN "S_READY" ELSE t_state[u]
          /\ t_cpu'[u] = IF u = t THEN c ELSE t_cpu[u]
      BY <1>1, <1>2 DEF Types
    <3>3. u \in Range(c_runqueue'[d]) <=> u \in Range(c_runqueue[d]) \/ (u = t /\ d = c)
      BY <1>4
    <3>4. CASE u = t
      BY <1>2, <3>1, <3>2, <3>3, <3>4 DEF Whereabouts
    <3>5. CASE u # t
      BY <1>2, <3>1, <3>2, <3>3, <3>5 DEF Whereabouts
    <3>6. QED
      BY <3>4, <3>5
  <2>6. QED
    BY <1>1, <1>2, <2>2, <2>3, <2>4, <2>5 DEF Lists
<1>8. QED
  BY <1>5, <1>6, <1>7 DEF Structure

\* Only the CPU that holds sem_lock is waking a thread.
LEMMA OneTarget ==
  ASSUME Types, Locks
  PROVE  \A d \in Cpus : target[d] # Null => sem_lock = d
  BY ThreadAssumption DEF Locks, LocksOf

LEMMA VKeeps ==
  ASSUME Structure, NEW c \in Cpus, V(c)
  PROVE  Structure'
<1>1. Types /\ Locks /\ Lists /\ LocksOf(c)
  BY DEF Structure, Locks
<1>2. /\ pc[c] = "V" /\ sem_lock = Null /\ sem_count' = sem_count + 1
      /\ UNCHANGED <<c_curthread, c_runqueue, c_isidle, c_zombies, c_runqueue_lock, c_ipi, threadvars, mig>>
  BY DEF V, cpuvars
<1>3. pc \in [Cpus -> Labels] /\ sem_count \in Nat /\ sem_wchan \in Seq(Threads)
  BY <1>1 DEF Types
<1>4. CASE sem_wchan = <<>>
  <2>1. pc' = [pc EXCEPT ![c] = Resume(c)] /\ UNCHANGED <<sem_lock, sem_wchan, target>>
    BY <1>4 DEF V
  <2>2. Resume(c) \in {"run", "unidle"} /\ Resume(c) \in Labels \ {"V", "send", "count"}
    BY DEF Resume, Labels
  <2>3. LocksOf(c)'
    BY <1>1, <1>2, <1>3, <2>1, <2>2 DEF LocksOf, Resume
  <2>4. Types' /\ Locks' /\ Lists'
    <3>1. c_ipi' \in [Cpus -> BOOLEAN] /\ sem_count' \in Nat /\ c_runqueue_lock' \in [Cpus -> Cpus \cup {Null}]
      BY <1>1, <1>2 DEF Types, Locks
    <3>2. \A d \in Cpus \ {c} : c_runqueue_lock'[d] = c_runqueue_lock[d]
      BY <1>2
    <3>3. QED
      BY <1>2, <2>1, <2>2, <2>3, <3>1, <3>2, QuietKeeps, Zenon
  <2>5. QED
    BY <2>4 DEF Structure
<1>5. CASE sem_wchan # <<>>
  <2> DEFINE t == Head(sem_wchan)
  <2>1. /\ target' = [target EXCEPT ![c] = t] /\ sem_wchan' = Tail(sem_wchan)
        /\ sem_lock' = c /\ pc' = [pc EXCEPT ![c] = "wake"]
    BY <1>5 DEF V
  <2>2. /\ t \in Threads /\ sem_wchan' \in Seq(Threads) /\ IsInjective(sem_wchan')
        /\ Range(sem_wchan) = {t} \cup Range(sem_wchan') /\ t \notin Range(sem_wchan')
    BY SMTT(30), <1>1, <1>3, <1>5, <2>1, TailFacts DEF Lists
  <2> HIDE DEF t
  <2>3. Types'
    BY <1>1, <1>2, <2>1, <2>2, SMTT(20) DEF Types, Labels, threadvars
  <2>4. Locks'
    <3>1. LocksOf(c)'
      BY <1>1, <1>2, <2>1, <2>2, ThreadAssumption DEF LocksOf, Types
    <3>2. \A d \in Cpus \ {c} : pc'[d] = pc[d] /\ target'[d] = target[d]
      BY <1>1, <2>1 DEF Types
    <3>3. QED
      BY <1>1, <1>2, <2>1, <3>1, <3>2, LocksFrame DEF Locks
  <2>5. Lists'
    <3>1. \A d \in Cpus : MigrationOf(d)'
      <4>1. \A d \in Cpus : Len(c_runqueue'[d]) \in Nat /\ Len(c_runqueue'[d]) >= Len(c_runqueue[d])
        BY <1>1, <1>2 DEF Types
      <4>2. QED
        BY <1>1, <1>2, <2>1, <4>1, MigrationFrame, Zenon
    <3>2. \A d \in Cpus : ListsOf(d)'
      BY <1>1, <1>2, Zenon DEF Lists, ListsOf
    <3>3. \A u \in Threads, d \in Cpus : Whereabouts(u, d)'
      BY <1>1, <1>2 DEF Lists, Whereabouts, threadvars
    <3>4. ASSUME NEW u \in Threads PROVE Sleeping(u)'
      <4>1. \A d \in Cpus : target[d] = Null
        BY <1>1, <1>2, OneTarget, ThreadAssumption
      <4>2. \A d \in Cpus : target'[d] = IF d = c THEN t ELSE Null
        BY <1>1, <2>1, <4>1 DEF Types
      <4>3. Sleeping(u)
        BY <1>1 DEF Lists
      <4>4. QED
        BY <1>2, <2>2, <4>1, <4>2, <4>3, ThreadAssumption DEF Sleeping, threadvars
    <3>5. QED
      BY <2>2, <3>1, <3>2, <3>3, <3>4 DEF Lists
  <2>7. QED
    BY <2>3, <2>4, <2>5 DEF Structure
<1>6. QED
  BY <1>4, <1>5

LEMMA WakeKeeps ==
  ASSUME Structure, NEW c \in Cpus, Wake(c)
  PROVE  Structure'
<1> DEFINE t == target[c]
           k == t_cpu[t]
<1>1. Types /\ Locks /\ Lists /\ LocksOf(c)
  BY DEF Structure, Locks
<1>2. /\ pc[c] = "wake" /\ sem_lock' = Null
      /\ t_state' = [t_state EXCEPT ![t] = "S_READY"]
      /\ c_runqueue' = [c_runqueue EXCEPT ![k] = Append(@, t)]
      /\ c_ipi' = [c_ipi EXCEPT ![k] = @ \/ (c_isidle[k] /\ k # c)]
      /\ target' = [target EXCEPT ![c] = Null]
      /\ pc' = [pc EXCEPT ![c] = Resume(c)]
      /\ UNCHANGED <<c_curthread, c_isidle, c_zombies, c_runqueue_lock, t_cpu, t_context,
                     sem_count, sem_wchan, mig>>
  BY DEF Wake, thread_make_runnable, Unidle
<1>3. t \in Threads /\ sem_lock = c /\ \A d \in Cpus : target[d] # Null <=> d = c
  <2>1. t # Null /\ sem_lock = c
    BY <1>1, <1>2, Zenon DEF LocksOf
  <2>2. QED
    BY <1>1, <2>1, OneTarget, Zenon DEF Types
<1>4. Sleeping(t) /\ t_state[t] = "S_SLEEP" /\ k \in Cpus /\ t \notin Range(sem_wchan)
  BY <1>1, <1>3 DEF Lists, Sleeping
<1> HIDE DEF t, k
<1>5. Resume(c) \in {"run", "unidle"} /\ (Resume(c) = "unidle" <=> c_isidle[c])
  BY <1>1 DEF Resume
<1>6. /\ c_runqueue' \in [Cpus -> Seq(Threads)]
      /\ \A d \in Cpus : /\ IsInjective(c_runqueue'[d]) /\ IsInjective(mig'[d].victims)
                         /\ Range(c_runqueue'[d]) \cap Range(mig'[d].victims) = {}
                         /\ Range(c_runqueue'[d]) = Range(c_runqueue[d]) \cup (IF d = k THEN {t} ELSE {})
                         /\ Len(c_runqueue'[d]) \in Nat /\ Len(c_runqueue'[d]) >= Len(c_runqueue[d])
  <2>1. t \notin Range(c_runqueue[k]) \cup Range(mig[k].victims)
    BY <1>1, <1>3, <1>4, Zenon DEF Lists, Whereabouts
  <2>2. QED
    BY <1>1, <1>2, <1>3, <1>4, <2>1, Enqueue, Zenon
<1>7. Types'
  BY <1>1, <1>2, <1>3, <1>4, <1>5, <1>6, ZenonT(30) DEF Types, States, Labels
<1>8. Locks'
  <2>1. LocksOf(c)'
    <3>1. pc'[c] = Resume(c) /\ target'[c] = Null /\ sem_lock' = Null
      BY <1>1, <1>2 DEF Types
    <3>2. UNCHANGED <<c_curthread, c_isidle, c_runqueue_lock>>
      BY <1>2
    <3>3. QED
      BY <1>1, <1>2, <1>3, <1>5, <3>1, <3>2, ThreadAssumption DEF LocksOf
  <2>2. \A d \in Cpus \ {c} : pc'[d] = pc[d] /\ target'[d] = target[d]
    BY <1>1, <1>2 DEF Types
  <2>3. QED
    BY <1>1, <1>2, <1>3, <2>1, <2>2, LocksFrame DEF Locks
<1>9. Lists'
  <2>1. \A d \in Cpus : MigrationOf(d)'
    BY <1>1, <1>2, <1>5, <1>6, MigrationFrame, Zenon
  <2>2. ASSUME NEW d \in Cpus PROVE ListsOf(d)'
    BY <1>1, <1>2, <1>6, Zenon DEF Lists, ListsOf
  <2>3. ASSUME NEW u \in Threads PROVE t_state'[u] = IF u = t THEN "S_READY" ELSE t_state[u]
    BY <1>1, <1>2, SMTT(20) DEF Types
  <2>4. ASSUME NEW u \in Threads PROVE Sleeping(u)'
    <3>1. \A d \in Cpus : target'[d] = Null
      <4>1. target' = [target EXCEPT ![c] = Null] /\ target \in [Cpus -> Threads \cup {Null}]
        BY <1>1, <1>2 DEF Types
      <4>2. QED
        BY <4>1, <1>3
    <3>2. \A d \in Cpus : target[d] = u => u = t
      BY <1>3, ThreadAssumption DEF t
    <3>3. Sleeping(u)
      BY <1>1 DEF Lists
    <3>4. QED
      BY <1>2, <1>4, <2>3, <3>1, <3>2, <3>3, ThreadAssumption DEF Sleeping, k
  <2>5. ASSUME NEW u \in Threads, NEW d \in Cpus PROVE Whereabouts(u, d)'
    <3>1. Whereabouts(u, d)
      BY <1>1 DEF Lists
    <3>2. u \in Range(c_runqueue'[d]) <=> u \in Range(c_runqueue[d]) \/ (u = t /\ d = k)
      BY SMTT(30), <1>6
    <3>3. CASE u = t
      BY SMTT(30), <1>2, <1>4, <2>3, <3>1, <3>2, <3>3 DEF Whereabouts, k
    <3>4. CASE u # t
      BY <1>2, <2>3, <3>1, <3>2, <3>4 DEF Whereabouts
    <3>5. QED
      BY <3>3, <3>4
  <2>6. QED
    BY <1>1, <1>2, <2>1, <2>2, <2>4, <2>5, Zenon DEF Lists
<1>10. QED
  BY <1>7, <1>8, <1>9 DEF Structure

-----------------------------------------------------------------------------
\* The thread that calls thread_switch is on no list.
LEMMA Current ==
  ASSUME Structure, NEW c \in Cpus, pc[c] \in {"yield", "sleep", "exit"}
  PROVE  /\ c_curthread[c] \in Threads /\ ~c_isidle[c]
         /\ t_state[c_curthread[c]] = "S_RUN" /\ t_cpu[c_curthread[c]] = c
         /\ \A d \in Cpus : /\ c_curthread[c] \notin Range(c_runqueue[d]) \cup Range(mig[d].victims)
                            /\ c_curthread[c] \notin Range(c_zombies[d])
                            /\ target[d] # c_curthread[c]
         /\ c_curthread[c] \notin Range(sem_wchan)
<1>1. c_curthread[c] \in Threads
  BY DEF Structure, Types
<1>2. ~c_isidle[c]
  BY DEF Structure, Locks, LocksOf
<1>3. Sleeping(c_curthread[c]) /\ \A d \in Cpus : Whereabouts(c_curthread[c], d)
  BY <1>1 DEF Structure, Lists
<1>4. t_state[c_curthread[c]] = "S_RUN" /\ t_cpu[c_curthread[c]] = c
  BY <1>2, <1>3 DEF Whereabouts
<1>5. QED
  BY <1>1, <1>2, <1>3, <1>4, Zenon DEF Whereabouts, Sleeping

\* What the three ways of leaving a CPU have in common.
LEMMA LeaveCpu ==
  ASSUME Structure, NEW c \in Cpus, pc[c] \in {"yield", "sleep", "exit"},
         c_runqueue_lock' = [c_runqueue_lock EXCEPT ![c] = c],
         c_isidle' = [c_isidle EXCEPT ![c] = TRUE],
         pc' = [pc EXCEPT ![c] = "pick"],
         sem_lock' = IF pc[c] = "sleep" THEN Null ELSE sem_lock,
         UNCHANGED <<c_curthread, t_cpu, sem_count, target, mig>>
  PROVE  /\ Locks'
         /\ pc' \in [Cpus -> Labels] /\ c_isidle' \in [Cpus -> BOOLEAN] /\ sem_lock' \in Cpus \cup {Null}
         /\ \A d \in Cpus : c_isidle'[d] = IF d = c THEN TRUE ELSE c_isidle[d]
<1>1. Types /\ Locks /\ LocksOf(c)
  BY DEF Structure, Locks
<1>2. c_runqueue_lock \in [Cpus -> Cpus \cup {Null}]
  BY <1>1 DEF Locks
<1>3. pc' \in [Cpus -> Labels] /\ c_isidle' \in [Cpus -> BOOLEAN] /\ sem_lock' \in Cpus \cup {Null}
  BY <1>1, SMTT(20) DEF Types, Labels
<1>4. \A d \in Cpus : /\ pc'[d] = IF d = c THEN "pick" ELSE pc[d]
                      /\ c_isidle'[d] = IF d = c THEN TRUE ELSE c_isidle[d]
                      /\ c_runqueue_lock'[d] = IF d = c THEN c ELSE c_runqueue_lock[d]
  BY <1>1, <1>2 DEF Types
<1>5. c_runqueue_lock' \in [Cpus -> Cpus \cup {Null}]
  BY <1>2
<1>6. LocksOf(c)'
  <2>1. pc'[c] = "pick" /\ c_isidle'[c] /\ c_runqueue_lock'[c] = c
    BY <1>4, Zenon
  <2>2. target'[c] = Null /\ sem_lock' # c
    BY <1>1, ThreadAssumption DEF LocksOf
  <2>3. QED
    BY <2>1, <2>2 DEF LocksOf
<1>7. sem_lock' = sem_lock \/ (sem_lock \in {c, Null} /\ sem_lock' \in {c, Null})
  BY <1>1 DEF LocksOf
<1>8. Locks'
  <2>1. \A d \in Cpus \ {c} : /\ pc'[d] = pc[d] /\ target'[d] = target[d]
                              /\ c_isidle'[d] = c_isidle[d] /\ c_runqueue_lock'[d] = c_runqueue_lock[d]
    BY <1>4
  <2>2. QED
    BY <1>1, <1>5, <1>6, <1>7, <2>1, LocksFrame, Zenon
<1>9. QED
  BY <1>3, <1>4, <1>8

LEMMA SwitchReadyKeeps ==
  ASSUME Structure, NEW c \in Cpus, SwitchReady(c)
  PROVE  Structure'
<1> DEFINE cur == c_curthread[c]
<1>1. Types /\ Locks /\ Lists
  BY DEF Structure
<1>2. /\ pc[c] = "yield"
      /\ c_runqueue_lock' = [c_runqueue_lock EXCEPT ![c] = c]
      /\ c_runqueue' = [c_runqueue EXCEPT ![c] = Append(@, cur)]
      /\ t_state' = [t_state EXCEPT ![cur] = "S_READY"]
      /\ t_context' = [t_context EXCEPT ![cur] = "run"]
      /\ c_isidle' = [c_isidle EXCEPT ![c] = TRUE]
      /\ pc' = [pc EXCEPT ![c] = "pick"]
      /\ UNCHANGED <<c_curthread, c_zombies, c_ipi, t_cpu, sem_count, sem_lock, sem_wchan, target, mig>>
  BY DEF SwitchReady, semvars
<1>3. /\ cur \in Threads /\ ~c_isidle[c] /\ t_state[cur] = "S_RUN" /\ t_cpu[cur] = c
      /\ \A d \in Cpus : /\ cur \notin Range(c_runqueue[d]) \cup Range(mig[d].victims)
                         /\ cur \notin Range(c_zombies[d]) /\ target[d] # cur
      /\ cur \notin Range(sem_wchan)
  BY <1>2, Current
<1>4. /\ Locks'
      /\ pc' \in [Cpus -> Labels] /\ c_isidle' \in [Cpus -> BOOLEAN]
      /\ \A d \in Cpus : c_isidle'[d] = IF d = c THEN TRUE ELSE c_isidle[d]
  BY <1>2, LeaveCpu, Zenon
<1>5. /\ c_runqueue' \in [Cpus -> Seq(Threads)]
      /\ \A d \in Cpus : /\ IsInjective(c_runqueue'[d]) /\ IsInjective(mig'[d].victims)
                         /\ Range(c_runqueue'[d]) \cap Range(mig'[d].victims) = {}
                         /\ Range(c_runqueue'[d]) = Range(c_runqueue[d]) \cup (IF d = c THEN {cur} ELSE {})
                         /\ Len(c_runqueue'[d]) \in Nat /\ Len(c_runqueue'[d]) >= Len(c_runqueue[d])
  BY <1>1, <1>2, <1>3, Enqueue, Zenon
<1> HIDE DEF cur
<1>6. Types'
  BY <1>1, <1>2, <1>3, <1>4, <1>5, Zenon DEF Types, States
<1>7. \A d \in Cpus : MigrationOf(d)'
  <2>1. pc[c] \notin {"count", "send"} /\ mig' = mig /\ pc' = [pc EXCEPT ![c] = "pick"]
    BY <1>2
  <2>2. \A d \in Cpus \ {c} : Len(c_runqueue'[d]) \in Nat /\ Len(c_runqueue'[d]) >= Len(c_runqueue[d])
    BY <1>5
  <2>3. QED
    BY <1>1, <2>1, <2>2, MigrationFrame, Zenon
<1>8. ASSUME NEW d \in Cpus PROVE ListsOf(d)'
  BY <1>1, <1>2, <1>5, Zenon DEF Lists, ListsOf
<1>9. ASSUME NEW u \in Threads PROVE t_state'[u] = IF u = cur THEN "S_READY" ELSE t_state[u]
  BY <1>1, <1>2 DEF Types
<1>10. ASSUME NEW u \in Threads PROVE Sleeping(u)'
  <2>1. Sleeping(u)
    BY SMTT(30), <1>1 DEF Lists
  <2>2. CASE u = cur
    BY SMTT(30), <1>2, <1>3, <1>9, <2>1, <2>2 DEF Sleeping
  <2>3. CASE u # cur
    BY <1>2, <1>9, <2>1, <2>3 DEF Sleeping
  <2>4. QED
    BY <2>2, <2>3
<1>11. ASSUME NEW u \in Threads, NEW d \in Cpus PROVE Whereabouts(u, d)'
  <2>1. Whereabouts(u, d)
    BY <1>1 DEF Lists
  <2>2. u \in Range(c_runqueue'[d]) <=> u \in Range(c_runqueue[d]) \/ (u = cur /\ d = c)
    BY SMTT(30), <1>5
  <2>3. CASE u = cur
    BY SMTT(30), <1>2, <1>3, <1>4, <1>9, <2>1, <2>2, <2>3 DEF Whereabouts
  <2>4. CASE u # cur
    BY <1>2, <1>4, <1>9, <2>1, <2>2, <2>4 DEF Whereabouts, cur
  <2>5. QED
    BY <2>3, <2>4
<1>12. Lists'
  BY <1>1, <1>2, <1>7, <1>8, <1>10, <1>11 DEF Lists
<1>13. QED
  BY <1>4, <1>6, <1>12 DEF Structure

LEMMA SwitchSleepKeeps ==
  ASSUME Structure, NEW c \in Cpus, SwitchSleep(c)
  PROVE  Structure'
<1> DEFINE cur == c_curthread[c]
<1>1. Types /\ Locks /\ Lists
  BY DEF Structure
<1>2. /\ pc[c] = "sleep"
      /\ c_runqueue_lock' = [c_runqueue_lock EXCEPT ![c] = c]
      /\ t_state' = [t_state EXCEPT ![cur] = "S_SLEEP"]
      /\ c_isidle' = [c_isidle EXCEPT ![c] = TRUE]
      /\ pc' = [pc EXCEPT ![c] = "pick"]
      /\ sem_wchan' = Append(sem_wchan, cur) /\ sem_lock' = Null
      /\ t_context' = [t_context EXCEPT ![cur] = "P"]
      /\ UNCHANGED <<c_curthread, c_runqueue, c_zombies, c_ipi, t_cpu, sem_count, target, mig>>
  BY DEF SwitchSleep
<1>3. /\ cur \in Threads /\ ~c_isidle[c] /\ t_state[cur] = "S_RUN" /\ t_cpu[cur] = c
      /\ \A d \in Cpus : /\ cur \notin Range(c_runqueue[d]) \cup Range(mig[d].victims)
                         /\ cur \notin Range(c_zombies[d]) /\ target[d] # cur
      /\ cur \notin Range(sem_wchan)
  BY <1>2, Current
<1>4. /\ Locks'
      /\ pc' \in [Cpus -> Labels] /\ c_isidle' \in [Cpus -> BOOLEAN] /\ sem_lock' \in Cpus \cup {Null}
      /\ \A d \in Cpus : c_isidle'[d] = IF d = c THEN TRUE ELSE c_isidle[d]
  BY <1>2, LeaveCpu, Zenon
<1>5. /\ sem_wchan' \in Seq(Threads) /\ IsInjective(sem_wchan')
      /\ Range(sem_wchan') = Range(sem_wchan) \cup {cur}
  <2>1. sem_wchan \in Seq(Threads) /\ IsInjective(sem_wchan)
    BY <1>1 DEF Types, Lists
  <2>2. QED
    BY <1>2, <1>3, <2>1, AppendFacts
<1> HIDE DEF cur
<1>6. Types'
  BY <1>1, <1>2, <1>3, <1>4, <1>5, Zenon DEF Types, States
<1>7. \A d \in Cpus : MigrationOf(d)'
  <2>1. \A d \in Cpus : Len(c_runqueue'[d]) \in Nat /\ Len(c_runqueue'[d]) >= Len(c_runqueue[d])
    BY <1>1, <1>2 DEF Types
  <2>2. QED
    BY <1>1, <1>2, <2>1, MigrationFrame, Zenon
<1>8. ASSUME NEW d \in Cpus PROVE ListsOf(d)'
  BY <1>1, <1>2, <1>5, Zenon DEF Lists, ListsOf
<1>9. ASSUME NEW u \in Threads PROVE t_state'[u] = IF u = cur THEN "S_SLEEP" ELSE t_state[u]
  BY SMTT(30), <1>1, <1>2 DEF Types
<1>10. ASSUME NEW u \in Threads PROVE Sleeping(u)'
  <2>1. Sleeping(u)
    BY <1>1 DEF Lists
  <2>2. CASE u = cur
    BY SMTT(30), <1>2, <1>3, <1>5, <1>9, <2>1, <2>2 DEF Sleeping
  <2>3. CASE u # cur
    BY SMTT(30), <1>2, <1>5, <1>9, <2>1, <2>3 DEF Sleeping
  <2>4. QED
    BY <2>2, <2>3
<1>11. ASSUME NEW u \in Threads, NEW d \in Cpus PROVE Whereabouts(u, d)'
  <2>1. Whereabouts(u, d)
    BY <1>1 DEF Lists
  <2>2. CASE u = cur
    BY SMTT(30), <1>2, <1>3, <1>4, <1>5, <1>9, <2>1, <2>2 DEF Whereabouts
  <2>3. CASE u # cur
    BY <1>2, <1>4, <1>5, <1>9, <2>1, <2>3 DEF Whereabouts, cur
  <2>4. QED
    BY <2>2, <2>3
<1>12. Lists'
  BY SMTT(30), <1>1, <1>2, <1>5, <1>7, <1>8, <1>10, <1>11 DEF Lists
<1>13. QED
  BY <1>4, <1>6, <1>12 DEF Structure

LEMMA SwitchZombieKeeps ==
  ASSUME Structure, NEW c \in Cpus, SwitchZombie(c)
  PROVE  Structure'
<1> DEFINE cur == c_curthread[c]
<1>1. Types /\ Locks /\ Lists
  BY DEF Structure
<1>2. /\ pc[c] = "exit"
      /\ c_runqueue_lock' = [c_runqueue_lock EXCEPT ![c] = c]
      /\ t_state' = [t_state EXCEPT ![cur] = "S_ZOMBIE"]
      /\ c_isidle' = [c_isidle EXCEPT ![c] = TRUE]
      /\ pc' = [pc EXCEPT ![c] = "pick"]
      /\ c_zombies' = [c_zombies EXCEPT ![c] = Append(@, cur)]
      /\ UNCHANGED <<c_curthread, c_runqueue, c_ipi, t_cpu, t_context, sem_count, sem_lock, sem_wchan,
                     target, mig>>
  BY SMTT(30) DEF SwitchZombie, semvars
<1>3. /\ cur \in Threads /\ ~c_isidle[c] /\ t_state[cur] = "S_RUN" /\ t_cpu[cur] = c
      /\ \A d \in Cpus : /\ cur \notin Range(c_runqueue[d]) \cup Range(mig[d].victims)
                         /\ cur \notin Range(c_zombies[d]) /\ target[d] # cur
      /\ cur \notin Range(sem_wchan)
  BY <1>2, Current
<1>4. /\ Locks'
      /\ pc' \in [Cpus -> Labels] /\ c_isidle' \in [Cpus -> BOOLEAN] /\ sem_lock' \in Cpus \cup {Null}
      /\ \A d \in Cpus : c_isidle'[d] = IF d = c THEN TRUE ELSE c_isidle[d]
  BY <1>2, LeaveCpu, Zenon
<1>5. /\ c_zombies' \in [Cpus -> Seq(Threads)]
      /\ \A d \in Cpus : /\ IsInjective(c_zombies'[d])
                         /\ Range(c_zombies'[d]) = Range(c_zombies[d]) \cup (IF d = c THEN {cur} ELSE {})
  <2>1. c_zombies \in [Cpus -> Seq(Threads)] /\ \A d \in Cpus : IsInjective(c_zombies[d])
    BY SMTT(30), <1>1 DEF Types, Lists, ListsOf
  <2>2. /\ Append(c_zombies[c], cur) \in Seq(Threads) /\ IsInjective(Append(c_zombies[c], cur))
        /\ Range(Append(c_zombies[c], cur)) = Range(c_zombies[c]) \cup {cur}
    BY <1>3, <2>1, AppendFacts
  <2>3. QED
    BY <1>2, <2>1, <2>2
<1> HIDE DEF cur
<1>6. Types'
  BY <1>1, <1>2, <1>3, <1>4, <1>5, Zenon DEF Types, States
<1>7. \A d \in Cpus : MigrationOf(d)'
  <2>1. \A d \in Cpus : Len(c_runqueue'[d]) \in Nat /\ Len(c_runqueue'[d]) >= Len(c_runqueue[d])
    BY <1>1, <1>2 DEF Types
  <2>2. QED
    BY <1>1, <1>2, <2>1, MigrationFrame, Zenon
<1>8. ASSUME NEW d \in Cpus PROVE ListsOf(d)'
  BY <1>1, <1>2, <1>5, Zenon DEF Lists, ListsOf
<1>9. ASSUME NEW u \in Threads PROVE t_state'[u] = IF u = cur THEN "S_ZOMBIE" ELSE t_state[u]
  BY SMTT(30), <1>1, <1>2 DEF Types
<1>10. ASSUME NEW u \in Threads PROVE Sleeping(u)'
  <2>1. Sleeping(u)
    BY <1>1 DEF Lists
  <2>2. CASE u = cur
    BY SMTT(30), <1>2, <1>3, <1>5, <1>9, <2>1, <2>2 DEF Sleeping
  <2>3. CASE u # cur
    BY SMTT(30), <1>2, <1>5, <1>9, <2>1, <2>3 DEF Sleeping
  <2>4. QED
    BY <2>2, <2>3
<1>11. ASSUME NEW u \in Threads, NEW d \in Cpus PROVE Whereabouts(u, d)'
  <2>1. Whereabouts(u, d)
    BY <1>1 DEF Lists
  <2>2. UNCHANGED <<c_curthread, c_runqueue, t_cpu, mig>>
    BY <1>2
  <2>3. /\ u \in Range(c_zombies'[d]) <=> u \in Range(c_zombies[d]) \/ (d = c /\ u = cur)
        /\ c_isidle'[d] = IF d = c THEN TRUE ELSE c_isidle[d]
        /\ t_state'[u] = IF u = cur THEN "S_ZOMBIE" ELSE t_state[u]
    BY <1>4, <1>5, <1>9, Zenon
  <2>4. CASE u = cur
    BY <1>3, <2>1, <2>2, <2>3, <2>4, SMTT(20) DEF Whereabouts
  <2>5. CASE u # cur
    BY <2>1, <2>2, <2>3, <2>5 DEF Whereabouts, cur
  <2>6. QED
    BY <2>4, <2>5
<1>12. Lists'
  BY <1>1, <1>2, <1>5, <1>7, <1>8, <1>10, <1>11 DEF Lists
<1>13. QED
  BY <1>4, <1>6, <1>12 DEF Structure

\* The zombies that PickNext destroys are on no CPU, and the next thread is on
\* no other list.
LEMMA PickNextKeeps ==
  ASSUME Structure, NEW c \in Cpus, PickNext(c)
  PROVE  Structure'
<1> DEFINE q == c_runqueue[c]
           next == Head(q)
<1>1. Types /\ Locks /\ Lists /\ LocksOf(c)
  BY DEF Structure, Locks
<1>2. /\ pc[c] = "pick" /\ q # <<>>
      /\ c_runqueue' = [c_runqueue EXCEPT ![c] = Tail(@)]
      /\ c_isidle' = [c_isidle EXCEPT ![c] = FALSE]
      /\ c_curthread' = [c_curthread EXCEPT ![c] = next]
      /\ t_state' = [t \in Threads |-> CASE t = next -> "S_RUN"
                                         [] t \in Range(c_zombies[c]) \ {next} -> "none"
                                         [] OTHER -> t_state[t]]
      /\ c_runqueue_lock' = [c_runqueue_lock EXCEPT ![c] = Null]
      /\ c_zombies' = [c_zombies EXCEPT ![c] = <<>>]
      /\ pc' = [pc EXCEPT ![c] = t_context[next]]
      /\ UNCHANGED <<c_ipi, t_cpu, t_context, sem_count, sem_lock, sem_wchan, target, mig>>
  BY DEF PickNext, semvars
<1>3. q \in Seq(Threads) /\ ListsOf(c)
  BY <1>1 DEF Types, Lists
<1>4. /\ next \in Threads /\ next \in Range(q) /\ Tail(q) \in Seq(Threads)
      /\ Range(q) = {next} \cup Range(Tail(q)) /\ next \notin Range(Tail(q)) /\ IsInjective(Tail(q))
  BY SMTT(30), <1>2, <1>3, TailFacts DEF ListsOf
<1>5. t_state[next] = "S_READY" /\ t_cpu[next] = c
  BY <1>1, <1>4 DEF Lists, Whereabouts
<1>6. t_context[next] \in {"run", "P"}
  BY <1>1, <1>4 DEF Types
<1>7. /\ <<>> \in Seq(Threads) /\ Range(<<>>) = {} /\ IsInjective(<<>>)
  BY <1>3, EmptyFacts
<1>8. /\ \A d \in Cpus : /\ c_runqueue'[d] = IF d = c THEN Tail(q) ELSE c_runqueue[d]
                         /\ c_zombies'[d] = IF d = c THEN <<>> ELSE c_zombies[d]
                         /\ c_curthread'[d] = IF d = c THEN next ELSE c_curthread[d]
                         /\ c_isidle'[d] = IF d = c THEN FALSE ELSE c_isidle[d]
                         /\ pc'[d] = IF d = c THEN t_context[next] ELSE pc[d]
                         /\ c_runqueue_lock'[d] = IF d = c THEN Null ELSE c_runqueue_lock[d]
  BY <1>1, <1>2 DEF Types, Locks
<1> HIDE DEF next, q
<1>9. Types'
  <2>1. t_state' \in [Threads -> States]
    BY <1>1, <1>2 DEF Types, States
  <2>2. QED
    BY <1>1, <1>2, <1>4, <1>6, <1>7, <2>1, SMTT(20) DEF Types, Labels, q
<1>10. Locks'
  <2>1. LocksOf(c)'
    BY <1>1, <1>2, <1>6, <1>8, Zenon DEF LocksOf
  <2>2. \A d \in Cpus \ {c} : /\ pc'[d] = pc[d] /\ target'[d] = target[d]
                              /\ c_isidle'[d] = c_isidle[d] /\ c_runqueue_lock'[d] = c_runqueue_lock[d]
    BY <1>2, <1>8
  <2>3. c_runqueue_lock' \in [Cpus -> Cpus \cup {Null}] /\ sem_lock' = sem_lock
    BY <1>1, <1>2 DEF Locks
  <2>4. QED
    BY <1>1, <2>1, <2>2, <2>3, LocksFrame
<1>11. Lists'
  <2>1. \A d \in Cpus : MigrationOf(d)'
    <3>1. \A d \in Cpus \ {c} : Len(c_runqueue'[d]) \in Nat /\ Len(c_runqueue'[d]) >= Len(c_runqueue[d])
      <4>1. \A d \in Cpus : Len(c_runqueue[d]) \in Nat
        BY <1>1 DEF Types
      <4>2. \A d \in Cpus \ {c} : c_runqueue'[d] = c_runqueue[d]
        BY <1>8, Zenon
      <4>3. QED
        BY <4>1, <4>2
    <3>2. /\ pc[c] \notin {"count", "send"} /\ t_context[next] \notin {"count", "send"} /\ mig' = mig
          /\ pc' = [pc EXCEPT ![c] = t_context[next]]
      BY <1>2, <1>6
    <3>3. QED
      BY <1>1, <3>1, <3>2, MigrationFrame, Zenon
  <2>2. ASSUME NEW d \in Cpus PROVE ListsOf(d)'
    <3>1. ListsOf(d) /\ mig'[d] = mig[d]
      BY <1>1, <1>2 DEF Lists
    <3>2. CASE d = c
      <4>1. c_runqueue'[d] = Tail(q) /\ c_zombies'[d] = <<>> /\ q = c_runqueue[d]
        BY <1>8, <3>2, Zenon DEF q
      <4>2. QED
        BY <1>4, <1>7, <3>1, <4>1 DEF ListsOf
    <3>3. CASE d # c
      <4>1. c_runqueue'[d] = c_runqueue[d] /\ c_zombies'[d] = c_zombies[d]
        BY <1>8, <3>3, Zenon
      <4>2. QED
        BY <3>1, <4>1 DEF ListsOf
    <3>4. QED
      BY <3>2, <3>3
  <2>3. ASSUME NEW u \in Threads
        PROVE  t_state'[u] = IF u = next THEN "S_RUN" ELSE IF u \in Range(c_zombies[c]) THEN "none" ELSE t_state[u]
    <3>1. t_state'[u] = CASE u = next -> "S_RUN"
                          [] u \in Range(c_zombies[c]) \ {next} -> "none"
                          [] OTHER -> t_state[u]
      BY <1>2
    <3>2. CASE u = next
      BY <3>1, <3>2
    <3>3. CASE u # next /\ u \in Range(c_zombies[c])
      BY <3>1, <3>3
    <3>4. CASE u # next /\ u \notin Range(c_zombies[c])
      BY <3>1, <3>4
    <3>5. QED
      BY <3>2, <3>3, <3>4
  <2>4. ASSUME NEW u \in Threads PROVE Sleeping(u)'
    <3>1. Sleeping(u) /\ (u \in Range(c_zombies[c]) => t_state[u] = "S_ZOMBIE")
      BY <1>1 DEF Lists, Whereabouts
    <3>2. QED
      BY SMTT(30), <1>2, <1>5, <2>3, <3>1 DEF Sleeping
  <2>5. ASSUME NEW u \in Threads, NEW d \in Cpus PROVE Whereabouts(u, d)'
    <3>1. Whereabouts(u, d) /\ Whereabouts(u, c) /\ mig'[d] = mig[d] /\ t_cpu'[u] = t_cpu[u]
      BY <1>1, <1>2 DEF Lists
    <3>2. c_isidle[c] /\ Range(q) \cap Range(mig[c].victims) = {}
      BY <1>1, <1>2, <1>3 DEF LocksOf, ListsOf, q
    <3>3. CASE u = next
      <4>1. t_state'[u] = "S_RUN"
        BY <2>3, <3>3
      <4>2. u \notin Range(c_zombies'[d])
        BY <1>5, <1>7, <1>8, <3>1, <3>3, Zenon DEF Whereabouts
      <4>3. u \notin Range(c_runqueue'[d]) \cup Range(mig[d].victims)
        BY <1>4, <1>5, <1>8, <3>1, <3>2, <3>3, ZenonT(30) DEF Whereabouts
      <4>4. c_curthread'[d] = u <=> d = c
        BY <1>5, <1>8, <3>1, <3>3, Zenon DEF Whereabouts
      <4>5. QED
        BY <1>5, <1>8, <3>1, <3>3, <4>1, <4>2, <4>3, <4>4, Zenon DEF Whereabouts
    <3>4. CASE u # next /\ u \in Range(c_zombies[c])
      BY <1>4, <1>7, <1>8, <2>3, <3>1, <3>2, <3>4, ZenonT(30) DEF Whereabouts, q
    <3>5. CASE u # next /\ u \notin Range(c_zombies[c])
      BY <1>4, <1>7, <1>8, <2>3, <3>1, <3>2, <3>5, ZenonT(30) DEF Whereabouts, q
    <3>6. QED
      BY <3>3, <3>4, <3>5
  <2>6. QED
    BY <1>1, <1>2, <2>1, <2>2, <2>4, <2>5 DEF Lists
<1>12. QED
  BY <1>9, <1>10, <1>11 DEF Structure
=============================================================================
