--------------------------- MODULE SemaphoreProof ---------------------------
(***************************************************************************)
(* P and V over the thread system, for any number of CPUs and threads: no  *)
(* wakeup is lost, and the semaphore of Semaphore is implemented.  Both    *)
(* need that a CPU on its way into wchan_sleep has seen the count at 0 and *)
(* that nobody can change it before the thread is on the wait channel: the *)
(* semaphore's lock is released only then.                                 *)
(***************************************************************************)
EXTENDS ThreadProof

\* A thread that sleeps does so in P, and goes on there.
Asleep == \A t \in Threads : t_state[t] = "S_SLEEP" => t_context[t] = "P"

\* A CPU goes to sleep on a count of 0, which stays 0 until it is asleep.
SleepsOnZero == \A c \in Cpus : pc[c] = "sleep" => sem_count = 0

\* The inductive invariant.
SInv == Structure /\ Asleep /\ SleepsOnZero /\ NoLostWakeup /\ IdleNoticed

-----------------------------------------------------------------------------
\* A thread in P that is not asleep, and a thread in P, told from the thread's
\* own state.
Awake(t) ==
  \/ t_state[t] = "S_READY" /\ t_context[t] = "P"
  \/ t_state[t] = "S_SLEEP" /\ t \notin Range(sem_wchan)
  \/ t_state[t] = "S_RUN" /\ pc[t_cpu[t]] = "P"

Within(t) ==
  \/ t_state[t] \in {"S_READY", "S_SLEEP"} /\ t_context[t] = "P"
  \/ t_state[t] = "S_RUN" /\ pc[t_cpu[t]] \in {"P", "sleep"}

\* The two sets of the specification in these terms.
LEMMA Members ==
  ASSUME Structure, NEW t \in Threads
  PROVE  (t \in AwakeInP <=> Awake(t)) /\ (t \in InP <=> Within(t))
<1>1. /\ Sleeping(t) /\ t_state[t] \in States
      /\ \A c \in Cpus : Whereabouts(t, c) /\ LocksOf(c)
  BY DEF Structure, Lists, Locks, Types
<1>2. t_state[t] = "S_SLEEP" /\ t \notin Range(sem_wchan) <=> \E c \in Cpus : target[c] = t
  BY <1>1, Zenon DEF Sleeping
<1>3. t_state[t] = "S_RUN" => t_cpu[t] \in Cpus
  BY <1>1 DEF Sleeping
<1>4. \A c \in Cpus : pc[c] \in {"P", "sleep"} =>
        (c_curthread[c] = t <=> t_state[t] = "S_RUN" /\ t_cpu[t] = c)
  BY <1>1 DEF Whereabouts, LocksOf
<1>5. t_state[t] = "S_RUN" /\ pc[t_cpu[t]] = "P" <=> \E c \in Cpus : c_curthread[c] = t /\ pc[c] = "P"
  BY <1>3, <1>4
<1>6. t_state[t] = "S_RUN" /\ pc[t_cpu[t]] \in {"P", "sleep"}
        <=> \E c \in Cpus : c_curthread[c] = t /\ ~c_isidle[c] /\ pc[c] \in {"P", "sleep"}
  BY <1>1, <1>3, <1>4 DEF LocksOf
<1>7. \A c \in Cpus : t \in Range(mig[c].victims) => t_state[t] = "S_READY"
  BY <1>1 DEF Whereabouts
<1>8. t \in AwakeInP <=> Awake(t)
  BY <1>2, <1>5, <1>7, Zenon DEF AwakeInP, Awake
<1>9. t \in InP <=> Within(t)
  BY <1>6 DEF InP, Within
<1>10. QED
  BY <1>8, <1>9

-----------------------------------------------------------------------------
\* A step does not move thread t into P, out of it, or to sleep in it.
Same(t) == (Awake(t)' <=> Awake(t)) /\ (Within(t)' <=> Within(t))

\* It does not if it leaves the thread alone and what its CPU does in P.
LEMMA Frame ==
  ASSUME NEW t \in Threads, t_state'[t] = t_state[t], t_context'[t] = t_context[t],
         t \in Range(sem_wchan') <=> t \in Range(sem_wchan),
         t_state[t] = "S_RUN" =>
           /\ t_cpu'[t] = t_cpu[t]
           /\ \/ pc'[t_cpu[t]] = pc[t_cpu[t]]
              \/ pc'[t_cpu[t]] \notin {"P", "sleep"} /\ pc[t_cpu[t]] \notin {"P", "sleep"}
  PROVE  Same(t)
  BY DEF Same, Awake, Within

\* The steps that move no thread.
LEMMA QuietSame ==
  ASSUME Structure, Asleep, NEW c \in Cpus, \A d \in Cpus \ {c} : pc'[d] = pc[d],
         pc[c] \notin {"P", "sleep"}, pc'[c] \notin {"P", "sleep"},
         UNCHANGED <<t_state, t_context, sem_wchan>>,
         \A t \in Threads : t_state[t] = "S_RUN" => t_cpu'[t] = t_cpu[t]
  PROVE  Asleep' /\ \A t \in Threads : Same(t)
<1>1. Asleep'
  BY DEF Asleep
<1>2. ASSUME NEW t \in Threads PROVE Same(t)
  <2>1. t_state[t] = "S_RUN" => t_cpu[t] \in Cpus
    BY DEF Structure, Lists, Sleeping
  <2>2. t_state[t] = "S_RUN" =>
           /\ t_cpu'[t] = t_cpu[t]
           /\ \/ pc'[t_cpu[t]] = pc[t_cpu[t]]
              \/ pc'[t_cpu[t]] \notin {"P", "sleep"} /\ pc[t_cpu[t]] \notin {"P", "sleep"}
    BY <2>1
  <2>3. QED
    BY <2>2, Frame
<1>3. QED
  BY <1>1, <1>2

\* The steps that move thread u only, and change what CPU c does without putting
\* it into P or taking it out.
LEMMA MoveSame ==
  ASSUME Structure, Asleep, NEW c \in Cpus, NEW l, pc' = [pc EXCEPT ![c] = l],
         pc[c] \notin {"P", "sleep"}, l \notin {"P", "sleep"}, NEW u \in Threads,
         NEW s, NEW x, t_state' = [t_state EXCEPT ![u] = s], t_context' = [t_context EXCEPT ![u] = x],
         \A t \in Threads \ {u} : t_cpu'[t] = t_cpu[t], sem_wchan' = sem_wchan,
         s = "S_SLEEP" => x = "P", Same(u)
  PROVE  Asleep' /\ \A t \in Threads : Same(t)
<1>1. /\ t_state \in [Threads -> States] /\ t_context \in [Threads -> {"run", "P"}] /\ pc \in [Cpus -> Labels]
      /\ \A t \in Threads : t_state[t] = "S_RUN" => t_cpu[t] \in Cpus
  BY DEF Structure, Types, Lists, Sleeping
<1>2. Asleep'
  BY <1>1 DEF Asleep
<1>3. ASSUME NEW t \in Threads \ {u} PROVE Same(t)
  <2>1. t_state'[t] = t_state[t] /\ t_context'[t] = t_context[t] /\ t_cpu'[t] = t_cpu[t]
    BY <1>1
  <2>2. t_state[t] = "S_RUN" =>
           \/ pc'[t_cpu[t]] = pc[t_cpu[t]]
           \/ pc'[t_cpu[t]] \notin {"P", "sleep"} /\ pc[t_cpu[t]] \notin {"P", "sleep"}
    BY <1>1
  <2>3. QED
    BY SMTT(30), <2>1, <2>2, Frame
<1>4. QED
  BY <1>2, <1>3

LEMMA WakeSame ==
  ASSUME Structure, Asleep, NEW c \in Cpus, Wake(c)
  PROVE  Asleep' /\ \A t \in Threads : Same(t)
<1>1. /\ pc[c] = "wake" /\ pc' = [pc EXCEPT ![c] = Resume(c)]
      /\ t_state' = [t_state EXCEPT ![target[c]] = "S_READY"]
      /\ UNCHANGED <<t_cpu, t_context, sem_wchan>>
  BY DEF Wake, thread_make_runnable
<1>2. Resume(c) \in {"run", "unidle"}
  BY DEF Resume
<1>3. PICK u \in Threads : u = target[c]
  <2>1. target[c] # Null /\ target[c] \in Threads \cup {Null}
    BY <1>1 DEF Structure, Locks, LocksOf, Types
  <2>2. QED
    BY <2>1
<1>4. t_state[u] = "S_SLEEP" /\ u \notin Range(sem_wchan)
  BY <1>3 DEF Structure, Lists, Sleeping
<1>5. t_state \in [Threads -> States] /\ t_context \in [Threads -> {"run", "P"}]
  BY SMTT(30) DEF Structure, Types
<1>6. t_context[u] = "P" /\ t_state'[u] = "S_READY" /\ t_context'[u] = "P"
  BY <1>1, <1>3, <1>4, <1>5 DEF Asleep
<1>7. Same(u)
  BY <1>4, <1>6 DEF Same, Awake, Within
<1>8. t_context' = [t_context EXCEPT ![u] = "P"]
  BY <1>1, <1>5, <1>6
<1>9. QED
  BY <1>1, <1>2, <1>3, <1>7, <1>8, MoveSame, Zenon

LEMMA SwitchReadySame ==
  ASSUME Structure, Asleep, NEW c \in Cpus, SwitchReady(c)
  PROVE  Asleep' /\ \A t \in Threads : Same(t)
<1>1. /\ pc[c] = "yield" /\ pc' = [pc EXCEPT ![c] = "pick"]
      /\ t_state' = [t_state EXCEPT ![c_curthread[c]] = "S_READY"]
      /\ t_context' = [t_context EXCEPT ![c_curthread[c]] = "run"]
      /\ UNCHANGED <<t_cpu, sem_wchan>>
  BY DEF SwitchReady, semvars
<1>2. PICK u \in Threads : u = c_curthread[c] /\ t_state[u] = "S_RUN" /\ t_cpu[u] = c
  BY <1>1, Current
<1>3. t_state'[u] = "S_READY" /\ t_context'[u] = "run"
  BY <1>1, <1>2 DEF Structure, Types
<1>4. Same(u)
  BY <1>1, <1>2, <1>3 DEF Same, Awake, Within
<1>5. /\ t_state' = [t_state EXCEPT ![u] = "S_READY"] /\ t_context' = [t_context EXCEPT ![u] = "run"]
      /\ pc[c] \notin {"P", "sleep"} /\ "S_READY" # "S_SLEEP" /\ "pick" \notin {"P", "sleep"}
      /\ t_cpu' = t_cpu /\ sem_wchan' = sem_wchan
  BY <1>1, <1>2
<1>6. QED
  BY <1>1, <1>4, <1>5, MoveSame, Zenon

LEMMA SwitchZombieSame ==
  ASSUME Structure, Asleep, NEW c \in Cpus, SwitchZombie(c)
  PROVE  Asleep' /\ \A t \in Threads : Same(t)
<1>1. /\ pc[c] = "exit" /\ pc' = [pc EXCEPT ![c] = "pick"]
      /\ t_state' = [t_state EXCEPT ![c_curthread[c]] = "S_ZOMBIE"] /\ UNCHANGED <<t_cpu, t_context, sem_wchan>>
  BY DEF SwitchZombie, semvars
<1>2. PICK u \in Threads : u = c_curthread[c] /\ t_state[u] = "S_RUN" /\ t_cpu[u] = c
  BY <1>1, Current
<1>3. t_state'[u] = "S_ZOMBIE" /\ t_context' = [t_context EXCEPT ![u] = t_context[u]]
  BY <1>1, <1>2 DEF Structure, Types
<1>4. Same(u)
  BY <1>1, <1>2, <1>3 DEF Same, Awake, Within
<1>5. /\ t_state' = [t_state EXCEPT ![u] = "S_ZOMBIE"]
      /\ pc[c] \notin {"P", "sleep"} /\ "S_ZOMBIE" # "S_SLEEP" /\ "pick" \notin {"P", "sleep"}
      /\ t_cpu' = t_cpu /\ sem_wchan' = sem_wchan
  BY <1>1, <1>2
<1>6. QED
  BY <1>1, <1>3, <1>4, <1>5, MoveSame, Zenon

LEMMA thread_forkSame ==
  ASSUME Structure, Asleep, NEW c \in Cpus, NEW u \in Threads, thread_fork(c, u)
  PROVE  Asleep' /\ \A t \in Threads : Same(t)
<1>1. /\ pc[c] = "run" /\ t_state[u] = "none" /\ UNCHANGED <<pc, sem_wchan>>
      /\ t_state' = [t_state EXCEPT ![u] = "S_READY"] /\ t_context' = [t_context EXCEPT ![u] = "run"]
      /\ t_cpu' = [t_cpu EXCEPT ![u] = c]
  BY DEF thread_fork, semvars
<1>2. /\ t_state'[u] = "S_READY" /\ t_context'[u] = "run" /\ pc' = [pc EXCEPT ![c] = "run"]
      /\ \A t \in Threads \ {u} : t_cpu'[t] = t_cpu[t]
  BY <1>1 DEF Structure, Types
<1>3. Same(u)
  BY <1>1, <1>2 DEF Same, Awake, Within
<1>4. QED
  BY <1>1, <1>2, <1>3, MoveSame, Zenon

\* The next thread goes on where it was switched away from.
LEMMA PickNextSame ==
  ASSUME Structure, Asleep, NEW c \in Cpus, PickNext(c)
  PROVE  Asleep' /\ \A t \in Threads : Same(t)
<1>1. PICK u \in Threads : u = Head(c_runqueue[c]) /\ u \in Range(c_runqueue[c])
  <2>1. c_runqueue[c] \in Seq(Threads) /\ c_runqueue[c] # <<>>
    BY DEF PickNext, Structure, Types
  <2>2. QED
    BY <2>1, TailFacts
<1>2. /\ pc[c] = "pick" /\ pc' = [pc EXCEPT ![c] = t_context[u]]
      /\ t_state' = [t \in Threads |-> CASE t = u -> "S_RUN"
                                         [] t \in Range(c_zombies[c]) \ {u} -> "none"
                                         [] OTHER -> t_state[t]]
      /\ UNCHANGED <<t_cpu, t_context, sem_wchan>>
  BY <1>1 DEF PickNext, semvars
<1>3. t_state[u] = "S_READY" /\ t_cpu[u] = c
  BY <1>1 DEF Structure, Lists, Whereabouts
<1>4. /\ pc \in [Cpus -> Labels] /\ t_context[u] \in {"run", "P"}
      /\ \A t \in Threads : t_state[t] = "S_RUN" => t_cpu[t] \in Cpus
  BY SMTT(30) DEF Structure, Types, Lists, Sleeping
<1>5. t_state'[u] = "S_RUN" /\ pc'[t_cpu[u]] = t_context[u]
  BY <1>2, <1>3, <1>4
<1>6. Same(u)
  BY <1>2, <1>3, <1>4, <1>5 DEF Same, Awake, Within
<1>7. ASSUME NEW t \in Threads \ {u}, t \in Range(c_zombies[c]) PROVE Same(t) /\ t_state'[t] # "S_SLEEP"
  <2>1. t_state[t] = "S_ZOMBIE"
    BY <1>7 DEF Structure, Lists, Whereabouts
  <2>2. t_state'[t] = "none"
    BY <1>2, <1>7
  <2>3. QED
    BY <2>1, <2>2 DEF Same, Awake, Within
<1>8. ASSUME NEW t \in Threads \ {u}, t \notin Range(c_zombies[c]) PROVE Same(t) /\ t_state'[t] = t_state[t]
  <2>1. t_state'[t] = t_state[t]
    BY <1>2, <1>8
  <2>2. t_state[t] = "S_RUN" => t_cpu[t] # c
    BY DEF Structure, Lists, Whereabouts, Locks, LocksOf, PickNext
  <2>3. t_state[t] = "S_RUN" => pc'[t_cpu[t]] = pc[t_cpu[t]]
    BY <1>2, <1>4, <2>2
  <2>4. QED
    BY <1>2, <2>1, <2>3, Frame
<1>9. Asleep'
  BY SMTT(30), <1>2, <1>5, <1>7, <1>8 DEF Asleep
<1>10. QED
  BY <1>6, <1>7, <1>8, <1>9

LEMMA QuietStepsSame ==
  ASSUME Structure, Asleep, NEW c \in Cpus,
         \/ YieldNothing(c) \/ PickNone(c) \/ Reacquire(c)
         \/ interprocessor_interrupt(c) \/ lamebus_clear_ipi(c) \/ hardclock(c)
         \/ MigrateCount(c) \/ MigrateNothing(c) \/ MigrateTake(c) \/ MigrateSend(c) \/ MigrateEnd(c)
  PROVE  Asleep' /\ \A t \in Threads : Same(t)
<1>1. pc \in [Cpus -> Labels]
  BY DEF Structure, Types
<1>2. ASSUME NEW l \in Labels \ {"P", "sleep"}, pc' = [pc EXCEPT ![c] = l], pc[c] \notin {"P", "sleep"},
             UNCHANGED <<threadvars, semvars>>
      PROVE  Asleep' /\ \A t \in Threads : Same(t)
  <2>1. \A d \in Cpus \ {c} : pc'[d] = pc[d]
    BY <1>1, <1>2
  <2>2. pc'[c] \notin {"P", "sleep"}
    BY <1>1, <1>2
  <2>3. UNCHANGED <<t_state, t_cpu, t_context, sem_wchan>>
    BY <1>2 DEF threadvars, semvars
  <2>4. QED
    BY SMTT(30), <1>2, <2>1, <2>2, <2>3, QuietSame
<1>3. CASE MigrateCount(c) \/ MigrateSend(c)
  <2>1. pc[c] \notin {"P", "sleep"} /\ UNCHANGED <<pc, t_state, t_context, sem_wchan>>
    BY <1>3, Zenon DEF MigrateCount, MigrateSend, threadvars, semvars
  <2>2. ASSUME NEW t \in Threads, t_state[t] = "S_RUN" PROVE t_cpu'[t] = t_cpu[t]
    <3>1. CASE t_cpu' = t_cpu
      BY <3>1
    <3>2. ASSUME NEW n \in 0 .. mig[c].to_send, pc[c] = "send", NEW d,
                 t_cpu' = [v \in Threads |-> IF v \in Range(Moved(c, n)) THEN d ELSE t_cpu[v]]
          PROVE  t_cpu'[t] = t_cpu[t]
      <4>1. Range(Moved(c, n)) \subseteq Range(mig[c].victims)
        <5>1. PICK w : w = SubSeq(mig[c].victims, n + 1, Len(mig[c].victims)) \o PutBack(c, n)
          BY Zenon
        <5>2. Range(mig[c].victims) = Range(Moved(c, n)) \cup Range(w)
          BY <3>2, <5>1, SplitVictims, ZenonT(30)
        <5>3. QED
          BY <5>2
      <4>2. t \notin Range(mig[c].victims)
        BY <2>2 DEF Structure, Lists, Whereabouts
      <4>3. QED
        BY <3>2, <4>1, <4>2
    <3>3. QED
      BY <1>3, <3>1, <3>2, ZenonT(30) DEF MigrateCount, MigrateSend, threadvars
  <2>3. QED
    BY <2>1, <2>2, QuietSame, SMTT(20)
<1>4. CASE ~MigrateCount(c) /\ ~MigrateSend(c)
  <2> DEFINE G == /\ \E l \in Labels \ {"P", "sleep"} : pc' = [pc EXCEPT ![c] = l]
                  /\ pc[c] \notin {"P", "sleep"} /\ UNCHANGED <<threadvars, semvars>>
  <2>1. YieldNothing(c) => G
    BY Zenon DEF YieldNothing, Labels
  <2>2. PickNone(c) => G
    BY Zenon DEF PickNone, Labels
  <2>3. Reacquire(c) => G
    BY Zenon DEF Reacquire, Labels
  <2>4. interprocessor_interrupt(c) => G
    BY Zenon DEF interprocessor_interrupt, Labels
  <2>5. lamebus_clear_ipi(c) => G
    BY Zenon DEF lamebus_clear_ipi, Resume, Labels
  <2>6. hardclock(c) => G
    BY Zenon DEF hardclock, AfterMigration, Labels
  <2>7. MigrateNothing(c) => G
    BY Zenon DEF MigrateNothing, AfterMigration, Labels
  <2>8. MigrateTake(c) => G
    BY Zenon DEF MigrateTake, Labels
  <2>9. MigrateEnd(c) => G
    BY Zenon DEF MigrateEnd, AfterMigration, Labels
  <2>10. G
    BY <1>4, <2>1, <2>2, <2>3, <2>4, <2>5, <2>6, <2>7, <2>8, <2>9, SMTT(20)
  <2>11. QED
    BY <1>2, <2>10, Zenon
<1>5. QED
  BY SMTT(30), <1>3, <1>4

-----------------------------------------------------------------------------
\* The one running thread of a CPU in P.
LEMMA Runner ==
  ASSUME Structure, NEW c \in Cpus, pc[c] \in {"run", "P", "sleep"}
  PROVE  \E u \in Threads : /\ u = c_curthread[c] /\ t_state[u] = "S_RUN" /\ t_cpu[u] = c
                            /\ \A t \in Threads \ {u} : t_state[t] = "S_RUN" => t_cpu[t] \in Cpus \ {c}
<1>1. c_curthread[c] \in Threads /\ ~c_isidle[c]
  BY DEF Structure, Types, Locks, LocksOf
<1>2. \A t \in Threads : Whereabouts(t, c) /\ (t_state[t] = "S_RUN" => t_cpu[t] \in Cpus)
  BY DEF Structure, Lists, Sleeping
<1>3. QED
  BY SMTT(30), <1>1, <1>2 DEF Whereabouts

\* A step of a CPU in P, or going into it, that changes nothing but what that CPU
\* does.
LEMMA RunnerFrame ==
  ASSUME Structure, Asleep, NEW c \in Cpus, NEW l, pc' = [pc EXCEPT ![c] = l],
         NEW u \in Threads, \A t \in Threads \ {u} : t_state[t] = "S_RUN" => t_cpu[t] \in Cpus \ {c},
         UNCHANGED <<t_state, t_cpu, t_context, sem_wchan>>
  PROVE  Asleep' /\ pc'[c] = l /\ \A t \in Threads \ {u} : Same(t)
<1>1. pc \in [Cpus -> Labels]
  BY DEF Structure, Types
<1>2. Asleep' /\ pc'[c] = l
  BY <1>1 DEF Asleep
<1>3. ASSUME NEW t \in Threads \ {u} PROVE Same(t)
  BY <1>1, Frame
<1>4. QED
  BY <1>2, <1>3

\* A thread goes into P by calling it; the other calls change nothing here.
LEMMA CallEffect ==
  ASSUME Structure, Asleep, NEW c \in Cpus, Call(c)
  PROVE  /\ Asleep'
         /\ \/ \A t \in Threads : Same(t)
            \/ \E u \in Threads : /\ ~Within(u) /\ ~Awake(u) /\ Within(u)' /\ Awake(u)'
                                  /\ \A t \in Threads \ {u} : Same(t)
<1>1. /\ UNCHANGED <<t_state, t_cpu, t_context, sem_wchan>> /\ pc[c] \notin {"P", "sleep"}
      /\ pc \in [Cpus -> Labels]
  BY SMTT(20) DEF Call, threadvars, semvars, Structure, Types
<1>2. CASE pc[c] = "run" /\ pc' = [pc EXCEPT ![c] = "P"]
  <2>1. PICK u \in Threads : /\ u = c_curthread[c] /\ t_state[u] = "S_RUN" /\ t_cpu[u] = c
                             /\ \A t \in Threads \ {u} : t_state[t] = "S_RUN" => t_cpu[t] \in Cpus \ {c}
    BY <1>2, Runner
  <2>2. Asleep' /\ pc'[c] = "P" /\ \A t \in Threads \ {u} : Same(t)
    BY <1>1, <1>2, <2>1, RunnerFrame, ZenonT(40)
  <2>3. ~Within(u) /\ ~Awake(u) /\ Within(u)' /\ Awake(u)'
    BY SMTT(30), <1>1, <1>2, <2>1, <2>2 DEF Within, Awake
  <2>4. QED
    BY <2>2, <2>3
<1>3. ASSUME NEW op \in {"V", "yield", "exit"}, pc' = [pc EXCEPT ![c] = op]
      PROVE  Asleep' /\ \A t \in Threads : Same(t)
  <2>1. (\A d \in Cpus \ {c} : pc'[d] = pc[d]) /\ pc'[c] \notin {"P", "sleep"}
    BY SMTT(30), <1>1, <1>3
  <2>2. QED
    BY SMTT(30), <1>1, <2>1, QuietSame
<1>4. \/ pc[c] = "run" /\ pc' = [pc EXCEPT ![c] = "P"]
      \/ \E op \in {"V", "yield", "exit"} : pc' = [pc EXCEPT ![c] = op]
  BY DEF Call
<1>5. QED
  BY SMTT(30), <1>2, <1>3, <1>4

\* P takes a unit and the thread leaves, or it goes on to sleep on a count of 0.
LEMMA PEffect ==
  ASSUME Structure, Asleep, NEW c \in Cpus, P(c)
  PROVE  /\ Asleep'
         /\ \/ /\ sem_count = 0 /\ sem_count' = 0
               /\ \A t \in Threads : Within(t)' <=> Within(t)
            \/ /\ sem_count > 0 /\ sem_count' = sem_count - 1
               /\ \E u \in Threads : /\ Within(u) /\ Awake(u) /\ ~Within(u)' /\ ~Awake(u)'
                                     /\ \A t \in Threads \ {u} : Same(t)
<1>1. /\ UNCHANGED <<t_state, t_cpu, t_context, sem_wchan>> /\ pc[c] = "P"
      /\ pc \in [Cpus -> Labels] /\ sem_count \in Nat
  BY DEF P, threadvars, Structure, Types
<1>2. PICK u \in Threads : /\ u = c_curthread[c] /\ t_state[u] = "S_RUN" /\ t_cpu[u] = c
                           /\ \A t \in Threads \ {u} : t_state[t] = "S_RUN" => t_cpu[t] \in Cpus \ {c}
  BY SMTT(30), <1>1, Runner
<1>3. ASSUME NEW l, pc' = [pc EXCEPT ![c] = l] PROVE Asleep' /\ pc'[c] = l /\ \A t \in Threads \ {u} : Same(t)
  BY <1>1, <1>2, <1>3, RunnerFrame, Zenon
<1>4. CASE sem_count > 0
  <2>1. sem_count' = sem_count - 1 /\ pc' = [pc EXCEPT ![c] = "run"]
    BY <1>4 DEF P
  <2>2. Within(u) /\ Awake(u) /\ ~Within(u)' /\ ~Awake(u)'
    BY SMTT(30), <1>1, <1>2, <1>3, <2>1 DEF Within, Awake
  <2>3. QED
    BY <1>3, <1>4, <2>1, <2>2, Zenon
<1>5. CASE ~(sem_count > 0)
  <2>1. sem_count = 0 /\ sem_count' = 0 /\ pc' = [pc EXCEPT ![c] = "sleep"]
    BY <1>1, <1>5 DEF P
  <2>2. Within(u)' <=> Within(u)
    BY SMTT(30), <1>1, <1>2, <1>3, <2>1 DEF Within
  <2>3. QED
    BY <1>3, <2>1, <2>2, Zenon DEF Same
<1>6. QED
  BY <1>4, <1>5

\* The thread is asleep on the wait channel when the lock is released.
LEMMA SwitchSleepEffect ==
  ASSUME Structure, Asleep, NEW c \in Cpus, SwitchSleep(c)
  PROVE  Asleep' /\ \A t \in Threads : Within(t)' <=> Within(t)
<1>1. /\ pc[c] = "sleep" /\ pc' = [pc EXCEPT ![c] = "pick"]
      /\ t_state' = [t_state EXCEPT ![c_curthread[c]] = "S_SLEEP"]
      /\ t_context' = [t_context EXCEPT ![c_curthread[c]] = "P"] /\ t_cpu' = t_cpu
  BY DEF SwitchSleep
<1>2. PICK u \in Threads : /\ u = c_curthread[c] /\ t_state[u] = "S_RUN" /\ t_cpu[u] = c
                           /\ \A t \in Threads \ {u} : t_state[t] = "S_RUN" => t_cpu[t] \in Cpus \ {c}
  BY SMTT(30), <1>1, Runner
<1>3. /\ t_state \in [Threads -> States] /\ t_context \in [Threads -> {"run", "P"}] /\ pc \in [Cpus -> Labels]
  BY SMTT(20) DEF Structure, Types
<1>4. \A t \in Threads : /\ t_state'[t] = IF t = u THEN "S_SLEEP" ELSE t_state[t]
                         /\ t_context'[t] = IF t = u THEN "P" ELSE t_context[t]
  BY <1>1, <1>2, <1>3
<1>5. Asleep'
  BY <1>4 DEF Asleep
<1>6. Within(u)' /\ Within(u)
  BY SMTT(30), <1>1, <1>2, <1>4 DEF Within
<1>7. ASSUME NEW t \in Threads \ {u} PROVE Within(t)' <=> Within(t)
  <2>1. t_state[t] = "S_RUN" => pc'[t_cpu[t]] = pc[t_cpu[t]]
    BY <1>1, <1>2, <1>3
  <2>2. QED
    BY <1>1, <1>4, <2>1 DEF Within
<1>8. QED
  BY SMTT(30), <1>5, <1>6, <1>7

\* V wakes a sleeper if there is one: one more thread in P that is awake.
LEMMA VEffect ==
  ASSUME Structure, Asleep, NEW c \in Cpus, V(c)
  PROVE  /\ Asleep' /\ \A t \in Threads : Within(t)' <=> Within(t)
         /\ sem_wchan # <<>> => \E u \in Threads : /\ ~Awake(u) /\ Awake(u)'
                                                   /\ \A t \in Threads \ {u} : Awake(t)' <=> Awake(t)
<1>1. /\ UNCHANGED <<t_state, t_cpu, t_context>> /\ pc[c] = "V" /\ pc \in [Cpus -> Labels]
      /\ sem_wchan \in Seq(Threads) /\ IsInjective(sem_wchan)
      /\ \A t \in Threads : t_state[t] = "S_RUN" => t_cpu[t] \in Cpus
  BY DEF V, threadvars, Structure, Types, Lists, Sleeping
<1>2. PICK l \in {"run", "unidle", "wake"} : pc' = [pc EXCEPT ![c] = l]
  BY DEF V, Resume
<1>3. ASSUME NEW t \in Threads, t_state[t] = "S_RUN"
      PROVE  pc'[t_cpu[t]] = pc[t_cpu[t]] \/ (pc'[t_cpu[t]] \notin {"P", "sleep"} /\ pc[t_cpu[t]] \notin {"P", "sleep"})
  BY <1>1, <1>2, <1>3
<1>4. Asleep' /\ \A t \in Threads : Within(t)' <=> Within(t)
  BY <1>1, <1>3 DEF Asleep, Within
<1>5. ASSUME sem_wchan # <<>>
      PROVE  \E u \in Threads : /\ ~Awake(u) /\ Awake(u)'
                                /\ \A t \in Threads \ {u} : Awake(t)' <=> Awake(t)
  <2>1. sem_wchan' = Tail(sem_wchan)
    BY <1>5 DEF V
  <2>2. PICK u \in Threads : /\ u = Head(sem_wchan) /\ Range(sem_wchan) = {u} \cup Range(sem_wchan')
                             /\ u \notin Range(sem_wchan')
    BY SMTT(30), <1>1, <1>5, <2>1, TailFacts
  <2>3. t_state[u] = "S_SLEEP"
    BY <2>2 DEF Structure, Lists, Sleeping
  <2>4. ~Awake(u) /\ Awake(u)'
    BY SMTT(30), <1>1, <2>2, <2>3 DEF Awake
  <2>5. ASSUME NEW t \in Threads \ {u} PROVE Awake(t)' <=> Awake(t)
    BY <1>1, <1>3, <2>2 DEF Awake
  <2>6. QED
    BY <2>4, <2>5
<1>6. QED
  BY <1>4, <1>5

-----------------------------------------------------------------------------
(* What a step does to the semaphore, in the five ways there are.            *)
Keeps == (\A t \in Threads : Same(t)) /\ UNCHANGED <<sem_count, sem_wchan>>

Enters(u) ==
  /\ ~Within(u) /\ ~Awake(u) /\ Within(u)' /\ Awake(u)'
  /\ \A t \in Threads \ {u} : Same(t)
  /\ UNCHANGED <<sem_count, sem_wchan>>

Leaves(u) ==
  /\ Within(u) /\ Awake(u) /\ ~Within(u)' /\ ~Awake(u)'
  /\ \A t \in Threads \ {u} : Same(t)
  /\ sem_count > 0 /\ sem_count' = sem_count - 1 /\ sem_wchan' = sem_wchan

Sleeps ==
  /\ sem_count = 0 /\ sem_count' = 0
  /\ \A t \in Threads : Within(t)' <=> Within(t)

Posts ==
  /\ sem_count' = sem_count + 1
  /\ \A t \in Threads : Within(t)' <=> Within(t)
  /\ \/ sem_wchan' = <<>>
     \/ /\ sem_wchan # <<>>
        /\ \E u \in Threads : ~Awake(u) /\ Awake(u)' /\ \A t \in Threads \ {u} : Awake(t)' <=> Awake(t)

\* Every step of the system is one of them.
LEMMA Effects ==
  ASSUME Structure, Asleep, SleepsOnZero, [Next]_vars
  PROVE  Asleep' /\ (Keeps \/ Sleeps \/ Posts \/ \E u \in Threads : Enters(u) \/ Leaves(u))
<1>1. CASE UNCHANGED vars
  <2>1. UNCHANGED <<t_state, t_cpu, t_context, sem_count, sem_wchan, pc>>
    BY <1>1 DEF vars, threadvars, semvars
  <2>2. Asleep' /\ \A t \in Threads : Same(t)
    BY <2>1 DEF Asleep, Same, Awake, Within
  <2>3. QED
    BY <2>1, <2>2 DEF Keeps
<1>2. ASSUME NEW c \in Cpus, P(c)
      PROVE  Asleep' /\ (Sleeps \/ \E u \in Threads : Leaves(u))
  <2>1. sem_wchan' = sem_wchan
    BY <1>2 DEF P
  <2>2. QED
    BY <1>2, <2>1, PEffect, Zenon DEF Sleeps, Leaves
<1>3. ASSUME NEW c \in Cpus, V(c)
      PROVE  Asleep' /\ Posts
  <2>1. sem_count' = sem_count + 1 /\ (sem_wchan = <<>> => sem_wchan' = <<>>)
    BY <1>3 DEF V
  <2>2. QED
    BY <1>3, <2>1, VEffect, Zenon DEF Posts
<1>4. ASSUME NEW c \in Cpus, SwitchSleep(c)
      PROVE  Asleep' /\ Sleeps
  <2>1. sem_count = 0 /\ sem_count' = sem_count
    BY <1>4 DEF SwitchSleep, SleepsOnZero
  <2>2. QED
    BY SMTT(30), <1>4, <2>1, SwitchSleepEffect DEF Sleeps
<1>5. ASSUME NEW c \in Cpus, Call(c)
      PROVE  Asleep' /\ (Keeps \/ \E u \in Threads : Enters(u))
  <2>1. UNCHANGED <<sem_count, sem_wchan>>
    BY <1>5 DEF Call, semvars
  <2>2. QED
    BY <1>5, <2>1, CallEffect, Zenon DEF Keeps, Enters
<1>6. ASSUME NEW c \in Cpus, Wake(c) \/ SwitchReady(c) \/ SwitchZombie(c) \/ PickNext(c)
      PROVE  Asleep' /\ Keeps
  <2>1. UNCHANGED <<sem_count, sem_wchan>>
    BY <1>6 DEF Wake, SwitchReady, SwitchZombie, PickNext, semvars
  <2>2. QED
    BY <1>6, <2>1, WakeSame, SwitchReadySame, SwitchZombieSame, PickNextSame, SMTT(20) DEF Keeps
<1>7. ASSUME NEW c \in Cpus, NEW t \in Threads, thread_fork(c, t)
      PROVE  Asleep' /\ Keeps
  BY <1>7, thread_forkSame, Zenon DEF Keeps, thread_fork, semvars
<1>8. ASSUME NEW c \in Cpus,
             \/ YieldNothing(c) \/ PickNone(c) \/ Reacquire(c)
             \/ interprocessor_interrupt(c) \/ lamebus_clear_ipi(c) \/ hardclock(c)
             \/ MigrateCount(c) \/ MigrateNothing(c) \/ MigrateTake(c) \/ MigrateSend(c) \/ MigrateEnd(c)
      PROVE  Asleep' /\ Keeps
  <2>1. UNCHANGED <<sem_count, sem_wchan>>
    BY <1>8, Zenon DEF YieldNothing, PickNone, Reacquire, interprocessor_interrupt, lamebus_clear_ipi, hardclock,
                MigrateCount, MigrateNothing, MigrateTake, MigrateSend, MigrateEnd, semvars
  <2>2. QED
    BY <1>8, <2>1, QuietStepsSame, Zenon DEF Keeps
<1>9. ASSUME NEW c \in Cpus, Step(c)
      PROVE  Asleep' /\ (Keeps \/ Sleeps \/ Posts \/ \E u \in Threads : Leaves(u))
  BY <1>2, <1>3, <1>4, <1>6, <1>8, <1>9, Zenon DEF Step
<1>10. CASE \E c \in Cpus : Step(c) \/ Call(c) \/ hardclock(c) \/ \E t \in Threads : thread_fork(c, t)
  BY <1>5, <1>7, <1>8, <1>9, <1>10, Zenon
<1>11. QED
  BY <1>1, <1>10 DEF Next

-----------------------------------------------------------------------------
\* A step of CPU c that touches no other CPU's run queue or interrupt line, and
\* that makes c idle only if it has nothing to run.
Local(c) ==
  /\ \E l \in Labels \ {"sleep"} :
       pc' = [pc EXCEPT ![c] = l] /\ (l = "idle" => c_runqueue' = c_runqueue /\ c_runqueue[c] = <<>>)
  /\ c_runqueue' = c_runqueue \/ \E q : c_runqueue' = [c_runqueue EXCEPT ![c] = q]
  /\ c_ipi' = c_ipi \/ \E b : c_ipi' = [c_ipi EXCEPT ![c] = b]
  /\ sem_count' = sem_count

\* All steps are local but P and V, and those that give another CPU a thread.
LEMMA Locality ==
  ASSUME Structure, NEW c \in Cpus, Step(c) \/ Call(c) \/ hardclock(c) \/ \E t \in Threads : thread_fork(c, t)
  PROVE  P(c) \/ V(c) \/ Wake(c) \/ MigrateSend(c) \/ Local(c)
<1>1. /\ pc \in [Cpus -> Labels] /\ t_context \in [Threads -> {"run", "P"}]
      /\ c_runqueue \in [Cpus -> Seq(Threads)]
  BY SMTT(30) DEF Structure, Types
<1>2. YieldNothing(c) => Local(c)
  BY Zenon DEF YieldNothing, Local, Labels, cpuvars, semvars
<1>3. SwitchReady(c) => Local(c)
  BY ZenonT(30) DEF SwitchReady, Local, Labels, semvars
<1>4. SwitchSleep(c) => Local(c)
  <2>1. ASSUME SwitchSleep(c)
        PROVE  pc' = [pc EXCEPT ![c] = "pick"] /\ c_runqueue' = c_runqueue /\ c_ipi' = c_ipi /\ sem_count' = sem_count
    BY <2>1 DEF SwitchSleep
  <2>2. "pick" \in Labels \ {"sleep"} /\ "pick" # "idle"
    BY DEF Labels
  <2>3. QED
    BY <2>1, <2>2, Zenon DEF Local
<1>5. SwitchZombie(c) => Local(c)
  BY Zenon DEF SwitchZombie, Local, Labels, semvars
<1>6. PickNone(c) => Local(c)
  BY Zenon DEF PickNone, Local, Labels, semvars
<1>7. PickNext(c) => Local(c)
  <2>1. ASSUME PickNext(c) PROVE t_context[Head(c_runqueue[c])] \in {"run", "P"}
    <3>1. c_runqueue[c] \in Seq(Threads) /\ c_runqueue[c] # <<>>
      BY SMTT(30), <1>1, <2>1 DEF PickNext
    <3>2. Head(c_runqueue[c]) \in Threads
      BY <3>1
    <3>3. QED
      BY <1>1, <3>2
  <2>2. QED
    BY <2>1, Zenon DEF PickNext, Local, Labels, semvars
<1>8. Reacquire(c) => Local(c)
  BY Zenon DEF Reacquire, Local, Labels, semvars
<1>9. interprocessor_interrupt(c) => Local(c)
  <2>1. ASSUME interprocessor_interrupt(c)
        PROVE  pc' = [pc EXCEPT ![c] = "ipi"] /\ c_runqueue' = c_runqueue /\ c_ipi' = c_ipi /\ sem_count' = sem_count
    BY <2>1 DEF interprocessor_interrupt, cpuvars, semvars
  <2>2. "ipi" \in Labels \ {"sleep"} /\ "ipi" # "idle"
    BY DEF Labels
  <2>3. QED
    BY <2>1, <2>2, Zenon DEF Local
<1>10. lamebus_clear_ipi(c) => Local(c)
  BY Zenon DEF lamebus_clear_ipi, Resume, Local, Labels, semvars
<1>11. MigrateCount(c) => Local(c)
  <2>1. pc = [pc EXCEPT ![c] = pc[c]]
    BY <1>1
  <2>2. QED
    BY <2>1, Zenon DEF MigrateCount, Local, Labels, cpuvars, semvars
<1>12. MigrateNothing(c) => Local(c)
  BY ZenonT(40) DEF MigrateNothing, AfterMigration, Local, Labels, cpuvars, semvars
<1>13. MigrateTake(c) => Local(c)
  BY Zenon DEF MigrateTake, Local, Labels, semvars
<1>14. MigrateEnd(c) => Local(c)
  BY Zenon DEF MigrateEnd, AfterMigration, Local, Labels, semvars
<1>15. Call(c) => Local(c)
  BY Zenon DEF Call, Local, Labels, cpuvars, semvars
<1>16. hardclock(c) => Local(c)
  <2>1. ASSUME hardclock(c)
        PROVE  /\ c_runqueue' = c_runqueue /\ c_ipi' = c_ipi /\ sem_count' = sem_count
               /\ \E l \in {"count", "unidle", "yield"} : pc' = [pc EXCEPT ![c] = l]
    BY <2>1 DEF hardclock, AfterMigration, cpuvars, semvars
  <2>2. \A l \in {"count", "unidle", "yield"} : l \in Labels \ {"sleep"} /\ l # "idle"
    BY DEF Labels
  <2>3. QED
    BY <2>1, <2>2, Zenon DEF Local
<1>17. ASSUME NEW t \in Threads, thread_fork(c, t) PROVE Local(c)
  <2>1. pc = [pc EXCEPT ![c] = pc[c]]
    BY <1>1
  <2>2. QED
    BY <1>17, <2>1, Zenon DEF thread_fork, Local, Labels, semvars
<1>18. QED
  BY <1>2, <1>3, <1>4, <1>5, <1>6, <1>7, <1>8, <1>9, <1>10, <1>11, <1>12, <1>13, <1>14, <1>15, <1>16, <1>17, ZenonT(30)
  DEF Step

\* The count cannot change under a CPU that is going to sleep: it has the lock.
LEMMA SleepsOnZeroKept ==
  ASSUME Structure, SleepsOnZero, [Next]_vars
  PROVE  SleepsOnZero'
<1>1. pc \in [Cpus -> Labels] /\ sem_count \in Nat /\ \A d \in Cpus : LocksOf(d)
  BY DEF Structure, Types, Locks
<1>2. CASE UNCHANGED <<pc, sem_count>>
  BY <1>2 DEF SleepsOnZero
<1>3. ASSUME NEW c \in Cpus, NEW l, pc' = [pc EXCEPT ![c] = l], l # "sleep", sem_count' = sem_count
      PROVE  SleepsOnZero'
  BY <1>1, <1>3 DEF SleepsOnZero
<1>4. ASSUME NEW c \in Cpus, P(c) \/ V(c) PROVE SleepsOnZero'
  <2>1. \A d \in Cpus : pc[d] # "sleep"
    BY SMTT(30), <1>1, <1>4, ThreadAssumption DEF P, V, LocksOf
  <2>2. PICK l : pc' = [pc EXCEPT ![c] = l] /\ (l = "sleep" => sem_count' = 0)
    <3>1. CASE P(c) /\ sem_count > 0
      BY <3>1, Zenon DEF P
    <3>2. CASE P(c) /\ ~(sem_count > 0)
      <4>1. sem_count' = 0 /\ pc' = [pc EXCEPT ![c] = "sleep"]
        BY <1>1, <3>2 DEF P
      <4>2. QED
        BY <4>1, Zenon
    <3>3. CASE V(c)
      BY <3>3, Zenon DEF V, Resume
    <3>4. QED
      BY SMTT(30), <1>4, <3>1, <3>2, <3>3
  <2>3. QED
    BY SMTT(30), <1>1, <2>1, <2>2 DEF SleepsOnZero
<1>5. ASSUME NEW c \in Cpus, Wake(c) PROVE SleepsOnZero'
  <2>1. PICK l : pc' = [pc EXCEPT ![c] = l] /\ l # "sleep"
    <3>1. pc' = [pc EXCEPT ![c] = Resume(c)] /\ Resume(c) # "sleep"
      BY <1>5 DEF Wake, Resume
    <3>2. QED
      BY <3>1, Zenon
  <2>2. QED
    BY <1>3, <1>5, <2>1, Zenon DEF Wake
<1>6. ASSUME NEW c \in Cpus, MigrateSend(c) PROVE SleepsOnZero'
  BY <1>2, <1>6, Zenon DEF MigrateSend, semvars
<1>7. ASSUME NEW c \in Cpus, Local(c) PROVE SleepsOnZero'
  BY <1>3, <1>7, Zenon DEF Local
<1>8. ASSUME NEW c \in Cpus, Step(c) \/ Call(c) \/ hardclock(c) \/ \E t \in Threads : thread_fork(c, t)
      PROVE  SleepsOnZero'
  BY <1>4, <1>5, <1>6, <1>7, <1>8, Locality, Zenon
<1>9. CASE UNCHANGED vars
  BY <1>2, <1>9 DEF vars, semvars
<1>10. QED
  BY SMTT(30), <1>8, <1>9 DEF Next

\* A thread that is given to an idle CPU comes with an interrupt.
LEMMA IdleNoticedKept ==
  ASSUME Structure, IdleNoticed, [Next]_vars
  PROVE  IdleNoticed'
<1>1. /\ pc \in [Cpus -> Labels] /\ c_runqueue \in [Cpus -> Seq(Threads)] /\ c_ipi \in [Cpus -> BOOLEAN]
      /\ \A d \in Cpus : LocksOf(d)
  BY DEF Structure, Types, Locks
<1>2. CASE UNCHANGED <<pc, c_runqueue, c_ipi>>
  BY <1>2 DEF IdleNoticed
<1>3. ASSUME NEW c \in Cpus, pc'[c] = "idle" => c_runqueue'[c] = <<>>,
             \A d \in Cpus \ {c} : /\ pc'[d] = pc[d]
                                   /\ \/ pc[d] = "idle" => c_ipi'[d]
                                      \/ c_runqueue'[d] = c_runqueue[d] /\ c_ipi'[d] = c_ipi[d]
      PROVE  IdleNoticed'
  BY <1>3 DEF IdleNoticed
<1>4. ASSUME NEW c \in Cpus, P(c) \/ V(c) PROVE IdleNoticed'
  <2>1. PICK l : pc' = [pc EXCEPT ![c] = l] /\ l # "idle"
    BY <1>4, Zenon DEF P, V, Resume
  <2>2. UNCHANGED <<c_runqueue, c_ipi>>
    BY <1>4 DEF P, V, cpuvars
  <2>3. QED
    BY SMTT(30), <1>1, <1>3, <2>1, <2>2
<1>5. ASSUME NEW c \in Cpus, Wake(c) PROVE IdleNoticed'
  <2> DEFINE k == t_cpu[target[c]]
  <2>1. /\ pc' = [pc EXCEPT ![c] = Resume(c)] /\ Resume(c) # "idle"
        /\ c_runqueue' = [c_runqueue EXCEPT ![k] = Append(@, target[c])]
        /\ c_ipi' = [c_ipi EXCEPT ![k] = @ \/ (c_isidle[k] /\ k # c)]
    BY <1>5 DEF Wake, thread_make_runnable, Unidle, Resume
  <2> HIDE DEF k
  <2>2. pc'[c] # "idle"
    BY SMTT(30), <1>1, <2>1
  <2>3. ASSUME NEW d \in Cpus \ {c}
        PROVE  /\ pc'[d] = pc[d]
               /\ \/ pc[d] = "idle" => c_ipi'[d]
                  \/ c_runqueue'[d] = c_runqueue[d] /\ c_ipi'[d] = c_ipi[d]
    <3>1. CASE d = k
      <4>1. pc[d] = "idle" => c_isidle[d]
        BY <1>1 DEF LocksOf
      <4>2. QED
        BY <1>1, <2>1, <3>1, <4>1, Zenon
    <3>2. CASE d # k
      BY SMTT(30), <1>1, <2>1, <3>2
    <3>3. QED
      BY <3>1, <3>2
  <2>4. QED
    BY SMTT(30), <1>3, <2>2, <2>3
<1>6. ASSUME NEW c \in Cpus, MigrateSend(c) PROVE IdleNoticed'
  <2> DEFINE k == mig[c].i
  <2>1. pc[c] = "send" /\ pc' = pc
    BY <1>6, Zenon DEF MigrateSend
  <2>2. CASE UNCHANGED <<c_runqueue, c_ipi>>
    BY SMTT(30), <1>2, <2>1, <2>2
  <2>3. ASSUME NEW n, c_runqueue' = [c_runqueue EXCEPT ![k] = @ \o Moved(c, n)], k # c,
               IF Moved(c, n) = <<>> THEN UNCHANGED c_ipi ELSE Unidle(c, k)
        PROVE  IdleNoticed'
    <3> HIDE DEF k
    <3>1. pc'[c] # "idle"
      BY SMTT(30), <2>1
    <3>2. ASSUME NEW d \in Cpus \ {c}
          PROVE  /\ pc'[d] = pc[d]
                 /\ \/ pc[d] = "idle" => c_ipi'[d]
                    \/ c_runqueue'[d] = c_runqueue[d] /\ c_ipi'[d] = c_ipi[d]
      <4>1. pc[d] = "idle" => c_isidle[d]
        BY <1>1 DEF LocksOf
      <4>2. CASE d = k /\ Moved(c, n) = <<>>
        <5>1. c_runqueue'[d] = c_runqueue[d] \o <<>>
          BY SMTT(30), <1>1, <2>3, <4>2
        <5>2. c_runqueue[d] \o <<>> = c_runqueue[d]
          BY <1>1
        <5>3. QED
          BY SMTT(30), <2>1, <2>3, <4>2, <5>1, <5>2
      <4>3. CASE d = k /\ Moved(c, n) # <<>>
        BY <1>1, <2>1, <2>3, <4>1, <4>3, Zenon DEF Unidle
      <4>4. CASE d # k
        BY SMTT(30), <1>1, <2>1, <2>3, <4>4 DEF Unidle
      <4>5. QED
        BY SMTT(30), <4>2, <4>3, <4>4
    <3>3. QED
      BY <1>3, <3>1, <3>2
  <2>4. QED
    BY <1>6, <2>2, <2>3, Zenon DEF MigrateSend
<1>7. ASSUME NEW c \in Cpus, Local(c) PROVE IdleNoticed'
  <2>1. PICK l : pc' = [pc EXCEPT ![c] = l] /\ (l = "idle" => c_runqueue' = c_runqueue /\ c_runqueue[c] = <<>>)
    BY <1>7, Zenon DEF Local
  <2>2. \A d \in Cpus \ {c} : c_runqueue'[d] = c_runqueue[d]
    BY <1>1, <1>7, Zenon DEF Local
  <2>3. \A d \in Cpus \ {c} : c_ipi'[d] = c_ipi[d]
    BY <1>1, <1>7, Zenon DEF Local
  <2>4. QED
    BY SMTT(30), <1>1, <1>3, <2>1, <2>2, <2>3
<1>8. ASSUME NEW c \in Cpus, Step(c) \/ Call(c) \/ hardclock(c) \/ \E t \in Threads : thread_fork(c, t)
      PROVE  IdleNoticed'
  BY <1>4, <1>5, <1>6, <1>7, <1>8, Locality, Zenon
<1>9. CASE UNCHANGED vars
  BY SMTT(30), <1>2, <1>9 DEF vars, cpuvars
<1>10. QED
  BY SMTT(30), <1>8, <1>9 DEF Next

-----------------------------------------------------------------------------
LEMMA MembersNow == Structure => \A t \in Threads : (t \in AwakeInP <=> Awake(t)) /\ (t \in InP <=> Within(t))
  BY Members

LEMMA MembersNext ==
  Structure' => \A t \in Threads : (t \in AwakeInP' <=> Awake(t)') /\ (t \in InP' <=> Within(t)')
<1>1. (Structure => \A t \in Threads : (t \in AwakeInP <=> Awake(t)) /\ (t \in InP <=> Within(t)))'
  BY MembersNow, PTL
<1>2. QED
  BY <1>1

LEMMA AwakeFinite == IsFiniteSet(AwakeInP) /\ Cardinality(AwakeInP) \in Nat
<1>1. AwakeInP \subseteq Threads
  BY DEF AwakeInP
<1>2. QED
  BY SMTT(30), <1>1, ThreadAssumption, FS_Subset, FS_CardinalityType

LEMMA AwakeFiniteNext == IsFiniteSet(AwakeInP') /\ Cardinality(AwakeInP') \in Nat
<1>1. (IsFiniteSet(AwakeInP) /\ Cardinality(AwakeInP) \in Nat)'
  BY AwakeFinite, PTL
<1>2. QED
  BY <1>1

\* A unit that V adds is matched by the thread it wakes, one that P takes by the
\* thread that leaves.
LEMMA NoLostWakeupKept ==
  ASSUME Structure, Structure', NoLostWakeup,
         Keeps \/ Sleeps \/ Posts \/ \E u \in Threads : Enters(u) \/ Leaves(u)
  PROVE  NoLostWakeup'
<1>1. /\ AwakeInP \subseteq Threads /\ AwakeInP' \subseteq Threads
      /\ \A t \in Threads : (t \in AwakeInP <=> Awake(t)) /\ (t \in AwakeInP' <=> Awake(t)')
  BY SMTT(30), MembersNow, MembersNext DEF AwakeInP
<1>2. sem_count \in Nat /\ sem_count' \in Nat
  BY DEF Structure, Types
<1> DEFINE a == Cardinality(AwakeInP)
           b == Cardinality(AwakeInP')
<1>3. a \in Nat /\ b \in Nat
  BY AwakeFinite, AwakeFiniteNext
<1>4. CASE Sleeps
  BY <1>3, <1>4 DEF Sleeps, NoLostWakeup
<1>5. CASE Keeps
  <2>1. AwakeInP' = AwakeInP
    BY SMTT(30), <1>1, <1>5 DEF Keeps, Same
  <2>2. QED
    BY SMTT(30), <1>5, <2>1 DEF Keeps, NoLostWakeup
<1>6. CASE Posts
  <2>1. CASE sem_wchan' = <<>>
    BY SMTT(30), <2>1 DEF NoLostWakeup
  <2>2. ASSUME NEW u \in Threads, ~Awake(u), Awake(u)', \A t \in Threads \ {u} : Awake(t)' <=> Awake(t),
               sem_wchan # <<>>
        PROVE  NoLostWakeup'
    <3>1. AwakeInP' = AwakeInP \cup {u} /\ u \notin AwakeInP
      BY SMTT(30), <1>1, <2>2
    <3>2. b = a + 1
      BY SMTT(30), <3>1, AwakeFinite, FS_AddElement
    <3>3. sem_count <= a
      BY SMTT(30), <2>2 DEF NoLostWakeup
    <3>4. QED
      BY <1>2, <1>3, <1>6, <3>2, <3>3, SMTT(20) DEF Posts, NoLostWakeup
  <2>3. QED
    BY <1>6, <2>1, <2>2, Zenon DEF Posts
<1>7. ASSUME NEW u \in Threads, Enters(u) PROVE NoLostWakeup'
  <2>1. AwakeInP' = AwakeInP \cup {u} /\ u \notin AwakeInP
    BY SMTT(30), <1>1, <1>7 DEF Enters, Same
  <2>2. b = a + 1
    BY <2>1, AwakeFinite, FS_AddElement
  <2>3. QED
    BY SMTT(30), <1>2, <1>3, <1>7, <2>2 DEF Enters, NoLostWakeup
<1>8. ASSUME NEW u \in Threads, Leaves(u) PROVE NoLostWakeup'
  <2>1. AwakeInP' = AwakeInP \ {u} /\ u \in AwakeInP
    BY SMTT(30), <1>1, <1>8 DEF Leaves, Same
  <2>2. b = a - 1
    BY SMTT(30), <2>1, AwakeFinite, FS_RemoveElement
  <2>3. QED
    BY SMTT(30), <1>2, <1>3, <1>8, <2>2 DEF Leaves, NoLostWakeup
<1>9. QED
  BY <1>4, <1>5, <1>6, <1>7, <1>8, SMTT(20)

\* The same five ways are the steps of the abstract semaphore.
LEMMA Simulates ==
  ASSUME Structure, Structure', Keeps \/ Sleeps \/ Posts \/ \E u \in Threads : Enters(u) \/ Leaves(u)
  PROVE  [Sem!Next]_<<sem_count, InP>>
<1>1. /\ InP \subseteq Threads /\ InP' \subseteq Threads
      /\ \A t \in Threads : (t \in InP <=> Within(t)) /\ (t \in InP' <=> Within(t)')
  BY MembersNow, MembersNext DEF InP
<1>2. CASE Keeps
  <2>1. InP' = InP
    BY SMTT(30), <1>1, <1>2 DEF Keeps, Same
  <2>2. QED
    BY SMTT(30), <1>2, <2>1 DEF Keeps
<1>3. CASE Sleeps
  <2>1. InP' = InP
    BY SMTT(30), <1>1, <1>3 DEF Sleeps
  <2>2. QED
    BY SMTT(30), <1>3, <2>1 DEF Sleeps
<1>4. CASE Posts
  <2>1. InP' = InP
    BY <1>1, <1>4, Zenon DEF Posts
  <2>2. Sem!Post
    BY <1>4, <2>1 DEF Posts, Sem!Post
  <2>3. QED
    BY <2>2 DEF Sem!Next
<1>5. ASSUME NEW u \in Threads, Enters(u) PROVE Sem!Next
  <2>1. InP' = InP \cup {u} /\ u \notin InP
    BY <1>1, <1>5 DEF Enters, Same
  <2>2. Sem!Begin(u)
    BY <1>5, <2>1 DEF Enters, Sem!Begin
  <2>3. QED
    BY <2>2 DEF Sem!Next
<1>6. ASSUME NEW u \in Threads, Leaves(u) PROVE Sem!Next
  <2>1. InP' = InP \ {u} /\ u \in InP
    BY SMTT(30), <1>1, <1>6 DEF Leaves, Same
  <2>2. Sem!Take(u)
    BY SMTT(30), <1>6, <2>1 DEF Leaves, Sem!Take
  <2>3. QED
    BY SMTT(30), <2>2 DEF Sem!Next, Sem!Complete
<1>7. QED
  BY <1>2, <1>3, <1>4, <1>5, <1>6, SMTT(20)

\* At the start no thread is in P and every CPU runs.
LEMMA SInvInit ==
  ASSUME Init
  PROVE  SInv /\ Sem!Init
<1>1. /\ \A t \in Threads : t_state[t] \in {"S_RUN", "none"}
      /\ pc = [c \in Cpus |-> "run"] /\ sem_count = 0 /\ sem_wchan = <<>>
  BY DEF Init
<1>2. InP = {}
  BY <1>1 DEF InP
<1>3. QED
  BY SMTT(30), <1>1, <1>2, StructureInit DEF SInv, Asleep, SleepsOnZero, NoLostWakeup, IdleNoticed, Sem!Init

LEMMA SInvKept ==
  ASSUME SInv, [Next]_vars
  PROVE  SInv' /\ [Sem!Next]_<<sem_count, InP>>
<1>1. Structure /\ Asleep /\ SleepsOnZero /\ NoLostWakeup /\ IdleNoticed
  BY DEF SInv
<1>2. Structure' /\ SleepsOnZero' /\ IdleNoticed'
  BY SMTT(30), <1>1, StructureKept, SleepsOnZeroKept, IdleNoticedKept
<1>3. Asleep' /\ (Keeps \/ Sleeps \/ Posts \/ \E u \in Threads : Enters(u) \/ Leaves(u))
  BY SMTT(30), <1>1, Effects
<1>4. NoLostWakeup' /\ [Sem!Next]_<<sem_count, InP>>
  BY SMTT(30), <1>1, <1>2, <1>3, NoLostWakeupKept, Simulates
<1>5. QED
  BY SMTT(30), <1>2, <1>3, <1>4 DEF SInv

\* For any number of CPUs and threads no wakeup is lost: while threads sleep on
\* the semaphore every unit is matched by a thread on its way to it, and a CPU
\* that waits in cpu_idle with something to run has an interrupt coming.
THEOREM NoWakeupLost == Spec => []WakeupsArrive
<1>1. Init => SInv
  BY SInvInit
<1>2. SInv /\ [Next]_vars => SInv'
  BY SInvKept
<1>3. SInv => WakeupsArrive
  BY DEF SInv, WakeupsArrive
<1>4. QED
  BY <1>1, <1>2, <1>3, PTL DEF Spec

\* P and V over the wait channels, locks and scheduler of thread.c implement the
\* abstract semaphore: a P ends only by taking one unit, and every other step of
\* the thread system changes nothing a caller can see.
THEOREM SemaphoreImplemented == Spec => ImplementsSemaphore
<1>1. Init => SInv /\ Sem!Init
  BY SInvInit
<1>2. SInv /\ [Next]_vars => SInv' /\ [Sem!Next]_<<sem_count, InP>>
  BY SInvKept
<1>3. QED
  BY <1>1, <1>2, PTL DEF Spec, ImplementsSemaphore, Sem!Spec
=============================================================================
