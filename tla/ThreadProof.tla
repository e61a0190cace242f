---------------------------- MODULE ThreadProof -----------------------------
(***************************************************************************)
(* ThreadsKept for any number of CPUs and threads.  Migration keeps the    *)
(* structure of ThreadInvariant too; ThreadsKept follows from it and from  *)
(* a bound on the semaphore's count that has to take the CPUs already in V *)
(* into account.                                                           *)
(***************************************************************************)
EXTENDS ThreadInvariant, FiniteSetTheorems, TLAPS

-----------------------------------------------------------------------------
\* The count of runnable threads that this CPU found on its own run queue stays
\* a lower bound: others only add to it, and nothing here takes from it.
LEMMA MigrateCountKeeps ==
  ASSUME Structure, NEW c \in Cpus, MigrateCount(c)
  PROVE  Structure'
<1> DEFINE m == mig[c]
           total == m.total + Len(c_runqueue[m.i])
           count == IF m.i = c THEN Len(c_runqueue[c]) ELSE m.my_count
<1>1. Types /\ Locks /\ Lists /\ MigrationOf(c)
  BY DEF Structure, Lists
<1>2. /\ pc[c] = "count" /\ m.i < NumCpus
      /\ mig' = [mig EXCEPT ![c] = [m EXCEPT !.i = m.i + 1, !.total = total, !.my_count = count]]
      /\ UNCHANGED <<c_curthread, c_runqueue, c_isidle, c_zombies, c_runqueue_lock, c_ipi,
                     t_state, t_cpu, t_context, sem_count, sem_lock, sem_wchan, pc, target>>
  BY DEF MigrateCount, cpuvars, threadvars, semvars
<1>3. m \in [i : Nat, my_count : Nat, total : Nat, to_send : Nat, victims : Seq(Threads)]
  BY <1>1 DEF Types
<1>4. m.i \in Cpus /\ c \in Nat
  BY <1>2, <1>3, CpuAssumption DEF Cpus
<1>5. Len(c_runqueue[m.i]) \in Nat /\ Len(c_runqueue[c]) \in Nat
  <2>1. \A d \in Cpus : Len(c_runqueue[d]) \in Nat
    BY <1>1 DEF Types
  <2>2. QED
    BY <1>4, <2>1
<1>6. total \in Nat /\ count \in Nat
  <2>1. m.total \in Nat /\ m.my_count \in Nat
    BY <1>3
  <2>2. QED
    BY <1>5, <2>1
<1> HIDE DEF m, total, count
<1>7. PICK r \in [i : Nat, my_count : Nat, total : Nat, to_send : Nat, victims : Seq(Threads)] :
        r.i = m.i + 1 /\ r.my_count = count /\ r.victims = m.victims /\ mig' = [mig EXCEPT ![c] = r]
  <2> DEFINE r == [m EXCEPT !.i = m.i + 1, !.total = total, !.my_count = count]
  <2>1. r \in [i : Nat, my_count : Nat, total : Nat, to_send : Nat, victims : Seq(Threads)]
    <3>1. \A x, y, z \in Nat : [m EXCEPT !.i = x, !.total = y, !.my_count = z]
                                 \in [i : Nat, my_count : Nat, total : Nat, to_send : Nat, victims : Seq(Threads)]
      BY <1>3, Zenon
    <3>2. m.i + 1 \in Nat
      BY <1>3
    <3>3. QED
      BY <1>6, <3>1, <3>2, Zenon
  <2>2. r.i = m.i + 1 /\ r.my_count = count /\ r.victims = m.victims
    BY <1>3
  <2>3. mig' = [mig EXCEPT ![c] = r]
    BY <1>2
  <2> HIDE DEF r
  <2>4. QED
    BY <2>1, <2>2, <2>3, Zenon
<1>8. mig' \in [Cpus -> [i : Nat, my_count : Nat, total : Nat, to_send : Nat, victims : Seq(Threads)]]
  BY <1>1, <1>7 DEF Types
<1>9. /\ mig'[c].i = m.i + 1 /\ mig'[c].my_count = count
      /\ \A d \in Cpus : mig'[d].victims = mig[d].victims
      /\ \A d \in Cpus \ {c} : mig'[d] = mig[d]
  <2>1. mig'[c] = r /\ \A d \in Cpus \ {c} : mig'[d] = mig[d]
    BY <1>1, <1>7 DEF Types
  <2>2. QED
    BY <1>7, <2>1 DEF m
<1>10. Types'
  BY <1>1, <1>2, <1>8, Zenon DEF Types
<1>11. Locks'
  BY <1>1, <1>2 DEF Locks, LocksOf
<1>12. Lists'
  <2>1. MigrationOf(c)'
    <3>1. m.victims = <<>> /\ (m.i > c => m.my_count <= Len(c_runqueue[c]))
      BY <1>1, <1>2 DEF MigrationOf, m
    <3>2. m.i + 1 > c => count <= Len(c_runqueue[c])
      BY <1>3, <1>4, <1>5, <3>1 DEF count
    <3>3. QED
      BY <1>2, <1>9, <3>1, <3>2 DEF MigrationOf, m
  <2>2. ASSUME NEW d \in Cpus \ {c} PROVE MigrationOf(d)'
    BY <1>1, <1>2, <1>9 DEF Lists, MigrationOf
  <2>3. ASSUME NEW d \in Cpus PROVE ListsOf(d)'
    BY <1>1, <1>2, <1>9, Zenon DEF Lists, ListsOf
  <2>4. ASSUME NEW u \in Threads PROVE Sleeping(u)' /\ \A d \in Cpus : Whereabouts(u, d)'
    BY <1>1, <1>2, <1>9 DEF Lists, Sleeping, Whereabouts
  <2>5. QED
    BY <1>1, <1>2, <2>1, <2>2, <2>3, <2>4 DEF Lists
<1>13. QED
  BY <1>10, <1>11, <1>12 DEF Structure

LEMMA MigrateNothingKeeps ==
  ASSUME Structure, NEW c \in Cpus, MigrateNothing(c)
  PROVE  Structure'
<1>1. Types /\ Locks /\ Lists /\ LocksOf(c) /\ MigrationOf(c) /\ ListsOf(c)
  BY DEF Structure, Lists, Locks
<1>2. /\ pc[c] = "count" /\ mig' = [mig EXCEPT ![c] = NoMigration]
      /\ pc' = [pc EXCEPT ![c] = AfterMigration(c)]
      /\ UNCHANGED <<c_curthread, c_runqueue, c_isidle, c_zombies, c_runqueue_lock, c_ipi,
                     t_state, t_cpu, t_context, sem_count, sem_lock, sem_wchan, target>>
  BY DEF MigrateNothing, cpuvars, threadvars, semvars
<1>3. AfterMigration(c) \in {"yield", "unidle"} /\ (AfterMigration(c) = "unidle" <=> c_isidle[c])
  BY DEF AfterMigration
<1>4. NoMigration \in [i : Nat, my_count : Nat, total : Nat, to_send : Nat, victims : Seq(Threads)]
  BY DEF NoMigration
<1>5. /\ mig'[c] = NoMigration /\ NoMigration.victims = <<>> /\ mig[c].victims = <<>>
      /\ \A d \in Cpus \ {c} : mig'[d] = mig[d] /\ pc'[d] = pc[d]
      /\ pc'[c] = AfterMigration(c)
  BY <1>1, <1>2 DEF Types, NoMigration, MigrationOf
<1>6. \A d \in Cpus : mig'[d].victims = mig[d].victims
  BY <1>5
<1>7. Types'
  BY <1>1, <1>2, <1>3, <1>4, Zenon DEF Types, Labels
<1>8. Locks'
  <2>1. LocksOf(c)'
    BY <1>1, <1>2, <1>3, <1>5, Zenon DEF LocksOf
  <2>2. QED
    BY <1>1, <1>2, <1>5, <2>1, LocksFrame, Zenon DEF Locks
<1>9. Lists'
  <2>1. ASSUME NEW d \in Cpus PROVE MigrationOf(d)'
    <3>1. MigrationOf(d)
      BY <1>1 DEF Lists
    <3>2. CASE d = c
      BY <1>3, <1>5, <3>2 DEF MigrationOf
    <3>3. CASE d # c
      BY <1>2, <1>5, <3>1, <3>3 DEF MigrationOf
    <3>4. QED
      BY <3>2, <3>3
  <2>2. ASSUME NEW d \in Cpus PROVE ListsOf(d)'
    BY <1>1, <1>2, <1>6, ZenonT(30) DEF Lists, ListsOf
  <2>3. ASSUME NEW u \in Threads PROVE Sleeping(u)' /\ \A d \in Cpus : Whereabouts(u, d)'
    BY <1>1, <1>2, <1>6 DEF Lists, Sleeping, Whereabouts
  <2>4. QED
    BY <1>1, <1>2, <2>1, <2>2, <2>3 DEF Lists
<1>10. QED
  BY <1>7, <1>8, <1>9 DEF Structure

\* A share is a natural number.
LEMMA ShareFacts ==
  ASSUME Types, NEW c \in Cpus
  PROVE  one_share(c) \in Nat
<1>1. mig[c].total \in Nat
  BY SMTT(20) DEF Types
<1>2. mig[c].total + NumCpus - 1 \in Nat
  BY <1>1, CpuAssumption
<1>3. \A n \in Nat, k \in Nat \ {0} : n \div k \in Nat
  OBVIOUS
<1>4. QED
  BY <1>2, <1>3, CpuAssumption DEF one_share, DIVROUNDUP

\* What is taken from the tail of the run queue goes to victims; there is enough.
LEMMA MigrateTakeKeeps ==
  ASSUME Structure, NEW c \in Cpus, MigrateTake(c)
  PROVE  Structure'
<1> DEFINE q == c_runqueue[c]
           n == to_send(c)
           rest == Len(q) - n
           a == SubSeq(q, 1, rest)
           b == SubSeq(q, rest + 1, Len(q))
<1>1. Types /\ Locks /\ Lists /\ LocksOf(c) /\ MigrationOf(c) /\ ListsOf(c)
  BY DEF Structure, Lists, Locks
<1>2. q \in Seq(Threads) /\ Len(q) \in Nat /\ mig[c].my_count \in Nat /\ mig[c].victims = <<>> /\ pc[c] = "count"
  BY SMTT(30), <1>1 DEF Types, MigrationOf, MigrateTake
<1>3. n \in Nat /\ n <= Len(q)
  <2>1. mig[c].my_count <= Len(q)
    <3>1. NumCpus > c
      BY CpuAssumption DEF Cpus
    <3>2. QED
      BY <1>1, <3>1 DEF MigrateTake, MigrationOf
  <2>2. mig[c].my_count >= one_share(c) /\ one_share(c) \in Nat
    BY <1>1, ShareFacts DEF MigrateTake
  <2>3. \A x, y, z \in Nat : x <= z /\ x >= y => x - y \in Nat /\ x - y <= z
    OBVIOUS
  <2>4. QED
    BY <1>2, <2>1, <2>2, <2>3 DEF to_send
<1>4. Min({to_send(c), Len(q)}) = n
  BY <1>2, <1>3 DEF Min
<1>5. /\ mig' = [mig EXCEPT ![c].i = 0, ![c].to_send = n, ![c].victims = b]
      /\ c_runqueue' = [c_runqueue EXCEPT ![c] = a]
      /\ pc' = [pc EXCEPT ![c] = "send"]
      /\ UNCHANGED <<c_curthread, c_isidle, c_zombies, c_runqueue_lock, c_ipi,
                     t_state, t_cpu, t_context, sem_count, sem_lock, sem_wchan, target>>
  BY <1>4, Zenon DEF MigrateTake, threadvars, semvars
<1>6. rest \in 0 .. Len(q) /\ Len(q) - rest = n
  <2>1. \A x, y \in Nat : y <= x => x - y \in 0 .. x /\ x - (x - y) = y
    OBVIOUS
  <2>2. QED
    BY <1>2, <1>3, <2>1
<1> HIDE DEF rest
<1>7. /\ a \in Seq(Threads) /\ b \in Seq(Threads) /\ Len(b) = n /\ Range(q) = Range(a) \cup Range(b)
      /\ IsInjective(a) /\ IsInjective(b) /\ Range(a) \cap Range(b) = {}
  <2>1. q \in Seq(Threads) /\ IsInjective(q)
    BY <1>1, <1>2 DEF ListsOf
  <2> HIDE DEF q, n
  <2>2. /\ a \in Seq(Threads) /\ b \in Seq(Threads) /\ Len(b) = Len(q) - rest /\ Range(q) = Range(a) \cup Range(b)
        /\ IsInjective(a) /\ IsInjective(b) /\ Range(a) \cap Range(b) = {}
    BY <1>6, <2>1, SplitFacts, SMTT(20)
  <2>3. QED
    BY <1>6, <2>2, Zenon
<1> HIDE DEF a, b, n, q
<1>8. /\ mig' \in [Cpus -> [i : Nat, my_count : Nat, total : Nat, to_send : Nat, victims : Seq(Threads)]]
      /\ mig'[c].to_send = n /\ mig'[c].victims = b
      /\ \A d \in Cpus \ {c} : mig'[d] = mig[d]
  <2>1. mig \in [Cpus -> [i : Nat, my_count : Nat, total : Nat, to_send : Nat, victims : Seq(Threads)]]
    BY <1>1 DEF Types
  <2>2. QED
    BY <1>3, <1>5, <1>7, <2>1, ZenonT(30)
<1>9. \A d \in Cpus : /\ c_runqueue'[d] = IF d = c THEN a ELSE c_runqueue[d]
                      /\ pc'[d] = IF d = c THEN "send" ELSE pc[d]
  BY <1>1, <1>5 DEF Types
<1>10. Types'
  BY <1>1, <1>5, <1>7, <1>8, SMTT(20) DEF Types, Labels
<1>11. Locks'
  <2>1. LocksOf(c)'
    BY <1>1, <1>2, <1>5, <1>9 DEF LocksOf
  <2>2. \A d \in Cpus \ {c} : /\ pc'[d] = pc[d] /\ target'[d] = target[d]
                              /\ c_isidle'[d] = c_isidle[d] /\ c_runqueue_lock'[d] = c_runqueue_lock[d]
    BY <1>5, <1>9
  <2>3. c_runqueue_lock' \in [Cpus -> Cpus \cup {Null}] /\ sem_lock' = sem_lock
    BY <1>1, <1>5 DEF Locks
  <2>4. QED
    BY <1>1, <2>1, <2>2, <2>3, LocksFrame
<1>12. Lists'
  <2>1. ASSUME NEW d \in Cpus PROVE MigrationOf(d)'
    <3>1. MigrationOf(d)
      BY <1>1 DEF Lists
    <3>2. CASE d = c
      BY SMTT(30), <1>3, <1>7, <1>8, <1>9, <3>2 DEF MigrationOf
    <3>3. CASE d # c
      BY <1>8, <1>9, <3>1, <3>3, SMTT(20) DEF MigrationOf
    <3>4. QED
      BY <3>2, <3>3
  <2>2. ASSUME NEW d \in Cpus PROVE ListsOf(d)'
    <3>1. ListsOf(d) /\ c_zombies'[d] = c_zombies[d]
      BY <1>1, <1>5 DEF Lists
    <3>2. CASE d = c
      BY SMTT(30), <1>7, <1>8, <1>9, <3>1, <3>2 DEF ListsOf
    <3>3. CASE d # c
      BY <1>8, <1>9, <3>1, <3>3 DEF ListsOf
    <3>4. QED
      BY <3>2, <3>3
  <2>3. \A d \in Cpus : Range(c_runqueue'[d]) \cup Range(mig'[d].victims) = Range(c_runqueue[d]) \cup Range(mig[d].victims)
    <3>1. Range(mig[c].victims) = {}
      BY <1>2, EmptyFacts
    <3>2. QED
      BY <1>7, <1>8, <1>9, <3>1, Zenon DEF q
  <2>4. ASSUME NEW u \in Threads PROVE Sleeping(u)' /\ \A d \in Cpus : Whereabouts(u, d)'
    <3>1. Sleeping(u)'
      BY <1>1, <1>5 DEF Lists, Sleeping
    <3>2. ASSUME NEW d \in Cpus PROVE Whereabouts(u, d)'
      <4>1. /\ Whereabouts(u, d)
            /\ u \in Range(c_runqueue'[d]) \cup Range(mig'[d].victims)
               <=> u \in Range(c_runqueue[d]) \cup Range(mig[d].victims)
        BY <1>1, <2>3 DEF Lists
      <4>2. QED
        BY <1>5, <4>1 DEF Whereabouts
    <3>3. QED
      BY <3>1, <3>2
  <2>5. QED
    BY SMTT(30), <1>1, <1>5, <2>1, <2>2, <2>4 DEF Lists
<1>13. QED
  BY <1>10, <1>11, <1>12 DEF Structure

\* The leftovers were on the run queue before, and nobody else has them.
LEMMA MigrateEndKeeps ==
  ASSUME Structure, NEW c \in Cpus, MigrateEnd(c)
  PROVE  Structure'
<1> DEFINE q == c_runqueue[c]
           v == mig[c].victims
<1>1. Types /\ Locks /\ Lists /\ LocksOf(c) /\ ListsOf(c)
  BY DEF Structure, Lists, Locks
<1>2. /\ pc[c] = "send"
      /\ c_runqueue' = [c_runqueue EXCEPT ![c] = @ \o v]
      /\ mig' = [mig EXCEPT ![c] = NoMigration]
      /\ pc' = [pc EXCEPT ![c] = AfterMigration(c)]
      /\ UNCHANGED <<c_curthread, c_isidle, c_zombies, c_runqueue_lock, c_ipi,
                     t_state, t_cpu, t_context, sem_count, sem_lock, sem_wchan, target>>
  BY DEF MigrateEnd, Leftovers, threadvars, semvars
<1>3. AfterMigration(c) \in {"yield", "unidle"} /\ (AfterMigration(c) = "unidle" <=> c_isidle[c])
  BY DEF AfterMigration
<1>4. NoMigration \in [i : Nat, my_count : Nat, total : Nat, to_send : Nat, victims : Seq(Threads)]
  BY DEF NoMigration
<1>5. q \in Seq(Threads) /\ v \in Seq(Threads)
  BY <1>1 DEF Types
<1>6. q \o v \in Seq(Threads) /\ Range(q \o v) = Range(q) \cup Range(v) /\ IsInjective(q \o v)
  BY <1>1, <1>5, ConcatFacts DEF ListsOf
<1>7. /\ NoMigration.victims = <<>> /\ Range(<<>>) = {} /\ IsInjective(<<>>)
  BY <1>5, EmptyFacts DEF NoMigration
<1>8. \A d \in Cpus : /\ c_runqueue'[d] = IF d = c THEN q \o v ELSE c_runqueue[d]
                      /\ mig'[d] = IF d = c THEN NoMigration ELSE mig[d]
                      /\ pc'[d] = IF d = c THEN AfterMigration(c) ELSE pc[d]
  BY <1>1, <1>2 DEF Types
<1>9. Types'
  BY <1>1, <1>2, <1>3, <1>4, <1>6, Zenon DEF Types, Labels
<1> HIDE DEF q, v
<1>10. Locks'
  <2>1. LocksOf(c)'
    BY <1>1, <1>2, <1>3, <1>8, Zenon DEF LocksOf
  <2>2. \A d \in Cpus \ {c} : /\ pc'[d] = pc[d] /\ target'[d] = target[d]
                              /\ c_isidle'[d] = c_isidle[d] /\ c_runqueue_lock'[d] = c_runqueue_lock[d]
    BY <1>2, <1>8, Zenon
  <2>3. c_runqueue_lock' \in [Cpus -> Cpus \cup {Null}] /\ sem_lock' = sem_lock
    BY <1>1, <1>2 DEF Locks
  <2>4. QED
    BY <1>1, <2>1, <2>2, <2>3, LocksFrame, Zenon
<1>11. Lists'
  <2>1. ASSUME NEW d \in Cpus PROVE MigrationOf(d)'
    <3>1. MigrationOf(d)
      BY <1>1 DEF Lists
    <3>2. CASE d = c
      BY <1>3, <1>8, <3>2, Zenon DEF MigrationOf
    <3>3. CASE d # c
      BY SMTT(30), <1>8, <3>1, <3>3 DEF MigrationOf
    <3>4. QED
      BY <3>2, <3>3
  <2>2. ASSUME NEW d \in Cpus PROVE ListsOf(d)'
    <3>1. ListsOf(d) /\ c_zombies'[d] = c_zombies[d]
      BY <1>1, <1>2 DEF Lists
    <3>2. CASE d = c
      BY SMTT(30), <1>6, <1>7, <1>8, <3>1, <3>2 DEF ListsOf
    <3>3. CASE d # c
      BY <1>8, <3>1, <3>3 DEF ListsOf
    <3>4. QED
      BY <3>2, <3>3
  <2>3. \A d \in Cpus : Range(c_runqueue'[d]) \cup Range(mig'[d].victims) = Range(c_runqueue[d]) \cup Range(mig[d].victims)
    BY <1>6, <1>7, <1>8 DEF q, v
  <2>4. ASSUME NEW u \in Threads PROVE Sleeping(u)' /\ \A d \in Cpus : Whereabouts(u, d)'
    <3>1. Sleeping(u)'
      BY <1>1, <1>2, Zenon DEF Lists, Sleeping
    <3>2. ASSUME NEW d \in Cpus PROVE Whereabouts(u, d)'
      <4>1. /\ Whereabouts(u, d)
            /\ u \in Range(c_runqueue'[d]) \cup Range(mig'[d].victims)
               <=> u \in Range(c_runqueue[d]) \cup Range(mig[d].victims)
        BY <1>1, <2>3, Zenon DEF Lists
      <4>2. QED
        BY <1>2, <4>1, Zenon DEF Whereabouts
    <3>3. QED
      BY <3>1, <3>2
  <2>5. QED
    BY SMTT(30), <1>1, <1>2, <2>1, <2>2, <2>4 DEF Lists
<1>12. QED
  BY <1>9, <1>10, <1>11 DEF Structure

\* A list without one of its threads.
LEMMA WithoutFacts ==
  ASSUME NEW s \in Seq(Threads), IsInjective(s), NEW t
  PROVE  /\ Without(s, t) \in Seq(Threads) /\ IsInjective(Without(s, t))
         /\ Range(Without(s, t)) = Range(s) \ {t}
<1>1. CASE t \in Range(s)
  <2> DEFINE i == CHOOSE j \in DOMAIN s : s[j] = t
  <2>1. i \in DOMAIN s /\ s[i] = t
    BY <1>1 DEF Range
  <2>2. i \in 1 .. Len(s)
    BY <2>1
  <2>3. Without(s, t) = SubSeq(s, 1, i - 1) \o SubSeq(s, i + 1, Len(s))
    BY <1>1, Zenon DEF Without
  <2> HIDE DEF i
  <2>4. QED
    BY <2>1, <2>2, <2>3, CutFacts
<1>2. CASE t \notin Range(s)
  BY <1>2 DEF Without
<1>3. QED
  BY <1>1, <1>2

\* Taking n victims splits them between the threads that move and those that
\* stay; of the latter there are enough for what is still to be sent.
LEMMA SplitVictims ==
  ASSUME Structure, NEW c \in Cpus, pc[c] = "send", NEW n \in 0 .. mig[c].to_send, NEW w,
         w = SubSeq(mig[c].victims, n + 1, Len(mig[c].victims)) \o PutBack(c, n)
  PROVE  /\ Moved(c, n) \in Seq(Threads) /\ IsInjective(Moved(c, n))
         /\ w \in Seq(Threads) /\ IsInjective(w)
         /\ Range(mig[c].victims) = Range(Moved(c, n)) \cup Range(w)
         /\ Range(Moved(c, n)) \cap Range(w) = {}
         /\ c_curthread[c] \notin Range(Moved(c, n))
         /\ mig[c].to_send - n \in Nat /\ mig[c].to_send - n <= Len(w)
<1> DEFINE v == mig[c].victims
           a == SubSeq(v, 1, n)
           b == SubSeq(v, n + 1, Len(v))
           cur == c_curthread[c]
           p == PutBack(c, n)
<1>1. /\ v \in Seq(Threads) /\ mig[c].to_send \in Nat /\ IsInjective(v) /\ cur \in Threads
      /\ mig[c].to_send <= Len(v) /\ Len(v) \in Nat
  BY DEF Structure, Types, Lists, ListsOf, MigrationOf
<1>2. n \in 0 .. Len(v) /\ n \in Nat /\ mig[c].to_send - n \in Nat
  BY <1>1
<1>3. /\ a \in Seq(Threads) /\ b \in Seq(Threads) /\ Len(b) = Len(v) - n /\ Range(v) = Range(a) \cup Range(b)
      /\ IsInjective(a) /\ IsInjective(b) /\ Range(a) \cap Range(b) = {}
  BY <1>1, <1>2, SplitFacts, SMTT(20)
<1>4. Moved(c, n) = Without(a, cur) /\ p = IF cur \in Range(a) THEN <<cur>> ELSE <<>>
  BY DEF Moved, PutBack, Skipped
<1> HIDE DEF v, a, b, cur, p
<1>5. /\ Moved(c, n) \in Seq(Threads) /\ IsInjective(Moved(c, n)) /\ Range(Moved(c, n)) = Range(a) \ {cur}
  BY <1>3, <1>4, WithoutFacts
<1>6. /\ p \in Seq(Threads) /\ IsInjective(p) /\ Len(p) \in Nat
      /\ Range(p) = IF cur \in Range(a) THEN {cur} ELSE {}
  <2>1. <<>> \in Seq(Threads) /\ Range(<<>>) = {} /\ IsInjective(<<>>)
    BY <1>1, EmptyFacts
  <2>2. <<cur>> = Append(<<>>, cur)
    OBVIOUS
  <2>3. <<cur>> \in Seq(Threads) /\ Range(<<cur>>) = {cur} /\ IsInjective(<<cur>>)
    <3>1. Append(<<>>, cur) \in Seq(Threads) /\ Range(Append(<<>>, cur)) = {cur}
      <4>1. Append(<<>>, cur) \in Seq(Threads) /\ Range(Append(<<>>, cur)) = Range(<<>>) \cup {cur}
        BY <1>1, <2>1, AppendFacts, ZenonT(30)
      <4>2. QED
        BY <2>1, <4>1, Zenon
    <3>2. IsInjective(Append(<<>>, cur))
      BY <1>1, <2>1, AppendFacts, Zenon
    <3>3. QED
      BY <2>2, <3>1, <3>2
  <2>4. CASE cur \in Range(a)
    BY <1>4, <2>3, <2>4
  <2>5. CASE cur \notin Range(a)
    BY <1>4, <2>1, <2>5
  <2>6. QED
    BY <2>4, <2>5
<1>7. w = b \o p
  BY DEF b, p, v
<1>8. w \in Seq(Threads) /\ IsInjective(w) /\ Range(w) = Range(b) \cup Range(p) /\ Len(w) = Len(b) + Len(p)
  <2>1. Range(b) \cap Range(p) = {}
    BY <1>3, <1>6
  <2>2. QED
    <3>1. b \o p \in Seq(Threads) /\ Range(b \o p) = Range(b) \cup Range(p) /\ Len(b \o p) = Len(b) + Len(p)
      <4>1. b \in Seq(Threads) /\ p \in Seq(Threads)
        BY <1>3, <1>6
      <4>2. QED
        BY <4>1, ConcatFacts, ZenonT(30)
    <3>2. IsInjective(b \o p)
      BY <1>3, <1>6, <2>1, ConcatFacts
    <3>3. QED
      BY <1>7, <3>1, <3>2, Zenon
<1>9. mig[c].to_send - n <= Len(w)
  <2>1. \A x, y, z, k \in Nat : x <= y /\ k <= x => x - k <= (y - k) + z
    OBVIOUS
  <2>2. n <= mig[c].to_send
    BY <1>1
  <2>3. QED
    <3>1. Len(w) = (Len(v) - n) + Len(p)
      BY <1>3, <1>8
    <3>2. mig[c].to_send - n <= (Len(v) - n) + Len(p)
      BY <1>1, <1>2, <1>6, <2>1, <2>2
    <3>3. QED
      BY <3>1, <3>2
<1>10. QED
  BY <1>2, <1>3, <1>5, <1>6, <1>8, <1>9, Zenon DEF v, cur

\* A migrated thread is ready, so no CPU but this one can be on its stack, and
\* this one is not: curthread is put back.
LEMMA MigrateSendKeeps ==
  ASSUME Structure, NEW c \in Cpus, MigrateSend(c)
  PROVE  Structure'
<1> DEFINE d == mig[c].i
           Mig == [Cpus -> [i : Nat, my_count : Nat, total : Nat, to_send : Nat, victims : Seq(Threads)]]
<1>1. Types /\ Locks /\ Lists /\ ListsOf(c) /\ MigrationOf(c)
  BY DEF Structure, Lists
<1>2. /\ pc[c] = "send" /\ d < NumCpus
      /\ UNCHANGED <<c_curthread, c_isidle, c_zombies, c_runqueue_lock, t_state, t_context,
                     sem_count, sem_lock, sem_wchan, pc, target>>
  BY Zenon DEF MigrateSend, semvars
<1>3. mig \in Mig /\ d \in Nat /\ d \in Cpus
  <2>1. mig \in Mig /\ d \in Nat
    BY <1>1 DEF Types
  <2>2. \A n \in Nat : n < NumCpus => n \in Cpus
    BY CpuAssumption DEF Cpus
  <2>3. d < NumCpus
    BY <1>2
  <2>4. QED
    BY <2>1, <2>2, <2>3
<1>4. d + 1 \in Nat
  BY <1>3
<1>5. Locks'
  BY <1>1, <1>2, Zenon DEF Locks, LocksOf
<1>6. CASE mig' = [mig EXCEPT ![c].i = d + 1] /\ UNCHANGED <<c_runqueue, t_cpu, c_ipi>>
  <2>1. /\ mig' \in Mig /\ \A e \in Cpus : mig'[e].victims = mig[e].victims
        /\ mig'[c].to_send = mig[c].to_send /\ \A e \in Cpus \ {c} : mig'[e] = mig[e]
    BY <1>3, <1>4, <1>6, Zenon
  <2>2. Types'
    BY <1>1, <1>2, <1>6, <2>1, Zenon DEF Types
  <2>3. ASSUME NEW e \in Cpus PROVE ListsOf(e)' /\ MigrationOf(e)'
    <3>1. ListsOf(e) /\ MigrationOf(e)
      BY <1>1 DEF Lists
    <3>2. ListsOf(e)'
      BY <1>2, <1>6, <2>1, <3>1 DEF ListsOf
    <3>3. CASE e = c
      <4>1. /\ pc'[e] = "send" /\ mig'[e].victims = mig[e].victims /\ mig'[e].to_send = mig[e].to_send
            /\ pc[e] = "send"
        BY <1>2, <2>1, <3>3, Zenon
      <4>2. QED
        BY <3>1, <3>2, <4>1, Zenon DEF MigrationOf
    <3>4. CASE e # c
      <4>1. pc'[e] = pc[e] /\ mig'[e] = mig[e] /\ c_runqueue'[e] = c_runqueue[e]
        BY <1>2, <1>6, <2>1, <3>4
      <4>2. QED
        BY <3>1, <3>2, <4>1 DEF MigrationOf
    <3>5. QED
      BY <3>2, <3>3, <3>4
  <2>4. ASSUME NEW u \in Threads PROVE Sleeping(u)' /\ \A e \in Cpus : Whereabouts(u, e)'
    BY <1>1, <1>2, <1>6, <2>1 DEF Lists, Sleeping, Whereabouts
  <2>5. Lists'
    BY <1>1, <1>2, <2>3, <2>4 DEF Lists
  <2>6. QED
    BY <1>5, <2>2, <2>5 DEF Structure
<1>7. ASSUME d # c, NEW n \in 0 .. mig[c].to_send,
             c_runqueue' = [c_runqueue EXCEPT ![d] = @ \o Moved(c, n)],
             t_cpu' = [t \in Threads |-> IF t \in Range(Moved(c, n)) THEN d ELSE t_cpu[t]],
             c_ipi' = c_ipi \/ Unidle(c, d),
             mig' = [mig EXCEPT ![c].i = d + 1, ![c].to_send = @ - n,
                                ![c].victims = SubSeq(@, n + 1, Len(@)) \o PutBack(c, n)]
      PROVE  Structure'
  <2> DEFINE v == mig[c].victims
             m == Moved(c, n)
             w == SubSeq(v, n + 1, Len(v)) \o PutBack(c, n)
             q == c_runqueue[d]
             left == mig[c].to_send - n
  <2>1. /\ m \in Seq(Threads) /\ IsInjective(m) /\ w \in Seq(Threads) /\ IsInjective(w)
        /\ Range(v) = Range(m) \cup Range(w) /\ Range(m) \cap Range(w) = {}
        /\ c_curthread[c] \notin Range(m)
        /\ left \in Nat /\ left <= Len(w)
    <3>1. pc[c] = "send" /\ w = SubSeq(v, n + 1, Len(v)) \o PutBack(c, n)
      BY <1>2
    <3> HIDE DEF w
    <3>2. QED
      BY <1>7, <3>1, SplitVictims, ZenonT(30)
  <2>2. mig' = [mig EXCEPT ![c].i = d + 1, ![c].to_send = left, ![c].victims = w]
    BY <1>7
  <2> HIDE DEF m, w, left
  <2>3. /\ mig' \in Mig /\ mig'[c].to_send = left /\ mig'[c].victims = w
        /\ \A e \in Cpus \ {c} : mig'[e] = mig[e]
    BY <1>3, <1>4, <2>1, <2>2, Zenon
  <2>4. \A u \in Range(m) : u \in Threads /\ t_state[u] = "S_READY" /\ t_cpu[u] = c
    <3>1. \A u \in Range(m) : u \in Threads /\ u \in Range(v)
      BY <2>1, EmptyFacts
    <3>2. QED
      BY <1>1, <3>1, Zenon DEF Lists, Whereabouts
  <2>5. q \in Seq(Threads) /\ ListsOf(d)
    BY <1>1, <1>3, Zenon DEF Types, Lists
  <2>6. Range(q) \cap Range(m) = {} /\ Range(mig[d].victims) \cap Range(m) = {}
    <3>1. ASSUME NEW u \in Range(m) PROVE u \notin Range(c_runqueue[d]) \cup Range(mig[d].victims)
      <4>1. Whereabouts(u, d)
        BY <1>1, <1>3, <2>4, ZenonT(30) DEF Lists
      <4>2. QED
        BY <1>7, <2>4, <4>1 DEF Whereabouts
    <3>2. QED
      BY SMTT(30), <3>1
  <2>7. /\ q \o m \in Seq(Threads) /\ Range(q \o m) = Range(q) \cup Range(m) /\ IsInjective(q \o m)
        /\ Len(q \o m) = Len(q) + Len(m)
    BY <2>1, <2>5, <2>6, ConcatFacts DEF ListsOf
  <2>8. \A e \in Cpus : c_runqueue'[e] = IF e = d THEN q \o m ELSE c_runqueue[e]
    <3>1. c_runqueue \in [Cpus -> Seq(Threads)]
      BY <1>1 DEF Types
    <3>2. c_runqueue' = [c_runqueue EXCEPT ![d] = q \o m]
      BY <1>7 DEF m
    <3>3. QED
      BY <1>3, <3>1, <3>2
  <2>9. \A u \in Threads : t_cpu'[u] = IF u \in Range(m) THEN d ELSE t_cpu[u]
    BY <1>7 DEF m
  <2>10. Types'
    <3>1. c_runqueue' \in [Cpus -> Seq(Threads)]
      BY <1>1, <1>7, <2>7, ZenonT(40) DEF Types, m
    <3>2. t_cpu' \in [Threads -> Cpus \cup {Null}]
      BY <1>1, <1>3, <1>7, SMTT(20) DEF Types
    <3>3. c_ipi' \in [Cpus -> BOOLEAN]
      BY <1>1, <1>7, Zenon DEF Types, Unidle
    <3>4. QED
      BY <1>1, <1>2, <2>3, <3>1, <3>2, <3>3, Zenon DEF Types
  <2> HIDE DEF q, v
  <2>11. ASSUME NEW e \in Cpus PROVE ListsOf(e)' /\ MigrationOf(e)'
    <3>1. ListsOf(e) /\ MigrationOf(e) /\ c_zombies'[e] = c_zombies[e] /\ pc'[e] = pc[e]
      BY <1>1, <1>2, SMTT(20) DEF Lists
    <3>2. CASE e = c
      <4>1. c_runqueue'[e] = c_runqueue[c] /\ mig'[e].victims = w /\ mig'[e].to_send = left
        BY <1>7, <2>3, <2>8, <3>2, SMTT(20)
      <4>2. QED
        BY <1>2, <2>1, <3>1, <3>2, <4>1, SMTT(20) DEF ListsOf, MigrationOf, v
    <3>3. CASE e = d
      <4>1. c_runqueue'[e] = q \o m /\ mig'[e] = mig[d] /\ q = c_runqueue[d]
        BY <1>7, <2>3, <2>8, <3>3, Zenon DEF q
      <4>2. ListsOf(e)'
        BY <2>6, <2>7, <3>1, <3>3, <4>1, Zenon DEF ListsOf
      <4>3. MigrationOf(e)'
        <5>1. Len(q) \in Nat /\ Len(m) \in Nat /\ mig[d].my_count \in Nat
          BY <1>3, <2>1, <2>5, SMTT(20)
        <5>2. mig[d].my_count <= Len(q) => mig[d].my_count <= Len(q \o m)
          BY <2>7, <5>1
        <5>3. QED
          BY <3>1, <3>3, <4>1, <5>2, Zenon DEF MigrationOf
      <4>4. QED
        BY <4>2, <4>3
    <3>4. CASE e # c /\ e # d
      <4>1. c_runqueue'[e] = c_runqueue[e] /\ mig'[e] = mig[e]
        BY <2>3, <2>8, <3>4
      <4>2. QED
        BY <3>1, <4>1 DEF ListsOf, MigrationOf
    <3>5. QED
      BY <3>2, <3>3, <3>4
  <2>12. ASSUME NEW u \in Threads PROVE Sleeping(u)'
    BY <1>1, <1>2, <1>3, <2>9, Zenon DEF Lists, Sleeping
  <2>13. ASSUME NEW u \in Threads, NEW e \in Cpus PROVE Whereabouts(u, e)'
    <3>1. Whereabouts(u, e) /\ Whereabouts(u, c) /\ Whereabouts(u, d)
      BY <1>1, <1>3 DEF Lists
    <3>2. CASE u \in Range(m)
      <4>1. t_cpu'[u] = d /\ t_state[u] = "S_READY" /\ t_cpu[u] = c /\ u # c_curthread[c]
        BY <2>1, <2>4, <2>9, <3>2, SMTT(20)
      <4>2. c_curthread[e] # u
        BY <3>1, <4>1, SMTT(20) DEF Whereabouts
      <4>3. u \in Range(c_runqueue'[e]) \cup Range(mig'[e].victims) <=> e = d
        <5>1. CASE e = d
          BY SMTT(30), <2>7, <2>8, <3>2, <5>1
        <5>2. CASE e = c
          <6>1. u \notin Range(c_runqueue[c])
            BY SMTT(30), <1>1, <2>1, <3>2 DEF ListsOf, v
          <6>2. QED
            BY <1>7, <2>1, <2>3, <2>8, <3>2, <5>2, <6>1, ZenonT(30)
        <5>3. CASE e # d /\ e # c
          BY <2>3, <2>8, <3>1, <4>1, <5>3, Zenon DEF Whereabouts
        <5>4. QED
          BY SMTT(30), <5>1, <5>2, <5>3
      <4>4. QED
        BY <1>2, <3>1, <4>1, <4>2, <4>3, Zenon DEF Whereabouts
    <3>3. CASE u \notin Range(m)
      <4>1. t_cpu'[u] = t_cpu[u]
        BY <2>9, <3>3
      <4>2. u \in Range(c_runqueue'[e]) \cup Range(mig'[e].victims)
              <=> u \in Range(c_runqueue[e]) \cup Range(mig[e].victims)
        <5>1. u \in Range(c_runqueue'[e]) <=> u \in Range(c_runqueue[e])
          BY <2>7, <2>8, <3>3 DEF q
        <5>2. u \in Range(mig'[e].victims) <=> u \in Range(mig[e].victims)
          BY <2>1, <2>3, <3>3, Zenon DEF v
        <5>3. QED
          BY SMTT(30), <5>1, <5>2
      <4>3. QED
        BY <1>2, <3>1, <4>1, <4>2, Zenon DEF Whereabouts
    <3>4. QED
      BY <3>2, <3>3
  <2>14. Lists'
    BY <1>1, <1>2, <2>11, <2>12, <2>13, Zenon DEF Lists
  <2>15. QED
    BY <1>5, <2>10, <2>14 DEF Structure
<1>8. QED
  BY <1>6, <1>7, Zenon DEF MigrateSend

-----------------------------------------------------------------------------
\* Every step of every CPU keeps the invariant.
LEMMA StructureKept ==
  ASSUME Structure, [Next]_vars
  PROVE  Structure'
<1>1. CASE UNCHANGED vars
  <2>1. UNCHANGED <<c_curthread, c_runqueue, c_isidle, c_zombies, c_runqueue_lock, c_ipi,
                    t_state, t_cpu, t_context, sem_count, sem_lock, sem_wchan, pc, target, mig>>
    BY <1>1 DEF vars, cpuvars, threadvars, semvars
  <2>2. Types' /\ Locks'
    BY <2>1, Zenon DEF Structure, Types, Locks, LocksOf
  <2>3. Lists'
    BY <2>1, ZenonT(30) DEF Structure, Lists, ListsOf, MigrationOf, Sleeping, Whereabouts
  <2>4. QED
    BY SMTT(30), <2>1, <2>2, <2>3 DEF Structure
<1>2. ASSUME NEW c \in Cpus, Step(c) PROVE Structure'
  BY <1>2, PKeeps, VKeeps, WakeKeeps, SwitchReadyKeeps, SwitchSleepKeeps, SwitchZombieKeeps, PickNextKeeps,
     QuietStepsKeep, MigrateCountKeeps, MigrateNothingKeeps, MigrateTakeKeeps, MigrateSendKeeps, MigrateEndKeeps
  DEF Step
<1>3. QED
  BY SMTT(30), <1>1, <1>2, CallKeeps, QuietStepsKeep, thread_forkKeeps DEF Next

-----------------------------------------------------------------------------
\* CPUs about to do a V.
Posting == {c \in Cpus : pc[c] = "V"}
Counted == sem_count + Cardinality(Posting) <= MaxCount

\* The inductive invariant.
IInv == Structure /\ Counted

-----------------------------------------------------------------------------
\* A thread that is on no list has no index there, and one that is on a list
\* without repetitions has one.
LEMMA Indices ==
  ASSUME NEW s \in Seq(Threads), NEW t
  PROVE  /\ t \notin Range(s) => {j \in DOMAIN s : s[j] = t} = {}
         /\ t \in Range(s) /\ IsInjective(s) => \E i : {j \in DOMAIN s : s[j] = t} = {i}
<1>1. ASSUME t \in Range(s), IsInjective(s) PROVE \E i : {j \in DOMAIN s : s[j] = t} = {i}
  <2>1. PICK i \in DOMAIN s : s[i] = t
    BY <1>1 DEF Range
  <2>2. {j \in DOMAIN s : s[j] = t} = {i}
    BY <1>1, <2>1 DEF IsInjective
  <2>3. QED
    BY <2>2, Zenon
<1>2. QED
  BY SMTT(30), <1>1 DEF Range

\* A thread is in one place because its state and t_cpu name that place.
LEMMA OnePlaceHolds ==
  ASSUME Structure, NEW t \in Threads
  PROVE  Cardinality(Places(t)) = IF t_state[t] = "none" THEN 0 ELSE 1
<1> DEFINE Rn == {<<"running", c>> : c \in {d \in Cpus : c_curthread[d] = t /\ ~c_isidle[d]}}
           Wk == {<<"waking", c>> : c \in {d \in Cpus : target[d] = t}}
           Qc(c) == {<<"queue", c, i>> : i \in {j \in DOMAIN c_runqueue[c] : c_runqueue[c][j] = t}}
           Vc(c) == {<<"victims", c, i>> : i \in {j \in DOMAIN mig[c].victims : mig[c].victims[j] = t}}
           Zc(c) == {<<"zombies", c, i>> : i \in {j \in DOMAIN c_zombies[c] : c_zombies[c][j] = t}}
           Q == UNION {Qc(c) : c \in Cpus}
           V0 == UNION {Vc(c) : c \in Cpus}
           Z == UNION {Zc(c) : c \in Cpus}
           N == {<<"wchan", i>> : i \in {j \in DOMAIN sem_wchan : sem_wchan[j] = t}}
<1>1. Places(t) = Rn \cup Wk \cup Q \cup V0 \cup Z \cup N
  BY DEF Places
<1>2. /\ Sleeping(t) /\ IsInjective(sem_wchan) /\ sem_wchan \in Seq(Threads)
      /\ t_state[t] \in States
      /\ \A c \in Cpus : Whereabouts(t, c) /\ ListsOf(c) /\ LocksOf(c)
      /\ \A c \in Cpus : /\ c_runqueue[c] \in Seq(Threads) /\ c_zombies[c] \in Seq(Threads)
                         /\ mig[c].victims \in Seq(Threads)
  BY DEF Structure, Lists, Types, Locks
<1>3. t_state[t] # "S_RUN" => Rn = {}
  BY SMTT(30), <1>2 DEF Whereabouts
<1>4. t_state[t] # "S_SLEEP" => Wk = {} /\ N = {}
  BY SMTT(30), <1>2, Indices DEF Sleeping
<1>5. ASSUME NEW c \in Cpus PROVE /\ ~(t_state[t] = "S_READY" /\ t_cpu[t] = c) => Qc(c) = {} /\ Vc(c) = {}
                                  /\ ~(t_state[t] = "S_ZOMBIE" /\ t_cpu[t] = c) => Zc(c) = {}
  BY SMTT(30), <1>2, Indices DEF Whereabouts
<1>6. t_state[t] # "S_READY" => Q = {} /\ V0 = {}
  BY <1>5
<1>7. t_state[t] # "S_ZOMBIE" => Z = {}
  BY <1>5
<1> HIDE DEF Rn, Wk, Qc, Vc, Zc, Q, V0, Z, N
<1>8. ASSUME t_state[t] # "none" PROVE \E x : Places(t) = {x}
  <2>0. t_cpu[t] \in Cpus
    BY <1>2, <1>8 DEF Sleeping
  <2>1. CASE t_state[t] = "S_RUN"
    <3>1. Rn = {<<"running", t_cpu[t]>>}
      BY SMTT(30), <1>2, <2>0, <2>1 DEF Whereabouts, Rn
    <3>2. QED
      BY <1>1, <1>4, <1>6, <1>7, <2>1, <3>1, Zenon
  <2>2. CASE t_state[t] = "S_READY"
    <3> DEFINE c == t_cpu[t]
    <3>1. \A d \in Cpus \ {c} : Qc(d) = {} /\ Vc(d) = {}
      BY <1>5
    <3>2. Q = Qc(c) /\ V0 = Vc(c)
      BY <2>0, <3>1 DEF Q, V0
    <3>3. \E x : Qc(c) \cup Vc(c) = {x}
      <4>1. CASE t \in Range(c_runqueue[c])
        <5>1. t \notin Range(mig[c].victims)
          BY <1>2, <2>0, <4>1, Zenon DEF ListsOf
        <5>2. Vc(c) = {}
          BY SMTT(30), <1>2, <2>0, <5>1, Indices DEF Vc
        <5>3. PICK i : {j \in DOMAIN c_runqueue[c] : c_runqueue[c][j] = t} = {i}
          BY <1>2, <2>0, <4>1, Indices, Zenon DEF ListsOf
        <5>4. Qc(c) = {<<"queue", c, i>>}
          BY <5>3 DEF Qc
        <5>5. QED
          BY <5>2, <5>4, Zenon
      <4>2. CASE t \notin Range(c_runqueue[c])
        <5>1. t \in Range(mig[c].victims)
          BY SMTT(30), <1>2, <2>0, <2>2, <4>2 DEF Whereabouts
        <5>2. Qc(c) = {}
          BY <1>2, <2>0, <4>2, Indices DEF Qc
        <5>3. PICK i : {j \in DOMAIN mig[c].victims : mig[c].victims[j] = t} = {i}
          BY <1>2, <2>0, <5>1, Indices, Zenon DEF ListsOf
        <5>4. Vc(c) = {<<"victims", c, i>>}
          BY <5>3 DEF Vc
        <5>5. QED
          BY <5>2, <5>4, Zenon
      <4>3. QED
        BY <4>1, <4>2, Zenon
    <3>4. QED
      BY SMTT(30), <1>1, <1>3, <1>4, <1>7, <2>2, <3>2, <3>3
  <2>3. CASE t_state[t] = "S_SLEEP"
    <3>1. CASE t \in Range(sem_wchan)
      <4>1. Wk = {}
        BY <1>2, <3>1 DEF Sleeping, Wk
      <4>2. PICK i : {j \in DOMAIN sem_wchan : sem_wchan[j] = t} = {i}
        BY <1>2, <3>1, Indices, Zenon
      <4>3. N = {<<"wchan", i>>}
        BY <4>2 DEF N
      <4>4. QED
        BY <1>1, <1>3, <1>6, <1>7, <2>3, <4>1, <4>3, ZenonT(40)
    <3>2. CASE t \notin Range(sem_wchan)
      <4>1. N = {}
        BY SMTT(30), <1>2, <3>2, Indices DEF N
      <4>2. PICK c \in Cpus : target[c] = t
        BY SMTT(30), <1>2, <2>3, <3>2 DEF Sleeping
      <4>3. ASSUME NEW d \in Cpus, target[d] = t PROVE d = c
        BY SMTT(30), <1>2, <4>2, <4>3, ThreadAssumption DEF LocksOf
      <4>4. Wk = {<<"waking", c>>}
        BY <4>2, <4>3 DEF Wk
      <4>5. QED
        BY <1>1, <1>3, <1>6, <1>7, <2>3, <4>1, <4>4, Zenon
    <3>3. QED
      BY <3>1, <3>2
  <2>4. CASE t_state[t] = "S_ZOMBIE"
    <3> DEFINE c == t_cpu[t]
    <3>1. \A d \in Cpus \ {c} : Zc(d) = {}
      BY <1>5
    <3>2. Z = Zc(c)
      BY <2>0, <3>1 DEF Z
    <3>3. t \in Range(c_zombies[c])
      BY <1>2, <2>0, <2>4 DEF Whereabouts
    <3>4. PICK i : {j \in DOMAIN c_zombies[c] : c_zombies[c][j] = t} = {i}
      BY <1>2, <2>0, <3>3, Indices, Zenon DEF ListsOf
    <3>5. Zc(c) = {<<"zombies", c, i>>}
      BY <3>4 DEF Zc
    <3>6. QED
      BY <1>1, <1>3, <1>4, <1>6, <2>4, <3>2, <3>5, Zenon
  <2>5. QED
    BY <1>2, <1>8, <2>1, <2>2, <2>3, <2>4, ZenonT(40) DEF States
<1>9. CASE t_state[t] = "none"
  <2>1. Places(t) = {}
    BY SMTT(30), <1>1, <1>3, <1>4, <1>6, <1>7, <1>9
  <2>2. QED
    BY <1>9, <2>1, FS_EmptySet
<1>10. CASE t_state[t] # "none"
  BY SMTT(30), <1>8, <1>10, FS_Singleton
<1>11. QED
  BY SMTT(30), <1>9, <1>10

\* There are finitely many CPUs.
LEMMA PostingFinite == IsFiniteSet(Posting) /\ Cardinality(Posting) \in Nat
<1>1. IsFiniteSet(Cpus)
  BY FS_Interval, CpuAssumption DEF Cpus
<1>2. IsFiniteSet(Posting)
  BY <1>1, FS_Subset DEF Posting
<1>3. QED
  BY <1>2, FS_CardinalityType

\* The invariant is as strong as the property.
LEMMA Sufficient ==
  ASSUME IInv
  PROVE  ThreadsKept
<1>1. Structure /\ Types /\ Locks /\ Lists /\ Counted
  BY DEF IInv, Structure
<1>2. TypeOK
  <2>1. ASSUME NEW c \in Cpus PROVE Range(c_runqueue[c]) \cup Range(c_zombies[c]) \subseteq Threads
    <3>1. c_runqueue[c] \in Seq(Threads) /\ c_zombies[c] \in Seq(Threads)
      BY SMTT(30), <1>1 DEF Types
    <3>2. QED
      BY SMTT(30), <3>1, EmptyFacts
  <2>2. \A c \in Cpus : c_runqueue_lock[c] \in {c, Null}
    BY <1>1 DEF Locks, LocksOf
  <2>3. sem_count \in 0 .. MaxCount
    <3>2. Cardinality(Posting) \in Nat
      BY PostingFinite
    <3>3. sem_count \in Nat /\ sem_count + Cardinality(Posting) <= MaxCount
      BY <1>1 DEF Types, Counted
    <3>4. QED
      BY SMTT(30), <3>2, <3>3, CountAssumption
  <2>4. QED
    BY SMTT(30), <1>1, <2>1, <2>2, <2>3 DEF Types, TypeOK, States, Labels
<1>3. OnePlace
  BY <1>1, OnePlaceHolds DEF OnePlace
<1>4. StacksExclusive
  <2>1. ASSUME NEW c \in Cpus
        PROVE  LET cur == c_curthread[c]
               IN  /\ t_state[cur] # "none" /\ t_cpu[cur] = c
                   /\ \A d \in Cpus \ {c} : /\ c_curthread[d] # cur
                                            /\ cur \notin Range(c_runqueue[d])
                                            /\ cur \notin Range(mig[d].victims)
    <3> DEFINE cur == c_curthread[c]
    <3>1. cur \in Threads /\ \A d \in Cpus : Whereabouts(cur, d)
      BY <1>1 DEF Types, Lists
    <3>2. QED
      BY <3>1 DEF Whereabouts
  <2>2. QED
    BY SMTT(30), <2>1 DEF StacksExclusive
<1>5. MigrationInBounds
  BY <1>1 DEF MigrationInBounds, Lists, MigrationOf
<1>6. QED
  BY SMTT(30), <1>2, <1>3, <1>4, <1>5 DEF ThreadsKept

-----------------------------------------------------------------------------
\* The CPUs in V are the same when a CPU that is not goes on to something else.
LEMMA CountedSame ==
  ASSUME Types, Counted, NEW c \in Cpus, NEW l, pc' = [pc EXCEPT ![c] = l], pc[c] # "V", l # "V",
         sem_count' \in Nat, sem_count' <= sem_count
  PROVE  Counted'
<1>1. pc \in [Cpus -> Labels] /\ sem_count \in Nat
  BY DEF Types
<1>2. Posting' = Posting
  BY <1>1 DEF Posting
<1>3. QED
  BY <1>1, <1>2, PostingFinite, CountAssumption DEF Counted

\* Only Call puts a CPU in V, and V adds the one unit that was accounted for.
LEMMA CountedKept ==
  ASSUME Structure, Counted, [Next]_vars
  PROVE  Counted'
<1>1. Types /\ pc \in [Cpus -> Labels] /\ sem_count \in Nat /\ t_context \in [Threads -> {"run", "P"}]
  BY SMTT(30) DEF Structure, Types
<1>2. CASE UNCHANGED <<pc, sem_count>>
  BY <1>2 DEF Counted, Posting
<1>3. ASSUME NEW c \in Cpus, Call(c) PROVE Counted'
  <2>1. sem_count' = sem_count
    BY <1>3 DEF Call, semvars
  <2>2. ASSUME NEW op \in {"P", "yield", "exit"}, pc[c] = "run", pc' = [pc EXCEPT ![c] = op] PROVE Counted'
    <3>1. pc[c] # "V" /\ op # "V" /\ sem_count' \in Nat /\ sem_count' <= sem_count
      BY <1>1, <2>1, <2>2
    <3>2. QED
      BY <1>1, <2>2, <3>1, CountedSame, Zenon
  <2>3. CASE /\ pc[c] \in {"run", "idle"} /\ pc' = [pc EXCEPT ![c] = "V"]
             /\ sem_count + Cardinality({d \in Cpus : pc[d] = "V"}) < MaxCount
    <3>1. Posting' = Posting \cup {c} /\ c \notin Posting
      BY <1>1, <2>3 DEF Posting
    <3>2. Cardinality(Posting') = Cardinality(Posting) + 1
      BY SMTT(30), <3>1, PostingFinite, FS_AddElement
    <3>3. sem_count + Cardinality(Posting) < MaxCount
      BY <2>3 DEF Posting
    <3>4. QED
      BY SMTT(30), <1>1, <2>1, <3>2, <3>3, PostingFinite, CountAssumption DEF Counted
  <2>4. QED
    BY SMTT(30), <1>3, <2>2, <2>3 DEF Call
<1>4. ASSUME NEW c \in Cpus, V(c) PROVE Counted'
  <2>1. PICK l \in Labels \ {"V"} : pc' = [pc EXCEPT ![c] = l]
    BY <1>4, Zenon DEF V, Resume, Labels
  <2>2. sem_count' = sem_count + 1 /\ pc[c] = "V"
    BY <1>4 DEF V
  <2>3. Posting' = Posting \ {c} /\ c \in Posting
    BY <1>1, <2>1, <2>2 DEF Posting
  <2>4. Cardinality(Posting') = Cardinality(Posting) - 1
    BY <2>3, PostingFinite, FS_RemoveElement, Zenon
  <2>5. \A x, y, z \in Nat : x + y <= z => x + 1 + (y - 1) <= z
    OBVIOUS
  <2>6. QED
    BY SMTT(30), <1>1, <2>2, <2>4, <2>5, PostingFinite, CountAssumption DEF Counted
<1>5. ASSUME NEW c \in Cpus, NEW l \in Labels \ {"V"}, pc' = [pc EXCEPT ![c] = l], pc[c] # "V",
             sem_count' = sem_count \/ (sem_count > 0 /\ sem_count' = sem_count - 1)
      PROVE  Counted'
  <2>1. sem_count' \in Nat /\ sem_count' <= sem_count
    BY <1>1, <1>5
  <2>2. QED
    BY <1>1, <1>5, <2>1, CountedSame, Zenon
<1>6. ASSUME NEW c \in Cpus, Step(c) \/ hardclock(c), ~V(c), ~UNCHANGED pc
      PROVE  /\ \E l \in Labels \ {"V"} : pc' = [pc EXCEPT ![c] = l]
             /\ pc[c] # "V" /\ (sem_count' = sem_count \/ (sem_count > 0 /\ sem_count' = sem_count - 1))
  <2> DEFINE G == /\ \E l \in Labels \ {"V"} : pc' = [pc EXCEPT ![c] = l]
                  /\ pc[c] # "V" /\ (sem_count' = sem_count \/ (sem_count > 0 /\ sem_count' = sem_count - 1))
  <2>1. P(c) => G
    BY Zenon DEF P, Labels
  <2>2. Wake(c) => G
    BY Zenon DEF Wake, Resume, Labels
  <2>3. YieldNothing(c) => G
    BY Zenon DEF YieldNothing, semvars, Labels
  <2>4. SwitchReady(c) => G
    BY Zenon DEF SwitchReady, semvars, Labels
  <2>5. SwitchSleep(c) => G
    BY Zenon DEF SwitchSleep, Labels
  <2>6. SwitchZombie(c) => G
    BY Zenon DEF SwitchZombie, semvars, Labels
  <2>7. PickNone(c) => G
    BY Zenon DEF PickNone, semvars, Labels
  <2>8. PickNext(c) => G
    <3>1. ASSUME PickNext(c) PROVE t_context[Head(c_runqueue[c])] \in {"run", "P"}
      <4>1. c_runqueue[c] \in Seq(Threads) /\ c_runqueue[c] # <<>>
        BY <1>1, <3>1 DEF Types, PickNext
      <4>2. Head(c_runqueue[c]) \in Threads
        BY <4>1
      <4>3. QED
        BY <1>1, <4>2
    <3>2. QED
      BY <3>1, Zenon DEF PickNext, semvars, Labels
  <2>9. Reacquire(c) => G
    BY Zenon DEF Reacquire, semvars, Labels
  <2>10. interprocessor_interrupt(c) => G
    BY Zenon DEF interprocessor_interrupt, semvars, Labels
  <2>11. lamebus_clear_ipi(c) => G
    BY ZenonT(30) DEF lamebus_clear_ipi, Resume, semvars, Labels
  <2>12. ~MigrateCount(c) /\ ~MigrateSend(c)
    BY <1>6, Zenon DEF MigrateCount, MigrateSend
  <2>13. MigrateNothing(c) => G
    BY Zenon DEF MigrateNothing, AfterMigration, semvars, Labels
  <2>14. MigrateTake(c) => G
    BY Zenon DEF MigrateTake, semvars, Labels
  <2>15. MigrateEnd(c) => G
    BY Zenon DEF MigrateEnd, AfterMigration, semvars, Labels
  <2>16. hardclock(c) => G
    BY Zenon DEF hardclock, AfterMigration, semvars, Labels
  <2> HIDE DEF G
  <2>17. G
    BY Zenon, <1>6, <2>1, <2>2, <2>3, <2>4, <2>5, <2>6, <2>7, <2>8, <2>9, <2>10, <2>11, <2>12, <2>13, <2>14, <2>15,
       <2>16, Zenon DEF Step
  <2>18. QED
    BY <2>17, Zenon DEF G
<1>7. ASSUME NEW c \in Cpus, Step(c) \/ hardclock(c), ~V(c), UNCHANGED pc PROVE UNCHANGED <<pc, sem_count>>
  <2>1. ASSUME NEW l, pc[c] # l PROVE pc # [pc EXCEPT ![c] = l]
    BY <1>1, <2>1
  <2>2. P(c) => FALSE
    BY <1>7, <2>1 DEF P
  <2>3. QED
    BY <1>7, <2>2, Zenon DEF Step, Wake, YieldNothing, SwitchReady, SwitchSleep, SwitchZombie, PickNone, PickNext,
       Reacquire, interprocessor_interrupt, lamebus_clear_ipi, MigrateCount, MigrateNothing, MigrateTake,
       MigrateSend, MigrateEnd, hardclock, semvars
<1>8. ASSUME NEW c \in Cpus, Step(c) \/ hardclock(c) PROVE Counted'
  BY <1>2, <1>4, <1>5, <1>6, <1>7, <1>8, ZenonT(40)
<1>9. ASSUME NEW c \in Cpus, NEW t \in Threads, thread_fork(c, t) PROVE Counted'
  BY <1>2, <1>9 DEF thread_fork, semvars
<1>10. CASE UNCHANGED vars
  BY <1>2, <1>10 DEF vars, semvars
<1>11. QED
  BY SMTT(30), <1>3, <1>8, <1>9, <1>10 DEF Next

\* No unit is there and no CPU in V at the start.
LEMMA CountedInit ==
  ASSUME Init
  PROVE  Counted
<1>1. sem_count = 0 /\ pc = [c \in Cpus |-> "run"]
  BY DEF Init
<1>2. Posting = {}
  BY <1>1 DEF Posting
<1>3. Cardinality(Posting) = 0
  BY <1>2, FS_EmptySet
<1>4. QED
  BY <1>1, <1>3, CountAssumption DEF Counted

\* For any number of CPUs and threads no thread is ever lost or in two places,
\* no stack is used by two CPUs or freed under one, and a migration takes no more
\* threads than there are.
THEOREM ThreadsKeptAlways == Spec => []ThreadsKept
<1>1. Init => IInv
  BY StructureInit, CountedInit DEF IInv
<1>2. IInv /\ [Next]_vars => IInv'
  BY StructureKept, CountedKept DEF IInv
<1>3. IInv => ThreadsKept
  BY Sufficient
<1>4. QED
  BY <1>1, <1>2, <1>3, PTL DEF Spec
=============================================================================
