------------------------------ MODULE CpuProof ------------------------------
(***************************************************************************)
(* Proofs about Spinlock for any number of CPUs and any finite set of      *)
(* locks.  Ownership relates the lock words, the holder fields and what    *)
(* hangman has recorded to where each CPU is in the code; from it follow   *)
(* mutual exclusion, the count, and the two halves of hangman's            *)
(* correctness.                                                            *)
(***************************************************************************)
EXTENDS Spinlock, Ipi, FiniteSetTheorems, TLAPS

Acquiring(c) == pc[c] \in {"spin", "got", "held"}

Control ==
  \A c \in Cpus :
    /\ pc[c] # "panic"
    /\ arg[c] = Null <=> pc[c] = "run"
    /\ arg[c] \notin held[c]
    /\ a_waiting[c] = IF Acquiring(c) THEN arg[c] ELSE Null

Ownership ==
  \A l \in Spinlocks : \A c \in Cpus :
    /\ Owns(c, l) => splk_lock[l] /\ \A d \in Cpus : Owns(d, l) => c = d
    /\ splk_holder[l] = c <=> l \in held[c] \/ (arg[c] = l /\ pc[c] \in {"held", "drop"})
    /\ l_holding[l] = c <=> l \in held[c]

\* The inductive invariant.
IInv ==
  /\ TypeOK
  /\ SpinlockCount
  /\ panic = "none" => Control /\ Ownership

\* The initial state: no lock is taken and hangman's record is empty.
LEMMA InitIInv == Init => IInv
  BY NullAssumption, FS_EmptySet
     DEF Init, IInv, TypeOK, Control, Ownership, Owns, Acquiring, SpinlockCount

\* What an acquire that gets as far as the spin loop has written, and that the
\* only panics it can meet are the two for a deadlock.
LEMMA BeginAcquireEffect ==
  ASSUME NEW c \in Cpus, NEW l \in Spinlocks, TypeOK, Control, BeginAcquire(c, l)
  PROVE  /\ panic' \in {"own lock", "deadlock", "none"}
         /\ c_spinlocks' \in [Cpus -> Nat]
         /\ panic' = "own lock" => splk_holder[l] = c
         /\ panic' = "deadlock" => hangman_check(l, c)
         /\ panic' = "none" =>
              /\ splk_holder[l] # c /\ ~hangman_check(l, c)
              /\ c_spinlocks' = [c_spinlocks EXCEPT ![c] = @ + 1]
              /\ pc' = [pc EXCEPT ![c] = "spin"]
              /\ a_waiting' = [a_waiting EXCEPT ![c] = l]
         /\ panic' # "none" =>
              pc' = [pc EXCEPT ![c] = "panic"] /\ a_waiting' = a_waiting
<1>1. a_waiting[c] = Null
  BY Zenon DEF Control, Acquiring, BeginAcquire
<1>2. hangman_wait(c, l) = IF hangman_check(l, c) THEN "deadlock" ELSE "none"
  BY <1>1 DEF hangman_wait
<1>3. CASE splk_holder[l] = c
  <2>1. panic' = "own lock" /\ c_spinlocks' = c_spinlocks
    BY <1>3, Zenon DEF BeginAcquire
  <2>2. QED
    BY <1>3, <2>1, Zenon DEF BeginAcquire, TypeOK
<1>4. CASE splk_holder[l] # c
  <2>1. /\ panic' = hangman_wait(c, l)
        /\ c_spinlocks' = [c_spinlocks EXCEPT ![c] = @ + 1]
    BY <1>4 DEF BeginAcquire
  <2>2. c_spinlocks \in [Cpus -> Nat]
    BY Zenon DEF TypeOK
  <2>3. c_spinlocks' \in [Cpus -> Nat]
    BY <2>1, <2>2
  <2>4. QED
    BY <1>2, <1>4, <2>1, <2>3 DEF BeginAcquire
<1>5. QED
  BY <1>3, <1>4, Zenon

\* The registration at the end of an acquire never panics.
LEMMA EndAcquireEffect ==
  ASSUME NEW c \in Cpus, TypeOK, Control, Ownership, EndAcquire(c)
  PROVE  /\ panic' = "none" /\ arg[c] \in Spinlocks
         /\ l_holding' = [l_holding EXCEPT ![arg[c]] = c]
         /\ a_waiting' = [a_waiting EXCEPT ![c] = Null]
         /\ held' = [held EXCEPT ![c] = @ \cup {arg[c]}]
         /\ pc' = [pc EXCEPT ![c] = "run"]
         /\ arg' = [arg EXCEPT ![c] = Null]
<1>1. pc[c] = "held" /\ arg[c] \in Spinlocks /\ a_waiting[c] = arg[c]
  BY DEF TypeOK, Control, Acquiring, EndAcquire
<1>2. Owns(c, arg[c]) /\ arg[c] \notin held[c]
  BY <1>1 DEF Owns, Control
<1>3. ASSUME NEW d \in Cpus PROVE arg[c] \notin held[d]
  BY <1>1, <1>2 DEF Ownership, Owns
<1>4. l_holding[arg[c]] = Null
  <2>1. l_holding[arg[c]] \in Cpus \cup {Null}
    BY <1>1, Zenon DEF TypeOK
  <2>2. QED
    BY <1>1, <1>3, <2>1 DEF Ownership
<1>5. panic' = "none"
  BY <1>1, <1>4 DEF EndAcquire, hangman_acquire
<1>6. QED
  BY <1>1, <1>5 DEF EndAcquire

\* The assertions of a release and hangman's own checks never fail.  The count
\* is positive because the released lock is one of those it counts.
LEMMA BeginReleaseEffect ==
  ASSUME NEW c \in Cpus, NEW l \in Spinlocks, TypeOK, Control, Ownership,
         c_spinlocks[c] # 0, BeginRelease(c, l)
  PROVE  /\ panic' = "none" /\ c_spinlocks' \in [Cpus -> Nat]
         /\ c_spinlocks' = [c_spinlocks EXCEPT ![c] = @ - 1]
         /\ l_holding' = [l_holding EXCEPT ![l] = Null]
         /\ held' = [held EXCEPT ![c] = @ \ {l}]
         /\ pc' = [pc EXCEPT ![c] = "drop"]
         /\ arg' = [arg EXCEPT ![c] = l]
<1>1. l \in held[c] /\ a_waiting[c] = Null
  BY DEF TypeOK, Control, Acquiring, BeginRelease
<1>2. splk_holder[l] = c /\ l_holding[l] = c
  BY <1>1 DEF Ownership
<1>3. hangman_release(c, l) = "none"
  BY <1>1, <1>2 DEF hangman_release
<1>4. panic' = "none"
  BY <1>2, <1>3 DEF BeginRelease
<1>5. c_spinlocks' = [c_spinlocks EXCEPT ![c] = @ - 1]
  BY <1>4 DEF BeginRelease
<1>6. c_spinlocks' \in [Cpus -> Nat]
  <2>1. c_spinlocks \in [Cpus -> Nat]
    BY Zenon DEF TypeOK
  <2>2. QED
    BY <1>5, <2>1
<1>7. QED
  BY <1>4, <1>5, <1>6 DEF BeginRelease

-----------------------------------------------------------------------------
\* The set of locks a CPU is inside is finite, so its cardinality is a number,
\* positive when the set has an element.
LEMMA HeldFinite ==
  ASSUME NEW c \in Cpus, TypeOK
  PROVE  /\ IsFiniteSet(held[c]) /\ Cardinality(held[c]) \in Nat
         /\ \A l \in held[c] : Cardinality(held[c]) # 0
<1>1. IsFiniteSet(held[c])
  BY FiniteAssumption, FS_Subset, Zenon DEF TypeOK
<1>2. QED
  BY <1>1, FS_CardinalityType, FS_EmptySet

\* BeginAcquire preserves the invariant.
LEMMA BeginAcquireIInv ==
  ASSUME NEW c \in Cpus, NEW l \in Spinlocks, IInv, BeginAcquire(c, l)
  PROVE  IInv'
<1> DEFINE same == /\ splk_lock' = splk_lock /\ splk_holder' = splk_holder
                   /\ l_holding' = l_holding /\ held' = held
                   /\ arg' = [arg EXCEPT ![c] = l]
<1>1. TypeOK /\ Control /\ Ownership /\ pc[c] = "run" /\ same
  BY Zenon DEF IInv, BeginAcquire
<1>2. TypeOK'
  <2>1. panic' \in {"own lock", "deadlock", "none"} /\ c_spinlocks' \in [Cpus -> Nat]
    BY <1>1, BeginAcquireEffect, Zenon
  <2>2. \/ pc' = [pc EXCEPT ![c] = "spin"] /\ a_waiting' = [a_waiting EXCEPT ![c] = l]
        \/ pc' = [pc EXCEPT ![c] = "panic"] /\ a_waiting' = a_waiting
    BY <1>1, BeginAcquireEffect, Zenon
  <2>3. QED
    BY <1>1, <2>1, <2>2, Zenon DEF TypeOK
<1>3. ASSUME panic' = "none" PROVE Control' /\ Ownership' /\ SpinlockCount'
  <2>1. /\ splk_holder[l] # c
        /\ pc' = [pc EXCEPT ![c] = "spin"]
        /\ a_waiting' = [a_waiting EXCEPT ![c] = l]
        /\ c_spinlocks' = [c_spinlocks EXCEPT ![c] = @ + 1]
    BY <1>1, <1>3, BeginAcquireEffect
  <2>2. l \notin held[c]
    BY <1>1, <2>1 DEF Ownership
  <2>3. Control'
    BY <1>1, <2>1, <2>2, NullAssumption, Zenon DEF TypeOK, Control, Acquiring
  <2>4. Ownership'
    <3>1. \A d \in Cpus, m \in Spinlocks : Owns(d, m)' <=> Owns(d, m)
      BY <1>1, <2>1, NullAssumption, Zenon DEF TypeOK, Control, Owns
    <3>2. \A d \in Cpus, m \in Spinlocks :
            (arg[d] = m /\ pc[d] \in {"held", "drop"})' <=>
              arg[d] = m /\ pc[d] \in {"held", "drop"}
      BY <1>1, <2>1, NullAssumption, Zenon DEF TypeOK, Control
    <3>3. QED
      BY <1>1, <3>1, <3>2 DEF Ownership
  <2>5. SpinlockCount'
    <3> SUFFICES ASSUME NEW d \in Cpus
                 PROVE  c_spinlocks'[d] = Cardinality(held'[d]) +
                          IF pc'[d] \in {"spin", "got", "held"} THEN 1 ELSE 0
      BY DEF SpinlockCount
    <3>1. /\ c_spinlocks \in [Cpus -> Nat] /\ pc[c] = "run"
          /\ pc \in [Cpus -> {"run", "spin", "got", "held", "drop", "clear", "panic"}]
      BY <1>1, Zenon DEF TypeOK
    <3>2. c_spinlocks[d] = Cardinality(held[d]) +
                             IF pc[d] \in {"spin", "got", "held"} THEN 1 ELSE 0
      BY Zenon DEF IInv, SpinlockCount, BeginAcquire
    <3>3. Cardinality(held[d]) \in Nat
      BY <1>1, HeldFinite
    <3>4. CASE d = c
      BY <1>1, <2>1, <3>1, <3>2, <3>3, <3>4
    <3>5. CASE d # c
      BY <1>1, <2>1, <3>1, <3>2, <3>5
    <3>6. QED
      BY <3>4, <3>5
  <2>6. QED
    BY <2>3, <2>4, <2>5
<1>4. QED
  BY <1>2, <1>3 DEF IInv, SpinlockCount

\* A step that leaves the count, the critical sections and who is acquiring
\* alone preserves SpinlockCount.
LEMMA CountKept ==
  ASSUME SpinlockCount, panic = "none", c_spinlocks' = c_spinlocks, held' = held,
         \A d \in Cpus : Acquiring(d)' <=> Acquiring(d)
  PROVE  SpinlockCount'
  BY DEF SpinlockCount, Acquiring

\* TestAndSet preserves the invariant: a clear word has no owner.
LEMMA TestAndSetIInv ==
  ASSUME NEW c \in Cpus, IInv, TestAndSet(c)
  PROVE  IInv'
<1>1. TypeOK /\ Control /\ Ownership /\ SpinlockCount /\ panic = "none" /\ panic' = "none"
  BY DEF IInv, TestAndSet
<1>2. pc[c] = "spin" /\ arg[c] \in Spinlocks /\ pc' = [pc EXCEPT ![c] = "got"]
  BY <1>1 DEF TypeOK, Control, TestAndSet
<1>3. TypeOK'
  BY <1>1, <1>2 DEF TypeOK, TestAndSet
<1>4. Control'
  BY <1>1, <1>2 DEF TypeOK, Control, Acquiring, TestAndSet
<1>5. SpinlockCount'
  <2>1. \A d \in Cpus : Acquiring(d)' <=> Acquiring(d)
    BY <1>1, <1>2 DEF TypeOK, Acquiring
  <2>2. QED
    BY <1>1, <2>1, CountKept DEF TestAndSet
<1>6. Ownership'
  <2>1. \A d \in Cpus : ~Owns(d, arg[c])
    BY <1>1, <1>2 DEF Ownership, TestAndSet
  <2>2. \A d \in Cpus, m \in Spinlocks :
          Owns(d, m)' <=> Owns(d, m) \/ (d = c /\ m = arg[c])
    BY <1>1, <1>2 DEF TypeOK, Owns, TestAndSet
  <2>3. \A d \in Cpus, m \in Spinlocks :
          (arg[d] = m /\ pc[d] \in {"held", "drop"})' <=>
            arg[d] = m /\ pc[d] \in {"held", "drop"}
    BY <1>1, <1>2 DEF TypeOK, TestAndSet
  <2>4. splk_lock' = [splk_lock EXCEPT ![arg[c]] = TRUE]
    BY DEF TestAndSet
  <2>5. ASSUME NEW d \in Cpus, NEW m \in Spinlocks, Owns(d, m)'
        PROVE  splk_lock'[m] /\ \A e \in Cpus : Owns(e, m)' => d = e
    BY <1>1, <1>2, <2>1, <2>2, <2>4, <2>5 DEF TypeOK, Ownership
  <2>6. splk_holder' = splk_holder /\ l_holding' = l_holding /\ held' = held
    BY DEF TestAndSet
  <2>7. QED
    BY <1>1, <2>3, <2>5, <2>6 DEF Ownership
<1>7. QED
  BY <1>1, <1>3, <1>4, <1>5, <1>6 DEF IInv

\* SetHolder preserves the invariant: it writes the field of a lock it owns.
LEMMA SetHolderIInv ==
  ASSUME NEW c \in Cpus, IInv, SetHolder(c)
  PROVE  IInv'
<1>1. TypeOK /\ Control /\ Ownership /\ SpinlockCount /\ panic = "none" /\ panic' = "none"
  BY DEF IInv, SetHolder
<1>2. pc[c] = "got" /\ arg[c] \in Spinlocks /\ pc' = [pc EXCEPT ![c] = "held"]
  BY <1>1 DEF TypeOK, Control, SetHolder
<1>3. TypeOK'
  BY <1>1, <1>2 DEF TypeOK, SetHolder
<1>4. Control'
  BY <1>1, <1>2 DEF TypeOK, Control, Acquiring, SetHolder
<1>5. SpinlockCount'
  <2>1. \A d \in Cpus : Acquiring(d)' <=> Acquiring(d)
    BY <1>1, <1>2 DEF TypeOK, Acquiring
  <2>2. QED
    BY <1>1, <2>1, CountKept DEF SetHolder
<1>6. Ownership'
  <2>1. \A d \in Cpus, m \in Spinlocks : Owns(d, m)' <=> Owns(d, m)
    BY <1>1, <1>2 DEF TypeOK, Owns, SetHolder
  <2>2. Owns(c, arg[c])
    BY <1>2 DEF Owns
  <2>3. \A d \in Cpus : d # c => ~Owns(d, arg[c])
    BY <1>1, <1>2, <2>2 DEF Ownership
  <2>4. /\ splk_holder' = [splk_holder EXCEPT ![arg[c]] = c]
        /\ splk_lock' = splk_lock /\ l_holding' = l_holding /\ held' = held /\ arg' = arg
    BY DEF SetHolder
  <2>5. ASSUME NEW m \in Spinlocks, NEW d \in Cpus
        PROVE  splk_holder'[m] = d <=> m \in held'[d] \/ (arg'[d] = m /\ pc'[d] \in {"held", "drop"})
    <3>1. CASE m = arg[c]
      BY <1>1, <1>2, <2>3, <2>4, <3>1 DEF TypeOK, Owns
    <3>2. CASE m # arg[c]
      BY <1>1, <1>2, <2>4, <3>2 DEF TypeOK, Ownership
    <3>3. QED
      BY <3>1, <3>2
  <2>6. QED
    BY <1>1, <2>1, <2>4, <2>5 DEF Ownership
<1>7. QED
  BY <1>1, <1>3, <1>4, <1>5, <1>6 DEF IInv

\* EndAcquire preserves the invariant: the lock moves from being acquired to
\* being held, and one is counted for the other.
LEMMA EndAcquireIInv ==
  ASSUME NEW c \in Cpus, IInv, EndAcquire(c)
  PROVE  IInv'
<1>1. TypeOK /\ Control /\ Ownership /\ SpinlockCount /\ panic = "none"
  BY DEF IInv, EndAcquire
<1>2. /\ pc[c] = "held" /\ splk_lock' = splk_lock
      /\ splk_holder' = splk_holder /\ c_spinlocks' = c_spinlocks
  BY DEF EndAcquire
<1>3. /\ panic' = "none" /\ arg[c] \in Spinlocks
      /\ l_holding' = [l_holding EXCEPT ![arg[c]] = c]
      /\ a_waiting' = [a_waiting EXCEPT ![c] = Null]
      /\ held' = [held EXCEPT ![c] = @ \cup {arg[c]}]
      /\ pc' = [pc EXCEPT ![c] = "run"]
      /\ arg' = [arg EXCEPT ![c] = Null]
  BY <1>1, EndAcquireEffect
<1>4. TypeOK'
  BY <1>1, <1>2, <1>3 DEF TypeOK
<1>5. Control'
  <2>1. Null \notin held'[c]
    BY <1>4, NullAssumption, Zenon DEF TypeOK
  <2>2. QED
    BY <1>1, <1>3, <2>1 DEF TypeOK, Control, Acquiring
<1>6. SpinlockCount'
  <2> SUFFICES ASSUME NEW d \in Cpus
               PROVE  c_spinlocks'[d] = Cardinality(held'[d]) +
                        IF pc'[d] \in {"spin", "got", "held"} THEN 1 ELSE 0
    BY DEF SpinlockCount
  <2>1. c_spinlocks[d] = Cardinality(held[d]) +
                           IF pc[d] \in {"spin", "got", "held"} THEN 1 ELSE 0
    BY <1>1 DEF SpinlockCount
  <2>2. CASE d = c
    <3>1. Cardinality(held[c] \cup {arg[c]}) = Cardinality(held[c]) + 1
      BY <1>1, HeldFinite, FS_AddElement, Zenon DEF Control
    <3>2. held'[c] = held[c] \cup {arg[c]} /\ pc'[c] = "run"
      BY <1>1, <1>3 DEF TypeOK
    <3>3. Cardinality(held[c]) \in Nat
      BY <1>1, HeldFinite
    <3>4. QED
      BY <1>2, <2>1, <2>2, <3>1, <3>2, <3>3
  <2>3. CASE d # c
    BY <1>1, <1>2, <1>3, <2>1, <2>3 DEF TypeOK
  <2>4. QED
    BY <2>2, <2>3
<1>7. Ownership'
  <2>1. \A d \in Cpus, m \in Spinlocks : Owns(d, m)' <=> Owns(d, m)
    BY <1>1, <1>2, <1>3, NullAssumption DEF TypeOK, Owns
  <2>2. Owns(c, arg[c]) /\ splk_holder[arg[c]] = c
    BY <1>1, <1>2, <1>3 DEF Owns, Ownership
  <2>3. \A d \in Cpus : d # c => arg[c] \notin held[d]
    BY <1>1, <1>3, <2>2 DEF Ownership, Owns
  <2>4. \A d \in Cpus, m \in Spinlocks :
          (m \in held[d] \/ (arg[d] = m /\ pc[d] \in {"held", "drop"}))' <=>
            m \in held[d] \/ (arg[d] = m /\ pc[d] \in {"held", "drop"})
    BY <1>1, <1>2, <1>3, NullAssumption DEF TypeOK
  <2>5. ASSUME NEW m \in Spinlocks, NEW d \in Cpus
        PROVE  l_holding'[m] = d <=> m \in held'[d]
    <3>1. CASE m = arg[c]
      BY <1>1, <1>3, <2>3, <3>1 DEF TypeOK
    <3>2. CASE m # arg[c]
      BY <1>1, <1>3, <3>2 DEF TypeOK, Ownership
    <3>3. QED
      BY <3>1, <3>2
  <2>6. QED
    BY <1>1, <1>2, <2>1, <2>4, <2>5 DEF Ownership
<1>8. QED
  BY <1>3, <1>4, <1>5, <1>6, <1>7 DEF IInv

\* BeginRelease preserves the invariant.
LEMMA BeginReleaseIInv ==
  ASSUME NEW c \in Cpus, NEW l \in Spinlocks, IInv, BeginRelease(c, l)
  PROVE  IInv'
<1>1. /\ TypeOK /\ Control /\ Ownership /\ SpinlockCount /\ panic = "none"
      /\ pc[c] = "run" /\ l \in held[c]
  BY DEF IInv, BeginRelease
<1>2. /\ splk_lock' = splk_lock /\ splk_holder' = splk_holder /\ a_waiting' = a_waiting
  BY DEF BeginRelease
<1>3. ASSUME NEW d \in Cpus
      PROVE  /\ c_spinlocks[d] = Cardinality(held[d]) +
                  IF pc[d] \in {"spin", "got", "held"} THEN 1 ELSE 0
             /\ Cardinality(held[d]) \in Nat
  BY <1>1, HeldFinite DEF SpinlockCount
<1>4. Cardinality(held[c]) # 0 /\ c_spinlocks[c] = Cardinality(held[c])
  BY <1>1, <1>3, HeldFinite
<1>5. /\ panic' = "none" /\ c_spinlocks' \in [Cpus -> Nat]
      /\ c_spinlocks' = [c_spinlocks EXCEPT ![c] = @ - 1]
      /\ l_holding' = [l_holding EXCEPT ![l] = Null]
      /\ held' = [held EXCEPT ![c] = @ \ {l}]
      /\ pc' = [pc EXCEPT ![c] = "drop"]
      /\ arg' = [arg EXCEPT ![c] = l]
  BY <1>1, <1>4, BeginReleaseEffect
<1>6. TypeOK'
  BY <1>1, <1>2, <1>5 DEF TypeOK
<1>7. Control'
  BY <1>1, <1>2, <1>5, NullAssumption DEF TypeOK, Control, Acquiring
<1>8. SpinlockCount'
  <2> SUFFICES ASSUME NEW d \in Cpus
               PROVE  c_spinlocks'[d] = Cardinality(held'[d]) +
                        IF pc'[d] \in {"spin", "got", "held"} THEN 1 ELSE 0
    BY DEF SpinlockCount
  <2>1. CASE d = c
    <3>1. Cardinality(held[c] \ {l}) = Cardinality(held[c]) - 1
      BY <1>1, HeldFinite, FS_RemoveElement, Zenon
    <3>2. held'[c] = held[c] \ {l} /\ pc'[c] = "drop"
      BY <1>1, <1>5 DEF TypeOK
    <3>3. c_spinlocks \in [Cpus -> Nat] /\ Cardinality(held[c]) \in Nat
      BY <1>1, <1>3 DEF TypeOK
    <3>4. c_spinlocks'[c] = c_spinlocks[c] - 1
      BY <1>5, <3>3
    <3>5. QED
      BY <1>4, <2>1, <3>1, <3>2, <3>3, <3>4
  <2>2. CASE d # c
    BY <1>1, <1>3, <1>5, <2>2 DEF TypeOK
  <2>3. QED
    BY <2>1, <2>2
<1>9. Ownership'
  <2>1. \A d \in Cpus, m \in Spinlocks : Owns(d, m)' <=> Owns(d, m)
    BY <1>1, <1>5, NullAssumption DEF TypeOK, Control, Owns
  <2>2. \A d \in Cpus, m \in Spinlocks :
          (m \in held[d] \/ (arg[d] = m /\ pc[d] \in {"held", "drop"}))' <=>
            m \in held[d] \/ (arg[d] = m /\ pc[d] \in {"held", "drop"})
    BY <1>1, <1>5, NullAssumption DEF TypeOK, Control
  <2>3. \A d \in Cpus : d # c => l \notin held[d]
    BY <1>1 DEF Ownership, Owns
  <2>4. ASSUME NEW m \in Spinlocks, NEW d \in Cpus
        PROVE  l_holding'[m] = d <=> m \in held'[d]
    <3>1. CASE m = l
      BY SMTT(30), <1>1, <1>5, <2>3, <3>1, NullAssumption DEF TypeOK
    <3>2. CASE m # l
      BY <1>1, <1>5, <3>2 DEF TypeOK, Ownership
    <3>3. QED
      BY <3>1, <3>2
  <2>5. QED
    BY <1>1, <1>2, <2>1, <2>2, <2>4 DEF Ownership
<1>10. QED
  BY <1>5, <1>6, <1>7, <1>8, <1>9 DEF IInv

\* ClearHolder preserves the invariant: the field is cleared while the word is
\* still set, so no other CPU has written it.
LEMMA ClearHolderIInv ==
  ASSUME NEW c \in Cpus, IInv, ClearHolder(c)
  PROVE  IInv'
<1>1. TypeOK /\ Control /\ Ownership /\ SpinlockCount /\ panic = "none" /\ panic' = "none"
  BY DEF IInv, ClearHolder
<1>2. pc[c] = "drop" /\ arg[c] \in Spinlocks /\ pc' = [pc EXCEPT ![c] = "clear"]
  BY <1>1 DEF TypeOK, Control, ClearHolder
<1>3. TypeOK'
  BY <1>1, <1>2 DEF TypeOK, ClearHolder
<1>4. Control'
  BY <1>1, <1>2 DEF TypeOK, Control, Acquiring, ClearHolder
<1>5. SpinlockCount'
  <2>1. \A d \in Cpus : Acquiring(d)' <=> Acquiring(d)
    BY <1>1, <1>2 DEF TypeOK, Acquiring
  <2>2. QED
    BY <1>1, <2>1, CountKept DEF ClearHolder
<1>6. Ownership'
  <2>1. \A d \in Cpus, m \in Spinlocks : Owns(d, m)' <=> Owns(d, m)
    BY <1>1, <1>2 DEF TypeOK, Owns, ClearHolder
  <2>2. Owns(c, arg[c]) /\ arg[c] \notin held[c]
    BY <1>1, <1>2 DEF Owns, Control
  <2>3. \A d \in Cpus : d # c => ~Owns(d, arg[c])
    BY <1>1, <1>2, <2>2 DEF Ownership
  <2>4. /\ splk_holder' = [splk_holder EXCEPT ![arg[c]] = Null]
        /\ splk_lock' = splk_lock /\ l_holding' = l_holding /\ held' = held /\ arg' = arg
    BY DEF ClearHolder
  <2>5. ASSUME NEW m \in Spinlocks, NEW d \in Cpus
        PROVE  splk_holder'[m] = d <=> m \in held'[d] \/ (arg'[d] = m /\ pc'[d] \in {"held", "drop"})
    <3>1. CASE m = arg[c]
      BY <1>1, <1>2, <2>2, <2>3, <2>4, <3>1, NullAssumption DEF TypeOK, Owns
    <3>2. CASE m # arg[c]
      BY SMTT(30), <1>1, <1>2, <2>4, <3>2 DEF TypeOK, Ownership
    <3>3. QED
      BY <3>1, <3>2
  <2>6. QED
    BY <1>1, <2>1, <2>4, <2>5 DEF Ownership
<1>7. QED
  BY <1>1, <1>3, <1>4, <1>5, <1>6 DEF IInv

\* ClearLock preserves the invariant: only the owner clears the word.
LEMMA ClearLockIInv ==
  ASSUME NEW c \in Cpus, IInv, ClearLock(c)
  PROVE  IInv'
<1>1. TypeOK /\ Control /\ Ownership /\ SpinlockCount /\ panic = "none" /\ panic' = "none"
  BY DEF IInv, ClearLock
<1>2. /\ pc[c] = "clear" /\ arg[c] \in Spinlocks
      /\ pc' = [pc EXCEPT ![c] = "run"] /\ arg' = [arg EXCEPT ![c] = Null]
  BY <1>1 DEF TypeOK, Control, ClearLock
<1>3. TypeOK'
  BY <1>1, <1>2 DEF TypeOK, ClearLock
<1>4. Control'
  BY <1>1, <1>2, NullAssumption DEF TypeOK, Control, Acquiring, ClearLock
<1>5. SpinlockCount'
  <2>1. \A d \in Cpus : Acquiring(d)' <=> Acquiring(d)
    BY <1>1, <1>2 DEF TypeOK, Acquiring
  <2>2. QED
    BY <1>1, <2>1, CountKept DEF ClearLock
<1>6. Ownership'
  <2>1. \A d \in Cpus, m \in Spinlocks :
          Owns(d, m)' <=> Owns(d, m) /\ ~(d = c /\ m = arg[c])
    BY <1>1, <1>2, NullAssumption DEF TypeOK, Control, Owns, ClearLock
  <2>2. Owns(c, arg[c])
    BY <1>2 DEF Owns
  <2>3. \A d \in Cpus : d # c => ~Owns(d, arg[c])
    BY <1>1, <1>2, <2>2 DEF Ownership
  <2>4. splk_lock' = [splk_lock EXCEPT ![arg[c]] = FALSE]
    BY DEF ClearLock
  <2>5. ASSUME NEW d \in Cpus, NEW m \in Spinlocks, Owns(d, m)'
        PROVE  splk_lock'[m] /\ \A e \in Cpus : Owns(e, m)' => d = e
    BY <1>1, <1>2, <2>1, <2>3, <2>4, <2>5 DEF TypeOK, Ownership
  <2>6. splk_holder' = splk_holder /\ l_holding' = l_holding /\ held' = held
    BY DEF ClearLock
  <2>7. \A d \in Cpus, m \in Spinlocks :
          (arg[d] = m /\ pc[d] \in {"held", "drop"})' <=>
            arg[d] = m /\ pc[d] \in {"held", "drop"}
    BY <1>1, <1>2, NullAssumption DEF TypeOK
  <2>8. QED
    BY <1>1, <2>5, <2>6, <2>7 DEF Ownership
<1>7. QED
  BY <1>1, <1>3, <1>4, <1>5, <1>6 DEF IInv

\* Every step preserves the invariant.
LEMMA NextIInv == IInv /\ [Next]_vars => IInv'
<1> SUFFICES ASSUME IInv, [Next]_vars PROVE IInv'
  OBVIOUS
<1>1. CASE UNCHANGED vars
  <2>1. TypeOK' /\ SpinlockCount'
    BY <1>1, Zenon DEF vars, IInv, TypeOK, SpinlockCount
  <2>2. panic' = "none" => Control'
    BY <1>1 DEF vars, IInv, Control, Acquiring
  <2>3. panic' = "none" => Ownership'
    BY <1>1 DEF vars, IInv, Ownership, Owns
  <2>4. QED
    BY <2>1, <2>2, <2>3 DEF IInv
<1>2. QED
  BY <1>1, BeginAcquireIInv, TestAndSetIInv, SetHolderIInv, EndAcquireIInv,
     BeginReleaseIInv, ClearHolderIInv, ClearLockIInv DEF Next, Halt

-----------------------------------------------------------------------------
\* The types of the lock words, the holder fields, the counts and hangman's
\* record are kept by every step of spinlock.c and hangman.c.
THEOREM TypeCorrect == Spec => []TypeOK
<1>1. IInv => TypeOK
  BY DEF IInv
<1>2. QED
  BY InitIInv, NextIInv, <1>1, PTL DEF Spec

\* For any number of CPUs and locks, spinlock_acquire and spinlock_release
\* keep two CPUs out of one critical section.
THEOREM Exclusion == Spec => []MutualExclusion
<1>1. Init => MutualExclusion
  BY DEF Init, MutualExclusion, Owns
<1>2. IInv /\ MutualExclusion /\ [Next]_vars => MutualExclusion'
  <2> SUFFICES ASSUME IInv, MutualExclusion, [Next]_vars PROVE MutualExclusion'
    OBVIOUS
  <2>1. IInv'
    BY NextIInv
  <2>2. CASE panic' = "none"
    BY <2>1, <2>2 DEF IInv, Ownership, MutualExclusion
  <2>3. CASE panic' # "none"
    <3>1. held' = held
      BY <2>3, Zenon DEF Next, vars, Halt, BeginAcquire, BeginRelease, TestAndSet,
                  SetHolder, EndAcquire, ClearHolder, ClearLock
    <3>2. ASSUME NEW d \in Cpus, pc'[d] # "panic" PROVE pc'[d] = pc[d] /\ arg'[d] = arg[d]
      <4>1. CASE UNCHANGED vars
        BY <4>1 DEF vars
      <4>2. ASSUME NEW c \in Cpus, NEW l \in Spinlocks, BeginAcquire(c, l) \/ BeginRelease(c, l)
            PROVE  /\ pc' = [pc EXCEPT ![c] = "panic"]
                   /\ arg' = [arg EXCEPT ![c] = l]
        BY <2>3, <4>2, Zenon DEF BeginAcquire, BeginRelease
      <4>3. ASSUME NEW c \in Cpus, EndAcquire(c)
            PROVE  pc' = [pc EXCEPT ![c] = "panic"] /\ arg' = arg
        BY <2>3, <4>3 DEF EndAcquire
      <4>4. ASSUME NEW c \in Cpus, TestAndSet(c) \/ SetHolder(c) \/ ClearHolder(c) \/ ClearLock(c)
            PROVE  FALSE
        BY <2>3, <4>4 DEF TestAndSet, SetHolder, ClearHolder, ClearLock
      <4>5. ASSUME NEW c \in Cpus, pc' = [pc EXCEPT ![c] = "panic"],
                   arg' = arg \/ \E l \in Spinlocks : arg' = [arg EXCEPT ![c] = l]
            PROVE  pc'[d] = pc[d] /\ arg'[d] = arg[d]
        BY <3>2, <4>5, Zenon DEF IInv, TypeOK
      <4>6. QED
        BY <4>1, <4>2, <4>3, <4>4, <4>5 DEF Next, Halt
    <3>3. ASSUME NEW d \in Cpus, NEW l \in Spinlocks, Owns(d, l)' PROVE Owns(d, l)
      BY <3>1, <3>2, <3>3 DEF Owns
    <3>4. QED
      BY <3>3 DEF MutualExclusion
  <2>4. QED
    BY <2>2, <2>3
<1>3. QED
  BY InitIInv, NextIInv, <1>1, <1>2, PTL DEF Spec

\* c_spinlocks, kept by increments and decrements, is the number of locks held
\* or being acquired.
THEOREM Counting == Spec => []SpinlockCount
<1>1. IInv => SpinlockCount
  BY DEF IInv
<1>2. QED
  BY InitIInv, NextIInv, <1>1, PTL DEF Spec

-----------------------------------------------------------------------------
\* A step other than BeginAcquire creates no deadlock: no CPU starts to spin,
\* and the one that moves is not spinning afterwards.
LEMMA OtherStepsDeadlock ==
  ASSUME IInv, panic = "none", panic' = "none", NEW c \in Cpus,
         \A d \in Cpus : d # c => /\ pc'[d] = pc[d] /\ arg'[d] = arg[d]
                                  /\ held'[d] = held[d],
         pc'[c] \notin {"spin", "panic"},
         NEW D \in SUBSET Cpus, Deadlocked(D)'
  PROVE  Deadlocked(D)
<1>1. \A d \in D : d # c
  BY DEF Deadlocked
<1>2. QED
  BY <1>1 DEF Deadlocked

\* Completeness of hangman_check: if hangman lets a CPU start to spin and this
\* closes a deadlock, there was one before.  The deadlocked CPUs that the
\* check's walk visited are themselves deadlocked.
LEMMA BeginAcquireDeadlock ==
  ASSUME IInv, panic' = "none", NEW c \in Cpus, NEW l \in Spinlocks, BeginAcquire(c, l),
         NEW D \in SUBSET Cpus, Deadlocked(D)'
  PROVE  \E E \in SUBSET Cpus : Deadlocked(E)
<1>1. /\ TypeOK /\ Control /\ Ownership /\ held' = held
      /\ pc[c] = "run" /\ arg' = [arg EXCEPT ![c] = l]
  BY DEF IInv, BeginAcquire
<1>2. ~hangman_check(l, c) /\ pc' = [pc EXCEPT ![c] = "spin"]
  BY <1>1, BeginAcquireEffect
<1>3. ASSUME NEW d \in Cpus, d # c
      PROVE  pc'[d] = pc[d] /\ arg'[d] = arg[d] /\ pc[d] # "panic"
  BY <1>1, <1>2, <1>3, Zenon DEF TypeOK, Control
<1>4. CASE c \notin D
  <2>1. \A d \in D : d # c
    BY <1>4
  <2>2. Deadlocked(D)
    BY <1>1, <1>3, <2>1 DEF Deadlocked
  <2>3. QED
    BY <2>2
<1>5. CASE c \in D
  <2>1. arg'[c] = l
    BY <1>1, Zenon DEF TypeOK
  <2>2. PICK h \in D : l \in held[h]
    BY SMTT(30), <1>1, <1>5, <2>1 DEF Deadlocked
  <2>3. l_holding[l] = h /\ h \in Cpus
    BY <1>1, <2>2 DEF Ownership
  <2>4. ~Reaches(h, c)
    BY <1>2, <2>3, NullAssumption DEF hangman_check
  <2>5. PICK S \in SUBSET Cpus : h \in S /\ Closed(S) /\ c \notin S
    BY <2>4 DEF Reaches
  <2>6. ASSUME NEW d \in D \cap S
        PROVE  pc[d] = "spin" /\ \E e \in D \cap S : arg[d] \in held[e]
    <3>1. d # c /\ d \in Cpus
      BY <2>5
    <3>2. pc[d] = "spin"
      BY SMTT(30), <1>3, <3>1 DEF Deadlocked
    <3>3. PICK e \in D : arg[d] \in held[e]
      BY <1>1, <1>3, <3>1 DEF Deadlocked
    <3>4. arg[d] \in Spinlocks /\ a_waiting[d] = arg[d]
      BY <1>1, <3>1, <3>2, <3>3, Zenon DEF TypeOK, Control, Acquiring
    <3>5. l_holding[arg[d]] = e
      BY <1>1, <3>3, <3>4 DEF Ownership
    <3>6. WaitsFor(d) = e
      BY <3>4, <3>5, NullAssumption DEF WaitsFor
    <3>7. e \in S
      BY <2>5, <3>6, NullAssumption DEF Closed
    <3>8. QED
      BY <3>2, <3>3, <3>7
  <2>7. D \cap S # {}
    BY <2>2, <2>5
  <2>8. Deadlocked(D \cap S)
    BY <2>6, <2>7 DEF Deadlocked
  <2>9. QED
    BY <2>8
<1>6. QED
  BY <1>4, <1>5

\* hangman misses no deadlock, for any number of CPUs and locks.
THEOREM HangmanComplete == Spec => []NoUndetectedDeadlock
<1>1. Init => NoUndetectedDeadlock
  BY DEF Init, NoUndetectedDeadlock, Deadlocked
<1>2. IInv /\ NoUndetectedDeadlock /\ [Next]_vars => NoUndetectedDeadlock'
  <2> SUFFICES ASSUME IInv, NoUndetectedDeadlock, [Next]_vars, panic' = "none",
                      NEW D \in SUBSET Cpus, Deadlocked(D)'
               PROVE  FALSE
    BY DEF NoUndetectedDeadlock
  <2>1. \A E \in SUBSET Cpus : panic = "none" => ~Deadlocked(E)
    BY DEF NoUndetectedDeadlock
  <2>2. ASSUME NEW c \in Cpus, NEW l \in Spinlocks, BeginAcquire(c, l) PROVE FALSE
    BY <2>1, <2>2, BeginAcquireDeadlock, Zenon DEF BeginAcquire
  <2>3. ASSUME NEW c \in Cpus, NEW l \in Spinlocks, BeginRelease(c, l) PROVE FALSE
    <3>1. panic = "none" /\ pc'[c] = "drop"
      BY <2>3 DEF BeginRelease, IInv, TypeOK
    <3>2. \A d \in Cpus : d # c => pc'[d] = pc[d] /\ arg'[d] = arg[d] /\ held'[d] = held[d]
      BY <2>3 DEF BeginRelease, IInv, TypeOK
    <3>3. QED
      BY <2>1, <3>1, <3>2, OtherStepsDeadlock
  <2>4. ASSUME NEW c \in Cpus,
               TestAndSet(c) \/ SetHolder(c) \/ EndAcquire(c) \/ ClearHolder(c) \/ ClearLock(c)
        PROVE  FALSE
    <3>1. panic = "none" /\ pc'[c] \in {"got", "held", "run", "clear"}
      BY <2>4, Zenon DEF TestAndSet, SetHolder, EndAcquire, ClearHolder, ClearLock, IInv, TypeOK
    <3>2. \A d \in Cpus : d # c => pc'[d] = pc[d] /\ arg'[d] = arg[d] /\ held'[d] = held[d]
      BY <2>4, Zenon DEF TestAndSet, SetHolder, EndAcquire, ClearHolder, ClearLock, IInv, TypeOK
    <3>3. QED
      BY <2>1, <3>1, <3>2, OtherStepsDeadlock
  <2>5. CASE UNCHANGED vars
    BY <2>1, <2>5 DEF vars, Deadlocked
  <2>6. QED
    BY <2>2, <2>3, <2>4, <2>5 DEF Next, Halt
<1>3. QED
  BY InitIInv, NextIInv, <1>1, <1>2, PTL DEF Spec

-----------------------------------------------------------------------------
\* The walk of hangman_check: a CPU that reaches another one and is not it
\* waits for a holder, and that holder reaches the other one too.
LEMMA ReachesStep ==
  ASSUME NEW c \in Cpus, NEW d \in Cpus, Reaches(c, d), c # d
  PROVE  WaitsFor(c) # Null /\ (WaitsFor(c) \in Cpus => Reaches(WaitsFor(c), d))
<1>1. WaitsFor(c) # Null
  <2>1. ASSUME WaitsFor(c) = Null PROVE Closed({c})
    BY <2>1 DEF Closed
  <2>2. QED
    BY <2>1 DEF Reaches
<1>2. ASSUME WaitsFor(c) \in Cpus, NEW S \in SUBSET Cpus, WaitsFor(c) \in S, Closed(S)
      PROVE  d \in S
  <2>1. Closed(S \cup {c})
    BY <1>2 DEF Closed
  <2>2. d \in S \cup {c}
    BY <2>1 DEF Reaches
  <2>3. QED
    BY <2>2
<1>3. QED
  BY <1>1, <1>2 DEF Reaches

\* When the walk from a lock's holder s arrives at the target c, every CPU the
\* walk visits before c waits for a CPU the walk also visits.
LEMMA WalkWaits ==
  ASSUME TypeOK, NEW s \in Cpus, NEW c \in Cpus, NEW x \in Cpus,
         Reaches(s, c), Reaches(s, x), WaitsFor(c) = Null, x # c
  PROVE  WaitsFor(x) \in Cpus /\ Reaches(s, WaitsFor(x))
<1>1. \A y \in Cpus : WaitsFor(y) \in Cpus \cup {Null}
  BY Zenon DEF TypeOK, WaitsFor
<1>2. WaitsFor(x) # Null
  <2> SUFFICES ASSUME WaitsFor(x) = Null PROVE FALSE
    OBVIOUS
  <2> DEFINE S == {y \in Cpus : Reaches(y, x)}
  <2>1. Closed(S)
    BY <1>1, ReachesStep DEF Closed
  <2>2. c \in S
    BY <2>1 DEF Reaches
  <2>3. QED
    BY <2>2, ReachesStep
<1>3. \A S \in SUBSET Cpus : s \in S /\ Closed(S) => WaitsFor(x) \in S
  BY <1>2 DEF Reaches, Closed
<1>4. QED
  BY <1>1, <1>2, <1>3 DEF Reaches

\* Soundness of hangman_check: when it reports a cycle, the CPUs its walk
\* visits are deadlocked.
LEMMA ReportedDeadlock ==
  ASSUME IInv, NEW c \in Cpus, NEW l \in Spinlocks, BeginAcquire(c, l), panic' = "deadlock"
  PROVE  \E D \in SUBSET Cpus : Deadlocked(D)'
<1>1. /\ TypeOK /\ Control /\ Ownership /\ held' = held
      /\ pc[c] = "run" /\ arg' = [arg EXCEPT ![c] = l]
  BY DEF IInv, BeginAcquire
<1>2. hangman_check(l, c) /\ pc' = [pc EXCEPT ![c] = "panic"]
  BY <1>1, BeginAcquireEffect
<1>3. PICK s \in Cpus : l_holding[l] = s /\ Reaches(s, c)
  BY <1>1, <1>2, Zenon DEF TypeOK, hangman_check
<1>4. WaitsFor(c) = Null
  BY <1>1 DEF Control, Acquiring, WaitsFor
<1>4a. PICK D \in SUBSET Cpus : D = {x \in Cpus : Reaches(s, x)}
  BY Zenon
<1>5. s \in D /\ c \in D
  BY <1>4a, <1>3 DEF Reaches
<1>6. l \in held[s]
  BY <1>1, <1>3 DEF Ownership
<1>7. pc'[c] = "panic" /\ arg'[c] = l
  BY <1>1, <1>2, Zenon DEF TypeOK
<1>8. ASSUME NEW x \in D, x # c
      PROVE  pc'[x] = "spin" /\ \E y \in D : arg'[x] \in held[y]
  <2>1. PICK y \in D : WaitsFor(x) = y
    BY <1>4a, <1>1, <1>3, <1>4, <1>8, WalkWaits
  <2>2. a_waiting[x] \in Spinlocks /\ l_holding[a_waiting[x]] = y
    BY <1>1, <2>1, NullAssumption, Zenon DEF TypeOK, WaitsFor
  <2>3. a_waiting[x] = arg[x] /\ Acquiring(x)
    BY <1>1, <2>2, NullAssumption DEF Control
  <2>4. arg[x] \in held[y]
    BY <1>1, <2>2, <2>3 DEF Ownership
  <2>5. arg[x] \notin held[x]
    BY <1>1 DEF Control
  <2>6. Owns(y, arg[x])
    BY SMTT(30), <2>4 DEF Owns
  <2>7. ~Owns(x, arg[x])
    BY SMTT(30), <1>1, <2>2, <2>3, <2>4, <2>5, <2>6 DEF Ownership
  <2>8. pc[x] = "spin"
    BY <2>3, <2>7 DEF Acquiring, Owns
  <2>9. QED
    BY <1>1, <1>2, <1>8, <2>4, <2>8, Zenon DEF TypeOK
<1>9. Deadlocked(D)'
  <2>1. D # {} /\ \A x \in D : pc'[x] \in {"spin", "panic"} /\ \E y \in D : arg'[x] \in held'[y]
    BY SMTT(30), <1>1, <1>5, <1>6, <1>7, <1>8
  <2>2. QED
    BY <2>1 DEF Deadlocked
<1>10. QED
  BY <1>9

\* hangman raises no false alarm, and neither its own consistency checks nor
\* the assertions of spinlock_release ever fail, for any number of CPUs and
\* locks.
THEOREM HangmanSound == Spec => []OnlyDeadlocksPanic
<1>1. Init => OnlyDeadlocksPanic
  BY DEF Init, OnlyDeadlocksPanic
<1>2. IInv /\ OnlyDeadlocksPanic /\ [Next]_vars => OnlyDeadlocksPanic'
  <2> SUFFICES ASSUME IInv, OnlyDeadlocksPanic, [Next]_vars PROVE OnlyDeadlocksPanic'
    OBVIOUS
  <2>1. ASSUME NEW c \in Cpus, NEW l \in Spinlocks, BeginAcquire(c, l), panic' # "none"
        PROVE  OnlyDeadlocksPanic'
    <3>1. /\ TypeOK /\ Control /\ Ownership /\ held' = held
          /\ pc[c] = "run" /\ arg' = [arg EXCEPT ![c] = l]
      BY <2>1, Zenon DEF IInv, BeginAcquire
    <3>2. /\ panic' \in {"own lock", "deadlock"}
          /\ panic' = "own lock" => splk_holder[l] = c
          /\ pc' = [pc EXCEPT ![c] = "panic"]
      BY <2>1, <3>1, BeginAcquireEffect, Zenon
    <3>3. ASSUME panic' = "own lock" PROVE \E D \in SUBSET Cpus : Deadlocked(D)'
      <4>1. l \in held[c]
        BY <3>1, <3>2, <3>3, Zenon DEF Ownership
      <4>2. Deadlocked({c})'
        BY <3>1, <3>2, <4>1, ZenonT(40) DEF TypeOK, Deadlocked
      <4>3. QED
        BY <4>2
    <3>4. ASSUME panic' = "deadlock" PROVE \E D \in SUBSET Cpus : Deadlocked(D)'
      BY <2>1, <3>4, ReportedDeadlock
    <3>5. QED
      BY <3>2, <3>3, <3>4, Zenon DEF OnlyDeadlocksPanic
  <2>2. ASSUME NEW c \in Cpus, NEW l \in Spinlocks, BeginRelease(c, l) PROVE panic' = "none"
    <3>1. TypeOK /\ Control /\ Ownership /\ SpinlockCount /\ pc[c] = "run" /\ l \in held[c] /\ panic = "none"
      BY <2>2 DEF IInv, BeginRelease
    <3>2. Cardinality(held[c]) # 0 /\ Cardinality(held[c]) \in Nat
      BY <3>1, HeldFinite
    <3>3. c_spinlocks[c] # 0
      BY SMTT(30), <3>1, <3>2 DEF SpinlockCount
    <3>4. QED
      BY <2>2, <3>1, <3>3, BeginReleaseEffect
  <2>3. ASSUME NEW c \in Cpus, EndAcquire(c) PROVE panic' = "none"
    BY <2>3, EndAcquireEffect DEF IInv, EndAcquire
  <2>4. ASSUME NEW c \in Cpus, TestAndSet(c) \/ SetHolder(c) \/ ClearHolder(c) \/ ClearLock(c)
        PROVE  panic' = "none"
    BY <2>4 DEF TestAndSet, SetHolder, ClearHolder, ClearLock
  <2>5. CASE UNCHANGED vars
    <3>1. \A D : Deadlocked(D)' <=> Deadlocked(D)
      BY <2>5 DEF vars, Deadlocked
    <3>2. QED
      BY <2>5, <3>1, Zenon DEF vars, OnlyDeadlocksPanic
  <2>6. panic' = "none" => OnlyDeadlocksPanic'
    BY Zenon DEF OnlyDeadlocksPanic
  <2>7. QED
    BY <2>1, <2>2, <2>3, <2>4, <2>5, <2>6 DEF Next, Halt
<1>3. QED
  BY InitIInv, NextIInv, <1>1, <1>2, PTL DEF Spec

-----------------------------------------------------------------------------
(***************************************************************************)
(* Pending interprocessor interrupts, for any set of CPUs and any length   *)
(* of the shootdown queue.  PendingExact is nearly inductive as it stands; *)
(* it lacks the type of a broadcast in progress, which never sends a       *)
(* shootdown and never goes to its own CPU.                                *)
(***************************************************************************)
Types ==
  /\ c_ipi_pending \in [allcpus -> SUBSET Codes]
  /\ c_numshootdown \in [allcpus -> 0 .. TLBSHOOTDOWN_MAX]
  /\ line \in [allcpus -> BOOLEAN]
  /\ ipi_pc \in [allcpus -> {"run", "clear", "halted", "broadcast"}]
  /\ bcast \in [allcpus -> [code : Codes \ {"IPI_TLBSHOOTDOWN"}, left : SUBSET allcpus]]

Queue(c) == c_numshootdown[c] > 0 <=> "IPI_TLBSHOOTDOWN" \in c_ipi_pending[c]

Others(c) == bcast[c].left \subseteq allcpus \ {c}

\* The inductive invariant.
IpiInv ==
  /\ Types
  /\ \A c \in allcpus : Queue(c) /\ Others(c)
  /\ NoEmptyInterrupt

\* The invariant is as strong as the property.
LEMMA Enough ==
  ASSUME IpiInv
  PROVE  PendingExact
<1>1. IpiTypeOK
  BY DEF IpiInv, Types, IpiTypeOK, Others, Codes
<1>2. QED
  BY <1>1 DEF PendingExact, ShootdownPending, IpiInv, Queue

\* At boot no CPU has anything pending.
LEMMA InitHolds ==
  ASSUME TLBSHOOTDOWN_MAX \in Nat, IpiInit
  PROVE  IpiInv
  BY DEF IpiInv, IpiInit, Idle, Types, Queue, Others, NoEmptyInterrupt, Codes

\* Posting a code other than a shootdown disturbs nothing: the target has
\* something pending then, and its queue is not touched (ipi_send).
LEMMA PostKeeps ==
  ASSUME IpiInv,
         NEW d \in allcpus, NEW code \in Codes \ {"IPI_TLBSHOOTDOWN"}, Post(d, code),
         UNCHANGED <<c_numshootdown, ipi_pc>>
  PROVE  /\ c_ipi_pending' \in [allcpus -> SUBSET Codes]
         /\ line' \in [allcpus -> BOOLEAN]
         /\ \A c \in allcpus : Queue(c)'
         /\ NoEmptyInterrupt'
<1>1. c_ipi_pending' = [c_ipi_pending EXCEPT ![d] = @ \cup {code}] /\ line' = [line EXCEPT ![d] = TRUE]
  BY DEF Post
<1>2. c_ipi_pending \in [allcpus -> SUBSET Codes] /\ line \in [allcpus -> BOOLEAN]
  BY DEF IpiInv, Types
<1>3. c_ipi_pending' \in [allcpus -> SUBSET Codes] /\ line' \in [allcpus -> BOOLEAN]
  BY <1>1, <1>2
<1>4. ASSUME NEW c \in allcpus PROVE Queue(c)'
  BY <1>1, <1>2 DEF IpiInv, Queue
<1>5. ASSUME NEW c \in allcpus, line'[c], ipi_pc'[c] = "run" PROVE c_ipi_pending'[c] # {}
  BY SMTT(30), <1>1, <1>2, <1>5 DEF IpiInv, NoEmptyInterrupt
<1>6. QED
  BY <1>3, <1>4, <1>5 DEF NoEmptyInterrupt

\* Every step of every CPU keeps the invariant.
LEMMA NextKeeps ==
  ASSUME TLBSHOOTDOWN_MAX \in Nat, IpiInv, [IpiNext]_ipi_vars
  PROVE  IpiInv'
<1> USE DEF IpiInv, Types
<1>1. ASSUME NEW c \in allcpus, NEW d \in allcpus, ipi_send(c, d) PROVE IpiInv'
  <2>1. "IPI_UNIDLE" \in Codes \ {"IPI_TLBSHOOTDOWN"}
    BY DEF Codes
  <2>2. QED
    BY <1>1, <2>1, PostKeeps DEF ipi_send, Others
<1>2. ASSUME NEW c \in allcpus, NEW d \in allcpus, ipi_tlbshootdown(c, d) PROVE IpiInv'
  <2> USE <1>2 DEF ipi_tlbshootdown, Post
  <2>1. Types'
    BY DEF Codes
  <2>2. ASSUME NEW e \in allcpus PROVE Queue(e)' /\ Others(e)'
    BY DEF Queue, Others
  <2>3. NoEmptyInterrupt'
    BY Zenon DEF NoEmptyInterrupt
  <2>4. QED
    BY <2>1, <2>2, <2>3
<1>3. ASSUME NEW c \in allcpus, NEW code \in {"IPI_PANIC", "IPI_OFFLINE"}, StartBroadcast(c, code) PROVE IpiInv'
  <2> USE <1>3 DEF StartBroadcast
  <2>1. Types'
    BY DEF Codes
  <2>2. ASSUME NEW e \in allcpus PROVE Queue(e)' /\ Others(e)'
    BY DEF Queue, Others
  <2>3. NoEmptyInterrupt'
    BY DEF NoEmptyInterrupt
  <2>4. QED
    BY <2>1, <2>2, <2>3
<1>4. ASSUME NEW c \in allcpus, ipi_broadcast(c) PROVE IpiInv'
  <2>1. CASE bcast[c].left = {}
    <3> USE <1>4, <2>1 DEF ipi_broadcast
    <3>0. Idle \in [code : Codes \ {"IPI_TLBSHOOTDOWN"}, left : SUBSET allcpus]
      BY DEF Codes, Idle
    <3>1. Types'
      BY <3>0
    <3>2. ASSUME NEW e \in allcpus PROVE Queue(e)' /\ Others(e)'
      BY DEF Queue, Others, Idle
    <3>3. NoEmptyInterrupt'
      BY DEF NoEmptyInterrupt
    <3>4. QED
      BY <3>1, <3>2, <3>3
  <2>2. CASE bcast[c].left # {}
    <3>1. PICK d \in bcast[c].left :
            /\ Post(d, bcast[c].code)
            /\ bcast' = [bcast EXCEPT ![c].left = @ \ {d}]
            /\ UNCHANGED <<ipi_pc, c_numshootdown>>
      BY <1>4, <2>2, Zenon DEF ipi_broadcast
    <3>2. d \in allcpus /\ bcast[c].code \in Codes \ {"IPI_TLBSHOOTDOWN"}
      BY <3>1 DEF Others
    <3>3. /\ bcast' \in [allcpus -> [code : Codes \ {"IPI_TLBSHOOTDOWN"}, left : SUBSET allcpus]]
          /\ \A e \in allcpus : Others(e)'
      BY <3>1 DEF Others
    <3>4. QED
      BY <3>1, <3>2, <3>3, PostKeeps
  <2>3. QED
    BY <2>1, <2>2
<1>5. ASSUME NEW c \in allcpus, interprocessor_interrupt(c) PROVE IpiInv'
  <2>1. CASE c_ipi_pending[c] \cap {"IPI_PANIC", "IPI_OFFLINE"} # {}
    <3> USE <1>5, <2>1 DEF interprocessor_interrupt
    <3>1. Types'
      OBVIOUS
    <3>2. ASSUME NEW e \in allcpus PROVE Queue(e)' /\ Others(e)'
      BY DEF Queue, Others
    <3>3. NoEmptyInterrupt'
      BY SMTT(30) DEF NoEmptyInterrupt
    <3>4. QED
      BY <3>1, <3>2, <3>3
  <2>2. CASE c_ipi_pending[c] \cap {"IPI_PANIC", "IPI_OFFLINE"} = {}
    <3>1. /\ c_numshootdown' = [c_numshootdown EXCEPT ![c] = IF "IPI_TLBSHOOTDOWN" \in c_ipi_pending[c] THEN 0 ELSE @]
          /\ c_ipi_pending' = [c_ipi_pending EXCEPT ![c] = {}]
          /\ ipi_pc' = [ipi_pc EXCEPT ![c] = "clear"]
          /\ UNCHANGED <<line, bcast>>
      BY <1>5, <2>2 DEF interprocessor_interrupt
    <3>2. c_numshootdown'[c] = 0
      BY <3>1 DEF Queue
    <3>3. Types'
      BY <3>1
    <3>4. ASSUME NEW e \in allcpus PROVE Queue(e)' /\ Others(e)'
      BY <3>1, <3>2 DEF Queue, Others
    <3>5. NoEmptyInterrupt'
      BY SMTT(30), <3>1 DEF NoEmptyInterrupt
    <3>6. QED
      BY SMTT(30), <3>3, <3>4, <3>5
  <2>3. QED
    BY SMTT(30), <2>1, <2>2
<1>6. ASSUME NEW c \in allcpus, lamebus_clear_ipi(c) PROVE IpiInv'
  <2> USE <1>6 DEF lamebus_clear_ipi
  <2>1. Types'
    OBVIOUS
  <2>2. ASSUME NEW e \in allcpus PROVE Queue(e)' /\ Others(e)'
    BY DEF Queue, Others
  <2>3. NoEmptyInterrupt'
    BY DEF NoEmptyInterrupt
  <2>4. QED
    BY SMTT(30), <2>1, <2>2, <2>3
<1>7. CASE UNCHANGED ipi_vars
  BY <1>7 DEF ipi_vars, Queue, Others, NoEmptyInterrupt
<1>8. QED
  BY SMTT(30), <1>1, <1>2, <1>3, <1>4, <1>5, <1>6, <1>7 DEF IpiNext

\* What is pending, the queue of shootdowns and the interrupt line agree in
\* every reachable state, for any number of CPUs and any TLBSHOOTDOWN_MAX.
THEOREM PendingKept ==
  ASSUME TLBSHOOTDOWN_MAX \in Nat
  PROVE  IpiSpec => []PendingExact
<1>1. IpiInit => IpiInv
  BY InitHolds
<1>2. IpiInv /\ [IpiNext]_ipi_vars => IpiInv'
  BY NextKeeps
<1>3. IpiInv => PendingExact
  BY Enough
<1>4. QED
  BY <1>1, <1>2, <1>3, PTL DEF IpiSpec
=============================================================================
