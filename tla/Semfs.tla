------------------------------- MODULE Semfs -------------------------------
(***************************************************************************)
(* semfs, the file system of user-level semaphores (kern/fs/semfs).        *)
(* Semaphores are created and removed by name under semfs_dirlock, their   *)
(* vnodes come and go under semfs_tablelock, and a semaphore goes when it  *)
(* has neither name nor vnode.  Through an open vnode read is P, write is  *)
(* V and truncate sets the count, all under sems_lock, with sleeping on    *)
(* sems_cv.  Locks and condition variables are the ones                    *)
(* kern/include/synch.h promises: a signal wakes one sleeper, which has to *)
(* get the lock again, with no order among those who want it.  A section   *)
(* under a lock that touches nothing another thread can touch without it   *)
(* is one step.                                                            *)
(***************************************************************************)
EXTENDS Integers, FiniteSets, FiniteSetsExt

CONSTANTS Threads, Names, NoThread,
          NSems,      \* slots of the semaphore table
          CountMod,   \* sems_count is an unsigned of this many values
          MaxAmount   \* largest amount read, written or set at once

VARIABLES semfs_dents,     \* the directory: the slot each name has, or 0
          live,            \* slots with a semaphore
          sems_linked, sems_hasvnode, sems_lock,
          vnodes,          \* slots with a vnode in semfs_vnodes
          vn_refcount,
          dirlock, tablelock,
          pc, name, slot,  \* each thread's place and locals
          ref,             \* the slot whose vnode each thread has open, or 0
          sems_count,
          resid,           \* uio_resid of each thread, 0 outside of semfs_read
          waiting,         \* threads asleep on the sems_cv of their semaphore
          units            \* what writes put in less what reads were given

sems == <<live, sems_linked, sems_hasvnode, sems_lock>>
table == <<vnodes, vn_refcount>>
counts == <<sems_count, resid, waiting, units>>
names == <<semfs_dents, sems, table, dirlock, tablelock, pc, name, slot, ref>>
vars == <<names, counts>>

Slots == 1 .. NSems

Init ==
  /\ semfs_dents = [n \in Names |-> 0]
  /\ live = {} /\ sems_linked = {} /\ sems_hasvnode = {}
  /\ sems_lock = [s \in Slots |-> NoThread]
  /\ vnodes = {} /\ vn_refcount = [s \in Slots |-> 0]
  /\ dirlock = NoThread /\ tablelock = NoThread
  /\ pc = [t \in Threads |-> "idle"]
  /\ name \in [Threads -> Names]
  /\ slot = [t \in Threads |-> 0]
  /\ ref = [t \in Threads |-> 0]
  /\ sems_count = [s \in Slots |-> 0] /\ units = [s \in Slots |-> 0]
  /\ resid = [t \in Threads |-> 0] /\ waiting = {}

\* A semaphore was destroyed under a thread that has its lock.  What the thread
\* does next is undefined, and the behaviour ends here.
Corrupt == \E s \in Slots : s \notin live /\ sems_lock[s] # NoThread

Goto(t, from, to) == ~Corrupt /\ pc[t] = from /\ pc' = [pc EXCEPT ![t] = to]
Put(f, t, v) == [f EXCEPT ![t] = v]

-----------------------------------------------------------------------------
\* semfs_creat and semfs_lookup: find the name under semfs_dirlock.  A name that
\* is not there, or is there when it must not be, ends the call at once.
Find(t) ==
  /\ dirlock = NoThread /\ resid[t] = 0
  /\ \E n \in Names, creat \in BOOLEAN :
       /\ ref[t] = 0 /\ (creat \/ semfs_dents[n] # 0)
       /\ name' = Put(name, t, n)
       /\ IF semfs_dents[n] # 0
          THEN Goto(t, "idle", "getvnode") /\ slot' = Put(slot, t, semfs_dents[n])
          ELSE Goto(t, "idle", "creat") /\ UNCHANGED slot
  /\ dirlock' = t
  /\ UNCHANGED <<semfs_dents, sems, table, tablelock, ref, counts>>

\* semfs_sem_create and semfs_sem_insert, into the first empty slot.
semfs_sem_insert(t) ==
  /\ Goto(t, "creat", "dent") /\ tablelock = NoThread
  /\ Slots \ live # {}
  /\ LET s == Min(Slots \ live)
     IN  live' = live \cup {s} /\ slot' = Put(slot, t, s)
  /\ sems_count' = Put(sems_count, slot'[t], 0) /\ units' = Put(units, slot'[t], 0)
  /\ UNCHANGED <<semfs_dents, sems_linked, sems_hasvnode, sems_lock, table, dirlock, tablelock, name, ref, resid, waiting>>

\* No memory, or no slot, for the semaphore.
CreatFails(t) ==
  /\ Goto(t, "creat", "idle")
  /\ dirlock' = NoThread
  /\ UNCHANGED <<semfs_dents, sems, table, tablelock, name, slot, ref, counts>>

\* The directory entry is made.
semfs_direntry_create(t) ==
  /\ Goto(t, "dent", "getvnode")
  /\ semfs_dents' = Put(semfs_dents, name[t], slot[t])
  /\ UNCHANGED <<sems, table, dirlock, tablelock, name, slot, ref, counts>>

\* fail_uninsert: the semaphore is taken out again.  When it was memory for the
\* entry that ran out, result is still 0 from semfs_sem_insert and no vnode is
\* handed back; when the array could not grow, the error is returned.
Uninsert(t) ==
  /\ tablelock = NoThread
  /\ Goto(t, "dent", "return0") \/ Goto(t, "dent", "idle")
  /\ live' = live \ {slot[t]}
  /\ dirlock' = NoThread
  /\ UNCHANGED <<semfs_dents, sems_linked, sems_hasvnode, sems_lock, table, tablelock, name, slot, ref, counts>>

\* semfs_creat has returned 0: the caller goes on with the vnode it was given.
Return0(t) ==
  /\ Goto(t, "return0", "idle")
  /\ UNCHANGED <<semfs_dents, sems, table, dirlock, tablelock, name, slot, ref, counts>>

\* semfs_getvnode: the vnode in the table gets a reference, or a new one is made;
\* then semfs_creat marks the semaphore as linked.
semfs_getvnode(t) ==
  LET s == slot[t]
  IN  /\ tablelock = NoThread
      /\ Goto(t, "getvnode", "return0")
      /\ vn_refcount' = Put(vn_refcount, s, IF s \in vnodes THEN vn_refcount[s] + 1 ELSE 1)
      /\ vnodes' = vnodes \cup {s}
      /\ sems_hasvnode' = sems_hasvnode \cup {s}
      /\ sems_linked' = sems_linked \cup {s}
      /\ ref' = Put(ref, t, s)
      /\ dirlock' = NoThread
      /\ UNCHANGED <<semfs_dents, live, sems_lock, tablelock, name, slot, counts>>

\* No memory for the vnode.  A semaphore that was just created is undone
\* (fail_undir); one that was there already stays.
GetvnodeFails(t) ==
  LET s == slot[t]
      fresh == s \notin sems_linked
  IN  /\ tablelock = NoThread /\ s \notin vnodes
      /\ Goto(t, "getvnode", "idle")
      /\ semfs_dents' = IF fresh THEN Put(semfs_dents, name[t], 0) ELSE semfs_dents
      /\ live' = IF fresh THEN live \ {s} ELSE live
      /\ dirlock' = NoThread
      /\ UNCHANGED <<sems_linked, sems_hasvnode, sems_lock, table, tablelock, name, slot, ref, counts>>

-----------------------------------------------------------------------------
\* vnode_decref: the last reference is passed on to semfs_reclaim.
vnode_decref(t) ==
  LET s == ref[t]
  IN  /\ s # 0 /\ resid[t] = 0
      /\ IF vn_refcount[s] > 1
         THEN /\ Goto(t, "idle", "idle") /\ ref' = Put(ref, t, 0)
              /\ vn_refcount' = Put(vn_refcount, s, vn_refcount[s] - 1)
         ELSE Goto(t, "idle", "reclaim") /\ UNCHANGED <<ref, vn_refcount>>
      /\ UNCHANGED <<semfs_dents, sems, vnodes, dirlock, tablelock, name, slot, counts>>


\* semfs_reclaim: with the table locked, give up if there are references again;
\* otherwise the vnode leaves the table.
semfs_reclaim(t) ==
  LET s == ref[t]
      busy == vn_refcount[s] > 1
  IN  /\ tablelock = NoThread
      /\ Goto(t, "reclaim", IF busy THEN "idle" ELSE "unvnode")
      /\ vnodes' = IF busy THEN vnodes ELSE vnodes \ {s}
      /\ vn_refcount' = Put(vn_refcount, s, vn_refcount[s] - 1)
      /\ tablelock' = IF busy THEN NoThread ELSE t
      /\ slot' = Put(slot, t, s) /\ ref' = Put(ref, t, 0)
      /\ UNCHANGED <<semfs_dents, sems, dirlock, name, counts>>

\* sems_hasvnode is cleared, under semfs_tablelock but not sems_lock ...
ReclaimUnvnode(t) ==
  /\ Goto(t, "unvnode", "unlinked")
  /\ sems_hasvnode' = sems_hasvnode \ {slot[t]}
  /\ UNCHANGED <<semfs_dents, live, sems_linked, sems_lock, table, dirlock, tablelock, name, slot, ref, counts>>

\* ... then sems_linked is read, and a semaphore without a name is destroyed.
ReclaimDestroy(t) ==
  /\ Goto(t, "unlinked", "idle")
  /\ live' = IF slot[t] \in sems_linked THEN live ELSE live \ {slot[t]}
  /\ tablelock' = NoThread
  /\ UNCHANGED <<semfs_dents, sems_linked, sems_hasvnode, sems_lock, table, dirlock, name, slot, ref, counts>>

-----------------------------------------------------------------------------
\* semfs_remove: find the name under semfs_dirlock, and its semaphore through
\* the table.
semfs_remove(t) ==
  /\ Goto(t, "idle", "lock") /\ dirlock = NoThread /\ tablelock = NoThread /\ resid[t] = 0
  /\ \E n \in Names :
       /\ semfs_dents[n] # 0
       /\ name' = Put(name, t, n) /\ slot' = Put(slot, t, semfs_dents[n])
  /\ dirlock' = t
  /\ UNCHANGED <<semfs_dents, sems, table, tablelock, ref, counts>>

\* Under sems_lock: sems_linked is cleared ...
RemoveUnlink(t) ==
  /\ Goto(t, "lock", "hasvnode") /\ sems_lock[slot[t]] = NoThread
  /\ sems_lock' = Put(sems_lock, slot[t], t)
  /\ sems_linked' = sems_linked \ {slot[t]}
  /\ UNCHANGED <<semfs_dents, live, sems_hasvnode, table, dirlock, tablelock, name, slot, ref, counts>>

\* ... then sems_hasvnode is read.
RemoveLook(t) ==
  /\ IF slot[t] \in sems_hasvnode
     THEN Goto(t, "hasvnode", "undent") /\ sems_lock' = Put(sems_lock, slot[t], NoThread)
     ELSE Goto(t, "hasvnode", "destroy") /\ UNCHANGED sems_lock
  /\ UNCHANGED <<semfs_dents, live, sems_linked, sems_hasvnode, table, dirlock, tablelock, name, slot, ref, counts>>

\* A semaphore without vnode leaves the table and is destroyed.
RemoveDestroy(t) ==
  /\ Goto(t, "destroy", "undent") /\ tablelock = NoThread
  /\ live' = live \ {slot[t]}
  /\ sems_lock' = Put(sems_lock, slot[t], NoThread)
  /\ UNCHANGED <<semfs_dents, sems_linked, sems_hasvnode, table, dirlock, tablelock, name, slot, ref, counts>>

RemoveUndent(t) ==
  /\ Goto(t, "undent", "idle")
  /\ semfs_dents' = Put(semfs_dents, name[t], 0)
  /\ dirlock' = NoThread
  /\ UNCHANGED <<sems, table, tablelock, name, slot, ref, counts>>

-----------------------------------------------------------------------------
\* The semaphore thread t has open, with sems_lock free to take.
Locked(t, s) == ~Corrupt /\ ref[t] = s /\ s # 0 /\ pc[t] = "idle" /\ sems_lock[s] = NoThread

\* Entry of semfs_read.
Call(t) ==
  /\ ~Corrupt /\ pc[t] = "idle" /\ ref[t] # 0 /\ resid[t] = 0
  /\ \E n \in 1 .. MaxAmount : resid' = Put(resid, t, n)
  /\ UNCHANGED <<names, sems_count, waiting, units>>

\* With the lock, on entry or after cv_wait: take what there is, and sleep when
\* it is not enough.
semfs_read(t) ==
  \E s \in Slots :
    /\ Locked(t, s) /\ resid[t] > 0 /\ t \notin waiting
    /\ LET consume == Min({resid[t], sems_count[s]})
       IN  /\ sems_count' = Put(sems_count, s, sems_count[s] - consume)
           /\ resid' = Put(resid, t, resid[t] - consume)
           /\ units' = Put(units, s, units[s] - consume)
           /\ waiting' = IF resid[t] > consume THEN waiting \cup {t} ELSE waiting
    /\ UNCHANGED names

Sleepers(s) == {t \in waiting : ref[t] = s}

\* cv_signal wakes some sleeper if there is one, cv_broadcast all of them.
semfs_wakeup(s, newcount) ==
  IF sems_count[s] > 0 \/ newcount = 0 \/ Sleepers(s) = {} THEN UNCHANGED waiting
  ELSE IF newcount = 1 THEN \E t \in Sleepers(s) : waiting' = waiting \ {t}
  ELSE waiting' = waiting \ Sleepers(s)

\* The sum wraps around; a write that would is refused.
semfs_write(t) ==
  \E s \in Slots, n \in 1 .. MaxAmount :
    LET newcount == (sems_count[s] + n) % CountMod
    IN  /\ Locked(t, s) /\ resid[t] = 0
        /\ newcount >= sems_count[s]
        /\ semfs_wakeup(s, newcount) /\ sems_count' = Put(sems_count, s, newcount)
        /\ units' = Put(units, s, units[s] + n)
        /\ UNCHANGED <<names, resid>>

semfs_truncate(t) ==
  \E s \in Slots, newcount \in 0 .. MaxAmount :
    /\ Locked(t, s) /\ resid[t] = 0
    /\ semfs_wakeup(s, newcount) /\ sems_count' = Put(sems_count, s, newcount)
    /\ units' = Put(units, s, newcount)
    /\ UNCHANGED <<names, resid>>

-----------------------------------------------------------------------------
Step(t) ==
  \/ Find(t) \/ semfs_sem_insert(t) \/ CreatFails(t) \/ semfs_direntry_create(t) \/ Uninsert(t)
  \/ Return0(t) \/ semfs_getvnode(t) \/ GetvnodeFails(t)
  \/ vnode_decref(t) \/ semfs_reclaim(t) \/ ReclaimUnvnode(t) \/ ReclaimDestroy(t)
  \/ semfs_remove(t) \/ RemoveUnlink(t) \/ RemoveLook(t) \/ RemoveDestroy(t) \/ RemoveUndent(t)
  \/ Call(t) \/ semfs_read(t) \/ semfs_write(t) \/ semfs_truncate(t)

Next == \E t \in Threads : Step(t)

Spec == Init /\ [][Next]_vars

-----------------------------------------------------------------------------
\* Type invariant; OpenStaysUsable includes it.
TypeOK ==
  /\ semfs_dents \in [Names -> 0 .. NSems]
  /\ live \cup vnodes \cup sems_linked \cup sems_hasvnode \subseteq Slots
  /\ vn_refcount \in [Slots -> 0 .. Cardinality(Threads)]
  /\ {dirlock, tablelock} \subseteq Threads \cup {NoThread}
  /\ sems_count \in [Slots -> 0 .. CountMod - 1] /\ resid \in [Threads -> 0 .. MaxAmount]
  /\ ref \in [Threads -> 0 .. NSems] /\ slot \in [Threads -> 0 .. NSems]

\* A vnode has as many references as threads that have it open or are closing
\* it, and a vnode that someone has open is in the table with its semaphore: the
\* last close never takes either away from a thread that looked the name up
\* meanwhile.
OpenStaysUsable ==
  /\ TypeOK
  /\ \A s \in Slots :
       /\ vn_refcount[s] = Cardinality({t \in Threads : ref[t] = s})
       /\ vn_refcount[s] > 0 => s \in vnodes /\ s \in live /\ s \in sems_hasvnode

\* A name leads to a live semaphore, no two names to the same one, and a
\* semaphore nobody is at work on has a name or a vnode: names, slots and vnodes
\* agree whatever the order of creates, removes and closes.
NamesAgree ==
  /\ \A n \in Names : semfs_dents[n] # 0 =>
       /\ \A m \in Names \ {n} : semfs_dents[m] # semfs_dents[n]
       /\ dirlock = NoThread => semfs_dents[n] \in live \cap sems_linked
  /\ dirlock = NoThread /\ tablelock = NoThread =>
       \A s \in live : s \in vnodes \/ \E n \in Names : semfs_dents[n] = s

\* Counting: what was put in and not taken out is the count, through refused
\* writes and reads that are served piece by piece.
Conserved == \A s \in live : units[s] = sems_count[s]

\* A P blocks until the count is raised again: a reader is never left asleep
\* with units there unless another is awake to take some of them.
NoLostWakeup ==
  \A s \in live : sems_count[s] > 0 /\ Sleepers(s) # {} =>
    \E t \in Threads \ waiting : ref[t] = s /\ resid[t] > 0

=============================================================================
