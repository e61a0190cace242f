----------------------------- MODULE SfsNames ------------------------------
(***************************************************************************)
(* Names, inodes and vnodes of one SFS volume: the directory operations of *)
(* kern/fs/sfs/sfs_vnops.c and sfs_dir.c, loading and reclaiming inodes    *)
(* (sfs_inode.c), inode allocation (sfs_balloc.c) and the reference counts *)
(* of kern/vfs/vnode.c.                                                    *)
(*                                                                         *)
(* Every operation runs under the VFS big lock (vfs_biglock_acquire) and   *)
(* is one step, except VOP_DECREF: it decides that a reference is the last *)
(* one before sfs_reclaim has the lock.  Disk writes may fail.  File data  *)
(* and the root directory's own inode, which the callers' current          *)
(* directory keeps in memory, are not part of this module.                 *)
(***************************************************************************)
EXTENDS Integers, Sequences, FiniteSets, FiniteSetsExt, TLC

CONSTANTS Threads, Names,
          NBlocks,    \* blocks for inodes; block 0 is the super block
          MaxRefs,    \* bound on the references a thread holds
          MaxErrors,  \* bound on failed disk writes
          None

VARIABLES freemap,   \* blocks marked in use
          dir,       \* slots of the root directory; ino 0 is SFS_NOINO
          disk,      \* sfi_linkcount of the inode in each block on disk
          vnodes,    \* the vnode table: inodes in memory
          refs,      \* references each thread holds
          pending,   \* vnode a thread is about to reclaim, or 0
          orphans,   \* references lost by reclaims that failed
          errors,
          panicked

vars == <<freemap, dir, disk, vnodes, refs, pending, orphans, errors, panicked>>

Blocks == 1 .. NBlocks

Init ==
  /\ freemap = {}
  /\ dir = <<>>
  /\ disk = [i \in Blocks |-> 0]
  /\ vnodes = <<>>
  /\ refs = [t \in Threads |-> [i \in Blocks |-> 0]]
  /\ pending = [t \in Threads |-> 0]
  /\ orphans = [i \in Blocks |-> 0]
  /\ errors = 0
  /\ panicked = FALSE

-----------------------------------------------------------------------------
\* Spend n disk errors.
Errors(n) == errors + n <= MaxErrors /\ errors' = errors + n

\* sfs_dir_findname: the slots that hold name n, and the empty slot reported.
findname(n) == {s \in DOMAIN dir : dir[s].ino # 0 /\ dir[s].name = n}

emptyslot ==
  LET empty == {s \in DOMAIN dir : dir[s].ino = 0}
  IN  IF empty = {} THEN Len(dir) + 1 ELSE Max(empty)

Entry(n, i) == [name |-> n, ino |-> i]

NoEntry == Entry(None, 0)

\* sfs_dir_link and sfs_dir_unlink, on the slots d.
dir_link(d, n, i) ==
  IF emptyslot > Len(d) THEN Append(d, Entry(n, i)) ELSE [d EXCEPT ![emptyslot] = Entry(n, i)]

dir_unlink(d, s) == [d EXCEPT ![s] = NoEntry]

\* sfs_loadvnode: the vnode table with one more reference to i.
loadvnode(i) ==
  IF i \in DOMAIN vnodes THEN [vnodes EXCEPT ![i].refcount = @ + 1]
  ELSE (i :> [refcount |-> 1, linkcount |-> disk[i], dirty |-> FALSE]) @@ vnodes

\* The vnode table vn with the link count of i changed by d.
Relink(vn, i, d) == [vn EXCEPT ![i].linkcount = @ + d, ![i].dirty = TRUE]

\* Mutant: the link count on disk, before the inode is written, decides.
reclaim_stale(vn, fm, i, ok) ==
  IF ok
  THEN /\ vnodes' = [j \in DOMAIN vn \ {i} |-> vn[j]]
       /\ disk' = [disk EXCEPT ![i] = IF vn[i].dirty THEN vn[i].linkcount ELSE @]
       /\ freemap' = IF disk[i] = 0 /\ vn[i].linkcount = 0 THEN fm \ {i} ELSE fm
       /\ UNCHANGED orphans
  ELSE /\ vn[i].dirty \/ vn[i].linkcount = 0
       /\ vnodes' = [vn EXCEPT ![i].dirty = TRUE]
       /\ freemap' = fm
       /\ orphans' = [orphans EXCEPT ![i] = @ + 1]
       /\ UNCHANGED disk

\* sfs_reclaim once the count is known to be 1, from the vnode table vn and
\* the free map fm; ok says whether the inode could be written.
reclaim(vn, fm, i, ok) ==
  IF ok
  THEN /\ vnodes' = [j \in DOMAIN vn \ {i} |-> vn[j]]
       /\ disk' = [disk EXCEPT ![i] = IF vn[i].dirty THEN vn[i].linkcount ELSE @]
       /\ freemap' = IF vn[i].linkcount = 0 THEN fm \ {i} ELSE fm
       /\ UNCHANGED orphans
  ELSE /\ vn[i].dirty \/ vn[i].linkcount = 0
       /\ vnodes' = [vn EXCEPT ![i].dirty = TRUE]
       /\ freemap' = fm
       /\ orphans' = [orphans EXCEPT ![i] = @ + 1]
       /\ UNCHANGED disk

\* VOP_DECREF inside an operation that has the big lock; n errors are spent
\* by the operation itself and one more if the inode cannot be written.
decref(vn, fm, i, n) ==
  IF vn[i].refcount > 1
  THEN /\ vnodes' = [vn EXCEPT ![i].refcount = @ - 1]
       /\ freemap' = fm
       /\ Errors(n)
       /\ UNCHANGED <<disk, orphans>>
  ELSE \E ok \in BOOLEAN : reclaim(vn, fm, i, ok) /\ Errors(IF ok THEN n ELSE n + 1)

Held(t) == MapThenSumSet(LAMBDA i : refs[t][i], Blocks)

\* Thread t gets a reference to i.
Take(t, i) ==
  /\ Held(t) < MaxRefs
  /\ refs' = [refs EXCEPT ![t][i] = @ + 1]

Running(t) == ~panicked /\ pending[t] = 0

-----------------------------------------------------------------------------
\* sfs_lookup, and sfs_creat of a name that exists (without EXCL).
sfs_lookup(t, n) ==
  /\ Running(t)
  /\ \E s \in findname(n) : vnodes' = loadvnode(dir[s].ino) /\ Take(t, dir[s].ino)
  /\ UNCHANGED <<freemap, dir, disk, pending, orphans, errors, panicked>>

\* sfs_balloc takes the lowest free block and clears it.
balloc == Min(Blocks \ freemap)

\* The vnode table after sfs_makeobj, before the new inode has a name.
makeobj == (balloc :> [refcount |-> 1, linkcount |-> 0, dirty |-> TRUE]) @@ vnodes

\* sfs_creat of a new name: the directory entry is written, or the new inode
\* is discarded again.
sfs_creat(t, n) ==
  /\ Running(t)
  /\ findname(n) = {} /\ freemap # Blocks
  /\ dir' = dir_link(dir, n, balloc)
  /\ vnodes' = Relink(makeobj, balloc, 1)
  /\ disk' = [disk EXCEPT ![balloc] = 0]
  /\ freemap' = freemap \cup {balloc}
  /\ Take(t, balloc)
  /\ UNCHANGED <<pending, orphans, errors, panicked>>

sfs_creat_fails(t, n) ==
  /\ Running(t)
  /\ findname(n) = {} /\ freemap # Blocks
  /\ decref(makeobj, freemap \cup {balloc}, balloc, 1)
  /\ UNCHANGED <<dir, refs, pending, panicked>>

\* sfs_link to a file t holds, which may have lost its last name by now.
sfs_link(t, n, i) ==
  /\ Running(t)
  /\ refs[t][i] > 0 /\ findname(n) = {}
  /\ dir' = dir_link(dir, n, i)
  /\ vnodes' = Relink(vnodes, i, 1)
  /\ UNCHANGED <<freemap, disk, refs, pending, orphans, errors, panicked>>

sfs_remove(t, n) ==
  /\ Running(t)
  /\ \E s \in findname(n) :
       LET i == dir[s].ino IN
       /\ dir' = dir_unlink(dir, s)
       /\ decref(Relink(loadvnode(i), i, -1), freemap, i, 0)
  /\ UNCHANGED <<refs, pending, panicked>>

\* Mutant: the old name stays.
sfs_rename_both(t, n1, n2) ==
  /\ Running(t)
  /\ findname(n2) = {}
  /\ \E s \in findname(n1) :
       LET i == dir[s].ino IN
       /\ dir' = dir_link(dir, n2, i)
       /\ decref(Relink(loadvnode(i), i, 1), freemap, i, 0)
  /\ UNCHANGED <<refs, pending, panicked>>

\* sfs_rename: link the new name, unlink the old one.  The link count goes up
\* and down again.
sfs_rename(t, n1, n2) ==
  /\ Running(t)
  /\ findname(n2) = {}
  /\ \E s \in findname(n1) :
       LET i == dir[s].ino IN
       /\ dir' = dir_unlink(dir_link(dir, n2, i), s)
       /\ decref(Relink(loadvnode(i), i, 0), freemap, i, 0)
  /\ UNCHANGED <<refs, pending, panicked>>

\* The old name cannot be unlinked: the new one is unlinked, and if that fails
\* too the kernel panics.
sfs_rename_undo(t, n1, n2) ==
  /\ Running(t)
  /\ findname(n2) = {}
  /\ \E s \in findname(n1) :
       LET i == dir[s].ino IN
       /\ dir' = dir_unlink(dir_link(dir, n2, i), emptyslot)
       /\ decref(Relink(loadvnode(i), i, 0), freemap, i, 1)
  /\ UNCHANGED <<refs, pending, panicked>>

sfs_rename_panic(t, n1, n2) ==
  /\ Running(t)
  /\ findname(n2) = {}
  /\ \E s \in findname(n1) : dir' = dir_link(dir, n2, dir[s].ino)
  /\ panicked' = TRUE
  /\ Errors(2)
  /\ UNCHANGED <<freemap, disk, vnodes, refs, pending, orphans>>

\* An operation on a file that changes its inode (sfs_io, sfs_itrunc).
Modify(t, i) ==
  /\ Running(t)
  /\ refs[t][i] > 0
  /\ vnodes' = Relink(vnodes, i, 0)
  /\ UNCHANGED <<freemap, dir, disk, refs, pending, orphans, errors, panicked>>

\* sfs_sync_vnodes; bad are the inodes that could not be written, whose
\* errors nobody looks at.
sfs_sync ==
  LET dirty == {i \in DOMAIN vnodes : vnodes[i].dirty} IN
  /\ ~panicked
  /\ \E bad \in SUBSET dirty :
       /\ dirty # bad /\ Errors(Cardinality(bad))
       /\ disk' = [i \in Blocks |-> IF i \in dirty \ bad THEN vnodes[i].linkcount ELSE disk[i]]
       /\ vnodes' = [i \in DOMAIN vnodes |-> [vnodes[i] EXCEPT !.dirty = i \in bad]]
  /\ UNCHANGED <<freemap, dir, refs, pending, orphans, panicked>>

-----------------------------------------------------------------------------
VOP_INCREF(t, i) ==
  /\ Running(t)
  /\ refs[t][i] > 0
  /\ Take(t, i)
  /\ vnodes' = [vnodes EXCEPT ![i].refcount = @ + 1]
  /\ UNCHANGED <<freemap, dir, disk, pending, orphans, errors, panicked>>

\* VOP_DECREF by a thread without the big lock: the last reference is not
\* given up but handed to sfs_reclaim.
VOP_DECREF(t, i) ==
  /\ Running(t)
  /\ refs[t][i] > 0
  /\ refs' = [refs EXCEPT ![t][i] = @ - 1]
  /\ IF vnodes[i].refcount > 1
     THEN vnodes' = [vnodes EXCEPT ![i].refcount = @ - 1] /\ UNCHANGED pending
     ELSE pending' = [pending EXCEPT ![t] = i] /\ UNCHANGED vnodes
  /\ UNCHANGED <<freemap, dir, disk, orphans, errors, panicked>>

\* Mutant: the count is not looked at again.
sfs_reclaim_norecheck(t) ==
  /\ ~panicked /\ pending[t] # 0
  /\ \E ok \in BOOLEAN : reclaim(vnodes, freemap, pending[t], ok) /\ Errors(IF ok THEN 0 ELSE 1)
  /\ pending' = [pending EXCEPT ![t] = 0]
  /\ UNCHANGED <<dir, refs, panicked>>

\* sfs_reclaim, called with the last reference; somebody else may have found
\* the vnode since, and then the reference is just dropped (EBUSY).
sfs_reclaim(t) ==
  /\ ~panicked /\ pending[t] # 0
  /\ decref(vnodes, freemap, pending[t], 0)
  /\ pending' = [pending EXCEPT ![t] = 0]
  /\ UNCHANGED <<dir, refs, panicked>>

Next ==
  \/ \E t \in Threads, n \in Names : sfs_lookup(t, n) \/ sfs_creat(t, n) \/ sfs_creat_fails(t, n) \/ sfs_remove(t, n)
  \/ \E t \in Threads, n \in Names, i \in Blocks : sfs_link(t, n, i)
  \/ \E t \in Threads, n1, n2 \in Names :
       sfs_rename(t, n1, n2) \/ sfs_rename_undo(t, n1, n2) \/ sfs_rename_panic(t, n1, n2)
  \/ \E t \in Threads, i \in Blocks : Modify(t, i) \/ VOP_INCREF(t, i) \/ VOP_DECREF(t, i)
  \/ \E t \in Threads : sfs_reclaim(t)
  \/ sfs_sync

Spec == Init /\ [][Next]_vars

\* A thread inside sfs_reclaim gets the big lock sooner or later.
FairSpec == Spec /\ \A t \in Threads : WF_vars(sfs_reclaim(t))

-----------------------------------------------------------------------------
\* Type invariant; InodesAllocated includes it.
TypeOK ==
  /\ freemap \subseteq Blocks
  /\ \A s \in DOMAIN dir : dir[s] = NoEntry \/ dir[s] \in [name : Names, ino : Blocks]
  /\ disk \in [Blocks -> 0 .. Cardinality(Names)]
  /\ DOMAIN vnodes \subseteq Blocks
  /\ \A i \in DOMAIN vnodes : vnodes[i] \in [refcount : Nat \ {0}, linkcount : 0 .. Cardinality(Names), dirty : BOOLEAN]
  /\ refs \in [Threads -> [Blocks -> 0 .. MaxRefs]]
  /\ pending \in [Threads -> 0 .. NBlocks]
  /\ orphans \in [Blocks -> 0 .. MaxErrors]
  /\ errors \in 0 .. MaxErrors
  /\ panicked \in BOOLEAN

References(i) ==
  MapThenSumSet(LAMBDA t : refs[t][i] + (IF pending[t] = i THEN 1 ELSE 0), Threads) + orphans[i]

Links(i) == Cardinality({s \in DOMAIN dir : dir[s].ino = i})

\* vn_refcount counts exactly the references held, the ones on their way to
\* sfs_reclaim included; a vnode is in the table exactly while there is one, so
\* nobody ever has a vnode that was freed.
RefcountExact ==
  \A i \in Blocks :
    References(i) = IF i \in DOMAIN vnodes THEN vnodes[i].refcount ELSE 0

\* The link count of an inode, in memory if it is loaded and on disk
\* otherwise, is the number of directory entries that name it.
LinkcountExact ==
  ~panicked => \A i \in freemap :
    Links(i) = IF i \in DOMAIN vnodes THEN vnodes[i].linkcount ELSE disk[i]

\* A block is in use as an inode exactly while the inode has a name or is in
\* memory: sfs_loadvnode never meets an inode in a free block, and no block
\* is lost, whatever writes fail.
InodesAllocated ==
  /\ TypeOK
  /\ ~panicked => freemap = DOMAIN vnodes \cup {dir[s].ino : s \in {s \in DOMAIN dir : dir[s].ino # 0}}

\* No name is in the directory twice (the assertion in sfs_dir_findname).
NamesUnique == \A n \in Names : Cardinality(findname(n)) <= 1

names == [n \in Names |-> IF findname(n) = {} THEN None ELSE dir[CHOOSE s \in findname(n) : TRUE].ino]

NS == INSTANCE Namespace WITH Files <- Blocks, held <- refs

\* The callers see a name space in which an inode is only reused when it has
\* neither names nor holders.
NamespaceStep == [panicked' \/ NS!Next]_<<names, refs>>
ImplementsNamespace == NS!Init /\ [][NamespaceStep]_vars

\* A file without names and holders is eventually gone from the disk, unless
\* an inode could not be written or the system panicked.
Unused(i) == i \in freemap /\ Links(i) = 0 /\ \A t \in Threads : refs[t][i] = 0

EventuallyFreed ==
  \A i \in Blocks : Unused(i) ~> (~Unused(i) \/ orphans[i] > 0 \/ panicked)

\* The counts of SFS agree with each other whatever creates, links, renames and
\* removes overlap with the last close of the file, and whichever writes fail
\* (sfs_vnops.c, sfs_reclaim, sfs_loadvnode).
CountsExact == InodesAllocated /\ RefcountExact /\ LinkcountExact /\ NamesUnique
=============================================================================
