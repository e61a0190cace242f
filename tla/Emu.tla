-------------------------------- MODULE Emu --------------------------------
(***************************************************************************)
(* The emulator passthrough filesystem (kern/dev/lamebus/emu.c): a device  *)
(* with one set of registers and one buffer, which every thread shares     *)
(* under e_lock, and the vnodes that stand for the handles the device has  *)
(* open.  The VFS layer reaches it with vfs_biglock held (a lookup) or not *)
(* (everything else).  The locks behave as synch.h says.                   *)
(***************************************************************************)
EXTENDS Naturals, FiniteSets

CONSTANTS Threads, None,
          NHandles,   \* handles the device has, besides the root's
          MaxIO,      \* pieces of EMU_MAXIO bytes in the longest transfer
          MaxRetry,   \* retries of emu_close, 10 in the code
          MaxErrors   \* bound on the I/O errors of the device

Handles == 0 .. NHandles
ROOT == 0

VARIABLES biglock,             \* vfs_biglock: its owner and its depth
          e_lock, e_sem, e_result,
          reg, iobuf,          \* the registers; whose data the buffer holds
          opened,              \* handles open on the device
          refs,                \* vn_refcount of the vnode of a handle, 0 if there is none
          pc, th,              \* each thread's place and locals
          lost,                \* vnodes and bare handles that could not be closed
          kept,                \* emufs_loadvnode returned without releasing vfs_biglock
          errors, panicked

vars == <<biglock, e_lock, e_sem, e_result, reg, iobuf, opened, refs, pc, th, lost, kept, errors, panicked>>

NoOp == [op |-> "none", handle |-> None, state |-> "idle", result |-> "none", asker |-> None]
NoLoc == [op |-> "none", vn |-> None, handle |-> None, left |-> 0, tries |-> 0, outer |-> FALSE]

Init ==
  /\ biglock = [owner |-> None, depth |-> 0]
  /\ e_lock = None /\ e_sem = 0 /\ e_result = "none"
  /\ reg = NoOp /\ iobuf = None
  /\ opened = {ROOT}
  /\ refs = [h \in Handles |-> IF h = ROOT THEN 1 ELSE 0]
  /\ pc = [t \in Threads |-> "idle"]
  /\ th = [t \in Threads |-> NoLoc]
  /\ lost = {} /\ kept = FALSE /\ errors = 0 /\ panicked = FALSE

Goto(t, l) == pc' = [pc EXCEPT ![t] = l]
hardware == <<e_sem, e_result, reg, iobuf, opened, errors, panicked>>

CanBiglock(t) == biglock.owner \in {None, t}
vfs_biglock_acquire(t) == biglock' = [owner |-> t, depth |-> biglock.depth + 1]
vfs_biglock_release(t) ==
  biglock' = [owner |-> IF biglock.depth = 1 THEN None ELSE t, depth |-> biglock.depth - 1]

-----------------------------------------------------------------------------
\* What the VFS layer asks for.  vfs_lookup holds vfs_biglock around VOP_LOOKUP;
\* VOP_CREAT and the operations on an open file are called without it.
CallLookup(t) ==
  /\ pc[t] = "idle" /\ th[t].vn = None /\ CanBiglock(t)
  /\ vfs_biglock_acquire(t)
  /\ th' = [th EXCEPT ![t].op = "lookup", ![t].outer = TRUE]
  /\ Goto(t, "lock")
  /\ UNCHANGED <<e_lock, hardware, refs, lost, kept>>

CallCreat(t) ==
  /\ pc[t] = "idle" /\ th[t].vn = None
  /\ th' = [th EXCEPT ![t].op = "creat"]
  /\ Goto(t, "lock")
  /\ UNCHANGED <<biglock, e_lock, hardware, refs, lost, kept>>

\* emufs_read and emufs_write move n pieces; emufs_getdirentry, emufs_stat and
\* emufs_truncate are one operation, and bring back something like a read.
CallIO(t) ==
  /\ pc[t] = "idle" /\ th[t].vn # None
  /\ \E op \in {"read", "write"}, n \in 1 .. MaxIO :
       th' = [th EXCEPT ![t].op = op, ![t].handle = th[t].vn, ![t].left = n]
  /\ Goto(t, "lock")
  /\ UNCHANGED <<biglock, e_lock, hardware, refs, lost, kept>>

\* VOP_INCREF by a thread that sees another's reference, as vfs_getcurdir does.
Share(t) ==
  /\ pc[t] = "idle" /\ th[t].vn = None
  /\ \E o \in Threads : /\ pc[o] = "idle" /\ th[o].vn # None
                        /\ refs' = [refs EXCEPT ![th[o].vn] = @ + 1]
                        /\ th' = [th EXCEPT ![t].vn = th[o].vn]
  /\ UNCHANGED <<biglock, e_lock, hardware, pc, lost, kept>>

\* vnode_decref: not the last reference, or emufs_reclaim.
CallDecref(t) ==
  /\ pc[t] = "idle" /\ th[t].vn # None
  /\ IF refs[th[t].vn] > 1
     THEN /\ refs' = [refs EXCEPT ![th[t].vn] = @ - 1]
          /\ th' = [th EXCEPT ![t] = NoLoc]
          /\ UNCHANGED pc
     ELSE /\ th' = [th EXCEPT ![t].op = "reclaim", ![t].handle = th[t].vn]
          /\ Goto(t, "biglock")
          /\ UNCHANGED refs
  /\ UNCHANGED <<biglock, e_lock, hardware, lost, kept>>

-----------------------------------------------------------------------------
\* One operation of the device.  emu_open, emu_doread, emu_write, emu_getsize
\* and emu_trunc take e_lock, fill the buffer and the registers, and write
\* REG_OPER last.  A write whose uiomove fails goes no further.
IsOpen(t) == th[t].op \in {"lookup", "creat"}

Lock(t) ==
  /\ pc[t] = "lock" /\ e_lock = None
  /\ e_lock' = t
  /\ reg' = [reg EXCEPT !.handle = IF IsOpen(t) THEN ROOT ELSE th[t].handle]
  /\ iobuf' = IF IsOpen(t) \/ th[t].op = "write" THEN t ELSE iobuf
  /\ Goto(t, "oper")
  /\ UNCHANGED <<biglock, e_sem, e_result, opened, refs, th, lost, kept, errors, panicked>>

UioFails(t) ==
  /\ pc[t] = "oper" /\ th[t].op = "write"
  /\ e_lock' = None
  /\ Goto(t, "return")
  /\ UNCHANGED <<biglock, hardware, refs, th, lost, kept>>

HardwareOp(t) == IF IsOpen(t) THEN "open" ELSE IF th[t].op \in {"reclaim", "undo"} THEN "close" ELSE th[t].op

Oper(t) ==
  /\ pc[t] = "oper"
  /\ reg' = [reg EXCEPT !.op = HardwareOp(t), !.state = "working", !.asker = t]
  /\ Goto(t, "wait")
  /\ UNCHANGED <<biglock, e_lock, e_sem, e_result, iobuf, opened, refs, th, lost, kept, errors, panicked>>

\* The device.  A handle it does not have open is a fatal result code; opening
\* takes a handle that is not in use, and fails when there is none or the name
\* is bad; any operation may fail with an I/O error, which changes nothing.
Device ==
  /\ reg.state = "working"
  /\ \/ /\ reg.handle \notin opened
        /\ reg' = [reg EXCEPT !.state = "done", !.result = "BADHANDLE"]
        /\ UNCHANGED <<iobuf, opened, errors>>
     \/ /\ reg.handle \in opened /\ errors < MaxErrors
        /\ errors' = errors + 1
        /\ reg' = [reg EXCEPT !.state = "done", !.result = "EIO"]
        /\ UNCHANGED <<iobuf, opened>>
     \/ /\ reg.handle \in opened /\ reg.op = "open"
        /\ IF opened = Handles
           THEN reg' = [reg EXCEPT !.state = "done", !.result = "ENFILE"] /\ UNCHANGED opened
           ELSE LET h == CHOOSE h \in Handles \ opened : \A g \in Handles \ opened : h <= g
                IN  /\ opened' = opened \cup {h}
                    /\ reg' = [reg EXCEPT !.state = "done", !.result = "0", !.handle = h]
        /\ UNCHANGED <<iobuf, errors>>
     \/ /\ reg.handle \in opened /\ reg.op = "open"
        /\ reg' = [reg EXCEPT !.state = "done", !.result = "ENOENT"]
        /\ UNCHANGED <<iobuf, opened, errors>>
     \/ /\ reg.handle \in opened /\ reg.op \notin {"open"}
        /\ reg' = [reg EXCEPT !.state = "done", !.result = "0"]
        /\ opened' = IF reg.op = "close" THEN opened \ {reg.handle} ELSE opened
        /\ iobuf' = IF reg.op = "read" THEN reg.asker ELSE iobuf
        /\ UNCHANGED errors
  /\ UNCHANGED <<biglock, e_lock, e_sem, e_result, refs, pc, th, lost, kept, panicked>>

\* Mutant: the result is left in its register, and interrupts again.
emu_irq_noclear ==
  /\ reg.state = "done" /\ e_sem < 2
  /\ e_result' = reg.result
  /\ e_sem' = e_sem + 1
  /\ UNCHANGED <<reg, biglock, e_lock, iobuf, opened, refs, pc, th, lost, kept, errors, panicked>>

emu_irq ==
  /\ reg.state = "done"
  /\ e_result' = reg.result
  /\ reg' = [reg EXCEPT !.state = "idle"]
  /\ e_sem' = e_sem + 1
  /\ UNCHANGED <<biglock, e_lock, iobuf, opened, refs, pc, th, lost, kept, errors, panicked>>

\* emu_waitdone: P(e_sem); translate_err panics on the codes that mean this
\* driver made a mistake.
emu_waitdone(t) ==
  /\ pc[t] = "wait" /\ e_sem > 0
  /\ e_sem' = e_sem - 1
  /\ panicked' = (e_result = "BADHANDLE")
  /\ Goto(t, IF e_result = "BADHANDLE" THEN "panic" ELSE "use")
  /\ UNCHANGED <<biglock, e_lock, e_result, reg, iobuf, opened, refs, th, lost, kept, errors>>

-----------------------------------------------------------------------------
\* What is done with the result, before e_lock is released.  emu_open reads the
\* new handle; its caller goes on to emufs_loadvnode.
UseOpen(t) ==
  /\ pc[t] = "use" /\ IsOpen(t)
  /\ e_lock' = None
  /\ IF e_result = "0"
     THEN th' = [th EXCEPT ![t].handle = reg.handle] /\ Goto(t, "load")
     ELSE UNCHANGED th /\ Goto(t, "return")
  /\ UNCHANGED <<biglock, hardware, refs, lost, kept>>

\* emufs_read and emufs_write go around until all is moved, an error, or a
\* transfer of nothing, the end of the file.
UseIO(t) ==
  /\ pc[t] = "use" /\ th[t].op \in {"read", "write"}
  /\ e_lock' = None
  /\ \E eof \in BOOLEAN :
       LET left == IF e_result # "0" \/ eof THEN 0 ELSE th[t].left - 1
       IN  /\ th' = [th EXCEPT ![t].left = left]
           /\ Goto(t, IF left > 0 THEN "lock" ELSE "return")
  /\ UNCHANGED <<biglock, hardware, refs, lost, kept>>

\* emu_close: again after an I/O error.
RetryClose(t) ==
  /\ pc[t] = "use" /\ th[t].op \in {"reclaim", "undo"}
  /\ e_result = "EIO" /\ th[t].tries < MaxRetry
  /\ th' = [th EXCEPT ![t].tries = @ + 1]
  /\ reg' = [reg EXCEPT !.handle = th[t].handle]
  /\ Goto(t, "oper")
  /\ UNCHANGED <<biglock, e_lock, e_sem, e_result, iobuf, opened, refs, lost, kept, errors, panicked>>

\* The end of emu_close after a vnode could not be made.
UseUndo(t) ==
  /\ pc[t] = "use" /\ th[t].op = "undo" /\ ~(e_result = "EIO" /\ th[t].tries < MaxRetry)
  /\ e_lock' = None
  /\ lost' = IF e_result = "0" THEN lost ELSE lost \cup {<<"handle", th[t].handle>>}
  /\ Goto(t, "return")
  /\ UNCHANGED <<biglock, hardware, refs, th, kept>>

\* The end of emufs_reclaim: the vnode leaves the pool when the handle is closed,
\* and stays, with a reference nobody has, when it is not.
UseReclaim(t) ==
  /\ pc[t] = "use" /\ th[t].op = "reclaim" /\ ~(e_result = "EIO" /\ th[t].tries < MaxRetry)
  /\ e_lock' = None
  /\ vfs_biglock_release(t)
  /\ IF e_result = "0"
     THEN refs' = [refs EXCEPT ![th[t].handle] = 0] /\ UNCHANGED lost
     ELSE lost' = lost \cup {<<"vnode", th[t].handle>>} /\ UNCHANGED refs
  /\ th' = [th EXCEPT ![t].vn = None]
  /\ Goto(t, "return")
  /\ UNCHANGED <<hardware, kept>>

-----------------------------------------------------------------------------
\* emufs_loadvnode, under vfs_biglock and e_lock: find the vnode of the handle
\* or make one, and go back to closing the handle when that fails.
LoadBiglock(t) ==
  /\ pc[t] = "load" /\ CanBiglock(t)
  /\ vfs_biglock_acquire(t)
  /\ Goto(t, "loadvnode")
  /\ UNCHANGED <<e_lock, hardware, refs, th, lost, kept>>

emufs_loadvnode(t) ==
  /\ pc[t] = "loadvnode" /\ e_lock = None
  /\ refs' = [refs EXCEPT ![th[t].handle] = @ + 1]
  /\ th' = [th EXCEPT ![t].vn = th[t].handle]
  /\ vfs_biglock_release(t)
  /\ Goto(t, "return")
  /\ UNCHANGED <<e_lock, hardware, lost, kept>>

\* vnode_init or vnodearray_add fails.
LoadFails(t) ==
  /\ pc[t] = "loadvnode" /\ e_lock = None /\ refs[th[t].handle] = 0
  /\ vfs_biglock_release(t)
  /\ th' = [th EXCEPT ![t].op = "undo"]
  /\ Goto(t, "close")
  /\ UNCHANGED <<e_lock, hardware, refs, lost, kept>>

\* kmalloc fails (once, to bound the depth): e_lock is released, and vfs_biglock
\* is not.
LoadNoMem(t) ==
  /\ pc[t] = "loadvnode" /\ e_lock = None /\ refs[th[t].handle] = 0
  /\ th' = [th EXCEPT ![t].op = "undo"]
  /\ ~kept /\ kept' = TRUE
  /\ Goto(t, "close")
  /\ UNCHANGED <<biglock, e_lock, hardware, refs, lost>>

\* emu_close by a thread that does not hold e_lock.
Close(t) ==
  /\ pc[t] = "close" /\ e_lock = None
  /\ e_lock' = t
  /\ reg' = [reg EXCEPT !.handle = th[t].handle]
  /\ Goto(t, "oper")
  /\ UNCHANGED <<biglock, e_sem, e_result, iobuf, opened, refs, th, lost, kept, errors, panicked>>

-----------------------------------------------------------------------------
\* emufs_reclaim: both locks, another look at the count, and emu_close with
\* e_lock held.
ReclaimBiglock(t) ==
  /\ pc[t] = "biglock" /\ CanBiglock(t)
  /\ vfs_biglock_acquire(t)
  /\ Goto(t, "reclaim")
  /\ UNCHANGED <<e_lock, hardware, refs, th, lost, kept>>

emufs_reclaim(t) ==
  /\ pc[t] = "reclaim" /\ e_lock = None
  /\ IF refs[th[t].handle] > 1
     THEN /\ refs' = [refs EXCEPT ![th[t].handle] = @ - 1]
          /\ th' = [th EXCEPT ![t].vn = None]
          /\ vfs_biglock_release(t)
          /\ Goto(t, "return")
          /\ UNCHANGED <<e_lock, reg>>
     ELSE /\ e_lock' = t
          /\ reg' = [reg EXCEPT !.handle = th[t].handle]
          /\ Goto(t, "oper")
          /\ UNCHANGED <<biglock, refs, th>>
  /\ UNCHANGED <<e_sem, e_result, iobuf, opened, lost, kept, errors, panicked>>

\* Back to the caller; vfs_lookup releases the vfs_biglock it took.
Return(t) ==
  /\ pc[t] = "return"
  /\ IF th[t].outer THEN vfs_biglock_release(t) ELSE UNCHANGED biglock
  /\ th' = [th EXCEPT ![t] = [NoLoc EXCEPT !.vn = th[t].vn]]
  /\ Goto(t, "idle")
  /\ UNCHANGED <<e_lock, hardware, refs, lost, kept>>

Call(t) == CallLookup(t) \/ CallCreat(t) \/ CallIO(t) \/ Share(t) \/ CallDecref(t)

Step(t) ==
  \/ Lock(t) \/ UioFails(t) \/ Oper(t) \/ emu_waitdone(t)
  \/ UseOpen(t) \/ UseIO(t) \/ RetryClose(t) \/ UseUndo(t) \/ UseReclaim(t)
  \/ LoadBiglock(t) \/ emufs_loadvnode(t) \/ LoadFails(t) \/ LoadNoMem(t) \/ Close(t)
  \/ ReclaimBiglock(t) \/ emufs_reclaim(t) \/ Return(t)

Next == Device \/ emu_irq \/ \E t \in Threads : Call(t) \/ Step(t)

Spec == Init /\ [][Next]_vars

\* The device finishes, its interrupt is delivered, a thread that can run does,
\* and one that waits for a lock that is free again and again gets it.
Fairness ==
  /\ WF_vars(Device) /\ WF_vars(emu_irq)
  /\ \A t \in Threads : SF_vars(Step(t))

FairSpec == Spec /\ Fairness

-----------------------------------------------------------------------------
\* Type invariant; OwnAnswer includes it.
TypeOK ==
  /\ biglock.owner \in Threads \cup {None} /\ biglock.depth \in 0 .. 3
  /\ e_lock \in Threads \cup {None} /\ e_sem \in 0 .. 1
  /\ iobuf \in Threads \cup {None}
  /\ opened \subseteq Handles /\ refs \in [Handles -> 0 .. Cardinality(Threads)]

\* The device answers one thread at a time: the thread that looks at the result,
\* at the handle register or at the buffer is the one whose operation this was,
\* and every operation raises e_sem once.  The driver never names a handle that
\* is not open, so it never gets one of the codes it panics on.
OwnAnswer ==
  /\ TypeOK /\ ~panicked
  /\ \A t \in Threads : pc[t] = "use" => reg.asker = t /\ e_lock = t
  /\ \A t \in Threads : pc[t] = "use" /\ th[t].op = "read" /\ e_result = "0" => iobuf = t
  /\ Cardinality({t \in Threads : pc[t] = "wait"}) = (IF reg.state = "idle" THEN 0 ELSE 1) + e_sem

\* Threads that have opened a handle for which there is no vnode yet, or any more.
InFlight(h) == {t \in Threads : pc[t] \in {"load", "loadvnode", "close", "oper", "wait", "use"}
                                /\ th[t].op \in {"lookup", "creat", "undo"} /\ th[t].handle = h}
Closing(h) == {t \in Threads : th[t].handle = h /\ th[t].op = "reclaim" /\ pc[t] # "return"}

\* No handle of the device is lost and none is used after it is closed: an open
\* handle has a vnode, or one thread is about to make it one or to close it, or
\* the device refused to close it; and the reference count of a vnode is the
\* number of references threads have to it.
HandlesAccounted ==
  \A h \in Handles \ {ROOT} :
    /\ refs[h] = Cardinality({t \in Threads : th[t].vn = h}) + (IF <<"vnode", h>> \in lost THEN 1 ELSE 0)
    /\ refs[h] > 0 /\ Closing(h) = {} => h \in opened
    /\ h \in opened => \/ refs[h] > 0 \/ <<"handle", h>> \in lost
                       \/ \E t \in Threads : reg.asker = t /\ pc[t] \in {"wait", "use"} /\ IsOpen(t)
                       \/ Cardinality(InFlight(h)) = 1

\* Every call returns, whatever fails on the way, unless a vnode could not be
\* allocated before: e_lock and vfs_biglock are always taken in the same order
\* and always given back.
CallsReturn == \A t \in Threads : pc[t] # "idle" ~> pc[t] = "idle" \/ kept

\* "The big lock for all FS ops" (vfslist.c): a thread that is not in a file
\* system operation does not hold it.
BiglockReturned == \A t \in Threads : pc[t] = "idle" => biglock.owner # t

\* Every thread gets its own answer from the device, and no handle is lost or
\* used after it was closed (emu_waitdone, emufs_loadvnode, emufs_reclaim).
AnswersOwned == OwnAnswer /\ HandlesAccounted
=============================================================================
