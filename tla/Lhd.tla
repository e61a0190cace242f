-------------------------------- MODULE Lhd --------------------------------
(***************************************************************************)
(* The LAMEbus hard disk driver (kern/dev/lamebus/lhd.c) and the retry     *)
(* loop of SFS around it (sfs_rwblock in kern/fs/sfs/sfs_io.c).  Threads   *)
(* come through the raw device, with any number of sectors, or through SFS *)
(* with one.  The disk itself is a piece of hardware the driver starts     *)
(* through its registers and hears of through its interrupt.               *)
(***************************************************************************)
EXTENDS Naturals, Sequences, FiniteSets

CONSTANTS Threads, Values,
          NSect,      \* sectors of the disk, d_blocks
          MaxTries,   \* retries of sfs_rwblock
          MaxErrors   \* bound on the media errors of the disk

VARIABLES disk, buf,       \* sectors; the on-card buffer
          stat, reg,       \* the status register; the operation started
          lh_clear, lh_done, lh_result,
          pc, req,         \* each thread's place; the request it was called with
          uio,             \* where its uio is: next sector, values not yet moved
          loc,             \* locals of lhd_io: sector, len, i, result
          tries,
          moved,           \* sectors the disk really transferred for the request
          errors

hardware == <<disk, buf, stat, reg>>
driver == <<lh_clear, lh_done, lh_result>>
vars == <<hardware, driver, pc, req, uio, loc, tries, moved, errors>>

Sectors == 0 .. NSect - 1
NoReq == [sfs |-> FALSE, write |-> FALSE, sector |-> 0, data |-> <<>>]
NoUio == [sector |-> 0, resid |-> 0, got |-> <<>>]
NoLoc == [sector |-> 0, len |-> 0, i |-> 0, result |-> "0"]
NoReg == [write |-> FALSE, sect |-> 0]

Init ==
  /\ disk \in [Sectors -> Values] /\ buf \in Values
  /\ stat = "idle" /\ reg = NoReg
  /\ lh_clear = 1 /\ lh_done = 0 /\ lh_result = "0"
  /\ pc = [t \in Threads |-> "idle"]
  /\ req = [t \in Threads |-> NoReq]
  /\ uio = [t \in Threads |-> NoUio]
  /\ loc = [t \in Threads |-> NoLoc]
  /\ tries = [t \in Threads |-> 0]
  /\ moved = [t \in Threads |-> <<>>]
  /\ errors = 0

Goto(t, l) == pc' = [pc EXCEPT ![t] = l]

-----------------------------------------------------------------------------
\* A request: len sectors from sector on, for which data are the values to
\* write (or stand for the room to read into).  SFS asks for one block of the
\* volume, and holds vfs_biglock while it does.
Call(t) ==
  /\ pc[t] = "idle"
  /\ \E sfs, write \in BOOLEAN, sector \in Sectors, len \in 1 .. NSect :
       /\ sfs => len = 1 /\ \A o \in Threads : ~req[o].sfs
       /\ \E data \in [1 .. len -> Values] :
            /\ ~write => data = [n \in 1 .. len |-> CHOOSE v \in Values : TRUE]
            /\ req' = [req EXCEPT ![t] = [sfs |-> sfs, write |-> write, sector |-> sector, data |-> data]]
       /\ uio' = [uio EXCEPT ![t] = [sector |-> sector, resid |-> len, got |-> <<>>]]
  /\ Goto(t, "lhd_io")
  /\ UNCHANGED <<hardware, driver, loc, tries, moved, errors>>

\* Entry of lhd_io: sector and len come from the uio as it is now, and must
\* lie on the disk.
lhd_io(t) ==
  /\ pc[t] = "lhd_io"
  /\ LET inside == uio[t].sector + uio[t].resid <= NSect
     IN  /\ loc' = [loc EXCEPT ![t] = [sector |-> uio[t].sector, len |-> uio[t].resid, i |-> 0,
                                       result |-> IF inside THEN "0" ELSE "EINVAL"]]
         /\ Goto(t, IF inside THEN "loop" ELSE "return")
  /\ UNCHANGED <<hardware, driver, req, uio, tries, moved, errors>>

P_clear(t) ==
  /\ pc[t] = "loop" /\ loc[t].i < loc[t].len
  /\ lh_clear > 0 /\ lh_clear' = lh_clear - 1
  /\ Goto(t, "start")
  /\ UNCHANGED <<hardware, lh_done, lh_result, req, uio, loc, tries, moved, errors>>

\* uiomove of one sector: the uio moves on.
uiomove(t, u) == [u EXCEPT ![t].sector = @ + 1, ![t].resid = @ - 1]

\* Fill the buffer for a write and start the disk.
Start(t) ==
  /\ pc[t] = "start"
  /\ IF req[t].write
     THEN /\ buf' = req[t].data[Len(req[t].data) - uio[t].resid + 1]
          /\ uio' = uiomove(t, uio)
     ELSE UNCHANGED <<buf, uio>>
  /\ reg' = [write |-> req[t].write, sect |-> loc[t].sector + loc[t].i]
  /\ stat' = "working"
  /\ Goto(t, "wait")
  /\ UNCHANGED <<disk, driver, req, loc, tries, moved, errors>>

\* The uiomove from a user's buffer fails.
StartFails(t) ==
  /\ pc[t] = "start" /\ req[t].write
  /\ lh_clear' = lh_clear + 1
  /\ loc' = [loc EXCEPT ![t].result = "EFAULT"]
  /\ Goto(t, "return")
  /\ UNCHANGED <<hardware, lh_done, lh_result, req, uio, tries, moved, errors>>

\* The disk: performs the operation, or reports a media error.
Disk ==
  /\ stat = "working"
  /\ \/ /\ stat' = "LHD_OK"
        /\ IF reg.write THEN disk' = [disk EXCEPT ![reg.sect] = buf] /\ UNCHANGED buf
                        ELSE buf' = disk[reg.sect] /\ UNCHANGED disk
        /\ moved' = [t \in Threads |-> IF pc[t] = "wait" THEN Append(moved[t], buf') ELSE moved[t]]
        /\ UNCHANGED errors
     \/ /\ stat' = "LHD_MEDIA"
        /\ errors < MaxErrors /\ errors' = errors + 1
        /\ UNCHANGED <<disk, buf, moved>>
  /\ UNCHANGED <<reg, driver, pc, req, uio, loc, tries>>

\* Mutant: a media error is not among the cases that end an operation, and its
\* interrupt comes again and again.
lhd_irq_okonly ==
  /\ stat \in {"LHD_OK", "LHD_MEDIA"}
  /\ stat' = IF stat = "LHD_OK" THEN "idle" ELSE stat
  /\ lh_done' = IF stat = "LHD_OK" THEN lh_done + 1 ELSE lh_done
  /\ UNCHANGED <<disk, buf, reg, lh_clear, lh_result, pc, req, uio, loc, tries, moved, errors>>

\* lhd_irq and lhd_iodone.
lhd_irq ==
  /\ stat \in {"LHD_OK", "LHD_MEDIA"}
  /\ stat' = "idle"
  /\ lh_result' = IF stat = "LHD_OK" THEN "0" ELSE "EIO"
  /\ lh_done' = lh_done + 1
  /\ UNCHANGED <<disk, buf, reg, lh_clear, pc, req, uio, loc, tries, moved, errors>>

P_done(t) ==
  /\ pc[t] = "wait"
  /\ lh_done > 0 /\ lh_done' = lh_done - 1
  /\ Goto(t, "finish")
  /\ UNCHANGED <<hardware, lh_clear, lh_result, req, uio, loc, tries, moved, errors>>

\* Mutant: the device is released before the buffer is copied.
Finish_early(t) ==
  /\ \/ /\ pc[t] = "finish"
        /\ lh_clear' = lh_clear + 1
        /\ loc' = [loc EXCEPT ![t].result = lh_result]
        /\ Goto(t, "copy")
        /\ UNCHANGED uio
     \/ /\ pc[t] = "copy"
        /\ uio' = IF loc[t].result = "0" /\ ~req[t].write
                  THEN [uiomove(t, uio) EXCEPT ![t].got = Append(@, buf)]
                  ELSE uio
        /\ loc' = [loc EXCEPT ![t].i = @ + 1]
        /\ Goto(t, IF loc[t].result = "0" THEN "loop" ELSE "return")
        /\ UNCHANGED lh_clear
  /\ UNCHANGED <<hardware, lh_done, lh_result, req, tries, moved, errors>>

\* Copy the buffer out after a read, which fails when the user's buffer is bad;
\* let the next thread go ahead.
Finish(t) ==
  /\ pc[t] = "finish"
  /\ LET reading == lh_result = "0" /\ ~req[t].write
     IN  \E result \in {lh_result} \cup (IF reading THEN {"EFAULT"} ELSE {}) :
           /\ uio' = IF reading /\ result = "0"
                     THEN [uiomove(t, uio) EXCEPT ![t].got = Append(@, buf)]
                     ELSE uio
           /\ loc' = [loc EXCEPT ![t].result = result, ![t].i = @ + 1]
           /\ Goto(t, IF result = "0" THEN "loop" ELSE "return")
  /\ lh_clear' = lh_clear + 1
  /\ UNCHANGED <<hardware, lh_done, lh_result, req, tries, moved, errors>>

EndLoop(t) ==
  /\ pc[t] = "loop" /\ loc[t].i = loc[t].len
  /\ Goto(t, "return")
  /\ UNCHANGED <<hardware, driver, req, uio, loc, tries, moved, errors>>

-----------------------------------------------------------------------------
\* sfs_rwblock: try again after an I/O error.
Retry(t) ==
  /\ pc[t] = "return"
  /\ req[t].sfs /\ loc[t].result = "EIO" /\ tries[t] < MaxTries
  /\ tries' = [tries EXCEPT ![t] = @ + 1]
  /\ Goto(t, "lhd_io")
  /\ UNCHANGED <<hardware, driver, req, uio, loc, moved, errors>>

\* The request is over, with loc[t].result.
Over(t) == pc[t] = "return" /\ ~(req[t].sfs /\ loc[t].result = "EIO" /\ tries[t] < MaxTries)

Return(t) ==
  /\ Over(t)
  /\ Goto(t, "idle")
  /\ req' = [req EXCEPT ![t] = NoReq]
  /\ uio' = [uio EXCEPT ![t] = NoUio]
  /\ loc' = [loc EXCEPT ![t] = NoLoc]
  /\ tries' = [tries EXCEPT ![t] = 0]
  /\ moved' = [moved EXCEPT ![t] = <<>>]
  /\ UNCHANGED <<hardware, driver, errors>>

Step(t) ==
  \/ lhd_io(t) \/ P_clear(t) \/ Start(t) \/ StartFails(t) \/ P_done(t)
  \/ Finish(t) \/ EndLoop(t) \/ Retry(t) \/ Return(t)

Next == Disk \/ lhd_irq \/ \E t \in Threads : Call(t) \/ Step(t)

Spec == Init /\ [][Next]_vars

\* The disk completes what it was told to do, its interrupt is delivered, and
\* a thread that can run does.
Fairness ==
  /\ WF_vars(Disk) /\ WF_vars(lhd_irq)
  /\ \A t \in Threads : WF_vars(Step(t))

FairSpec == Spec /\ Fairness

-----------------------------------------------------------------------------
\* Threads between P(lh_clear) and V(lh_clear).
Users == {t \in Threads : pc[t] \in {"start", "wait", "finish"}}

\* Type invariant; OneAtATime includes it.
TypeOK ==
  /\ disk \in [Sectors -> Values] /\ buf \in Values
  /\ stat \in {"idle", "working", "LHD_OK", "LHD_MEDIA"}
  /\ reg.sect \in Sectors
  /\ lh_clear \in 0..1 /\ lh_done \in 0..1
  /\ lh_result \in {"0", "EIO"}
  /\ \A t \in Threads : uio[t].resid \in 0 .. NSect /\ loc[t].i \in 0 .. loc[t].len
  /\ tries \in [Threads -> 0 .. MaxTries]

\* One thread at a time has the device, from before it touches the buffer and
\* the registers until after it has copied the buffer; and there is exactly one
\* completion for each operation started: none is left over for the next
\* thread, none is lost.
OneAtATime ==
  /\ TypeOK
  /\ \A t, u \in Users : t = u
  /\ lh_clear = IF Users = {} THEN 1 ELSE 0
  /\ (stat # "idle" \/ lh_done = 1) <=> \E t \in Threads : pc[t] = "wait"
  /\ stat # "idle" => lh_done = 0

\* A raw request, or a read by SFS, that returns success did all its sectors,
\* and a reader has exactly what the disk delivered for it.
Honest ==
  \A t \in Threads : Over(t) /\ loc[t].result = "0" /\ ~(req[t].sfs /\ req[t].write) =>
    /\ moved[t] = IF req[t].write THEN req[t].data ELSE uio[t].got
    /\ Len(moved[t]) = Len(req[t].data)

\* sfs_rwblock says it reads or writes a block, retrying I/O errors: when it
\* returns success for a write, the block was written.
WriteHonest ==
  \A t \in Threads : Over(t) /\ loc[t].result = "0" /\ req[t].sfs /\ req[t].write =>
    moved[t] = req[t].data

\* A thread that has the device gives it back: no completion is missed.
DeviceReleased == \A t \in Threads : t \in Users ~> t \notin Users

\* The disk serves one request at a time and completely (lhd_io, lhd_irq).
Served == OneAtATime /\ Honest
=============================================================================
