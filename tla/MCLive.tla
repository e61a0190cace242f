------------------------------- MODULE MCLive -------------------------------
(*****************************************************************************)
(* What must eventually happen, model-checked side by side: a behaviour is   *)
(* one of interprocessor interrupts, of an SFS directory, of the disk, of    *)
(* emufs, of the console or of the bus, and the variables of the others are  *)
(* 0. Fairness is the fairness each module states, for the part the          *)
(* behaviour is about.                                                       *)
(*****************************************************************************)
EXTENDS Naturals, Sequences

CONSTANTS allcpus, TLBSHOOTDOWN_MAX, Threads, Names, NBlocks, MaxRefs, NameErrors, None, Values, NSect,
          MaxTries, MaxErrors, NHandles, MaxIO, MaxRetry, EmuErrors, BufSize, MaxIn, MaxPolled, HwCpus,
          LB_NSLOTS, Drivers, Odd, MaxDuds, lser, ltimer

VARIABLES subject,
          c_ipi_pending, c_numshootdown, line, ipi_pc, bcast,
          freemap, dir, names_disk, vnodes, names_refs, pending, orphans, names_errors, names_panicked,
          lhd_disk, buf, stat, lhd_reg, lh_clear, lh_done, lh_result, lhd_pc, req, uio, loc, lhd_tries,
          moved, lhd_errors,
          biglock, e_lock, e_sem, e_result, emu_reg, iobuf, opened, emu_refs, emu_pc, th, lost, kept,
          emu_errors, emu_panicked,
          tx, wirq, rirq, rchar, nin, ls_lock, ls_wbusy, wsem, rsem, gotchars, head, tail, lock_r, lock_w,
          lock_k, spin_k, irq, con_pc, todo, npolled, taken, missed, overrun, con_panicked,
          cpumask, self, uniprocessor, card, lamebus_pc, c_number, c_hw, cram, cirqe, started, slotsinuse,
          irqfuncs, lamebus_driver, slot, irqs, lamebus_at, seen, duds_this_time, duds

I == INSTANCE Ipi
N == INSTANCE SfsNames WITH disk <- names_disk, refs <- names_refs, errors <- names_errors,
       panicked <- names_panicked, MaxErrors <- NameErrors
L == INSTANCE Lhd WITH disk <- lhd_disk, reg <- lhd_reg, pc <- lhd_pc, tries <- lhd_tries,
       errors <- lhd_errors
E == INSTANCE Emu WITH reg <- emu_reg, refs <- emu_refs, pc <- emu_pc, errors <- emu_errors,
       panicked <- emu_panicked, MaxErrors <- EmuErrors
C == INSTANCE Console WITH pc <- con_pc, panicked <- con_panicked
B == INSTANCE Lamebus WITH pc <- lamebus_pc, driver <- lamebus_driver, at <- lamebus_at

ipi_vars == <<c_ipi_pending, c_numshootdown, line, ipi_pc, bcast>>
names_vars == <<freemap, dir, names_disk, vnodes, names_refs, pending, orphans, names_errors,
  names_panicked>>
lhd_vars == <<lhd_disk, buf, stat, lhd_reg, lh_clear, lh_done, lh_result, lhd_pc, req, uio, loc,
  lhd_tries, moved, lhd_errors>>
emu_vars == <<biglock, e_lock, e_sem, e_result, emu_reg, iobuf, opened, emu_refs, emu_pc, th, lost, kept,
  emu_errors, emu_panicked>>
con_vars == <<tx, wirq, rirq, rchar, nin, ls_lock, ls_wbusy, wsem, rsem, gotchars, head, tail, lock_r,
  lock_w, lock_k, spin_k, irq, con_pc, todo, npolled, taken, missed, overrun, con_panicked>>
lamebus_vars == <<cpumask, self, uniprocessor, card, lamebus_pc, c_number, c_hw, cram, cirqe, started,
  slotsinuse, irqfuncs, lamebus_driver, slot, irqs, lamebus_at, seen, duds_this_time, duds>>

\* The variables of the parts a behaviour is not about.
ipi_idle == c_ipi_pending = 0 /\ c_numshootdown = 0 /\ line = 0 /\ ipi_pc = 0 /\ bcast = 0
names_idle ==
  /\ freemap = 0 /\ dir = 0 /\ names_disk = 0 /\ vnodes = 0 /\ names_refs = 0 /\ pending = 0 /\ orphans = 0
  /\ names_errors = 0 /\ names_panicked = 0
lhd_idle ==
  /\ lhd_disk = 0 /\ buf = 0 /\ stat = 0 /\ lhd_reg = 0 /\ lh_clear = 0 /\ lh_done = 0 /\ lh_result = 0
  /\ lhd_pc = 0 /\ req = 0 /\ uio = 0 /\ loc = 0 /\ lhd_tries = 0 /\ moved = 0 /\ lhd_errors = 0
emu_idle ==
  /\ biglock = 0 /\ e_lock = 0 /\ e_sem = 0 /\ e_result = 0 /\ emu_reg = 0 /\ iobuf = 0 /\ opened = 0
  /\ emu_refs = 0 /\ emu_pc = 0 /\ th = 0 /\ lost = 0 /\ kept = 0 /\ emu_errors = 0 /\ emu_panicked = 0
con_idle ==
  /\ tx = 0 /\ wirq = 0 /\ rirq = 0 /\ rchar = 0 /\ nin = 0 /\ ls_lock = 0 /\ ls_wbusy = 0 /\ wsem = 0
  /\ rsem = 0 /\ gotchars = 0 /\ head = 0 /\ tail = 0 /\ lock_r = 0 /\ lock_w = 0 /\ lock_k = 0
  /\ spin_k = 0 /\ irq = 0 /\ con_pc = 0 /\ todo = 0 /\ npolled = 0 /\ taken = 0 /\ missed = 0
  /\ overrun = 0 /\ con_panicked = 0
lamebus_idle ==
  /\ cpumask = 0 /\ self = 0 /\ uniprocessor = 0 /\ card = 0 /\ lamebus_pc = 0 /\ c_number = 0 /\ c_hw = 0
  /\ cram = 0 /\ cirqe = 0 /\ started = 0 /\ slotsinuse = 0 /\ irqfuncs = 0 /\ lamebus_driver = 0
  /\ slot = 0 /\ irqs = 0 /\ lamebus_at = 0 /\ seen = 0 /\ duds_this_time = 0 /\ duds = 0

LiveInit ==
  \/ subject = "ipi" /\ I!IpiInit /\ names_idle /\ lhd_idle /\ emu_idle /\ con_idle /\ lamebus_idle
  \/ subject = "names" /\ N!Init /\ ipi_idle /\ lhd_idle /\ emu_idle /\ con_idle /\ lamebus_idle
  \/ subject = "lhd" /\ L!Init /\ ipi_idle /\ names_idle /\ emu_idle /\ con_idle /\ lamebus_idle
  \/ subject = "emu" /\ E!Init /\ ipi_idle /\ names_idle /\ lhd_idle /\ con_idle /\ lamebus_idle
  \/ subject = "con" /\ C!Init /\ ipi_idle /\ names_idle /\ lhd_idle /\ emu_idle /\ lamebus_idle
  \/ subject = "lamebus" /\ B!Init /\ ipi_idle /\ names_idle /\ lhd_idle /\ emu_idle /\ con_idle

LiveNext ==
  \/ subject = "ipi" /\ I!IpiNext
     /\ UNCHANGED <<subject, names_vars, lhd_vars, emu_vars, con_vars, lamebus_vars>>
  \/ subject = "names" /\ N!Next /\ UNCHANGED <<subject, ipi_vars, lhd_vars, emu_vars, con_vars, lamebus_vars>>
  \/ subject = "lhd" /\ L!Next /\ UNCHANGED <<subject, ipi_vars, names_vars, emu_vars, con_vars, lamebus_vars>>
  \/ subject = "emu" /\ E!Next /\ UNCHANGED <<subject, ipi_vars, names_vars, lhd_vars, con_vars, lamebus_vars>>
  \/ subject = "con" /\ C!Next /\ UNCHANGED <<subject, ipi_vars, names_vars, lhd_vars, emu_vars, lamebus_vars>>
  \/ subject = "lamebus" /\ B!Next /\ UNCHANGED <<subject, ipi_vars, names_vars, lhd_vars, emu_vars, con_vars>>

LiveSpec ==
  /\ LiveInit
  /\ [][LiveNext]_<<subject, ipi_vars, names_vars, lhd_vars, emu_vars, con_vars, lamebus_vars>>

LiveFairness ==
  /\ \A c \in allcpus :
       WF_ipi_vars(/\ subject = "ipi"
                   /\ I!interprocessor_interrupt(c) \/ I!lamebus_clear_ipi(c) \/ I!ipi_broadcast(c))
  /\ \A t \in Threads : WF_names_vars(subject = "names" /\ N!sfs_reclaim(t))
  /\ WF_lhd_vars(subject = "lhd" /\ L!Disk) /\ WF_lhd_vars(subject = "lhd" /\ L!lhd_irq)
  /\ \A t \in Threads : WF_lhd_vars(subject = "lhd" /\ L!Step(t))
  /\ WF_emu_vars(subject = "emu" /\ E!Device) /\ WF_emu_vars(subject = "emu" /\ E!emu_irq)
  /\ \A t \in Threads : SF_emu_vars(subject = "emu" /\ E!Step(t))
  /\ WF_con_vars(subject = "con" /\ C!Sent) /\ WF_con_vars(subject = "con" /\ C!Handler)
  /\ \A t \in Threads : SF_con_vars(subject = "con" /\ C!Output(t))
  /\ WF_lamebus_vars(subject = "lamebus" /\ B!lamebus_interrupt /\ irqs # {})
  /\ WF_lamebus_vars(subject = "lamebus" /\ B!Slot) /\ WF_lamebus_vars(subject = "lamebus" /\ B!Done)

LiveFairSpec == LiveSpec /\ LiveFairness

MCDrivers == <<lser, ltimer>>


\* An inode that nobody names or holds is freed, unless its disk write failed
\* (sfs_reclaim).
EventuallyFreed ==
  \A i \in 1 .. NBlocks :
    (subject = "names" /\ N!Unused(i)) ~> (subject = "names" => ~N!Unused(i) \/ orphans[i] > 0 \/ names_panicked)

\* A thread that has the disk lets it go (lhd_io, lhd_iodone); one that calls
\* emufs returns, unless vfs_biglock was kept by a failed emufs_loadvnode; and
\* output goes on, whoever writes and however (con_start, putch_intr,
\* putch_polled).
DriversAnswer ==
  \A t \in Threads :
    /\ (subject = "lhd" /\ t \in L!Users) ~> (subject = "lhd" => t \notin L!Users)
    /\ (subject = "emu" /\ emu_pc[t] # "idle") ~> (subject = "emu" => emu_pc[t] = "idle" \/ kept)
    /\ (subject = "con" /\ con_pc[t] \in {"send", "polled", "drain", "poll", "forced"})
         ~> (subject = "con" => con_pc[t] \in {"write", "idle"})

\* A card that interrupts and has a handler is served (lamebus_interrupt).
Serviced ==
  \A s \in 0 .. LB_NSLOTS - 1 :
    (subject = "lamebus" /\ s \in irqs /\ irqfuncs[s] # None)
      ~> (subject = "lamebus" => s \notin irqs \/ lamebus_pc = "panic")
=============================================================================
