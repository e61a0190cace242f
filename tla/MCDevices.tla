----------------------------- MODULE MCDevices ------------------------------
(*****************************************************************************)
(* The hardware drivers, model-checked side by side: a behaviour is one of   *)
(* the disk, of emufs, of the console, of the bus, of the clock or of        *)
(* devices as files; the variables of the others are 0, and the disk at      *)
(* rest. The property of the disk is Served of Lhd. Two threads contend for  *)
(* each device. The last three may stop: the bus when there is nothing left  *)
(* to do and no card interrupts, the clock and the raw devices at their      *)
(* bounds.                                                                   *)
(*****************************************************************************)
EXTENDS Lhd

CONSTANTS None, NHandles, MaxIO, MaxRetry, EmuErrors, BufSize, MaxIn, MaxPolled, HwCpus, LB_NSLOTS,
          Drivers, Odd, MaxDuds, Sleepers, Second, Turnover, ReadTime, MaxTime, MaxSecs, LHD_SECTSIZE,
          RawSectors, WordSize, Iovs, Offsets, Flags, MaxRequests, lser, ltimer

VARIABLES subject,
          biglock, e_lock, e_sem, e_result, emu_reg, iobuf, opened, refs, emu_pc, th, lost, kept,
          emu_errors, emu_panicked,
          tx, wirq, rirq, rchar, nin, ls_lock, ls_wbusy, wsem, rsem, gotchars, head, tail, lock_r, lock_w,
          lock_k, spin_k, con_irq, con_pc, todo, npolled, taken, missed, overrun, con_panicked,
          cpumask, self, uniprocessor, card, lamebus_pc, c_number, c_hw, cram, cirqe, started, slotsinuse,
          irqfuncs, lamebus_driver, slot, irqs, lamebus_at, seen, duds_this_time, duds,
          now, phase, clock_irq, sleeper, reader, ran,
          device, call, device_uio, device_disk, count, before, request, device_got

E == INSTANCE Emu WITH reg <- emu_reg, pc <- emu_pc, errors <- emu_errors, panicked <- emu_panicked,
       MaxErrors <- EmuErrors
C == INSTANCE Console WITH irq <- con_irq, pc <- con_pc, panicked <- con_panicked
B == INSTANCE Lamebus WITH pc <- lamebus_pc, driver <- lamebus_driver, at <- lamebus_at
K == INSTANCE Clock WITH irq <- clock_irq
D == INSTANCE Device WITH uio <- device_uio, disk <- device_disk, got <- device_got, Sectors <- RawSectors

emu_vars == <<biglock, e_lock, e_sem, e_result, emu_reg, iobuf, opened, refs, emu_pc, th, lost, kept,
  emu_errors, emu_panicked>>
con_vars == <<tx, wirq, rirq, rchar, nin, ls_lock, ls_wbusy, wsem, rsem, gotchars, head, tail, lock_r,
  lock_w, lock_k, spin_k, con_irq, con_pc, todo, npolled, taken, missed, overrun, con_panicked>>
lamebus_vars == <<cpumask, self, uniprocessor, card, lamebus_pc, c_number, c_hw, cram, cirqe, started,
  slotsinuse, irqfuncs, lamebus_driver, slot, irqs, lamebus_at, seen, duds_this_time, duds>>
clock_vars == <<now, phase, clock_irq, sleeper, reader, ran>>
device_vars == <<device, call, device_uio, device_disk, count, before, request, device_got>>

\* The variables of the parts a behaviour is not about.
lhd_idle == Init /\ (\A s \in Sectors : disk[s] = buf) /\ buf = CHOOSE v \in Values : TRUE
emu_idle ==
  /\ biglock = 0 /\ e_lock = 0 /\ e_sem = 0 /\ e_result = 0 /\ emu_reg = 0 /\ iobuf = 0 /\ opened = 0
  /\ refs = 0 /\ emu_pc = 0 /\ th = 0 /\ lost = 0 /\ kept = 0 /\ emu_errors = 0 /\ emu_panicked = 0
con_idle ==
  /\ tx = 0 /\ wirq = 0 /\ rirq = 0 /\ rchar = 0 /\ nin = 0 /\ ls_lock = 0 /\ ls_wbusy = 0 /\ wsem = 0
  /\ rsem = 0 /\ gotchars = 0 /\ head = 0 /\ tail = 0 /\ lock_r = 0 /\ lock_w = 0 /\ lock_k = 0
  /\ spin_k = 0 /\ con_irq = 0 /\ con_pc = 0 /\ todo = 0 /\ npolled = 0 /\ taken = 0 /\ missed = 0
  /\ overrun = 0 /\ con_panicked = 0
lamebus_idle ==
  /\ cpumask = 0 /\ self = 0 /\ uniprocessor = 0 /\ card = 0 /\ lamebus_pc = 0 /\ c_number = 0 /\ c_hw = 0
  /\ cram = 0 /\ cirqe = 0 /\ started = 0 /\ slotsinuse = 0 /\ irqfuncs = 0 /\ lamebus_driver = 0
  /\ slot = 0 /\ irqs = 0 /\ lamebus_at = 0 /\ seen = 0 /\ duds_this_time = 0 /\ duds = 0
clock_idle == now = 0 /\ phase = 0 /\ clock_irq = 0 /\ sleeper = 0 /\ reader = 0 /\ ran = 0
device_idle ==
  /\ device = 0 /\ call = 0 /\ device_uio = 0 /\ device_disk = 0 /\ count = 0 /\ before = 0 /\ request = 0
  /\ device_got = 0

DevicesInit ==
  \/ subject = "lhd" /\ Init /\ emu_idle /\ con_idle /\ lamebus_idle /\ clock_idle /\ device_idle
  \/ subject = "emu" /\ E!Init /\ lhd_idle /\ con_idle /\ lamebus_idle /\ clock_idle /\ device_idle
  \/ subject = "con" /\ C!Init /\ lhd_idle /\ emu_idle /\ lamebus_idle /\ clock_idle /\ device_idle
  \/ subject = "lamebus" /\ B!Init /\ lhd_idle /\ emu_idle /\ con_idle /\ clock_idle /\ device_idle
  \/ subject = "clock" /\ K!Init /\ lhd_idle /\ emu_idle /\ con_idle /\ lamebus_idle /\ device_idle
  \/ subject = "device" /\ D!Init /\ lhd_idle /\ emu_idle /\ con_idle /\ lamebus_idle /\ clock_idle

DevicesNext ==
  \/ subject = "lhd" /\ Next /\ UNCHANGED <<subject, emu_vars, con_vars, lamebus_vars, clock_vars, device_vars>>
  \/ subject = "emu" /\ E!Next /\ UNCHANGED <<subject, vars, con_vars, lamebus_vars, clock_vars, device_vars>>
  \/ subject = "con" /\ C!Next /\ UNCHANGED <<subject, vars, emu_vars, lamebus_vars, clock_vars, device_vars>>
  \/ subject = "lamebus" /\ B!Next /\ UNCHANGED <<subject, vars, emu_vars, con_vars, clock_vars, device_vars>>
  \/ subject = "clock" /\ K!Next /\ UNCHANGED <<subject, vars, emu_vars, con_vars, lamebus_vars, device_vars>>
  \/ subject = "device" /\ D!Next /\ UNCHANGED <<subject, vars, emu_vars, con_vars, lamebus_vars, clock_vars>>
  \/ subject \in {"lamebus", "clock", "device"}
     /\ UNCHANGED <<subject, vars, emu_vars, con_vars, lamebus_vars, clock_vars, device_vars>>

DevicesSpec ==
  /\ DevicesInit
  /\ [][DevicesNext]_<<subject, vars, emu_vars, con_vars, lamebus_vars, clock_vars, device_vars>>

MCDrivers == <<lser, ltimer>>
MCIovs == {<<2>>, <<4>>, <<1, 1>>, <<1, 0, 3>>, <<3, 1>>, <<1, 2, 1>>, <<3>>, <<5, 1>>}
MCFlags == SUBSET {"O_WRONLY", "O_CREAT", "O_APPEND"}

\* emufs: every thread gets its own answer and no handle of the device is lost
\* (emu_waitdone, emufs_loadvnode, emufs_reclaim).
AnswersOwned == subject = "emu" => E!AnswersOwned


\* Bus: a started CPU finds its own structure, and interrupts reach the handlers
\* of the cards that raised them (lamebus_find_cpus, lamebus_start_cpus,
\* lamebus_attach_interrupt, lamebus_interrupt).
Wired == subject = "lamebus" => B!Wired


\* Devices as files: a transfer moves the bytes at its offset, no others, and
\* counts them (dev_read, dev_write, lhd_io, uiomove).
IoExact == subject = "device" => D!IoExact
=============================================================================
