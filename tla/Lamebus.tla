------------------------------ MODULE Lamebus ------------------------------
(***************************************************************************)
(* The system bus (kern/dev/lamebus/lamebus.c) as the kernel boots with it *)
(* (kern/arch/sys161/dev/lamebus_machdep.c): it numbers the CPUs, attaches *)
(* a driver to every card it knows (the *_att.c files, called by the       *)
(* generated autoconf code), starts the other CPUs, and dispatches the     *)
(* level-triggered interrupts of the cards on the boot CPU.                *)
(***************************************************************************)
EXTENDS Naturals, FiniteSets

CONSTANTS HwCpus,             \* hardware CPU numbers 0 .. HwCpus - 1
          LB_NSLOTS,          \* the bus controller is in the last slot
          Drivers,            \* in the order of autoconf, by kind of card
          Odd,                \* a kind without driver
          None,
          MaxDuds             \* 10000 in the code

VARIABLES cpumask, self, uniprocessor,  \* what the mainboard reports
          card,                         \* kind of card in each slot
          pc,                           \* the boot CPU outside interrupts
          c_number, c_hw,               \* struct cpu by software number: hardware number
          cram,                         \* software number poked in for each hardware CPU
          cirqe, started,               \* CPUs that get bus interrupts, that run
          slotsinuse, irqfuncs,         \* ls_slotsinuse; driver called for a slot
          driver, slot,                 \* autoconf's progress
          irqs,                         \* slots that assert their line
          at, seen, duds_this_time, duds   \* lamebus_interrupt; at = LB_NSLOTS when not in it

hw == <<cpumask, self, uniprocessor, card>>
cpus == <<c_number, c_hw, cram, cirqe, started>>
conf == <<slotsinuse, irqfuncs, driver, slot>>
intr == <<at, seen, duds_this_time, duds>>
vars == <<hw, pc, cpus, conf, irqs, intr>>

HwNumbers == 0 .. HwCpus - 1
Slots == 0 .. LB_NSLOTS - 1
LB_CONTROLLER_SLOT == LB_NSLOTS - 1
Kinds == {Drivers[i] : i \in DOMAIN Drivers}

lamebus_init ==
  /\ slotsinuse = {LB_CONTROLLER_SLOT}
  /\ irqfuncs = [s \in Slots |-> None]
  /\ driver = 1 /\ slot = LB_NSLOTS
  /\ at = LB_NSLOTS /\ seen = {} /\ duds_this_time = 0 /\ duds = 0

\* Interrupts are off; the boot CPU is cpu 0 already.
Init ==
  /\ cpumask \in SUBSET HwNumbers /\ self \in cpumask
  /\ uniprocessor \in IF Cardinality(cpumask) = 1 THEN BOOLEAN ELSE {FALSE}
  /\ card \in {c \in [Slots -> Kinds \cup {Odd, None}] : c[LB_CONTROLLER_SLOT] = None}
  /\ pc = "find_cpus"
  /\ c_number = 1 /\ c_hw = [n \in HwNumbers |-> 0]
  /\ cram = [h \in HwNumbers |-> 0] /\ cirqe = {} /\ started = {self}
  /\ lamebus_init
  /\ irqs = {}

-----------------------------------------------------------------------------
\* lamebus_find_cpus: the CPUs but the boot CPU in hardware order; then
\* mainbus_bootstrap turns interrupts on.
Rank(h) == Cardinality({g \in cpumask \ {self} : g < h})

cpu_create(S) ==
  /\ c_hw' = [n \in HwNumbers |-> CASE n = 0 -> IF uniprocessor THEN 0 ELSE self
                               [] n \in 1 .. Cardinality(S) -> CHOOSE h \in S : Rank(h) = n - 1
                               [] OTHER -> c_hw[n]]
  /\ c_number' = 1 + Cardinality(S)

lamebus_find_cpus ==
  /\ pc = "find_cpus"
  /\ cpu_create(IF uniprocessor THEN {} ELSE cpumask \ {self})
  /\ cirqe' = IF uniprocessor THEN {self} ELSE {c_hw'[0]}
  /\ pc' = "probe"
  /\ UNCHANGED <<hw, cram, started, conf, irqs, intr>>

NotInInterrupt == at = LB_NSLOTS

\* One driver's attach function: the first free slot with its card ...
lamebus_probe ==
  /\ pc = "probe" /\ NotInInterrupt /\ driver \in DOMAIN Drivers
  /\ LET fits == {s \in Slots \ slotsinuse : card[s] = Drivers[driver]}
     IN  \/ /\ fits # {}
            /\ slot' = CHOOSE s \in fits : \A t \in fits : s <= t
            /\ pc' = "kmalloc" /\ UNCHANGED driver
         \/ /\ fits = {} /\ driver' = driver + 1 /\ UNCHANGED <<slot, pc>>
  /\ UNCHANGED <<hw, cpus, slotsinuse, irqfuncs, irqs, intr>>

\* ... which the driver gives up on when memory is short ...
kmalloc ==
  /\ pc = "kmalloc" /\ NotInInterrupt
  /\ \/ pc' = "mark" /\ UNCHANGED driver
     \/ pc' = "probe" /\ driver' = driver + 1
  /\ UNCHANGED <<hw, cpus, slotsinuse, irqfuncs, slot, irqs, intr>>

\* ... or marks and hooks.
lamebus_mark ==
  /\ pc = "mark" /\ NotInInterrupt
  /\ IF slot \in slotsinuse THEN pc' = "panic" /\ UNCHANGED slotsinuse
     ELSE pc' = "attach_interrupt" /\ slotsinuse' = slotsinuse \cup {slot}
  /\ UNCHANGED <<hw, cpus, irqfuncs, driver, slot, irqs, intr>>

lamebus_attach_interrupt ==
  /\ pc = "attach_interrupt" /\ NotInInterrupt
  /\ IF slot \notin slotsinuse \/ irqfuncs[slot] # None THEN pc' = "panic" /\ UNCHANGED irqfuncs
     ELSE pc' = "probe" /\ irqfuncs' = [irqfuncs EXCEPT ![slot] = Drivers[driver]]
  /\ UNCHANGED <<hw, cpus, slotsinuse, driver, slot, irqs, intr>>

Poked_hardware(h) == IF h \in cpumask \ {self} THEN h ELSE cram[h]
\* lamebus_start_cpus counts the CPUs itself.
Poked(h) == IF h \in cpumask \ {self} THEN 1 + Rank(h) ELSE cram[h]

lamebus_start_cpus ==
  /\ pc = "probe" /\ NotInInterrupt /\ driver \notin DOMAIN Drivers
  /\ pc' = "running"
  /\ IF uniprocessor THEN UNCHANGED <<cram, started>>
     ELSE cram' = [h \in HwNumbers |-> Poked(h)] /\ started' = cpumask
  /\ UNCHANGED <<hw, c_number, c_hw, cirqe, conf, irqs, intr>>

-----------------------------------------------------------------------------
\* A card interrupts once its driver has set it up; one without driver as it
\* likes, and may stop again.
Raise ==
  /\ \E s \in Slots \ irqs :
       /\ card[s] = Odd \/ (card[s] # None /\ irqfuncs[s] # None)
       /\ irqs' = irqs \cup {s}
  /\ UNCHANGED <<hw, pc, cpus, conf, intr>>

Lower ==
  /\ \E s \in irqs : card[s] = Odd /\ irqs' = irqs \ {s}
  /\ UNCHANGED <<hw, pc, cpus, conf, intr>>

\* lamebus_interrupt: the lines are read; none asserted is a stray interrupt
\* (a line that was lowered in between).
lamebus_interrupt ==
  /\ pc \notin {"find_cpus", "panic"} /\ NotInInterrupt
  /\ at' = 0 /\ seen' = irqs
  /\ irqs # {} \/ \E s \in Slots : card[s] = Odd
  /\ duds_this_time' = IF irqs = {} THEN 1 ELSE 0
  /\ duds' = duds + duds_this_time'
  /\ UNCHANGED <<hw, pc, cpus, conf, irqs>>

\* A slot: nothing, a dud, or a handler, which runs with the bus unlocked and
\* quiets its card; the lines are then read again.
After_first(s) == LB_NSLOTS - 1
After(s) == s + 1

Slot ==
  /\ at < LB_CONTROLLER_SLOT /\ pc # "panic"
  /\ \/ /\ at \notin seen /\ at' = at + 1
        /\ UNCHANGED <<irqs, seen, duds_this_time, duds>>
     \/ /\ at \in seen /\ (at \notin slotsinuse \/ irqfuncs[at] = None)
        /\ at' = at + 1
        /\ duds' = duds + 1 /\ duds_this_time' = duds_this_time + 1
        /\ UNCHANGED <<irqs, seen>>
     \/ /\ at \in seen /\ at \in slotsinuse /\ irqfuncs[at] # None
        /\ irqs' = irqs \ {at} /\ seen' = irqs'
        /\ at' = After(at)
        /\ UNCHANGED <<duds_this_time, duds>>
  /\ UNCHANGED <<hw, pc, cpus, conf>>

Done ==
  /\ at = LB_CONTROLLER_SLOT /\ pc # "panic"
  /\ at' = LB_NSLOTS /\ seen' = {} /\ duds_this_time' = 0
  /\ duds' = IF duds_this_time = 0 THEN 0 ELSE duds
  /\ pc' = IF duds' > MaxDuds THEN "panic" ELSE pc
  /\ UNCHANGED <<hw, cpus, conf, irqs>>

Next ==
  \/ lamebus_find_cpus \/ lamebus_probe \/ kmalloc \/ lamebus_mark
  \/ lamebus_attach_interrupt \/ lamebus_start_cpus
  \/ Raise \/ Lower
  \/ lamebus_interrupt \/ Slot \/ Done

Spec == Init /\ [][Next]_vars

\* The boot CPU takes an interrupt whose line stays asserted, and finishes it.
Fairness == WF_vars(lamebus_interrupt /\ irqs # {}) /\ WF_vars(Slot) /\ WF_vars(Done)
FairSpec == Spec /\ Fairness

-----------------------------------------------------------------------------
\* What the bus is wired to: a started CPU finds the number of the structure
\* that has its hardware number (lamebus_find_cpus and lamebus_start_cpus count
\* the CPUs separately), so that an interprocessor interrupt reaches the CPU it
\* is for; a slot that is in use has the card
\* of its driver, each hooked handler is in a slot in use, and attaching never
\* panics; the kernel gives up on dud interrupts only if some card has no handler.
Wired ==
  /\ pc = "running" /\ ~uniprocessor => \A h \in started \ {self} :
       cram[h] \in 1 .. c_number - 1 /\ c_hw[cram[h]] = h
  /\ \A s \in Slots : irqfuncs[s] # None => s \in slotsinuse /\ irqfuncs[s] = card[s]
  /\ pc = "panic" => duds > MaxDuds /\ \E s \in Slots : card[s] = Odd

\* Every interrupt of a card with a handler is serviced, whatever other cards do,
\* unless the kernel panics over duds (the loop of lamebus_interrupt goes on to
\* the slots behind the one it called, and reads the lines again).
Serviced == \A s \in Slots : (s \in irqs /\ irqfuncs[s] # None) ~> (s \notin irqs \/ pc = "panic")
=============================================================================
