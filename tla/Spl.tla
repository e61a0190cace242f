-------------------------------- MODULE Spl --------------------------------
(***************************************************************************)
(* Interrupt priority on one CPU: splraise, spllower and splx              *)
(* (kern/thread/spl.c), the spinlocks that use them, the interrupt and     *)
(* system call paths of mips_trap (kern/arch/mips/locore/trap.c) and the   *)
(* hand-over of interrupt state at a context switch (thread_switch,        *)
(* thread_startup).                                                        *)
(*                                                                         *)
(* stack[t] is what thread t has still to execute, the next instruction    *)
(* first; an empty stack is a thread in its own code.  An interrupt can    *)
(* come before any instruction while the hardware has interrupts on.       *)
(***************************************************************************)
EXTENDS Naturals, Sequences

CONSTANTS Threads,
          Boot,      \* the thread that is running at first; the others are new
          MaxLocks,  \* bound on the spinlocks a thread's own code holds
          MaxNest    \* bound on its nested splhigh calls

VARIABLES irq,              \* the hardware's interrupt enable bit
          curthread,
          t_curspl,         \* 0 is IPL_NONE, 1 is IPL_HIGH
          t_iplhigh_count,
          t_in_interrupt,
          t_locks,          \* spinlocks held on behalf of each thread
          stack,
          saved,            \* values returned by splhigh and not yet restored
          frames            \* locals old_in and doadjust of mips_trap

vars == <<irq, curthread, t_curspl, t_iplhigh_count, t_in_interrupt, t_locks, stack, saved, frames>>

splraise == <<"irqoff if 0", "count++">>

spllower == <<"count--", "irqon if 0">>

spinlock_acquire == splraise \o <<"lock">>

spinlock_release == <<"unlock">> \o spllower

\* Mutant: the level is not raised and restored around a switch.
thread_switch_nosplx(drop, op) ==
  spinlock_acquire \o drop \o <<op>> \o spinlock_release

\* thread_switch; drop is the release of the wait channel's lock when the
\* thread goes to sleep, and only a thread that sleeps may find nothing to run.
thread_switch(drop, op) ==
  <<"splhigh">> \o spinlock_acquire \o drop \o <<op>> \o spinlock_release \o <<"splx">>

thread_yield == thread_switch(<<>>, "switch")

wchan_sleep == thread_switch(spinlock_release, "sleep") \o spinlock_acquire

thread_startup == spinlock_release \o <<"spl0">>

Init ==
  /\ irq = TRUE
  /\ curthread = Boot
  /\ t_curspl = [t \in Threads |-> IF t = Boot THEN 0 ELSE 1]
  /\ t_iplhigh_count = [t \in Threads |-> IF t = Boot THEN 0 ELSE 2]
  /\ t_in_interrupt = [t \in Threads |-> FALSE]
  /\ t_locks = [t \in Threads |-> IF t = Boot THEN 0 ELSE 1]
  /\ stack = [t \in Threads |-> IF t = Boot THEN <<>> ELSE thread_startup]
  /\ saved = [t \in Threads |-> <<>>]
  /\ frames = [t \in Threads |-> <<>>]

-----------------------------------------------------------------------------
cur == curthread

Push(ops) == stack' = [stack EXCEPT ![cur] = ops \o @]

\* Execute the instruction op of the current thread, followed by ops.
At(op, ops) ==
  /\ stack[cur] # <<>> /\ Head(stack[cur]) = op
  /\ stack' = [stack EXCEPT ![cur] = ops \o Tail(@)]

\* cpu_irqoff, cpu_irqon and the return from an exception.
Irq ==
  /\ \/ At("irqoff if 0", <<>>) /\ irq' = (irq /\ t_iplhigh_count[cur] # 0)
     \/ At("irqon if 0", <<>>) /\ irq' = (irq \/ t_iplhigh_count[cur] = 0)
     \/ At("irqoff", <<>>) /\ irq' = FALSE
     \/ At("idle", <<>>) /\ irq' = FALSE
     \/ At("irqon", <<>>) /\ irq' = TRUE
  /\ UNCHANGED <<curthread, t_curspl, t_iplhigh_count, t_in_interrupt, t_locks, saved, frames>>

Count ==
  /\ \/ At("count++", <<>>) /\ t_iplhigh_count' = [t_iplhigh_count EXCEPT ![cur] = @ + 1]
     \/ At("count--", <<>>) /\ t_iplhigh_count' = [t_iplhigh_count EXCEPT ![cur] = @ - 1]
  /\ UNCHANGED <<irq, curthread, t_curspl, t_in_interrupt, t_locks, saved, frames>>

Lock ==
  /\ \/ At("lock", <<>>) /\ t_locks' = [t_locks EXCEPT ![cur] = @ + 1]
     \/ At("unlock", <<>>) /\ t_locks' = [t_locks EXCEPT ![cur] = @ - 1]
  /\ UNCHANGED <<irq, curthread, t_curspl, t_iplhigh_count, t_in_interrupt, saved, frames>>

\* splx(spl) from the current level.
splx(spl) ==
  IF t_curspl[cur] < spl THEN splraise \o <<"curspl = 1">>
  ELSE IF t_curspl[cur] > spl THEN <<"curspl = 0">> \o spllower
  ELSE <<>>

Splx ==
  /\ \/ At("splhigh", splx(1)) /\ saved' = [saved EXCEPT ![cur] = <<t_curspl[cur]>> \o @]
     \/ At("splx", splx(Head(saved[cur]))) /\ saved' = [saved EXCEPT ![cur] = Tail(@)]
     \/ At("spl0", splx(0)) /\ UNCHANGED saved
  /\ UNCHANGED <<irq, curthread, t_curspl, t_iplhigh_count, t_in_interrupt, t_locks, frames>>

SetCurspl ==
  /\ \/ At("curspl = 0", <<>>) /\ t_curspl' = [t_curspl EXCEPT ![cur] = 0]
     \/ At("curspl = 1", <<>>) /\ t_curspl' = [t_curspl EXCEPT ![cur] = 1]
  /\ UNCHANGED <<irq, curthread, t_iplhigh_count, t_in_interrupt, t_locks, saved, frames>>

\* switchframe_switch to a thread that was switched out, the same thread when
\* its run queue is empty or it is woken while idling, or one round of the idle
\* loop: release the run queue lock, cpu_idle (which flips interrupts on and
\* off), take the lock again.
Switch ==
  /\ \/ \E next \in Threads, op \in {"switch", "sleep"} :
          At(op, <<>>) /\ curthread' = next
     \/ /\ At("sleep", spinlock_release \o <<"irqon", "idle">> \o spinlock_acquire \o <<"sleep">>)
        /\ UNCHANGED curthread
  /\ UNCHANGED <<irq, t_curspl, t_iplhigh_count, t_in_interrupt, t_locks, saved, frames>>

-----------------------------------------------------------------------------
\* The CPU is in the idle loop's window, where thread_switch returns at once.
Idling == stack[cur] # <<>> /\ Head(stack[cur]) = "idle"

\* An interrupt: the hardware turns interrupts off, and mips_trap runs the
\* handler of a device, or hardclock, which may yield.
Interrupt ==
  /\ irq /\ irq' = FALSE
  /\ \E handler \in {spinlock_acquire \o spinlock_release, IF Idling THEN <<"splhigh", "splx">> ELSE thread_yield} :
       Push(<<"enter">> \o handler \o <<"leave", "irqon">>)
  /\ UNCHANGED <<curthread, t_curspl, t_iplhigh_count, t_in_interrupt, t_locks, saved, frames>>

doadjust == t_curspl[cur] = 0

\* mips_trap before mainbus_interrupt.
Enter ==
  /\ At("enter", <<>>)
  /\ frames' = [frames EXCEPT ![cur] = <<[old_in |-> t_in_interrupt[cur], adjust |-> doadjust]>> \o @]
  /\ t_in_interrupt' = [t_in_interrupt EXCEPT ![cur] = TRUE]
  /\ IF doadjust
     THEN /\ t_curspl' = [t_curspl EXCEPT ![cur] = 1]
          /\ t_iplhigh_count' = [t_iplhigh_count EXCEPT ![cur] = @ + 1]
     ELSE UNCHANGED <<t_curspl, t_iplhigh_count>>
  /\ UNCHANGED <<irq, curthread, t_locks, saved>>

\* mips_trap after mainbus_interrupt.
Leave ==
  LET f == Head(frames[cur]) IN
  /\ At("leave", <<>>)
  /\ IF f.adjust
     THEN /\ t_curspl' = [t_curspl EXCEPT ![cur] = 0]
          /\ t_iplhigh_count' = [t_iplhigh_count EXCEPT ![cur] = @ - 1]
     ELSE UNCHANGED <<t_curspl, t_iplhigh_count>>
  /\ t_in_interrupt' = [t_in_interrupt EXCEPT ![cur] = f.old_in]
  /\ frames' = [frames EXCEPT ![cur] = Tail(@)]
  /\ UNCHANGED <<irq, curthread, t_locks, saved>>

-----------------------------------------------------------------------------
Quiet == t_locks[cur] = 0 /\ saved[cur] = <<>>

\* A thread's own code: spinlocks and splhigh sections that need not nest
\* properly, going to sleep with one lock held, yielding.
Call ==
  /\ stack[cur] = <<>>
  /\ \/ t_locks[cur] < MaxLocks /\ Push(spinlock_acquire)
     \/ t_locks[cur] > 0 /\ Push(spinlock_release)
     \/ Len(saved[cur]) < MaxNest /\ Push(<<"splhigh">>)
     \/ saved[cur] # <<>> /\ Push(<<"splx">>)
     \/ t_locks[cur] = 1 /\ saved[cur] = <<>> /\ Push(wchan_sleep)
     \/ t_locks[cur] = 0 /\ Push(thread_yield)
  /\ UNCHANGED <<irq, curthread, t_curspl, t_iplhigh_count, t_in_interrupt, t_locks, saved, frames>>

\* A trap other than an interrupt, and the first entry to user mode: the
\* hardware has interrupts off, the record says on.
Trap ==
  /\ stack[cur] = <<>> /\ Quiet
  /\ \/ /\ irq' = FALSE
        /\ Push(<<"splhigh", "splx">> \o thread_yield \o <<"irqoff", "irqon">>)
     \/ /\ Push(<<"spl0", "irqoff", "irqon">>)
        /\ UNCHANGED irq
  /\ UNCHANGED <<curthread, t_curspl, t_iplhigh_count, t_in_interrupt, t_locks, saved, frames>>

Next ==
  \/ Irq \/ Count \/ Lock \/ Splx \/ SetCurspl \/ Switch
  \/ Interrupt \/ Enter \/ Leave \/ Call \/ Trap

Spec == Init /\ [][Next]_vars
-----------------------------------------------------------------------------
Quiescent(t) == t = cur /\ stack[t] = <<>>

\* Type invariant; CountExact includes it.
TypeOK ==
  /\ irq \in BOOLEAN
  /\ curthread \in Threads
  /\ t_curspl \in [Threads -> 0..1]
  /\ t_iplhigh_count \in [Threads -> 0 .. MaxLocks + 2]
  /\ t_in_interrupt \in [Threads -> BOOLEAN]
  /\ t_locks \in [Threads -> 0 .. MaxLocks + 1]
  /\ \A t \in Threads : Len(saved[t]) <= MaxNest + 2 /\ Len(frames[t]) <= 1

\* Interrupts are off whenever the current CPU holds a spinlock, the run
\* queue lock carried across a switch included: an interrupt handler can
\* never spin on a lock its own CPU holds.
SpinlocksMaskInterrupts == irq => t_locks[cur] = 0

\* A thread in its own code has exactly one reason for high priority per
\* spinlock it holds and one more inside splhigh; interrupts are on when and
\* only when there is none.  Interrupts, traps and switches leave no trace.
CountExact ==
  /\ TypeOK
  /\ \A t \in Threads : Quiescent(t) =>
       /\ t_iplhigh_count[t] = t_curspl[t] + t_locks[t]
       /\ t_curspl[t] = IF saved[t] = <<>> THEN 0 ELSE 1
       /\ irq = (t_iplhigh_count[t] = 0)
       /\ ~t_in_interrupt[t] /\ frames[t] = <<>>

\* The assertions of mips_trap: on entry, a level of 0 goes with a count of 0;
\* on return from the handler the adjustment can be taken back.
TrapAssertions ==
  stack[cur] # <<>> =>
    /\ Head(stack[cur]) = "enter" /\ t_curspl[cur] = 0 => t_iplhigh_count[cur] = 0
    /\ Head(stack[cur]) = "leave" /\ Head(frames[cur]).adjust =>
         t_curspl[cur] = 1 /\ t_iplhigh_count[cur] = 1

\* A thread that is switched out, or new, holds its share of the run queue
\* lock and is at high priority: what thread_switch and thread_startup undo
\* is what the switch away (or thread_create and thread_fork) has done.
SwitchedOut ==
  \A t \in Threads \ {cur} :
    t_curspl[t] = 1 /\ t_iplhigh_count[t] = 2 /\ t_locks[t] = 1

\* The interrupt level is exact: raised for each spinlock and each splhigh and
\* lowered with the last, through traps and through switches to other threads;
\* interrupts are off whenever a spinlock is held (splraise, spllower, mips_trap,
\* thread_switch).
Balanced == SpinlocksMaskInterrupts /\ CountExact /\ TrapAssertions /\ SwitchedOut
=============================================================================
