------------------------------- MODULE MCCpu --------------------------------
(*****************************************************************************)
(* What the CPUs share, model-checked side by side: a behaviour is one of    *)
(* spinlocks, of the interrupt level of one CPU or of interprocessor         *)
(* interrupts; the variables of the others stay as they are at the start, or *)
(* 0. Spinlocks: three processors are enough for a waits-for cycle with an   *)
(* actor in the middle, three locks for a CPU that holds two while a third   *)
(* is contended. Spl: three threads, of which two are new, so that a thread  *)
(* is preempted by an interrupt, sleeps and idles while another is           *)
(* interrupted itself. Ipi: three processors, one that broadcasts while two  *)
(* others send; it may stop with every CPU halted.                           *)
(*****************************************************************************)
EXTENDS Spinlock, Ipi, TLC

CONSTANTS Threads, Boot, MaxLocks, MaxNest

VARIABLES subject,
          irq, curthread, t_curspl, t_iplhigh_count, t_in_interrupt, t_locks, stack, saved, frames

S == INSTANCE Spl

spl_vars == <<irq, curthread, t_curspl, t_iplhigh_count, t_in_interrupt, t_locks, stack, saved, frames>>

\* The variables of the parts a behaviour is not about.
spl_idle ==
  /\ irq = 0 /\ curthread = 0 /\ t_curspl = 0 /\ t_iplhigh_count = 0 /\ t_in_interrupt = 0 /\ t_locks = 0
  /\ stack = 0 /\ saved = 0 /\ frames = 0

CpuInit ==
  \/ subject = "spinlock" /\ Init /\ spl_idle /\ IpiInit
  \/ subject = "spl" /\ S!Init /\ Init /\ IpiInit
  \/ subject = "ipi" /\ IpiInit /\ Init /\ spl_idle

CpuNext ==
  \/ subject = "spinlock" /\ Next /\ UNCHANGED <<subject, spl_vars, ipi_vars>>
  \/ subject = "spl" /\ S!Next /\ UNCHANGED <<subject, vars, ipi_vars>>
  \/ subject = "ipi" /\ IpiNext /\ UNCHANGED <<subject, vars, spl_vars>>
  \/ subject \in {"ipi"} /\ UNCHANGED <<subject, vars, spl_vars, ipi_vars>>

CpuSpec == CpuInit /\ [][CpuNext]_<<subject, vars, spl_vars, ipi_vars>>

Symmetry == Permutations(Cpus)

\* The interrupt level counts exactly the spinlocks and splhigh calls of the
\* current thread, through traps and switches (kern/thread/spl.c).
Balanced == subject = "spl" => S!Balanced
=============================================================================
