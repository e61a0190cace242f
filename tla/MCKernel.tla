------------------------------ MODULE MCKernel ------------------------------
(*****************************************************************************)
(* Two parts of the kernel that do not meet, model-checked side by side: a   *)
(* behaviour is one of kmalloc or of semfs, and the variables of the other   *)
(* stay as they are at the start, or 0. Kmalloc: two threads, two sizes of   *)
(* blocks and a pool of four pages, so that pages run out and page           *)
(* references need a second page. Semfs: three threads on one name, two that *)
(* sleep and one that writes, or one that removes the name, one that closes  *)
(* and one that opens it again; a second slot takes the semaphore created    *)
(* after a remove, and the count overflows at three. Both may stop: every    *)
(* thread of semfs asleep, the pool empty.                                   *)
(*****************************************************************************)
EXTENDS Kmalloc, TLC

CONSTANTS SemThreads, SemNames, NoThread, NSems, CountMod, MaxAmount

VARIABLES subject,
          semfs_dents, live, sems_linked, sems_hasvnode, sems_lock, vnodes, vn_refcount, dirlock,
          tablelock, semfs_pc, name, slot, semfs_ref, sems_count, resid, waiting, units

F == INSTANCE Semfs WITH pc <- semfs_pc, ref <- semfs_ref, Threads <- SemThreads, Names <- SemNames

semfs_vars == <<semfs_dents, live, sems_linked, sems_hasvnode, sems_lock, vnodes, vn_refcount, dirlock,
  tablelock, semfs_pc, name, slot, semfs_ref, sems_count, resid, waiting, units>>

\* The variables of the parts a behaviour is not about.
semfs_idle ==
  /\ semfs_dents = 0 /\ live = 0 /\ sems_linked = 0 /\ sems_hasvnode = 0 /\ sems_lock = 0 /\ vnodes = 0
  /\ vn_refcount = 0 /\ dirlock = 0 /\ tablelock = 0 /\ semfs_pc = 0 /\ name = 0 /\ slot = 0
  /\ semfs_ref = 0 /\ sems_count = 0 /\ resid = 0 /\ waiting = 0 /\ units = 0

KernelInit ==
  \/ subject = "kmalloc" /\ Init /\ semfs_idle
  \/ subject = "semfs" /\ F!Init /\ Init

KernelNext ==
  \/ subject = "kmalloc" /\ Next /\ UNCHANGED <<subject, semfs_vars>>
  \/ subject = "semfs" /\ F!Next /\ UNCHANGED <<subject, vars>>
  \/ subject \in {"kmalloc", "semfs"} /\ UNCHANGED <<subject, vars, semfs_vars>>

KernelSpec == KernelInit /\ [][KernelNext]_<<subject, vars, semfs_vars>>

Symmetry == Permutations(Threads) \cup Permutations(SemThreads)

TwoSizes == [b \in Types |-> 2]

=============================================================================
