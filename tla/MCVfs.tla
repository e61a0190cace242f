------------------------------- MODULE MCVfs --------------------------------
(*****************************************************************************)
(* File systems and their names, model-checked side by side: a behaviour is  *)
(* one of the VFS layer or one of an SFS directory. Vfs: a machine with      *)
(* emufs, the console and one disk whose volume has a name of its own, and   *)
(* one device too many of that name; one program beside the menu; each form  *)
(* of pathname. SfsNames: two threads, two names and two blocks for inodes,  *)
(* so that a name can be linked, renamed and removed while the other thread  *)
(* looks it up or lets it go.                                                *)
(*****************************************************************************)
EXTENDS Vfs, TLC

CONSTANTS SfsThreads, SfsFileNames, NBlocks, MaxRefs, MaxErrors

VARIABLES subject,
          freemap, names_dir, disk, vnodes, names_refs, pending, orphans, errors, panicked

N == INSTANCE SfsNames WITH dir <- names_dir, refs <- names_refs, Names <- SfsFileNames,
       Threads <- SfsThreads

names_vars == <<freemap, names_dir, disk, vnodes, names_refs, pending, orphans, errors, panicked>>

\* The variables of the parts a behaviour is not about.
names_idle ==
  /\ freemap = 0 /\ names_dir = 0 /\ disk = 0 /\ vnodes = 0 /\ names_refs = 0 /\ pending = 0 /\ orphans = 0
  /\ errors = 0 /\ panicked = 0

VfsInit ==
  \/ subject = "vfs" /\ Init /\ names_idle
  \/ subject = "names" /\ N!Init /\ Init

VfsNext ==
  \/ subject = "vfs" /\ Next /\ UNCHANGED <<subject, names_vars>>
  \/ subject = "names" /\ N!Next /\ UNCHANGED <<subject, vars>>

VfsSpec == VfsInit /\ [][VfsNext]_<<subject, vars, names_vars>>

MCConfig ==
  <<[name |-> "emu0", kind |-> "fs", rawname |-> None, vol |-> None],
    [name |-> "con", kind |-> "char", rawname |-> None, vol |-> None],
    [name |-> "lhd0", kind |-> "disk", rawname |-> "lhd0raw", vol |-> "vol"],
    [name |-> "lhd0", kind |-> "char", rawname |-> None, vol |-> None]>>

MCPaths ==
  {<<>>, <<"f">>, <<"lhd0", ":">>, <<"vol", ":", "/", "f">>, <<"/", "f">>, <<":", "f">>, <<"con", ":">>}

Symmetry == Permutations(SfsThreads) \cup Permutations(SfsFileNames)

\* Vnodes, link counts, inodes and names agree (sfs_vnops.c, sfs_inode.c).
CountsExact == subject = "names" => N!CountsExact

\* The callers see a name space in which an inode is only reused when it has
\* neither names nor holders.
ImplementsNamespace ==
  (subject = "names" => N!NS!Init) /\ [][subject = "names" => N!NamespaceStep]_names_vars
=============================================================================
