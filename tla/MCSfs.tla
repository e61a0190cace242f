------------------------------- MODULE MCSfs -------------------------------
(***************************************************************************)
(* SFS, model-checked from two sides: a behaviour is one of SfsFile or one *)
(* of Volume, and the variables of the other are 0.                        *)
(*                                                                         *)
(* SfsFile: one file and one directory on a volume with too few blocks for *)
(* both; blocks of two words, one direct block and an indirect block of    *)
(* two.  Volume: two names, and damaged images with a subdirectory.        *)
(***************************************************************************)
EXTENDS Volume

CONSTANTS SfsFiles, Dirs, FileBlocks, Values, MaxErrors

VARIABLES subject,
          freemap, fdisk, sfi_direct, sfi_indirect, sfi_size, op, errors, leaked, damaged

F == INSTANCE SfsFile WITH Files <- SfsFiles, NBlocks <- FileBlocks, disk <- fdisk

file_vars == <<freemap, fdisk, sfi_direct, sfi_indirect, sfi_size, op, errors, leaked, damaged>>

\* The variables of the side a behaviour is not about.
file_idle ==
  /\ freemap = 0 /\ fdisk = 0 /\ sfi_direct = 0 /\ sfi_indirect = 0 /\ sfi_size = 0 /\ op = 0 /\ errors = 0
  /\ leaked = 0 /\ damaged = 0
volume_idle ==
  /\ disk = 0 /\ todo = 0 /\ mem = 0 /\ fm = 0 /\ fmdirty = 0 /\ opened = 0 /\ phase = "idle" /\ bad = 0
  /\ syncing = 0 /\ durable = 0 /\ ops = 0 /\ crashes = 0 /\ panicked = FALSE

SfsInit ==
  \/ subject = "file" /\ F!Init /\ volume_idle
  \/ subject = "volume" /\ Init /\ file_idle

SfsNext ==
  \/ subject = "file" /\ F!Next /\ UNCHANGED <<subject, vars>>
  \/ subject = "volume" /\ Next /\ UNCHANGED <<subject, file_vars>>

SfsSpec == SfsInit /\ [][SfsNext]_<<subject, file_vars, vars>>

\* What is in a free block makes no difference: sfs_balloc clears it.
UsedBlocks ==
  IF subject = "file"
  THEN <<freemap, [b \in freemap |-> fdisk[b]], sfi_direct, sfi_indirect, sfi_size, op, errors, leaked, damaged>>
  ELSE <<subject, vars>>

MCNames == {<<"a">>, <<"b">>}

\* A root directory (block 3) with two entries; 4 is a file or a directory whose
\* entries are in block 5; 6 is a file.
Entry(i, n) == [ino |-> i, name |-> n]

RootEntries == {NoEntry, Entry(0, <<"a">>), Entry(NBlocks, <<"a">>), Entry(4, <<"a">>), Entry(6, <<"a">>),
                Entry(4, <<>>), Entry(4, <<"a", ":">>), Entry(1, Dot), Entry(4, Dot), Entry(5, <<"b">>)}

SecondEntries == {NoEntry, Entry(4, <<"a">>), Entry(6, <<"a">>), Entry(4, Dot), Entry(5, <<"b">>)}

SubEntries == {NoEntry, Entry(6, <<"a">>), Entry(4, Dot), Entry(1, <<"b">>), Entry(6, DotDot)}

Objects ==
  [type : {"file", "dir", "inval"}, links : {1}, size : {3, BlockSize}, waste : BOOLEAN,
   direct : {<<5>>, <<NBlocks>>}, indirect : {0, 7}]

Image(e1, e2, s1, s2, o, id, fmap) ==
  [sb |-> "damaged", freemap |-> fmap,
   blk |-> [b \in Blocks |->
     CASE b = 1 -> Inode([ZeroInode EXCEPT !.type = "dir", !.links = 2, !.size = 2 * EntrySize, !.direct = <<3>>])
       [] b = 3 -> Dir(<<e1, e2, NoEntry>>)
       [] b = 4 -> Inode(o)
       [] b = 5 -> Dir(<<s1, s2, NoEntry>>)
       [] b = 6 -> Inode([ZeroInode EXCEPT !.type = "file", !.links = 1])
       [] b = 7 -> Indirect(<<id, 0>>)
       [] OTHER -> Zero]]

MCDamaged ==
  {Image(e1, e2, s1, s2, o, id, 0 .. 5) :
     e1 \in RootEntries, e2 \in SecondEntries, s1 \in SubEntries, s2 \in SubEntries, o \in Objects, id \in {0}}


=============================================================================
