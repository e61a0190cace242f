------------------------------- MODULE Volume -------------------------------
(***************************************************************************)
(* The life of an SFS volume on disk: mksfs makes it, the kernel mounts it *)
(* and changes it (kern/fs/sfs), the machine crashes between two writes,   *)
(* and sfsck repairs what is left.                                         *)
(*                                                                         *)
(* An operation of the kernel runs under the VFS big lock.  It changes     *)
(* the inodes and the free map in memory and writes directory, indirect    *)
(* and cleared blocks at once (todo, in the order of the code); inodes are *)
(* written when they are reclaimed, and inodes and free map by sfs_sync.   *)
(* Contents of files are left out, and so are failing writes, which are    *)
(* the subject of SfsNames and SfsFile.                                    *)
(***************************************************************************)
EXTENDS Integers, Sequences, FiniteSets, FiniteSetsExt, SequencesExt

(***************************************************************************)
(* The on-disk format of SFS (kern/include/kern/sfs.h) and the program     *)
(* that checks and repairs it, userland/sbin/sfsck, as a function from     *)
(* disk images to disk images.                                             *)
(*                                                                         *)
(* An image is the superblock (good, with fields to be put right, or not   *)
(* of SFS), the free map, as the set of the blocks it shows in use, and    *)
(* the blocks: an inode, a block of directory entries or an indirect       *)
(* block.  A block that was never written as what it is read as reads as   *)
(* zeros, as sfs_balloc leaves it.  Sizes are in half directory entries,   *)
(* so that a directory can have an illegal one.  Names are sequences; the  *)
(* empty one is a name with sfd_name[0] = 0.                               *)
(***************************************************************************)
CONSTANTS NBlocks,        \* sb_nblocks
          FreemapBits,    \* SFS_FREEMAPBITS: the map is longer than the volume
          SFS_NDIRECT, SFS_DBPERIDB,
          DirPerBlock     \* directory entries in a block

SFS_SUPER_BLOCK == 0
SFS_ROOTDIR_INO == 1
SFS_FREEMAP_START == 2
SFS_NOINO == 0

Dot == <<".">>
DotDot == <<".", ".">>

ROUNDUP(a, b) == ((a + b - 1) \div b) * b

EntrySize == 2
BlockSize == EntrySize * DirPerBlock

NoEntry == [ino |-> SFS_NOINO, name |-> <<>>]

\* The three faces of a zeroed block.
ZeroInode == [type |-> "inval", links |-> 0, size |-> 0, waste |-> FALSE,
              direct |-> [k \in 1 .. SFS_NDIRECT |-> 0], indirect |-> 0]
ZeroDir == [k \in 1 .. DirPerBlock |-> NoEntry]
ZeroIndirect == [k \in 1 .. SFS_DBPERIDB |-> 0]

Zero == [kind |-> "zero"]
Inode(i) == [kind |-> "inode", v |-> i]
Dir(d) == [kind |-> "dir", v |-> d]
Indirect(e) == [kind |-> "indirect", v |-> e]

readinode(img, b) == IF img.blk[b].kind = "inode" THEN img.blk[b].v ELSE ZeroInode
readindirect(img, b) == IF img.blk[b].kind = "indirect" THEN img.blk[b].v ELSE ZeroIndirect
readdirblock(img, b) == IF b # 0 /\ img.blk[b].kind = "dir" THEN img.blk[b].v ELSE ZeroDir

\* bmap and ibmap: the disk block of a file block, counted from 0.
bmap(img, sfi, fileblock) ==
  IF fileblock < SFS_NDIRECT THEN sfi.direct[fileblock + 1]
  ELSE IF fileblock >= SFS_NDIRECT + SFS_DBPERIDB \/ sfi.indirect = 0 THEN 0
  ELSE readindirect(img, sfi.indirect)[fileblock - SFS_NDIRECT + 1]

\* sfs_readdir: the first nd entries.
readdir(img, sfi, nd) ==
  LET blocks == [n \in 1 .. ROUNDUP(nd, DirPerBlock) \div DirPerBlock |-> readdirblock(img, bmap(img, sfi, n - 1))]
  IN  SubSeq(FlattenSeq(blocks), 1, nd)

-----------------------------------------------------------------------------
(* The state of a run: the image, the blocks found in use, the blocks to   *)
(* free, the table of inodes, and what there was to complain about:        *)
(*   fixed    setbadness(EXIT_RECOV)                                       *)
(*   twice    a block is in use twice (EXIT_UNRECOV)                       *)
(*   nodot    no room for `.' or `..' (EXIT_UNRECOV)                       *)
(*   sparse   no block to write a directory entry to (EXIT_UNRECOV)        *)
(*   fatal    the program stops: an inode is not in the table              *)
(*   abort    the program stops: a failed assertion                        *)

Stopped(st) == st.bad \cap {"fatal", "abort"} # {}

Complain(st, what) == [st EXCEPT !.bad = @ \cup {what}]

Assert_(st, ok) == IF ok THEN st ELSE Complain(st, "abort")

diskwrite(st, b, content) == IF Stopped(st) THEN st ELSE [st EXCEPT !.img.blk[b] = content]

\* sfs_writedirblock for each block of the directory, the last one padded.
writedir(st, sfi, d) ==
  LET nblocks == ROUNDUP(Len(d), DirPerBlock) \div DirPerBlock
      piece(i) == SubSeq(d \o ZeroDir, i * DirPerBlock + 1, (i + 1) * DirPerBlock)
      write(s, n) ==
        LET b == bmap(s.img, sfi, n - 1)
        IN  IF b # 0 THEN diskwrite(s, b, Dir(piece(n - 1)))
            ELSE IF piece(n - 1) = ZeroDir THEN s ELSE Complain(s, "sparse")
  IN  FoldLeft(write, st, [n \in 1 .. nblocks |-> n])

freemap_blockinuse(st, b) ==
  [st EXCEPT !.tofree = @ \ {b},
             !.used = @ \cup {b},
             !.bad = IF b \in st.used THEN @ \cup {"twice"} ELSE @]

freemap_blockfree(st, b) ==
  IF b \in st.tofree \cup st.used THEN st ELSE [st EXCEPT !.tofree = @ \cup {b}]

\* freemap_setup: the blocks past the end, the superblock and the map itself.
\* The map is one block long.
Reserved == (NBlocks .. FreemapBits - 1) \cup {SFS_SUPER_BLOCK, SFS_FREEMAP_START}

freemap_setup(img) ==
  [img |-> img, used |-> Reserved, tofree |-> {}, inodes |-> [i \in {} |-> {}],
   bad |-> {}, uid |-> 0]


\* freemap_check: the map on disk becomes what pass 1 found.
freemap_check(st) ==
  LET actual == st.img.freemap \ st.tofree
      checked == IF actual = st.used THEN st ELSE Complain(st, "fixed")
  IN  IF Stopped(st) THEN st ELSE [checked EXCEPT !.img.freemap = st.used]

-----------------------------------------------------------------------------
(* Pass 1: blocks and sizes.                                               *)

\* One pointer of a list of them; acc is the run and the list, k the index in
\* it, and the list begins at file block base.
CheckPointer(base, fileblocks, acc, k) ==
  LET p == acc.ptrs[k]
      cleared == [acc.ptrs EXCEPT ![k] = 0]
  IN  IF p >= NBlocks THEN [st |-> Complain(acc.st, "fixed"), ptrs |-> cleared]
      ELSE IF p = 0 THEN acc
      ELSE IF base + k - 1 < fileblocks THEN [acc EXCEPT !.st = freemap_blockinuse(@, p)]
      ELSE [st |-> Complain(freemap_blockfree(acc.st, p), "fixed"), ptrs |-> cleared]

CheckPointers(st, ptrs, base, fileblocks) ==
  FoldLeft(LAMBDA acc, k : CheckPointer(base, fileblocks, acc, k),
           [st |-> st, ptrs |-> ptrs], [k \in 1 .. Len(ptrs) |-> k])

\* The indirect block p: what is left of it.  A block left without entries is
\* dropped, though it is already in st.used and so is not freed.
check_indirect_block(st, p, fileblocks) ==
  IF p >= NBlocks THEN [st |-> Complain(st, "fixed"), p |-> 0]
  ELSE IF p = 0 THEN [st |-> st, p |-> 0]
  ELSE LET entries == readindirect(st.img, p)
           left(acc) ==
             IF acc.ptrs = ZeroIndirect
             THEN [st |-> Complain(freemap_blockfree(acc.st, p), "fixed"), p |-> 0]
             ELSE [st |-> IF acc.ptrs = entries THEN acc.st ELSE diskwrite(acc.st, p, Indirect(acc.ptrs)), p |-> p]
       IN  left(CheckPointers(freemap_blockinuse(st, p), entries, SFS_NDIRECT, fileblocks))

\* check_inode_blocks: the run and the inode after it.
check_inode_blocks(st, sfi) ==
  LET fileblocks == ROUNDUP(sfi.size, BlockSize) \div BlockSize
      changed(d, i) == [st |-> i.st, sfi |-> [sfi EXCEPT !.direct = d.ptrs, !.indirect = i.p]]
      indirect(d) == changed(d, check_indirect_block(d.st, sfi.indirect, fileblocks))
  IN  indirect(CheckPointers(st, sfi.direct, 0, fileblocks))

inode_add(st, ino, type) ==
  [st EXCEPT !.inodes = [i \in DOMAIN @ \cup {ino} |->
                           IF i = ino THEN [type |-> type, links |-> 0, visited |-> FALSE] ELSE @[i]]]

\* pass1_inode for an inode that is not in the table yet; old is what the disk
\* has, sfi what the caller made of it.
pass1_inode(st, ino, old, sfi) ==
  LET wasted(s) == IF sfi.waste THEN Complain(s, "fixed") ELSE s
      written(r) == IF r.sfi = old THEN r.st ELSE diskwrite(r.st, ino, Inode(r.sfi))
      used == freemap_blockinuse(inode_add(st, ino, sfi.type), ino)
  IN  written(check_inode_blocks(wasted(used), [sfi EXCEPT !.waste = FALSE]))

\* inode_add of an inode that is there already.
SeenBefore(st, ino, type) ==
  Assert_(st, st.inodes[ino].links = 0 /\ st.inodes[ino].type = type)

FsckName(ino, uid) == <<"FSCK", ToString(ino), ToString(uid)>>

Stomp(name) == [k \in DOMAIN name |-> IF name[k] \in {":", "/"} THEN "_" ELSE name[k]]

\* pass1_direntry on slot k of acc.d.
pass1_direntry(acc, k) ==
  LET e == acc.d[k]
      uid == acc.st.uid
      fixed == IF e.ino = SFS_NOINO \/ e.ino >= NBlocks THEN NoEntry
               ELSE IF e.name = <<>> THEN [e EXCEPT !.name = FsckName(e.ino, uid)]
               ELSE [e EXCEPT !.name = Stomp(e.name)]
      took == e.ino \in 1 .. NBlocks - 1 /\ e.name = <<>>
  IN  IF fixed = e THEN acc
      ELSE [acc EXCEPT !.st = [Complain(@, "fixed") EXCEPT !.uid = IF took THEN uid + 1 ELSE uid],
                       !.d[k] = fixed]

Slots(d) == [k \in 1 .. Len(d) |-> k]

\* A directory that is being checked: its entries as they are, and as read.
Opened(st, sfi, nd) ==
  LET opened(d) == [st |-> st, d |-> d, read |-> d, subdirs |-> 0] IN opened(readdir(st.img, sfi, nd))

\* pass1_dir, with everything under it.  An entry whose inode has no valid type
\* goes; `.' and `..' wait for pass 2.
RECURSIVE pass1_dir(_, _)
pass1_dir(st, ino) ==
  LET old == readinode(st.img, ino)
      sfi == [old EXCEPT !.size = ROUNDUP(@, EntrySize)]
      begun == IF sfi = old THEN st ELSE Complain(st, "fixed")
      child(acc, k) ==
        LET e == acc.d[k]
            sub == readinode(acc.st.img, e.ino)
        IN  IF Stopped(acc.st) \/ e.ino = SFS_NOINO \/ e.name \in {Dot, DotDot} THEN acc
            ELSE IF sub.type = "inval" THEN [acc EXCEPT !.st = Complain(@, "fixed"), !.d[k] = NoEntry]
            ELSE IF sub.type = "dir" THEN [acc EXCEPT !.st = pass1_dir(@, e.ino)]
            ELSE IF e.ino \in DOMAIN acc.st.inodes THEN [acc EXCEPT !.st = SeenBefore(@, e.ino, sub.type)]
            ELSE [acc EXCEPT !.st = pass1_inode(@, e.ino, sub, sub)]
      walked(acc) == FoldLeft(child, FoldLeft(pass1_direntry, acc, Slots(acc.d)), Slots(acc.d))
      written(acc, new) == IF acc.d = acc.read THEN acc.st ELSE writedir(acc.st, new, acc.d)
      entries(here, new) == written(walked(Opened(here, new, sfi.size \div EntrySize)), new)
      checked(here) == entries(here, readinode(here.img, ino))
  IN  IF ino \in DOMAIN st.inodes THEN SeenBefore(Assert_(st, sfi = old), ino, sfi.type)
      ELSE checked(pass1_inode(begun, ino, old, sfi))

\* pass1_rootdir: the root inode is made a directory if it is none.
pass1(st) ==
  LET sfi == readinode(st.img, SFS_ROOTDIR_INO)
      root == IF sfi.type = "dir" THEN st
              ELSE diskwrite(Complain(st, "fixed"), SFS_ROOTDIR_INO, Inode([sfi EXCEPT !.type = "dir"]))
  IN  pass1_dir(root, SFS_ROOTDIR_INO)

-----------------------------------------------------------------------------
(* Pass 2: the directory tree.                                             *)

\* The slot after k, in slot order, that has the same name.  (sfsdir_sort brings
\* them together; entries without an inode come last and are not compared.)
Twins(d, k) == {j \in k + 1 .. Len(d) : d[j].ino # SFS_NOINO /\ d[j].name = d[k].name}

\* Of two entries with one name the first is merged into the second if they are
\* the same file, and gets a name of its own otherwise.
Dedup(acc, k) ==
  LET e == acc.d[k]
      twins == Twins(acc.d, k)
      merged == acc.d[Min(twins)].ino = e.ino
  IN  IF e.ino = SFS_NOINO \/ twins = {} THEN acc
      ELSE [acc EXCEPT !.st = [Complain(@, "fixed") EXCEPT !.uid = IF merged THEN @ ELSE @ + 1],
                       !.d[k] = IF merged THEN NoEntry ELSE [e EXCEPT !.name = FsckName(e.ino, acc.st.uid)]]

\* The entry called name must be for inode ino.
FixDots(acc, name, ino) ==
  LET wrong == {k \in DOMAIN acc.d : acc.d[k].name = name /\ acc.d[k].ino # ino}
  IN  IF wrong = {} THEN acc
      ELSE [acc EXCEPT !.st = Complain(@, "fixed"),
                       !.d = [k \in DOMAIN @ |-> IF k \in wrong THEN [@[k] EXCEPT !.ino = ino] ELSE @[k]]]

\* sfsdir_tryadd in the directory as it is, then in what is left of its last block.
AddDots(acc, name, ino) ==
  LET free == {k \in DOMAIN acc.d : acc.d[k].ino = SFS_NOINO}
      e == [ino |-> ino, name |-> name]
  IN  IF \E k \in DOMAIN acc.d : acc.d[k].name = name THEN acc
      ELSE IF free # {} THEN [acc EXCEPT !.st = Complain(@, "fixed"), !.d[Min(free)] = e]
      ELSE IF Len(acc.d) % DirPerBlock # 0 THEN [acc EXCEPT !.st = Complain(@, "fixed"), !.d = Append(@, e)]
      ELSE [acc EXCEPT !.st = Complain(@, "nodot")]

\* inode_find stops the program for an inode pass 1 has not seen.
inode_addlink(st, ino) ==
  IF ino \notin DOMAIN st.inodes THEN Complain(st, "fatal")
  ELSE [Assert_(st, st.inodes[ino].type = "file" /\ ~st.inodes[ino].visited)
          EXCEPT !.inodes[ino].links = @ + 1]

\* pass2_dir: the run, and whether the directory had been visited before.
RECURSIVE pass2_dir(_, _, _)
pass2_dir(st, ino, parentino) ==
  LET visited == [Assert_(st, st.inodes[ino].type = "dir" /\ st.inodes[ino].links = 0)
                    EXCEPT !.inodes[ino].visited = TRUE]
      sfi == readinode(st.img, ino)
      unique(acc) == FoldLeft(Dedup, acc, Slots(acc.d))
      right(acc) == FixDots(FixDots(acc, Dot, ino), DotDot, parentino)
      dots(acc) == AddDots(AddDots(acc, Dot, ino), DotDot, parentino)
      entered(acc, k, sub) ==
        IF sub.crosslinked THEN [acc EXCEPT !.st = Complain(sub.st, "fixed"), !.d[k] = NoEntry]
        ELSE [acc EXCEPT !.st = sub.st, !.subdirs = @ + 1]
      child(acc, k) ==
        LET e == acc.d[k]
            type == readinode(acc.st.img, e.ino).type
        IN  IF Stopped(acc.st) \/ e.ino = SFS_NOINO \/ e.name \in {Dot, DotDot} THEN acc
            ELSE IF type = "file" THEN [acc EXCEPT !.st = inode_addlink(@, e.ino)]
            ELSE IF type = "dir" THEN entered(acc, k, pass2_dir(acc.st, e.ino, ino))
            ELSE [acc EXCEPT !.st = Complain(@, "fixed"), !.d[k] = NoEntry]
      walked(acc) == FoldLeft(child, acc, Slots(acc.d))
      changed(acc) == [sfi EXCEPT !.links = acc.subdirs + 2,
                                  !.size = @ + EntrySize * (Len(acc.d) - Len(acc.read))]
      counted(acc) == IF sfi.links = acc.subdirs + 2 THEN acc.st ELSE Complain(acc.st, "fixed")
      written(acc, new) ==
        LET s == IF acc.d = acc.read THEN counted(acc) ELSE writedir(counted(acc), new, acc.d)
        IN  [st |-> IF new = sfi THEN s ELSE diskwrite(s, ino, Inode(new)), crosslinked |-> FALSE]
      saved(acc) == written(acc, changed(acc))
  IN  IF ino \notin DOMAIN st.inodes THEN [st |-> Complain(st, "fatal"), crosslinked |-> FALSE]
      ELSE IF st.inodes[ino].visited THEN [st |-> st, crosslinked |-> TRUE]
      ELSE saved(walked(dots(right(unique(Opened(visited, sfi, sfi.size \div EntrySize))))))

pass2(st) == pass2_dir(st, SFS_ROOTDIR_INO, SFS_ROOTDIR_INO).st

-----------------------------------------------------------------------------
(* Pass 3: the link counts of files.                                       *)

inode_adjust_filelinks(st) ==
  LET adjust(s, ino) ==
        LET n == s.inodes[ino].links
            sfi == readinode(s.img, ino)
            seen == Assert_(s, n > 0 /\ sfi.type = "file")
        IN  IF sfi.links = n THEN seen
            ELSE diskwrite(Complain(seen, "fixed"), ino, Inode([sfi EXCEPT !.links = n]))
      files == {i \in DOMAIN st.inodes : st.inodes[i].type = "file"}
  IN  FoldLeft(adjust, st, SetToSortSeq(files, <))

\* sb_load and sb_check: no repair without the magic number; the other fields
\* are put right.
sb_check(st) ==
  IF st.img.sb = "foreign" THEN Complain(st, "fatal")
  ELSE IF st.img.sb = "damaged" THEN [Complain(st, "fixed") EXCEPT !.img.sb = "good"]
  ELSE st

Unless(st, pass(_)) == IF Stopped(st) THEN st ELSE pass(st)

\* The whole program: the image it leaves and what it had to complain about.
sfsck(img) ==
  LET blocks(st) == freemap_check(pass1(st))
      outcome(st) == [img |-> st.img, bad |-> st.bad]
  IN  outcome(Unless(Unless(Unless(sb_check(freemap_setup(img)), blocks), pass2), inode_adjust_filelinks))

Unrecoverable(bad) == bad \cap {"twice", "sparse", "fatal", "abort"} # {}

-----------------------------------------------------------------------------
CONSTANTS Names,       \* names of files, for the kernel
          Damaged,     \* images sfsck is given besides those of crashes
          MaxOps,      \* bound on the operations of the kernel
          MaxCrashes

VARIABLES disk,       \* the image on disk
          todo,       \* writes the operation under way has still to do
          mem,        \* the loaded inodes
          fm,         \* the free map in memory,
          fmdirty,    \* and whether it differs from the one on disk
          opened,     \* files somebody has open
          phase,      \* "up", "down" after a crash, "checked" after sfsck
          bad,        \* complaints of the last sfsck
          syncing,    \* the operation under way is sfs_sync
          durable,    \* names and files as the last sfs_sync left them
          panicked, ops, crashes

vars == <<disk, todo, mem, fm, fmdirty, opened, phase, bad, syncing, durable, panicked, ops, crashes>>

Blocks == 0 .. NBlocks - 1

-----------------------------------------------------------------------------
(* mksfs.                                                                  *)

initfreemap == {SFS_SUPER_BLOCK, SFS_ROOTDIR_INO, SFS_FREEMAP_START} \cup (NBlocks .. FreemapBits - 1)

\* The root directory is empty, without `.' and `..', and has link count 1.
writerootdir == Inode([ZeroInode EXCEPT !.type = "dir", !.links = 1])

mksfs == [sb |-> "good", freemap |-> initfreemap,
          blk |-> [b \in Blocks |-> IF b = SFS_ROOTDIR_INO THEN writerootdir ELSE Zero]]

-----------------------------------------------------------------------------
(* The kernel.  k is the state of an operation: the disk as it will be,    *)
(* the memory, the writes so far, and whether it panicked.                 *)

Kernel == [img |-> disk, mem |-> mem, fm |-> fm, dirty |-> fmdirty, log |-> <<>>, panic |-> FALSE, b |-> 0]

Panic(k) == [k EXCEPT !.panic = TRUE]

sfs_writeblock(k, b, content) ==
  [k EXCEPT !.img.blk[b] = content, !.log = Append(@, [b |-> b, v |-> content])]

\* sfs_balloc: the lowest free block, cleared on disk; b is 0 for ENOSPC.
sfs_balloc(k) ==
  LET free == (0 .. FreemapBits - 1) \ k.fm
      b == Min(free)
  IN  IF free = {} THEN [k EXCEPT !.b = 0]
      ELSE IF b >= NBlocks THEN Panic(k)
      ELSE [sfs_writeblock(k, b, Zero) EXCEPT !.fm = @ \cup {b}, !.dirty = TRUE, !.b = b]

\* bitmap_unmark insists that the block is in use.
sfs_bfree(k, b) ==
  IF b \in k.fm THEN [k EXCEPT !.fm = @ \ {b}, !.dirty = TRUE] ELSE Panic(k)

\* sfs_loadvnode: an inode must be in an allocated block and have a type.
sfs_loadvnode(k, i) ==
  LET sfi == readinode(k.img, i)
  IN  IF i \in DOMAIN k.mem THEN k
      ELSE IF i \notin k.fm \/ sfi.type = "inval" THEN Panic(k)
      ELSE [k EXCEPT !.mem = [j \in DOMAIN @ \cup {i} |-> IF j = i THEN [sfi |-> sfi, dirty |-> FALSE] ELSE @[j]]]

\* The inode i in memory becomes sfi and is dirty.
Update(k, i, sfi) == [k EXCEPT !.mem[i] = [sfi |-> sfi, dirty |-> TRUE]]

Sfi(k, i) == k.mem[i].sfi

\* sfs_bmap with doalloc: b is the block, or 0 for ENOSPC.
bmap_indirect(k, i, idoff) ==
  LET linked(a) == IF a.panic \/ a.b = 0 THEN a ELSE Update(a, i, [Sfi(a, i) EXCEPT !.indirect = a.b])
      written(data, id, entries) ==
        IF data.panic \/ data.b = 0 THEN data
        ELSE sfs_writeblock(data, id, Indirect([entries EXCEPT ![idoff] = data.b]))
      found(id, entries) ==
        IF entries[idoff] = 0 THEN written(sfs_balloc(id), id.b, entries)
        ELSE IF entries[idoff] \in id.fm THEN [id EXCEPT !.b = entries[idoff]] ELSE Panic(id)
      loaded(id) == IF id.panic \/ id.b = 0 THEN id ELSE found(id, readindirect(id.img, id.b))
  IN  loaded(IF Sfi(k, i).indirect # 0 THEN [k EXCEPT !.b = Sfi(k, i).indirect] ELSE linked(sfs_balloc(k)))

sfs_bmap(k, i, fileblock) ==
  IF fileblock >= SFS_NDIRECT THEN bmap_indirect(k, i, fileblock - SFS_NDIRECT + 1)
  ELSE LET p == Sfi(k, i).direct[fileblock + 1]
           linked(a) == IF a.panic \/ a.b = 0 THEN a
                        ELSE Update(a, i, [Sfi(a, i) EXCEPT !.direct[fileblock + 1] = a.b])
       IN  IF p = 0 THEN linked(sfs_balloc(k))
           ELSE IF p \in k.fm THEN [k EXCEPT !.b = p] ELSE Panic(k)

\* sfs_itrunc to blocklen whole blocks.
sfs_itrunc(k, i, blocklen) ==
  LET sfi == Sfi(k, i)
      cut == SelectSeq([n \in 1 .. SFS_NDIRECT |-> IF n > blocklen THEN sfi.direct[n] ELSE 0], LAMBDA b : b # 0)
      looked == blocklen < SFS_NDIRECT + SFS_DBPERIDB - 1 /\ sfi.indirect # 0
      idbuf == readindirect(k.img, sfi.indirect)
      idnew == [j \in 1 .. SFS_DBPERIDB |-> IF blocklen < SFS_NDIRECT + j - 1 THEN 0 ELSE idbuf[j]]
      idcut == SelectSeq([j \in 1 .. SFS_DBPERIDB |-> IF idnew[j] = 0 THEN idbuf[j] ELSE 0], LAMBDA b : b # 0)
      gone == looked /\ idnew = ZeroIndirect
      freed == cut \o (IF looked THEN idcut ELSE <<>>) \o (IF gone THEN <<sfi.indirect>> ELSE <<>>)
      written(s) ==
        IF looked /\ ~gone /\ idcut # <<>> THEN sfs_writeblock(s, sfi.indirect, Indirect(idnew)) ELSE s
  IN  Update(written(FoldLeft(sfs_bfree, k, freed)), i,
                    [sfi EXCEPT !.direct = [n \in DOMAIN @ |-> IF n > blocklen THEN 0 ELSE @[n]],
                                !.indirect = IF gone THEN 0 ELSE @,
                                !.size = blocklen * BlockSize])

sfs_sync_inode(k, i) ==
  IF k.mem[i].dirty THEN [sfs_writeblock(k, i, Inode(Sfi(k, i))) EXCEPT !.mem[i].dirty = FALSE] ELSE k

\* sfs_reclaim of the last reference.
Reclaim(k, i) ==
  LET freed(s) == IF Sfi(s, i).links = 0 THEN sfs_bfree(s, i) ELSE s
      truncated == IF Sfi(k, i).links = 0 THEN sfs_itrunc(k, i, 0) ELSE k
  IN  [freed(sfs_sync_inode(truncated, i)) EXCEPT !.mem = [j \in DOMAIN @ \ {i} |-> @[j]]]

\* VOP_DECREF at the end of an operation on a file that may be open.
sfs_reclaim(k, i) == IF i \in opened \/ k.panic THEN k ELSE Reclaim(k, i)

-----------------------------------------------------------------------------
(* The root directory.                                                     *)

Root == SFS_ROOTDIR_INO

Entries(k) ==
  LET sfi == IF Root \in DOMAIN k.mem THEN Sfi(k, Root) ELSE readinode(k.img, Root)
  IN  readdir(k.img, sfi, sfi.size \div EntrySize)

findname(k, n) == {s \in DOMAIN Entries(k) : Entries(k)[s].ino # SFS_NOINO /\ Entries(k)[s].name = n}

\* sfs_writedir: the block of the slot, allocated if need be, with the entry.
WriteSlot(k, slot, e) ==
  LET changed(a) == [readdirblock(a.img, a.b) EXCEPT ![((slot - 1) % DirPerBlock) + 1] = e]
      grown(w) == IF slot * EntrySize > Sfi(w, Root).size
                  THEN Update(w, Root, [Sfi(w, Root) EXCEPT !.size = slot * EntrySize]) ELSE w
      written(a) == IF a.panic \/ a.b = 0 THEN a ELSE grown(sfs_writeblock(a, a.b, Dir(changed(a))))
  IN  written(sfs_bmap(k, Root, (slot - 1) \div DirPerBlock))

emptyslot(k) ==
  LET empty == {s \in DOMAIN Entries(k) : Entries(k)[s].ino = SFS_NOINO}
  IN  IF empty = {} THEN Len(Entries(k)) + 1 ELSE Max(empty)

\* sfs_dir_link for a name that is not there, and sfs_dir_unlink.
sfs_dir_link(k, n, i) == WriteSlot(k, emptyslot(k), [ino |-> i, name |-> n])

sfs_dir_unlink(k, slot) == WriteSlot(k, slot, NoEntry)

\* The link count of i changes by d.
Relink(k, i, d) == IF k.panic THEN k ELSE Update(k, i, [Sfi(k, i) EXCEPT !.links = @ + d])

\* sfs_lookonce: the file a name stands for has a link count.
sfs_lookonce(k, i) ==
  LET l == sfs_loadvnode(k, i) IN IF l.panic \/ Sfi(l, i).links > 0 THEN l ELSE Panic(l)

\* The operation leaves k behind; touched are the files it changed.
Run(k, touched) ==
  /\ ops' = ops + 1
  /\ panicked' = k.panic
  /\ IF k.panic THEN UNCHANGED <<mem, fm, fmdirty, todo>>
     ELSE mem' = k.mem /\ fm' = k.fm /\ fmdirty' = k.dirty /\ todo' = k.log
  /\ durable' = {f \in durable : f.ino \notin touched}
  /\ UNCHANGED <<disk, phase, bad, crashes>>

Up == phase = "up" /\ todo = <<>> /\ ~panicked /\ ops < MaxOps

Ino(n) == Entries(Kernel)[CHOOSE s \in findname(Kernel, n) : TRUE].ino
Slot(n) == CHOOSE s \in findname(Kernel, n) : TRUE

\* sfs_creat of a new name.  The inode stays in memory, the block was cleared.
\* Without room for the directory entry the new inode is given back.
sfs_creat(n) ==
  /\ Up /\ findname(Kernel, n) = {}
  /\ LET made(a) == [a EXCEPT !.mem = [j \in DOMAIN @ \cup {a.b} |->
                        IF j = a.b THEN [sfi |-> [ZeroInode EXCEPT !.type = "file"], dirty |-> TRUE] ELSE @[j]]]
         linked(l, i) == IF l.b = 0 THEN Run(sfs_reclaim(l, i), {i}) /\ UNCHANGED opened
                         ELSE Run(Relink(l, i, 1), {i}) /\ opened' = opened \cup {i}
         allocated(a) == IF a.panic \/ a.b = 0 THEN Run(a, {}) /\ UNCHANGED opened
                         ELSE linked(sfs_dir_link(made(a), n, a.b), a.b)
     IN  allocated(sfs_balloc(Kernel))
  /\ syncing' = FALSE

sfs_lookup(n) ==
  /\ Up /\ findname(Kernel, n) # {}
  /\ Run(sfs_lookonce(Kernel, Ino(n)), {})
  /\ opened' = opened \cup {Ino(n)}
  /\ syncing' = FALSE

sfs_link(i, n) ==
  /\ Up /\ i \in opened /\ findname(Kernel, n) = {}
  /\ LET linked(l) == IF l.panic \/ l.b = 0 THEN l ELSE Relink(l, i, 1)
     IN  Run(linked(sfs_dir_link(Kernel, n, i)), {i})
  /\ UNCHANGED opened /\ syncing' = FALSE

sfs_remove(n) ==
  /\ Up /\ findname(Kernel, n) # {}
  /\ LET removed(g, i) ==
           IF g.panic THEN g ELSE sfs_reclaim(Relink(sfs_dir_unlink(g, Slot(n)), i, -1), i)
     IN  Run(removed(sfs_lookonce(Kernel, Ino(n)), Ino(n)), {Ino(n)})
  /\ UNCHANGED opened /\ syncing' = FALSE

sfs_rename(n1, n2) ==
  /\ Up /\ findname(Kernel, n1) # {} /\ findname(Kernel, n2) = {}
  /\ LET moved(l, i) == IF l.b = 0 THEN l ELSE Relink(sfs_dir_unlink(Relink(l, i, 1), Slot(n1)), i, -1)
         linked(l, i) == IF l.panic THEN l ELSE sfs_reclaim(moved(l, i), i)
         found(g, i) == IF g.panic THEN g ELSE linked(sfs_dir_link(g, n2, i), i)
     IN  Run(found(sfs_lookonce(Kernel, Ino(n1)), Ino(n1)), {Ino(n1)})
  /\ UNCHANGED opened /\ syncing' = FALSE

\* A write of one block of an open file.
sfs_io(i, fileblock) ==
  /\ Up /\ i \in opened
  /\ LET end == (fileblock + 1) * BlockSize
         grown(a) == IF a.panic \/ a.b = 0 \/ Sfi(a, i).size >= end THEN a
                     ELSE Update(a, i, [Sfi(a, i) EXCEPT !.size = end])
     IN  Run(grown(sfs_bmap(Kernel, i, fileblock)), {i})
  /\ UNCHANGED opened /\ syncing' = FALSE

sfs_truncate(i, blocklen) ==
  /\ Up /\ i \in opened
  /\ Run(sfs_itrunc(Kernel, i, blocklen), {i})
  /\ UNCHANGED opened /\ syncing' = FALSE

\* The last reference goes.
Close(i) ==
  /\ Up /\ i \in opened
  /\ opened' = opened \ {i}
  /\ Run(Reclaim(Kernel, i), {})
  /\ syncing' = FALSE


\* sfs_sync: the dirty inodes, in the order of the vnode table, then the free
\* map.  (The superblock never changes.)
sfs_sync ==
  /\ Up
  /\ \E order \in SetToSeqs({i \in DOMAIN mem : mem[i].dirty}) :
       LET k == FoldLeft(sfs_sync_inode, Kernel, order)
       IN  Run(IF k.dirty THEN [k EXCEPT !.dirty = FALSE, !.log = Append(@, [b |-> SFS_FREEMAP_START, v |-> k.fm])]
               ELSE k, {})
  /\ UNCHANGED opened /\ syncing' = TRUE

-----------------------------------------------------------------------------
(* The disk, crashes and repair.                                           *)

FilesOn(img) ==
  LET root == readinode(img, Root)
      d == readdir(img, root, root.size \div EntrySize)
  IN  {[name |-> d[s].name, ino |-> d[s].ino, sfi |-> readinode(img, d[s].ino)] : s \in {s \in DOMAIN d : d[s].name \in Names}}

\* The next write of the operation under way reaches the disk; after the last
\* one of sfs_sync the files are safe.
Write ==
  LET w == Head(todo)
      new == IF w.b = SFS_FREEMAP_START THEN [disk EXCEPT !.freemap = w.v] ELSE [disk EXCEPT !.blk[w.b] = w.v]
  IN  /\ phase = "up" /\ todo # <<>>
      /\ disk' = new
      /\ todo' = Tail(todo)
      /\ durable' = IF syncing /\ Len(todo) = 1 THEN FilesOn(new) ELSE durable
      /\ UNCHANGED <<mem, fm, fmdirty, opened, phase, bad, syncing, panicked, ops, crashes>>

\* External: power fails, or the kernel stops, at any moment.
Crash ==
  /\ phase = "up" /\ ~panicked /\ crashes < MaxCrashes
  /\ crashes' = crashes + 1
  /\ phase' = "down"
  /\ todo' = <<>> /\ mem' = [i \in {} |-> 0] /\ fm' = {} /\ fmdirty' = FALSE /\ opened' = {} /\ syncing' = FALSE
  /\ UNCHANGED <<disk, bad, durable, panicked, ops>>

RunSfsck ==
  /\ phase = "down"
  /\ LET r == sfsck(disk) IN disk' = r.img /\ bad' = r.bad
  /\ phase' = "checked"
  /\ UNCHANGED <<todo, mem, fm, fmdirty, opened, syncing, durable, panicked, ops, crashes>>

\* sfs_domount, and the root directory's vnode.  Nobody mounts a volume that
\* sfsck could not repair; a volume with subdirectories is not for this kernel.
sfs_domount ==
  /\ phase = "checked" /\ ~Unrecoverable(bad) /\ disk.sb = "good" /\ crashes > 0
  /\ phase' = "up"
  /\ fm' = disk.freemap /\ fmdirty' = FALSE
  /\ mem' = [i \in {Root} |-> [sfi |-> readinode(disk, Root), dirty |-> FALSE]]
  /\ UNCHANGED <<disk, todo, opened, bad, syncing, durable, panicked, ops, crashes>>

\* A new volume that is mounted, or a damaged one about to be checked.
Init ==
  /\ \/ /\ disk = mksfs /\ phase = "up"
        /\ fm = mksfs.freemap
        /\ mem = [i \in {Root} |-> [sfi |-> readinode(mksfs, Root), dirty |-> FALSE]]
     \/ disk \in Damaged /\ phase = "down" /\ fm = {} /\ mem = [i \in {} |-> 0]
  /\ todo = <<>> /\ fmdirty = FALSE /\ opened = {} /\ bad = {} /\ syncing = FALSE /\ durable = {}
  /\ panicked = FALSE /\ ops = 0 /\ crashes = 0

Next ==
  \/ \E n \in Names : sfs_creat(n) \/ sfs_lookup(n) \/ sfs_remove(n)
  \/ \E n1, n2 \in Names : sfs_rename(n1, n2)
  \/ \E i \in opened :
       \/ \E n \in Names : sfs_link(i, n)
       \/ \E fb \in 0 .. SFS_NDIRECT + SFS_DBPERIDB - 1 : sfs_io(i, fb) \/ sfs_truncate(i, fb)
       \/ Close(i)
  \/ sfs_sync
  \/ Write
  \/ Crash \/ RunSfsck \/ sfs_domount

Spec == Init /\ [][Next]_vars
-----------------------------------------------------------------------------
\* The blocks of a file within its length.
Content(img, sfi) == [fb \in 0 .. (ROUNDUP(sfi.size, BlockSize) \div BlockSize) - 1 |-> bmap(img, sfi, fb)]

BlocksOf(img, f) ==
  {f.ino, f.sfi.indirect} \cup {Content(img, f.sfi)[fb] : fb \in DOMAIN Content(img, f.sfi)}


\* The entries of a directory that name something else.
NamesIn(img, ino) ==
  LET sfi == readinode(img, ino)
      d == readdir(img, sfi, sfi.size \div EntrySize)
  IN  {d[s] : s \in {s \in DOMAIN d : d[s].ino # SFS_NOINO /\ d[s].name \notin {Dot, DotDot}}}

DirsOf(img, inos) == {i \in inos : readinode(img, i).type = "dir"}

Reachable(img) ==
  LET step(inos, n) == inos \cup UNION {{e.ino : e \in NamesIn(img, i)} : i \in DirsOf(img, inos)}
  IN  FoldLeft(step, {Root}, [n \in 1 .. NBlocks |-> n])

\* The blocks that belong to an inode, and how often the volume uses block b.
Uses(img, ino) ==
  LET sfi == readinode(img, ino)
      ind == IF sfi.indirect = 0 THEN ZeroIndirect ELSE readindirect(img, sfi.indirect)
  IN  <<ino, sfi.indirect>> \o sfi.direct \o ind

TimesUsed(img, b) ==
  LET count(ino) == Cardinality({k \in DOMAIN Uses(img, ino) : Uses(img, ino)[k] = b})
  IN  MapThenSumSet(count, Reachable(img))

LinksTo(img, i) == MapThenSumSet(LAMBDA d : Cardinality({e \in NamesIn(img, d) : e.ino = i}), DirsOf(img, Reachable(img)))

\* What a sound volume is: the free map shows exactly the blocks that are used,
\* each once; every name leads to a file or a directory and is the only one of
\* its kind in its directory; directories form a tree; link counts are right.
Consistent(img) ==
  LET inos == Reachable(img)
      dirs == DirsOf(img, inos)
  IN  /\ img.freemap = Reserved \cup {b \in Blocks : TimesUsed(img, b) > 0}
      /\ \A b \in Blocks \ {0} : TimesUsed(img, b) <= 1 /\ (b \in Reserved => TimesUsed(img, b) = 0)
      /\ \A i \in inos : readinode(img, i).type # "inval"
      /\ \A d \in dirs : \A e, f \in NamesIn(img, d) : e.name = f.name => e = f
      /\ \A d \in dirs \ {Root} : LinksTo(img, d) = 1
      /\ \A i \in inos : readinode(img, i).links =
           IF i \in dirs THEN 2 + Cardinality({e \in NamesIn(img, i) : e.ino \in dirs}) ELSE LinksTo(img, i)

\* sfsck fails none of its assertions, and unless it reports errors it could not
\* repair, running it once more leaves a sound volume with which it finds no
\* fault ("Run again for luck").
Repaired ==
  phase = "checked" =>
    /\ "abort" \notin bad
    /\ ~Unrecoverable(bad) =>
         LET again == sfsck(disk).img
         IN  Consistent(again) /\ sfsck(again).bad \subseteq {"nodot"}

\* A volume that crashed and was repaired never makes the kernel panic: each name
\* leads to an inode with a type and a link count in an allocated block, each
\* block in use by a file is allocated, and no block is freed twice.
NoPanic == ~panicked


\* Violated.  One run is enough: when sfsck has repaired a volume it finds no
\* fault with it.  An indirect block that is left without entries is dropped
\* with freemap_blockfree, which does nothing for a block that was just found
\* in use; it stays allocated.
OnceIsEnough ==
  phase = "checked" /\ ~Unrecoverable(bad) => sfsck(disk).bad \subseteq {"nodot"}
=============================================================================
