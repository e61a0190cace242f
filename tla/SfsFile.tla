------------------------------- MODULE SfsFile -------------------------------
(***************************************************************************)
(* The contents of SFS files: block allocation (sfs_balloc.c), the block   *)
(* map with its direct and indirect blocks (sfs_bmap.c), and the I/O that  *)
(* goes through it (sfs_io.c).  Everything here runs under vfs_biglock,    *)
(* so one operation is under way at a time (op); the steps of a long one   *)
(* are its blocks.  A file is an array of words, a block holds             *)
(* SFS_DBPERIDB of them, and block numbers are words too.                  *)
(***************************************************************************)
EXTENDS Naturals, Sequences, FiniteSets, FiniteSetsExt

CONSTANTS Files, Dirs,      \* the directories among the files
          SFS_NDIRECT, SFS_DBPERIDB,
          NBlocks,          \* blocks of the volume that can be allocated
          Values,           \* what is written into files
          MaxErrors         \* bound on I/O errors and bad user buffers

VARIABLES freemap, disk,                       \* blocks in use; their words
          sfi_direct, sfi_indirect, sfi_size,  \* the inodes, in memory
          op,                                  \* the operation under way
          errors,
          leaked,     \* blocks in use that no file will ever release
          damaged     \* an indirect block on disk still names freed blocks

inodes == <<sfi_direct, sfi_indirect, sfi_size>>
vars == <<freemap, disk, inodes, op, errors, leaked, damaged>>

Blocks == 1 .. NBlocks
Offsets == 0 .. SFS_DBPERIDB - 1
MaxBlocks == SFS_NDIRECT + SFS_DBPERIDB
Words == 0 .. MaxBlocks * SFS_DBPERIDB - 1
Zeros == [i \in Offsets |-> 0]

NoOp == [pc |-> "none"]
Panic == [pc |-> "panic"]

Init ==
  /\ freemap = {} /\ disk = [b \in Blocks |-> Zeros]
  /\ sfi_direct = [f \in Files |-> [i \in 0 .. SFS_NDIRECT - 1 |-> 0]]
  /\ sfi_indirect = [f \in Files |-> 0]
  /\ sfi_size = [f \in Files |-> 0]
  /\ op = NoOp /\ errors = 0 /\ leaked = {} /\ damaged = FALSE

-----------------------------------------------------------------------------
(* A function of the code that does I/O has several outcomes: the state it *)
(* leaves, its error and the block it hands back.                          *)

State(f) == [freemap |-> freemap, disk |-> disk, direct |-> sfi_direct[f],
             indirect |-> sfi_indirect[f], errors |-> errors, leaked |-> leaked]

Outcome(st, err, block) == [st |-> st, err |-> err, block |-> block]

\* One I/O, or one uiomove from or to a user's buffer: it works or fails.
Try(st, err) ==
  {Outcome(st, "0", 0)} \cup
  {Outcome([st EXCEPT !.errors = n], err, 0) : n \in {st.errors + 1} \cap 1 .. MaxErrors}

\* What follows each outcome that is no error.
Then(outcomes, F(_)) == UNION {IF o.err = "0" THEN F(o) ELSE {o} : o \in outcomes}


\* bitmap_alloc gives the first block that is free; it is cleared on the disk.
sfs_balloc(st) ==
  LET free == Blocks \ st.freemap
      b == Min(free)
      taken(o) == {Outcome([o.st EXCEPT !.freemap = @ \cup {b}, !.disk[b] = Zeros], "0", b)}
  IN  IF free = {} THEN {Outcome(st, "ENOSPC", 0)} ELSE Then(Try(st, "EIO"), taken)

\* Blocks go out through this check: one that is marked free is a panic.
sfs_bused(o) ==
  IF o.block # 0 /\ o.block \notin o.st.freemap THEN [o EXCEPT !.err = "panic"] ELSE o

bmap_direct(st, fileblock, doalloc) ==
  LET remember(o) == {[o EXCEPT !.st.direct[fileblock] = o.block]}
  IN  IF st.direct[fileblock] = 0 /\ doalloc
      THEN Then(sfs_balloc(st), remember)
      ELSE {Outcome(st, "0", st.direct[fileblock])}

\* Load the indirect block, or allocate one.
bmap_idblock(st) ==
  LET remember(o) == {[o EXCEPT !.st.indirect = o.block]}
      loaded(o) == {[o EXCEPT !.block = st.indirect]}
  IN  IF st.indirect = 0 THEN Then(sfs_balloc(st), remember)
                         ELSE Then(Try(st, "EIO"), loaded)

\* The data block number in the indirect block, allocated and written back when
\* there is none.  When the write fails the new block is marked in use, and
\* nothing names it.
bmap_indirect(st, idoff, doalloc) ==
  LET entry(o) ==
        LET b == o.st.disk[o.block][idoff]
            writeback(a) ==
              {IF w.err = "0" THEN Outcome([w.st EXCEPT !.disk[o.block][idoff] = a.block], "0", a.block)
                              ELSE [w EXCEPT !.st.leaked = @ \cup {a.block}] : w \in Try(a.st, "EIO")}
        IN  IF b = 0 /\ doalloc THEN Then(sfs_balloc(o.st), writeback) ELSE {[o EXCEPT !.block = b]}
  IN  IF st.indirect = 0 /\ ~doalloc THEN {Outcome(st, "0", 0)} ELSE Then(bmap_idblock(st), entry)

sfs_bmap(st, fileblock, doalloc) ==
  {sfs_bused(o) : o \in
     IF fileblock < SFS_NDIRECT THEN bmap_direct(st, fileblock, doalloc)
     ELSE IF fileblock >= MaxBlocks THEN {Outcome(st, "EFBIG", 0)}
     ELSE bmap_indirect(st, fileblock - SFS_NDIRECT, doalloc)}

\* The outcome o becomes the state, for file f.
Commit(f, o) ==
  /\ freemap' = o.st.freemap /\ disk' = o.st.disk
  /\ sfi_direct' = [sfi_direct EXCEPT ![f] = o.st.direct]
  /\ sfi_indirect' = [sfi_indirect EXCEPT ![f] = o.st.indirect]
  /\ errors' = o.st.errors /\ leaked' = o.st.leaked
  /\ UNCHANGED damaged

-----------------------------------------------------------------------------
(* Reading and writing a region of a file.                                 *)

\* Entry of sfs_io: a read at or past EOF returns at once, and a longer one is
\* cut at EOF.
sfs_io(f) ==
  /\ op = NoOp /\ f \notin Dirs
  /\ \E write \in BOOLEAN, v \in Values, off \in Words, len \in 1 .. 2 * SFS_DBPERIDB :
       LET resid == IF write THEN len ELSE Min({len, sfi_size[f] - off})
       IN  /\ write \/ off < sfi_size[f]
           /\ op' = [pc |-> "io", file |-> f, write |-> write, v |-> v, start |-> off,
                     off |-> off, resid |-> resid, orig |-> resid, got |-> <<>>, err |-> "0"]
  /\ UNCHANGED <<freemap, disk, inodes, errors, leaked, damaged>>

\* Words of the block that op covers next, from blkoff on.
blkoff == op.off % SFS_DBPERIDB
PieceLen == Min({op.resid, SFS_DBPERIDB - blkoff})

\* The uio after uiomove of the piece.
Moved(words) == [op EXCEPT !.off = @ + PieceLen, !.resid = @ - PieceLen, !.got = @ \o words]

Failed(u, err) == [u EXCEPT !.err = err, !.pc = "out"]

\* The words of a piece in block b (0 for no block).
PieceWords(st, b) ==
  [i \in 1 .. PieceLen |-> IF b = 0 THEN 0 ELSE st.disk[b][blkoff + i - 1]]

\* A read: from the block, when there is one, to the user's buffer.
ReadPiece(o) ==
  LET copy(r) == Try(r.st, "EFAULT")
  IN  \E r \in IF o.block = 0 THEN copy(o) ELSE Then(Try(o.st, "EIO"), copy) :
        /\ op' = IF r.err = "0" THEN Moved(PieceWords(r.st, o.block)) ELSE Failed(op, r.err)
        /\ Commit(op.file, r)

Overwritten(st, b) ==
  [st EXCEPT !.disk[b] = [i \in Offsets |-> IF i \in blkoff .. blkoff + PieceLen - 1 THEN op.v ELSE @[i]]]

\* A write: a partial block is read first; the data is taken from the user's
\* buffer; then the block is written.  When that fails the uio has moved on.
WritePiece(o) ==
  LET fill(r) == Try(r.st, "EFAULT")
      filled == IF PieceLen < SFS_DBPERIDB THEN Then(Try(o.st, "EIO"), fill) ELSE Try(o.st, "EFAULT")
  IN  \E r \in filled :
        IF r.err # "0" THEN op' = Failed(op, r.err) /\ Commit(op.file, r)
        ELSE \E w \in Try(r.st, "EIO") :
               IF w.err = "0" THEN /\ op' = Moved(<<>>)
                                   /\ Commit(op.file, [w EXCEPT !.st = Overwritten(w.st, o.block)])
                              ELSE op' = Failed(Moved(<<>>), w.err) /\ Commit(op.file, w)

\* sfs_partialio and sfs_blockio: the next piece, whole block or not.
Piece ==
  /\ op.pc = "io" /\ op.resid > 0
  /\ \E o \in sfs_bmap(State(op.file), op.off \div SFS_DBPERIDB, op.write) :
       CASE o.err = "panic" -> op' = Panic /\ Commit(op.file, o)
         [] o.err \notin {"0", "panic"} -> op' = Failed(op, o.err) /\ Commit(op.file, o)
         [] OTHER -> IF op.write THEN WritePiece(o) ELSE ReadPiece(o)
  /\ UNCHANGED sfi_size

\* The end of sfs_io: a write that did anything extends the file to where the
\* uio got.
sfs_io_out ==
  /\ \/ op.pc = "io" /\ op.resid = 0
     \/ op.pc = "out"
  /\ sfi_size' = IF op.resid # op.orig /\ op.write /\ op.off > sfi_size[op.file]
                 THEN [sfi_size EXCEPT ![op.file] = op.off] ELSE sfi_size
  /\ op' = NoOp
  /\ UNCHANGED <<freemap, disk, sfi_direct, sfi_indirect, errors, leaked, damaged>>

-----------------------------------------------------------------------------
(* Metadata I/O: an entry of a directory, one word.  A new entry goes into *)
(* a free slot or at the end.                                              *)

\* Only a write that succeeds extends the directory.
sfs_metaio(d) ==
  /\ op = NoOp /\ d \in Dirs
  /\ \E write \in BOOLEAN, v \in Values, pos \in 0 .. sfi_size[d] :
       /\ write \/ pos < sfi_size[d]
       /\ LET idx == pos % SFS_DBPERIDB
              again(r) == Try(r.st, "EIO")
              transfer(o) == IF o.block = 0 THEN {o}
                             ELSE {[w EXCEPT !.block = o.block] :
                                     w \in IF write THEN Then(Try(o.st, "EIO"), again) ELSE Try(o.st, "EIO")}
          IN  \E o \in Then(sfs_bmap(State(d), pos \div SFS_DBPERIDB, write), transfer) :
                LET wrote == write /\ o.err = "0"
                IN  /\ Commit(d, IF wrote THEN [o EXCEPT !.st.disk[o.block][idx] = v] ELSE o)
                    /\ sfi_size' = IF wrote /\ pos + 1 > sfi_size[d]
                                   THEN [sfi_size EXCEPT ![d] = pos + 1] ELSE sfi_size
                    /\ op' = IF o.err = "panic" THEN Panic ELSE NoOp

-----------------------------------------------------------------------------
(* sfs_itrunc, for ftruncate and, with length 0, for sfs_reclaim.          *)

\* The direct blocks that go, and the entries of the indirect block.
Cut(f, blocklen) == {i \in DOMAIN sfi_direct[f] : i >= blocklen /\ sfi_direct[f][i] # 0}
IdCut(idbuf, blocklen) == {j \in Offsets : blocklen < SFS_NDIRECT + j /\ idbuf[j] # 0}

\* The blocks bs, n of them, are released: releasing one that is not in use is a
\* failed assertion of bitmap_unmark.
sfs_bfree(n, bs) ==
  IF Cardinality(bs) = n /\ bs \subseteq freemap
  THEN freemap' = freemap \ bs /\ op' = NoOp
  ELSE freemap' = freemap /\ op' = Panic

Length(f, len) == sfi_size' = [sfi_size EXCEPT ![f] = len]


CutDirect(f, blocklen) ==
  sfi_direct' = [sfi_direct EXCEPT ![f] = [i \in DOMAIN @ |-> IF i \in Cut(f, blocklen) THEN 0 ELSE @[i]]]

\* The block map of the file reaches no further than the direct blocks, or the
\* indirect block is not looked at.
TruncateDirect(f, len, blocklen) ==
  /\ ~(blocklen < SFS_NDIRECT + SFS_DBPERIDB - 1 /\ sfi_indirect[f] # 0)
  /\ CutDirect(f, blocklen) /\ Length(f, len)
  /\ sfs_bfree(Cardinality(Cut(f, blocklen)), {sfi_direct[f][i] : i \in Cut(f, blocklen)})
  /\ UNCHANGED <<disk, sfi_indirect, errors, leaked, damaged>>

\* The indirect block cannot be read: the direct blocks are gone, the size stays.
TruncateUnread(f, blocklen) ==
  /\ blocklen < SFS_NDIRECT + SFS_DBPERIDB - 1 /\ sfi_indirect[f] # 0
  /\ errors < MaxErrors /\ errors' = errors + 1
  /\ CutDirect(f, blocklen)
  /\ sfs_bfree(Cardinality(Cut(f, blocklen)), {sfi_direct[f][i] : i \in Cut(f, blocklen)})
  /\ UNCHANGED <<disk, sfi_indirect, sfi_size, leaked, damaged>>

\* The indirect block loses entries, and goes when it has none left; otherwise it
\* is written back if it changed.  When that write fails the blocks are free,
\* the entries are still on disk and the size is the old one.
TruncateIndirect(f, len, blocklen) ==
  /\ blocklen < SFS_NDIRECT + SFS_DBPERIDB - 1 /\ sfi_indirect[f] # 0
  /\ LET idblock == sfi_indirect[f]
         idbuf == disk[idblock]
         idcut == IdCut(idbuf, blocklen)
         hasnonzero == \E j \in Offsets \ idcut : idbuf[j] # 0
         iddirty == idcut # {}
         freed == {sfi_direct[f][i] : i \in Cut(f, blocklen)} \cup {idbuf[j] : j \in idcut}
         n == Cardinality(Cut(f, blocklen)) + Cardinality(idcut)
     IN  /\ CutDirect(f, blocklen)
         /\ IF hasnonzero THEN sfs_bfree(n, freed) ELSE sfs_bfree(n + 1, freed \cup {idblock})
         /\ sfi_indirect' = IF hasnonzero THEN sfi_indirect ELSE [sfi_indirect EXCEPT ![f] = 0]
         /\ \/ /\ disk' = IF hasnonzero /\ iddirty
                         THEN [disk EXCEPT ![idblock] = [j \in Offsets |-> IF j \in idcut THEN 0 ELSE @[j]]]
                         ELSE disk
               /\ Length(f, len)
               /\ UNCHANGED <<errors, damaged>>
            \/ /\ hasnonzero /\ iddirty
               /\ errors < MaxErrors /\ errors' = errors + 1
               /\ damaged' = TRUE
               /\ UNCHANGED <<disk, sfi_size>>
  /\ UNCHANGED leaked

sfs_itrunc(f) ==
  /\ op = NoOp
  /\ \E len \in IF f \in Dirs THEN {0} ELSE Words :
       LET blocklen == (len + SFS_DBPERIDB - 1) \div SFS_DBPERIDB
       IN  TruncateDirect(f, len, blocklen) \/ TruncateUnread(f, blocklen) \/ TruncateIndirect(f, len, blocklen)

Next == Piece \/ sfs_io_out \/ \E f \in Files : sfs_io(f) \/ sfs_metaio(f) \/ sfs_itrunc(f)

Spec == Init /\ [][Next]_vars

-----------------------------------------------------------------------------
Indirect(f) == IF sfi_indirect[f] = 0 THEN Zeros ELSE disk[sfi_indirect[f]]

\* The places that name a block: a file and the index of a data block in it, or
\* "id" for its indirect block.
Map(f) ==
  [k \in 0 .. MaxBlocks - 1 |->
     IF k < SFS_NDIRECT THEN sfi_direct[f][k] ELSE Indirect(f)[k - SFS_NDIRECT]]
Places == {<<f, k>> \in Files \X (0 .. MaxBlocks - 1) : Map(f)[k] # 0}
Mapped == {Map(p[1])[p[2]] : p \in Places}
IdBlocks == {sfi_indirect[f] : f \in Files} \ {0}

\* The words of a file as the map gives them.
Content ==
  [f \in Files |-> [w \in Words |->
     LET b == Map(f)[w \div SFS_DBPERIDB] IN IF b = 0 THEN 0 ELSE disk[b][w % SFS_DBPERIDB]]]

\* Type invariant; BlocksExact includes it.
TypeOK ==
  /\ freemap \subseteq Blocks /\ disk \in [Blocks -> [Offsets -> Nat]]
  /\ sfi_direct \in [Files -> [0 .. SFS_NDIRECT - 1 -> 0 .. NBlocks]]
  /\ sfi_indirect \in [Files -> 0 .. NBlocks]
  /\ sfi_size \in [Files -> 0 .. MaxBlocks * SFS_DBPERIDB]
  /\ op.pc \in {"none", "io", "out", "panic"}
  /\ errors \in 0 .. MaxErrors /\ leaked \subseteq Blocks

\* Every block is in one place at most: a data block of one file at one index,
\* or the indirect block of one file; and the blocks marked in use are exactly
\* those, with the ones sfs_bmap lost when it could not write an indirect block.
\* So no block of one file is released or overwritten through another, and none
\* is lost otherwise.
BlocksExact ==
  /\ TypeOK
  /\ ~damaged =>
       /\ Cardinality(Mapped \cup IdBlocks)
            = Cardinality(Places) + Cardinality({f \in Files : sfi_indirect[f] # 0})
       /\ freemap = Mapped \cup IdBlocks \cup leaked
       /\ leaked \cap (Mapped \cup IdBlocks) = {}

\* The panics of sfs_bmap and bitmap_unmark wait for a damaged indirect block:
\* I/O errors anywhere else, a full volume and bad user buffers lead to none.
PanicsOnlyDamaged == op = Panic => damaged

\* SFS files are arrays of words: whatever the block map does, every request
\* reads and writes its own words of its own file, in order.
F == INSTANCE File WITH
       content <- Content, size <- sfi_size,
       cur <- IF op.pc \in {"none", "panic"} THEN [pos |-> 0, end |-> 0]
              ELSE [file |-> op.file, write |-> op.write, v |-> op.v, start |-> op.start,
                    pos |-> op.off, end |-> op.off + op.resid, got |-> op.got, failed |-> op.err # "0"]

FileStep == [damaged' \/ F!Next]_<<Content, sfi_size, op>>

=============================================================================
