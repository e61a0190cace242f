------------------------------- MODULE Frack --------------------------------
(***************************************************************************)
(* userland/testbin/frack, the crash-recovery tester.  "frack do" runs a   *)
(* workload on a fresh volume until the machine stops.  "frack check"      *)
(* replays the whole workload into a model of its own, a list of changes   *)
(* with a version each (check.c), looks at the volume that is left, finds  *)
(* the version it matches best and compares the contents of every file     *)
(* with what that version says (data.c).                                   *)
(*                                                                         *)
(* The volume under test is an ideal file system, which does each          *)
(* operation at once and loses nothing but the data of blocks it had to    *)
(* add since the last sync; Damage then makes it less than ideal.          *)
(***************************************************************************)
EXTENDS Integers, Sequences, SequencesExt, FiniteSets, FiniteSetsExt, Functions

(***************************************************************************)
(* The workloads of userland/testbin/frack (workloads.c), as the sequences *)
(* of calls to the op_ layer (ops.c) they make.  A call is a tuple: its    *)
(* name and its arguments.  An open file is known by the variable that     *)
(* holds it: f for a local one, i for files[i].    random() is any value,  *)
(* so a workload is a set of sequences.  Counts, sizes and the ranges of   *)
(* random() are scaled by the constants.                                   *)
(***************************************************************************)
CONSTANTS BLOCKSIZE,     \* units (of several bytes) in a block
          Ndb, DbPerIdb, \* SFS_NDIRECT and SFS_DBPERIDB
          DATA_MAXSIZE,  \* the most units one write call takes
          NumFiles,      \* 27 in the code
          NumHalf,       \* 14 in the code
          NumThings,     \* 4 in wl_mktree_sub, and the random trees' numthings
          NumOps,        \* 100 to 200 in the code
          Draws,         \* the values random() gives in a random tree, at most this many
          RandPos, RandLen, RandTrunc  \* positions, lengths and truncations drawn

Sizes == {"small", "medium", "large"}

nextsmallersize(sz) == CASE sz = "small" -> "one" [] sz = "medium" -> "small" [] sz = "large" -> "medium"
nextlargersize(sz) == CASE sz = "small" -> "medium" [] sz = "medium" -> "large" [] sz = "large" -> "largeplus"

sizeblocks(sz) ==
  CASE sz = "one" -> 1
    [] sz = "small" -> Ndb
    [] sz = "medium" -> Ndb + DbPerIdb \div 2
    [] sz = "large" -> Ndb + DbPerIdb + (DbPerIdb * DbPerIdb) \div 2
    [] sz = "largeplus" -> Ndb + DbPerIdb + DbPerIdb * DbPerIdb + DbPerIdb \div 2

sizebytes(sz) == BLOCKSIZE * sizeblocks(sz)
-----------------------------------------------------------------------------
\* The local variable of a workload that holds an open file.
f == -1

(* ops.c: each call is one call of the do_ or the check_ side, except that *)
(* op_write makes one for every DATA_MAXSIZE of its range.                 *)
op_open(v, code, name, flags) == <<<<"open", v, code, name, flags>>>>
op_close(v) == <<<<"close", v>>>>
op_truncate(v, len) == <<<<"truncate", v, len>>>>
op_mkdir(name) == <<<<"mkdir", name>>>>
op_rmdir(name) == <<<<"rmdir", name>>>>
op_unlink(name) == <<<<"unlink", name>>>>
op_link(from, to) == <<<<"link", from, to>>>>
op_rename(from, to) == <<<<"rename", from, to>>>>
op_renamexd(fromdir, from, todir, to) == <<<<"renamexd", fromdir, from, todir, to>>>>
op_chdir(name) == <<<<"chdir", name>>>>
op_chdirup == <<<<"chdirup">>>>
op_sync == <<<<"sync">>>>
op_opendir(name) == <<<<"opendir", name>>>>
op_closedir(name) == <<<<"closedir", name>>>>

RECURSIVE op_write(_, _, _)
op_write(v, pos, len) ==
  IF len = 0 THEN <<>>
  ELSE LET amount == IF len > DATA_MAXSIZE THEN DATA_MAXSIZE ELSE len
       IN  <<<<"write", v, pos, amount>>>> \o op_write(v, pos + amount, len - amount)

\* The calls of Body(0), ..., Body(n - 1), one after the other.
For(n, Body(_)) == FlattenSeq([i \in 1 .. n |-> Body(i - 1)])
-----------------------------------------------------------------------------
(* common suboperations *)
file_randomwrite(v, sz, startskip, endskip) ==
  LET nblocks == sizeblocks(sz)
      nwrites == IF nblocks \div 6 < 2 THEN 2 ELSE nblocks \div 6
  IN  {For(nwrites, LAMBDA i : op_write(v, BLOCKSIZE * blocknum[i + 1], BLOCKSIZE)) :
         blocknum \in [1 .. nwrites -> startskip .. nblocks - endskip - 1]}

writeemptyfile(filenum) == op_open(f, 0, filenum, "create") \o op_close(f)

writeoutfile(testcode, filenum, openflags, sz) ==
  op_open(f, testcode, filenum, openflags) \o op_write(f, 0, sizebytes(sz)) \o op_close(f)

writenewfile(testcode, filenum, sz) == writeoutfile(testcode, filenum, "create", sz)

writeholeyfile(testcode, filenum, sz) ==
  op_open(f, testcode, filenum, "create") \o op_write(f, 0, BLOCKSIZE)
  \o op_write(f, sizebytes(sz) - BLOCKSIZE, BLOCKSIZE) \o op_close(f)

makesubtree(testcode, filenum) ==
  op_mkdir(filenum) \o op_chdir(filenum)
  \o For(7, LAMBDA i : IF i \in {2, 5} THEN op_mkdir(i) ELSE writenewfile(testcode, i, "one"))
  \o op_chdir(2) \o For(4, LAMBDA i : writenewfile(testcode, i + 3, "one")) \o op_chdirup
  \o op_chdir(5)
  \o For(5, LAMBDA i : IF i = 3 THEN op_mkdir(i + 3) ELSE writenewfile(testcode, i + 3, "one"))
  \o op_chdir(6) \o For(2, LAMBDA i : writenewfile(testcode, i + 7, "one"))
  \o op_chdirup \o op_chdirup \o op_chdirup

\* Write a file out, sync, and do something to it once it is open again.
Reopened(testcode, code2, sz, body) ==
  writenewfile(testcode, 0, sz) \o op_sync \o op_open(f, code2, 0, "") \o body \o op_close(f)
-----------------------------------------------------------------------------
(* writing *)
wl_createwrite(sz) == writenewfile(1, 0, sz)
wl_rewrite(sz) == writenewfile(2, 0, sz) \o op_sync \o writeoutfile(3, 0, "", sz)
wl_randupdate(sz) == {Reopened(4, 5, sz, w) : w \in file_randomwrite(f, sz, 0, 0)}
wl_truncwrite(sz) == writenewfile(6, 0, sz) \o op_sync \o writeoutfile(6, 0, "trunc", sz)
wl_makehole(sz) == writeholeyfile(8, 0, sz)

wl_fillhole(sz) ==
  {writeholeyfile(9, 0, sz) \o op_sync \o op_open(f, 10, 0, "") \o w \o op_close(f) :
     w \in file_randomwrite(f, sz, 1, 1)}

wl_truncfill(sz) ==
  {op_open(f, 11, 0, "create") \o op_truncate(f, sizebytes(sz)) \o op_close(f) \o op_sync
     \o op_open(f, 11, 0, "") \o w \o op_close(f) : w \in file_randomwrite(f, sz, 0, 0)}

wl_append(sz) == Reopened(11, 12, sz, op_write(f, sizebytes(sz), BLOCKSIZE * 4))

(* truncating *)
wl_trunczero(sz) == Reopened(50, 50, sz, op_truncate(f, 0))
wl_trunconeblock(sz) == Reopened(50, 50, sz, op_truncate(f, sizebytes(sz) - BLOCKSIZE))
wl_truncsmallersize(sz) == Reopened(50, 50, sz, op_truncate(f, sizebytes(nextsmallersize(sz))))
wl_trunclargersize(sz) == Reopened(50, 50, sz, op_truncate(f, sizebytes(nextlargersize(sz))))

wl_appendandtrunczero(sz) ==
  Reopened(50, 50, sz, op_write(f, sizebytes(sz), BLOCKSIZE * 4) \o op_truncate(f, 0))

wl_appendandtruncpartly(sz) ==
  Reopened(50, 50, sz, op_write(f, sizebytes(sz), BLOCKSIZE * 4)
                       \o op_truncate(f, sizebytes(sz) + BLOCKSIZE * 2))

(* creating *)
wl_mkfile == writenewfile(100, 0, "one")
wl_mkdir == op_mkdir(0)
wl_mkmanyfile == For(NumFiles, LAMBDA i : writenewfile(101, i, "one"))
wl_mkmanydir == For(NumFiles, LAMBDA i : op_mkdir(i))

RECURSIVE wl_mktree_sub(_, _)
wl_mktree_sub(testcode, depth) ==
  For(NumThings, LAMBDA i :
    IF i < depth THEN writenewfile(testcode, i, "one")
    ELSE op_mkdir(i) \o IF depth < NumThings
                        THEN op_chdir(i) \o wl_mktree_sub(testcode, depth + 1) \o op_chdirup
                        ELSE <<>>)

RECURSIVE wl_rmtree_sub(_)
wl_rmtree_sub(depth) ==
  For(NumThings, LAMBDA i :
    IF i < depth THEN op_unlink(i)
    ELSE (IF depth < NumThings THEN op_chdir(i) \o wl_rmtree_sub(depth + 1) \o op_chdirup ELSE <<>>)
         \o op_rmdir(i))

wl_mktree == wl_mktree_sub(102, 0)

\* The random trees: rnd is what random() % 4 gives; ops the calls made so far, ct
\* the objects so far.  The removal draws the same numbers again.
RECURSIVE mkrandtree_sub(_, _, _)
mkrandtree_sub(depth, numhere, s) ==
  IF s.ct = NumThings \/ s.rnd = <<>> THEN s
  ELSE LET d == Head(s.rnd)
           t == [s EXCEPT !.rnd = Tail(@)]
           Add(ops) == [t EXCEPT !.ct = @ + 1, !.ops = @ \o ops]
       IN  CASE d = 0 -> LET sub == mkrandtree_sub(depth + 1, 0, Add(op_mkdir(numhere) \o op_chdir(numhere)))
                         IN  mkrandtree_sub(depth, numhere + 1, [sub EXCEPT !.ops = @ \o op_chdirup])
             [] d = 1 -> IF depth > 0 THEN t ELSE mkrandtree_sub(depth, numhere, t)
             [] OTHER -> mkrandtree_sub(depth, numhere + 1, Add(writenewfile(s.code, numhere, "one")))

RECURSIVE rmrandtree_sub(_, _, _)
rmrandtree_sub(depth, numhere, s) ==
  IF s.ct = NumThings \/ s.rnd = <<>> THEN s
  ELSE LET d == Head(s.rnd)
           t == [s EXCEPT !.rnd = Tail(@)]
           Add(ops) == [t EXCEPT !.ct = @ + 1, !.ops = @ \o ops]
       IN  CASE d = 0 -> LET sub == rmrandtree_sub(depth + 1, 0, Add(op_chdir(numhere)))
                         IN  rmrandtree_sub(depth, numhere + 1,
                                            [sub EXCEPT !.ops = @ \o op_chdirup \o op_rmdir(numhere)])
             [] d = 1 -> IF depth > 0 THEN t ELSE rmrandtree_sub(depth, numhere, t)
             [] OTHER -> rmrandtree_sub(depth, numhere + 1, Add(op_unlink(numhere)))

Drawn(testcode, rnd) == [code |-> testcode, rnd |-> rnd, ct |-> 0, ops |-> <<>>]

\* The draws that make a whole tree.
TreeDraws ==
  {rnd \in UNION {[1 .. n -> {0, 1, 2}] : n \in 1 .. Draws} :
     LET s == mkrandtree_sub(0, 0, Drawn(103, rnd)) IN s.ct = NumThings /\ s.rnd = <<>>}

wl_mkrandtree == {mkrandtree_sub(0, 0, Drawn(103, rnd)).ops : rnd \in TreeDraws}

(* deleting *)
wl_rmfile == writenewfile(150, 0, "one") \o writeemptyfile(1) \o op_sync \o op_unlink(0)
wl_rmdir == op_mkdir(0) \o writeemptyfile(1) \o op_sync \o op_rmdir(0)

wl_rmfiledelayed ==
  writenewfile(151, 0, "one") \o writeemptyfile(1) \o op_sync
  \o op_open(f, 151, 0, "") \o op_unlink(0) \o op_close(f)

wl_rmfiledelayedappend ==
  writenewfile(152, 0, "small") \o writeemptyfile(1) \o op_sync \o op_open(f, 152, 0, "")
  \o op_unlink(0) \o op_write(f, sizebytes("small"), 6 * BLOCKSIZE) \o op_close(f)

wl_rmdirdelayed ==
  op_mkdir(0) \o writeemptyfile(1) \o op_sync \o op_opendir(0) \o op_rmdir(0) \o op_closedir(0)

wl_rmmanyfile ==
  For(NumFiles, LAMBDA i : writenewfile(153, i, "one")) \o writeemptyfile(NumFiles) \o op_sync
  \o For(NumFiles, LAMBDA i : op_unlink(i))

wl_rmmanyfiledelayed ==
  For(NumFiles, LAMBDA i : writenewfile(154, i, "one")) \o writeemptyfile(NumFiles) \o op_sync
  \o For(NumFiles, LAMBDA i : op_open(i, 154, i, "")) \o For(NumFiles, LAMBDA i : op_unlink(i))
  \o For(NumFiles, LAMBDA i : op_close(i))

\* Append one, reclaim two, until all the files are closed.
RECURSIVE AppendClose(_, _)
AppendClose(i, j) ==
  IF j = NumFiles THEN <<>>
  ELSE LET i1 == IF i < NumFiles THEN i + 1 ELSE i
           two == j + 1 < i1
       IN  (IF i < NumFiles THEN op_write(i, sizebytes("small"), 6 * BLOCKSIZE) ELSE <<>>)
           \o op_close(j) \o (IF two THEN op_close(j + 1) ELSE <<>>)
           \o AppendClose(i1, IF two THEN j + 2 ELSE j + 1)

wl_rmmanyfiledelayedandappend ==
  For(NumFiles, LAMBDA i : writenewfile(155, i, "small")) \o writeemptyfile(NumFiles) \o op_sync
  \o For(NumFiles, LAMBDA i : op_open(i, 155, i, "")) \o For(NumFiles, LAMBDA i : op_unlink(i))
  \o For(NumFiles \div 2, LAMBDA i : op_write(i, sizebytes("small"), 6 * BLOCKSIZE))
  \o For(NumFiles \div 4, LAMBDA j : op_close(j))
  \o AppendClose(NumFiles \div 2, NumFiles \div 4)

wl_rmmanydir ==
  For(NumFiles, LAMBDA i : op_mkdir(i)) \o writeemptyfile(NumFiles) \o op_sync
  \o For(NumFiles, LAMBDA i : op_rmdir(i))

wl_rmmanydirdelayed ==
  For(NumFiles, LAMBDA i : op_mkdir(i)) \o writeemptyfile(NumFiles) \o op_sync
  \o For(NumFiles, LAMBDA i : op_opendir(i)) \o For(NumFiles, LAMBDA i : op_rmdir(i))
  \o For(NumFiles, LAMBDA i : op_closedir(i))

wl_rmtree == wl_mktree_sub(156, 0) \o op_sync \o wl_rmtree_sub(0)

wl_rmrandtree ==
  {mkrandtree_sub(0, 0, Drawn(157, rnd)).ops \o op_sync \o rmrandtree_sub(0, 0, Drawn(157, rnd)).ops :
     rnd \in TreeDraws}

(* link *)
wl_linkfile == writenewfile(200, 0, "one") \o op_sync \o op_link(0, 1)

wl_linkmanyfile ==
  For(NumHalf, LAMBDA i : writenewfile(201, i, "one")) \o op_sync
  \o For(NumHalf, LAMBDA i : op_link(i, NumHalf + i))

wl_unlinkfile ==
  writenewfile(202, 0, "one") \o op_link(0, 1) \o writeemptyfile(2) \o op_sync \o op_unlink(1)

wl_unlinkmanyfile ==
  For(NumHalf, LAMBDA i : writenewfile(203, i, "one")) \o For(NumHalf, LAMBDA i : op_link(i, NumHalf + i))
  \o writeemptyfile(NumHalf * 2) \o op_sync
  \o For(NumHalf, LAMBDA i : IF i < NumHalf \div 2 THEN op_unlink(i) ELSE op_unlink(NumHalf + i))

wl_linkunlinkfile == writenewfile(204, 0, "one") \o op_sync \o op_link(0, 1) \o op_unlink(1)

(* rename *)
wl_renamefile == writenewfile(250, 0, "one") \o writeemptyfile(2) \o op_sync \o op_rename(0, 1)
wl_renamedir == op_mkdir(0) \o writeemptyfile(2) \o op_sync \o op_rename(0, 1)
wl_renamesubtree == makesubtree(251, 0) \o writeemptyfile(2) \o op_sync \o op_rename(0, 1)

\* Make something in one of two directories and move it to the other.
AcrossDirs(make) ==
  op_mkdir(0) \o op_mkdir(1) \o op_chdir(0) \o make \o op_chdirup \o op_sync \o op_renamexd(0, 2, 1, 3)

wl_renamexdfile == AcrossDirs(writenewfile(252, 2, "one"))
wl_renamexddir == AcrossDirs(op_mkdir(2))
wl_renamexdsubtree == AcrossDirs(makesubtree(253, 2))

\* Make many objects and rename each.
RenameMany(Make(_)) ==
  For(NumHalf, Make) \o writeemptyfile(NumHalf * 2) \o op_sync
  \o For(NumHalf, LAMBDA i : op_rename(i, NumHalf + i))

wl_renamemanyfile == RenameMany(LAMBDA i : writenewfile(254, i, "one"))
wl_renamemanydir == RenameMany(LAMBDA i : op_mkdir(i))
wl_renamemanysubtree == RenameMany(LAMBDA i : makesubtree(255, i))

(* combo ops *)
wl_copyandrename ==
  writenewfile(300, 0, "medium") \o writeemptyfile(2) \o op_sync
  \o writenewfile(301, 1, "medium") \o op_rename(1, 0)

wl_untar == makesubtree(302, 0)
-----------------------------------------------------------------------------
(* Randomized op sequences.  Each recursive definition is the loop of the  *)
(* workload with n operations to go; exists is the workload's own idea of  *)
(* what it made, open the i whose files[i] is not NULL.                    *)
Files == 0 .. NumFiles - 1

createfiles(testcode, num, sz) == For(num, LAMBDA i : writenewfile(testcode, i, sz))
openfiles(testcode, opennum) == For(opennum, LAMBDA i : op_open(i, testcode + 1, i, ""))

randwrite(file) == {op_write(file, pos, len) : pos \in RandPos, len \in RandLen}
randtruncate(file) == {op_truncate(file, len) : len \in RandTrunc}

\* Writes, and truncates if trunc, each to a file that is created when it is first picked.
RECURSIVE WriteSeq(_, _, _, _)
WriteSeq(testcode, n, open, trunc) ==
  IF n = 0 THEN {<<>>}
  ELSE UNION {
    {(IF i \in open THEN <<>> ELSE op_open(i, testcode + 1, i, "create")) \o io \o rest :
       io \in randwrite(i) \cup (IF trunc THEN randtruncate(i) ELSE {}),
       rest \in WriteSeq(testcode, n - 1, open \cup {i}, trunc)} : i \in Files}

Prepared(testcode) ==
  createfiles(testcode, NumFiles \div 2, "medium") \o op_sync \o openfiles(testcode, NumFiles \div 2)

wl_writefileseq ==
  {Prepared(350) \o w : w \in WriteSeq(350, NumOps, 0 .. NumFiles \div 2 - 1, FALSE)}

wl_writetruncseq ==
  {Prepared(352) \o w : w \in WriteSeq(352, NumOps, 0 .. NumFiles \div 2 - 1, TRUE)}

RECURSIVE wl_mkrmseq(_, _)
wl_mkrmseq(n, exists) ==
  IF n = 0 THEN {<<>>}
  ELSE UNION {
    IF i \in exists THEN {op_unlink(i) \o rest : rest \in wl_mkrmseq(n - 1, exists \ {i})}
    ELSE {writenewfile(354, i, "one") \o rest : rest \in wl_mkrmseq(n - 1, exists \cup {i})} : i \in Files}

RECURSIVE LinkUnlink(_, _)
LinkUnlink(n, exists) ==
  IF n = 0 THEN {<<>>}
  ELSE UNION {
    IF i \in exists
    THEN {op_unlink(i + NumHalf) \o rest : rest \in LinkUnlink(n - 1, exists \ {i})}
    ELSE {op_link(j, i + NumHalf) \o rest :
            j \in 0 .. NumHalf - 1, rest \in LinkUnlink(n - 1, exists \cup {i})} : i \in 0 .. NumHalf - 1}

wl_linkunlinkseq ==
  {For(NumHalf, LAMBDA i : writenewfile(355, i, "one")) \o op_sync \o w : w \in LinkUnlink(NumOps, {})}

RECURSIVE RenameSeq(_, _)
RenameSeq(n, exists) ==
  IF n = 0 THEN {<<>>}
  ELSE UNION {{op_rename(i, j) \o rest : rest \in RenameSeq(n - 1, (exists \ {i}) \cup {j})} :
                i \in exists, j \in Files \ exists}

wl_renameseq ==
  {For(NumFiles \div 3, LAMBDA i : writenewfile(356, i, "one")) \o op_sync \o w :
     w \in RenameSeq(NumOps, 0 .. NumFiles \div 3 - 1)}

\* The calls one successful randop can make, and what it leaves.
randop(testcode, exists, open, dofileops) ==
  LET Is(what) == {i \in Files : exists[i] = what}
      After(ops, ex, op) == [ops |-> ops, exists |-> ex, open |-> op]
      Use(i, io) == After((IF i \in open THEN <<>> ELSE op_open(i, testcode, i, "")) \o io, exists, open \cup {i})
  IN  {After(writenewfile(testcode, i, sz), [exists EXCEPT ![i] = "file"], open) :
         i \in Is("isnt"), sz \in IF dofileops THEN {"one", "small", "medium"} ELSE {"one"}}
      \cup {After(op_mkdir(i), [exists EXCEPT ![i] = "dir"], open) : i \in Is("isnt")}
      \cup {After(op_unlink(i) \o (IF i \in open THEN op_close(i) ELSE <<>>),
                  [exists EXCEPT ![i] = "isnt"], open \ {i}) : i \in Is("file")}
      \cup {After(op_rmdir(i), [exists EXCEPT ![i] = "isnt"], open) : i \in Is("dir")}
      \cup {After(op_rename(r[1], r[2]), [exists EXCEPT ![r[1]] = "isnt", ![r[2]] = exists[r[1]]], open) :
              r \in {q \in Files \X Files : /\ q[1] # q[2] /\ exists[q[1]] # "isnt"
                                            /\ exists[q[2]] \in {"isnt", exists[q[1]]}}}
      \cup (IF dofileops
            THEN UNION {{Use(i, io) : io \in randtruncate(i) \cup randwrite(i)} : i \in Is("file")}
            ELSE {})

RECURSIVE OpSeq(_, _, _, _, _)
OpSeq(testcode, n, exists, open, dofileops) ==
  IF n = 0 THEN {<<>>}
  ELSE UNION {{r.ops \o rest : rest \in OpSeq(testcode, n - 1, r.exists, r.open, dofileops)} :
                r \in randop(testcode, exists, open, dofileops)}

prep(testcode) ==
  For(NumFiles \div 4, LAMBDA i : writenewfile(testcode, i, "one"))
  \o For(NumFiles \div 3, LAMBDA i : op_mkdir(NumFiles \div 4 + i))

Made ==
  [i \in Files |-> IF i < NumFiles \div 4 THEN "file"
                   ELSE IF i < NumFiles \div 4 + NumFiles \div 3 THEN "dir" ELSE "isnt"]

wl_diropseq == {prep(357) \o op_sync \o w : w \in OpSeq(357, NumOps, Made, {}, FALSE)}
wl_genseq == {prep(358) \o op_sync \o w : w \in OpSeq(358, NumOps, Made, {}, TRUE)}
-----------------------------------------------------------------------------
(* main.c's table, without compile and cvsupdate, which only say that they *)
(* are not implemented.                                                    *)
Canned ==
  UNION {{wl_createwrite(sz), wl_rewrite(sz), wl_truncwrite(sz), wl_makehole(sz), wl_append(sz),
          wl_trunczero(sz), wl_trunconeblock(sz), wl_truncsmallersize(sz), wl_trunclargersize(sz),
          wl_appendandtrunczero(sz), wl_appendandtruncpartly(sz)} : sz \in Sizes}
  \cup {wl_mkfile, wl_mkdir, wl_mkmanyfile, wl_mkmanydir, wl_mktree, wl_rmfile, wl_rmdir,
        wl_rmfiledelayed, wl_rmfiledelayedappend, wl_rmdirdelayed, wl_rmmanyfile, wl_rmmanyfiledelayed,
        wl_rmmanyfiledelayedandappend, wl_rmmanydir, wl_rmmanydirdelayed, wl_rmtree, wl_linkfile,
        wl_linkmanyfile, wl_unlinkfile, wl_unlinkmanyfile, wl_linkunlinkfile, wl_renamefile, wl_renamedir,
        wl_renamesubtree, wl_renamexdfile, wl_renamexddir, wl_renamexdsubtree, wl_renamemanyfile,
        wl_renamemanydir, wl_renamemanysubtree, wl_copyandrename, wl_untar}

Random ==
  UNION {wl_randupdate(sz) \cup wl_fillhole(sz) \cup wl_truncfill(sz) : sz \in {"small", "medium"}}
  \cup wl_mkrandtree \cup wl_rmrandtree \cup wl_writefileseq \cup wl_writetruncseq
  \cup wl_mkrmseq(NumOps, {}) \cup wl_linkunlinkseq \cup wl_renameseq \cup wl_diropseq \cup wl_genseq

AllWorkloads == Canned \cup Random

-----------------------------------------------------------------------------
CONSTANTS Workloads,   \* the workloads to run
          MaxDamaged   \* damage is done to volumes of workloads of at most this many calls

VARIABLES ops,     \* the calls of the workload
          at,      \* how many of them are made, in the mode the program is in
          model,   \* check.c: the changes, and the trees they make
          versions,\* how many changes the model had before each call
          vol,     \* the volume: ents, parent, data, and new, the units added since the last sync
          cwd,     \* the current directory of "frack do"
          file,    \* ops.c: the open struct files, by variable
          mode,    \* "replay", "do", "failed" when a call failed, "down", "checked"
          damage,  \* what the crash did: "none", "lost", "data" or "tree"
          report   \* what "frack check" said

vars == <<ops, at, model, versions, vol, cwd, file, mode, damage, report>>

\* Objects are <<"f", n>> and <<"d", n>>; file and directory ids are counted apart.
F(n) == <<"f", n>>
D(n) == <<"d", n>>
IsDir(o) == o[1] = "d"

\* A function without one argument, and with one more.
Drop(fn, x) == Restrict(fn, DOMAIN fn \ {x})
With(fn, x, y) == (x :> y) @@ fn
Empty == [x \in {} |-> x]

NewVolume == [ents |-> [d \in {0} |-> Empty], parent |-> [d \in {0} |-> 0], data |-> Empty, new |-> {},
              nextfile |-> 0, nextdir |-> 1]

-----------------------------------------------------------------------------
(* frack do: one action for each call (ops.c, do.c).  A call that the file *)
(* system refuses ends the program.                                        *)
Op(name) == mode = "do" /\ at < Len(ops) /\ ops[at + 1][1] = name
Arg(i) == ops[at + 1][i]

Call(ok, v) ==
  /\ at' = at + 1
  /\ mode' = IF ok THEN "do" ELSE "failed"
  /\ vol' = IF ok THEN v ELSE vol
  /\ UNCHANGED <<ops, model, versions, damage, report>>

Quiet == UNCHANGED <<cwd, file>>

Has(d, n) == n \in DOMAIN vol.ents[d]
IsFile(d, n) == Has(d, n) /\ ~IsDir(vol.ents[d][n])
IsSubdir(d, n) == Has(d, n) /\ IsDir(vol.ents[d][n])
Enter(d, n, o) == [vol.ents EXCEPT ![d] = With(@, n, o)]

\* What prepdata puts at offset i of a write.
prepdata(code, seq, i) == <<code, seq, i>>

\* The block of the file that unit i is in.
Block(i) == (i - 1) \div BLOCKSIZE

\* What is no write's data.
Zero == <<0, 0, 0>>
Poison == <<-1, 0, 0>>
Trash == <<-2, 0, 0>>

do_open ==
  /\ Op("open")
  /\ LET v == Arg(2)  code == Arg(3)  name == Arg(4)  flags == Arg(5)
         h == IF flags = "create" THEN vol.nextfile ELSE vol.ents[cwd][name][2]
         ok == IF flags = "create" THEN ~Has(cwd, name) ELSE IsFile(cwd, name)
     IN  /\ Call(ok, CASE flags = "create" ->
                            [vol EXCEPT !.ents = Enter(cwd, name, F(h)), !.nextfile = @ + 1,
                                        !.data = With(@, h, <<>>)]
                       [] flags = "trunc" -> [vol EXCEPT !.data[h] = <<>>]
                       [] OTHER -> vol)
         /\ file' = IF ok THEN With(file, v, [code |-> code, seq |-> 0, handle |-> h]) ELSE file
  /\ UNCHANGED cwd

do_write ==
  /\ Op("write")
  /\ LET fl == file[Arg(2)]  pos == Arg(3)  len == Arg(4)
         old == vol.data[fl.handle]
         size == Max({Len(old), pos + len})
         after == [i \in 1 .. size |-> IF i - 1 \in pos .. pos + len - 1 THEN prepdata(fl.code, fl.seq, i - 1 - pos)
                                       ELSE IF i <= Len(old) THEN old[i] ELSE Zero]
     IN  /\ Call(TRUE, [vol EXCEPT !.data[fl.handle] = SubSeq(after, 1, size),
                                   !.new = {u \in @ : ~(u[1] = fl.handle /\ \E i \in pos + 1 .. pos + len : Block(i) = Block(u[2]))}
                                             \cup {<<fl.handle, i>> : i \in Len(old) + 1 .. size}])
         /\ file' = [file EXCEPT ![Arg(2)].seq = @ + 1]
  /\ UNCHANGED cwd

do_truncate ==
  /\ Op("truncate")
  /\ LET h == file[Arg(2)].handle  len == Arg(3)  old == vol.data[h]
     IN  Call(TRUE, [vol EXCEPT !.data[h] = SubSeq(old \o [i \in 1 .. len |-> Zero], 1, len),
                                !.new = {u \in @ : u[1] = h => u[2] <= len}])
  /\ Quiet

do_close == Op("close") /\ Call(TRUE, vol) /\ file' = Drop(file, Arg(2)) /\ UNCHANGED cwd
do_opendir == Op("opendir") /\ Call(IsSubdir(cwd, Arg(2)), vol) /\ Quiet
do_closedir == Op("closedir") /\ Call(TRUE, vol) /\ Quiet
do_sync == Op("sync") /\ Call(TRUE, [vol EXCEPT !.new = {}]) /\ Quiet

do_mkdir ==
  /\ Op("mkdir")
  /\ Call(~Has(cwd, Arg(2)),
          [vol EXCEPT !.ents = With(Enter(cwd, Arg(2), D(vol.nextdir)), vol.nextdir, Empty),
                      !.parent = With(@, vol.nextdir, cwd), !.nextdir = @ + 1])
  /\ Quiet

\* The volume without a name; a directory goes with it.
Removed(v, d, n) ==
  LET o == v.ents[d][n]
      e == [v.ents EXCEPT ![d] = Drop(@, n)]
  IN  IF IsDir(o) THEN [v EXCEPT !.ents = Drop(e, o[2]), !.parent = Drop(@, o[2])] ELSE [v EXCEPT !.ents = e]

do_rmdir ==
  /\ Op("rmdir")
  /\ LET ok == IsSubdir(cwd, Arg(2)) /\ vol.ents[vol.ents[cwd][Arg(2)][2]] = Empty
     IN  Call(ok, Removed(vol, cwd, Arg(2)))
  /\ Quiet

do_unlink == Op("unlink") /\ Call(IsFile(cwd, Arg(2)), Removed(vol, cwd, Arg(2))) /\ Quiet

do_link ==
  /\ Op("link")
  /\ Call(IsFile(cwd, Arg(2)) /\ ~Has(cwd, Arg(3)), [vol EXCEPT !.ents = Enter(cwd, Arg(3), vol.ents[cwd][Arg(2)])])
  /\ Quiet

\* rename: what had the new name is removed, if it is of the same kind and empty.
Rename(fd, fn, td, tn) ==
  LET o == vol.ents[fd][fn]
      ok == /\ Has(fd, fn)
            /\ Has(td, tn) => /\ IsDir(vol.ents[td][tn]) = IsDir(o)
                              /\ IsDir(o) => vol.ents[vol.ents[td][tn][2]] = Empty
      v == IF Has(td, tn) THEN Removed(vol, td, tn) ELSE vol
      e == [v.ents EXCEPT ![fd] = Drop(@, fn)]
  IN  Call(ok, [v EXCEPT !.ents = [e EXCEPT ![td] = With(@, tn, o)],
                         !.parent = IF IsDir(o) THEN With(@, o[2], td) ELSE @])

do_rename == Op("rename") /\ Rename(cwd, Arg(2), cwd, Arg(3)) /\ Quiet

do_renamexd ==
  /\ Op("renamexd")
  /\ Rename(vol.ents[cwd][Arg(2)][2], Arg(3), vol.ents[cwd][Arg(4)][2], Arg(5))
  /\ Quiet

do_chdir ==
  /\ Op("chdir")
  /\ Call(IsSubdir(cwd, Arg(2)), vol)
  /\ cwd' = IF IsSubdir(cwd, Arg(2)) THEN vol.ents[cwd][Arg(2)][2] ELSE cwd
  /\ UNCHANGED file

do_chdirup == Op("chdirup") /\ Call(TRUE, vol) /\ cwd' = vol.parent[cwd] /\ UNCHANGED file
-----------------------------------------------------------------------------
(* The machine stops.  The volume is as the calls left it, or a block that *)
(* was added since the last sync lost its data, or a block holds something *)
(* else, or a directory entry is gone, or a file has another length.       *)
Visible == {h \in DOMAIN vol.data : \E d \in DOMAIN vol.ents : \E n \in DOMAIN vol.ents[d] : vol.ents[d][n] = F(h)}
\* The volume with value x in the units of a file's block that satisfy P.
Spoiled(h, b, x, P(_)) ==
  [vol EXCEPT !.data[h] = SubSeq([i \in 1 .. Len(@) |-> IF Block(i) = b /\ P(i) THEN x ELSE @[i]], 1, Len(@))]

Stop(what, v) ==
  /\ mode = "do"
  /\ mode' = "down" /\ damage' = what /\ vol' = v
  /\ UNCHANGED <<ops, at, model, versions, cwd, file, report>>

Crash == Stop("none", vol)

CrashLosesData ==
  \E u \in {w \in vol.new : w[1] \in Visible} :
    Stop("lost", Spoiled(u[1], Block(u[2]), Zero, LAMBDA i : <<u[1], i>> \in vol.new))

CrashSpoilsData ==
  /\ Len(ops) <= MaxDamaged
  /\ \E h \in {w \in Visible : vol.data[w] # <<>>} : \E b \in 0 .. Block(Len(vol.data[h])), x \in {Poison, Trash} :
       Stop("data", Spoiled(h, b, x, LAMBDA i : TRUE))

CrashSpoilsTree ==
  /\ Len(ops) <= MaxDamaged
  /\ \/ \E d \in DOMAIN vol.ents : \E n \in DOMAIN vol.ents[d] :
          ~IsDir(vol.ents[d][n]) /\ Stop("tree", Removed(vol, d, n))
     \/ \E h \in Visible : vol.data[h] # <<>> /\ Stop("tree", [vol EXCEPT !.data[h] = Front(@)])
-----------------------------------------------------------------------------
(* check.c: the model.  A tree has the directories' entries and parents,   *)
(* the files' lengths, and bad, the ways in which applying a change failed.*)
NewTree == [ents |-> [d \in {0} |-> Empty], parent |-> [d \in {0} |-> 0], len |-> Empty, bad |-> {}]

Die(t) == [t EXCEPT !.bad = @ \cup {"die"}]
Assert_(c, t) == IF c THEN t ELSE [t EXCEPT !.bad = @ \cup {"assert"}]

findfile_maybe(t, id) == \E d \in DOMAIN t.ents : \E n \in DOMAIN t.ents[d] : t.ents[d][n] = F(id)
finddir(t, id) == id \in DOMAIN t.ents

fsdir_add_entry(t, d, n, o) ==
  IF ~finddir(t, d) \/ n \in DOMAIN t.ents[d] THEN Die(t) ELSE [t EXCEPT !.ents[d] = With(@, n, o)]

fsdir_find_entry(t, d, n) == finddir(t, d) /\ n \in DOMAIN t.ents[d]
fsdir_remove_entry(t, d, n) == [t EXCEPT !.ents[d] = Drop(@, n)]

\* A change record.  file is the file it mentions, if any, and prev the version of the
\* previous change to that file; dirs are the directories it mentions.
fc_create(type) ==
  [type |-> type, file |-> -1, dirs |-> {}, prev |-> -1, partial |-> FALSE, obj |-> D(0), dir |-> 0, name |-> 0,
   todir |-> 0, toname |-> 0, pos |-> 0, len |-> 0, oldfilesize |-> 0, code |-> 0, seq |-> 0]

\* The object an entry holds is the one the change says.
Holds(t, c) == t.ents[c.dir][c.name] = c.obj

apply_change(t, c) ==
  CASE c.type = "newfs" -> t
    [] c.type = "truncate" -> IF findfile_maybe(t, c.file) THEN [t EXCEPT !.len[c.file] = c.len] ELSE t
    [] c.type = "write" -> IF findfile_maybe(t, c.file) /\ t.len[c.file] < c.pos + c.len
                           THEN [t EXCEPT !.len[c.file] = c.pos + c.len] ELSE t
    [] c.type = "creat" -> [fsdir_add_entry(t, c.dir, c.name, c.obj) EXCEPT !.len = With(@, c.file, 0)]
    [] c.type = "mkdir" -> LET u == fsdir_add_entry(t, c.dir, c.name, c.obj)
                           IN  [u EXCEPT !.ents = With(@, c.obj[2], Empty), !.parent = With(@, c.obj[2], c.dir)]
    [] c.type = "link" ->
         IF fsdir_find_entry(t, c.dir, c.name)
         THEN Assert_(Holds(t, c), fsdir_add_entry(t, c.todir, c.toname, c.obj)) ELSE Die(t)
    [] ~fsdir_find_entry(t, c.dir, c.name) -> Die(t)
    [] c.type = "unlink" -> Assert_(Holds(t, c), fsdir_remove_entry(t, c.dir, c.name))
    [] c.type = "rmdir" ->
         LET u == fsdir_remove_entry(t, c.dir, c.name)
         IN  Assert_(Holds(t, c) /\ t.ents[c.obj[2]] = Empty /\ t.parent[c.obj[2]] = c.dir,
                     [u EXCEPT !.ents = Drop(@, c.obj[2]), !.parent = Drop(@, c.obj[2])])
    [] c.type = "renamefile" ->
         Assert_(Holds(t, c), fsdir_add_entry(fsdir_remove_entry(t, c.dir, c.name), c.todir, c.toname, c.obj))
    [] c.type = "renamedir" ->
         LET u == fsdir_add_entry(fsdir_remove_entry(t, c.dir, c.name), c.todir, c.toname, c.obj)
         IN  Assert_(Holds(t, c) /\ t.parent[c.obj[2]] = c.dir, [u EXCEPT !.parent[c.obj[2]] = c.todir])
-----------------------------------------------------------------------------
(* check.c: replaying the workload.  m.log is the list of changes; the     *)
(* version of a change is its place in the list, from 1; m.tree is the     *)
(* state after all of them.                                                *)
fc_attach(m, c) ==
  LET t == apply_change(m.tree, c) IN [m EXCEPT !.log = Append(@, c), !.tree = t, !.trees = Append(@, t)]

\* The most recent change that mentions a file, or a directory; 0, with a complaint, if none does.
Latest(log, P(_)) == LET vs == {v \in DOMAIN log : P(log[v])} IN IF vs = {} THEN 0 ELSE Max(vs)
changes_findprevfile(m, id) == Latest(m.log, LAMBDA c : c.file = id)
changes_findprevdir(m, id) == Latest(m.log, LAMBDA c : id \in c.dirs)

\* The model, unless one of the lookups found nothing.
Found(m, prevs) == IF 0 \in prevs THEN [m EXCEPT !.tree = Die(@)] ELSE m

model_find(m, d, n) == m.tree.ents[d][n]
model_isfile(m, d, n) == fsdir_find_entry(m.tree, d, n) /\ ~IsDir(model_find(m, d, n))
model_isdir(m, d, n) == fsdir_find_entry(m.tree, d, n) /\ IsDir(model_find(m, d, n))
model_getfilesize(m, id) == IF findfile_maybe(m.tree, id) THEN m.tree.len[id] ELSE 0

check_setup ==
  LET c == [fc_create("newfs") EXCEPT !.dirs = {0}]
      t == apply_change(NewTree, c)
  IN  [log |-> <<c>>, tree |-> t, trees |-> <<t>>, nextfile |-> 0, nextdir |-> 1, cwd |-> 0, file |-> Empty]

check_truncate(m, id, len) ==
  LET prev == changes_findprevfile(m, id)
  IN  fc_attach(Found(m, {prev}), [fc_create("truncate") EXCEPT !.file = id, !.prev = prev, !.len = len])

check_createfile(m, n) ==
  LET c == [fc_create("creat") EXCEPT !.file = m.nextfile, !.obj = F(m.nextfile), !.dirs = {m.cwd},
                                      !.dir = m.cwd, !.name = n]
  IN  [fc_attach(Found(m, {changes_findprevdir(m, m.cwd)}), c) EXCEPT !.nextfile = @ + 1]

\* ops.c's op_open on the check_ side.
check_open(m, v, code, n, flags) ==
  LET Opened(q, h) == [q EXCEPT !.file = With(@, v, [code |-> code, seq |-> 0, handle |-> h])]
  IN  IF flags = "create" THEN Opened(check_createfile(m, n), m.nextfile)
      ELSE IF ~model_isfile(m, m.cwd, n) THEN [m EXCEPT !.tree = Die(@)]
      ELSE LET h == model_find(m, m.cwd, n)[2]
           IN  Opened(IF flags = "trunc" THEN check_truncate(m, h, 0) ELSE m, h)

check_write(m, v, pos, len) ==
  LET id == m.file[v].handle
      prev == changes_findprevfile(m, id)
      c == [fc_create("write") EXCEPT !.file = id, !.prev = prev, !.pos = pos, !.len = len,
                                      !.oldfilesize = model_getfilesize(m, id),
                                      !.code = m.file[v].code, !.seq = m.file[v].seq]
  IN  [fc_attach(Found(m, {prev}), c) EXCEPT !.file[v].seq = @ + 1]

check_mkdir(m, n) ==
  LET c == [fc_create("mkdir") EXCEPT !.obj = D(m.nextdir), !.dirs = {m.cwd, m.nextdir}, !.dir = m.cwd, !.name = n]
  IN  [fc_attach(Found(m, {changes_findprevdir(m, m.cwd)}), c) EXCEPT !.nextdir = @ + 1]

\* The removal of whatever is at a name, by rmdir, by unlink, or by a rename onto it.
Unname(m, d, n, partial) ==
  LET o == model_find(m, d, n)
      prev == IF IsDir(o) THEN changes_findprevdir(m, o[2]) ELSE changes_findprevfile(m, o[2])
      c == [fc_create(IF IsDir(o) THEN "rmdir" ELSE "unlink")
              EXCEPT !.file = IF IsDir(o) THEN -1 ELSE o[2], !.dirs = IF IsDir(o) THEN {d, o[2]} ELSE {d},
                     !.prev = prev, !.obj = o, !.dir = d, !.name = n, !.partial = partial]
  IN  fc_attach(Found(m, {prev, changes_findprevdir(m, d)}), c)

check_rmdir(m, n) == IF model_isdir(m, m.cwd, n) THEN Unname(m, m.cwd, n, FALSE) ELSE [m EXCEPT !.tree = Die(@)]
check_unlink(m, n) == IF model_isfile(m, m.cwd, n) THEN Unname(m, m.cwd, n, FALSE) ELSE [m EXCEPT !.tree = Die(@)]

check_link(m, from, to) ==
  IF ~model_isfile(m, m.cwd, from) THEN [m EXCEPT !.tree = Die(@)]
  ELSE LET o == model_find(m, m.cwd, from)
           prev == changes_findprevfile(m, o[2])
       IN  fc_attach(Found(m, {prev, changes_findprevdir(m, m.cwd)}),
                     [fc_create("link") EXCEPT !.file = o[2], !.prev = prev, !.obj = o, !.dirs = {m.cwd},
                                               !.dir = m.cwd, !.name = from, !.todir = m.cwd, !.toname = to])

\* A rename onto a name is two changes; the removal is marked as part of an operation.
common_rename(m, fd, fn, td, tn) ==
  LET onto == fsdir_find_entry(m.tree, td, tn)
      q == IF onto
           THEN [Unname(m, td, tn, TRUE) EXCEPT
                   !.tree = Assert_(fsdir_find_entry(m.tree, fd, fn)
                                    /\ IsDir(model_find(m, fd, fn)) = IsDir(model_find(m, td, tn)), @)]
           ELSE m
  IN  IF ~fsdir_find_entry(q.tree, fd, fn) THEN [q EXCEPT !.tree = Die(@)]
      ELSE LET o == model_find(q, fd, fn)
               prev == IF IsDir(o) THEN changes_findprevdir(q, o[2]) ELSE changes_findprevfile(q, o[2])
           IN  fc_attach(Found(q, {prev, changes_findprevdir(m, fd), changes_findprevdir(m, td)}),
                         [fc_create(IF IsDir(o) THEN "renamedir" ELSE "renamefile")
                            EXCEPT !.file = IF IsDir(o) THEN -1 ELSE o[2], !.prev = prev, !.obj = o,
                                   !.dirs = IF IsDir(o) THEN {fd, td, o[2]} ELSE {fd, td},
                                   !.dir = fd, !.name = fn, !.todir = td, !.toname = tn])

check_rename(m, from, to) == common_rename(m, m.cwd, from, m.cwd, to)

check_renamexd(m, fd, from, td, to) ==
  IF model_isdir(m, m.cwd, fd) /\ model_isdir(m, m.cwd, td)
  THEN common_rename(m, model_find(m, m.cwd, fd)[2], from, model_find(m, m.cwd, td)[2], to)
  ELSE [m EXCEPT !.tree = Die(@)]

check_chdir(m, n) ==
  IF model_isdir(m, m.cwd, n) THEN [m EXCEPT !.cwd = model_find(m, m.cwd, n)[2]] ELSE [m EXCEPT !.tree = Die(@)]

check_chdirup(m) == [m EXCEPT !.cwd = m.tree.parent[m.cwd]]

\* One call of the workload; opendir, closedir, close and sync do nothing here.
Replay(m, op) ==
  CASE op[1] = "open" -> check_open(m, op[2], op[3], op[4], op[5])
    [] op[1] = "write" -> check_write(m, op[2], op[3], op[4])
    [] op[1] = "truncate" -> check_truncate(m, m.file[op[2]].handle, op[3])
    [] op[1] = "mkdir" -> check_mkdir(m, op[2])
    [] op[1] = "rmdir" -> check_rmdir(m, op[2])
    [] op[1] = "unlink" -> check_unlink(m, op[2])
    [] op[1] = "link" -> check_link(m, op[2], op[3])
    [] op[1] = "rename" -> check_rename(m, op[2], op[3])
    [] op[1] = "renamexd" -> check_renamexd(m, op[2], op[3], op[4], op[5])
    [] op[1] = "chdir" -> check_chdir(m, op[2])
    [] op[1] = "chdirup" -> check_chdirup(m)
    [] OTHER -> m

\* "frack check" reads nothing from the volume until its model is complete, so the
\* replay may as well come first.
ReplayCall ==
  /\ mode = "replay" /\ at < Len(ops)
  /\ model' = Replay(model, ops[at + 1])
  /\ versions' = Append(versions, Len(model'.log))
  /\ at' = at + 1
  /\ UNCHANGED <<ops, vol, cwd, file, mode, damage, report>>

Replayed ==
  /\ mode = "replay" /\ at = Len(ops)
  /\ mode' = "do" /\ at' = 0
  /\ UNCHANGED <<ops, model, versions, vol, cwd, file, damage, report>>
-----------------------------------------------------------------------------
(* check.c: looking at the volume, and comparing it with a version.  What  *)
(* inspectdir finds has no identities: only names, kinds and lengths.      *)
inspectfs(v) == [ents |-> v.ents, len |-> [h \in DOMAIN v.data |-> Len(v.data[h])]]

RECURSIVE count_subtree(_, _)
count_subtree(t, o) ==
  IF IsDir(o) THEN 1 + MapThenSumSet(LAMBDA n : count_subtree(t, t.ents[o[2]][n]), DOMAIN t.ents[o[2]]) ELSE 1

RECURSIVE compare_objects(_, _, _, _)
compare_objects(ta, a, tb, b) ==
  CASE IsDir(a) # IsDir(b) -> IF IsDir(a) THEN count_subtree(ta, a) ELSE count_subtree(tb, b)
    [] ~IsDir(a) -> IF ta.len[a[2]] # tb.len[b[2]] THEN 1 ELSE 0
    [] OTHER ->
         LET ea == ta.ents[a[2]]  eb == tb.ents[b[2]]
             Missing(t, o) == (IF IsDir(o) THEN count_subtree(t, o) ELSE 0) + 1
         IN  MapThenSumSet(LAMBDA n : IF n \in DOMAIN eb THEN compare_objects(ta, ea[n], tb, eb[n])
                                      ELSE Missing(ta, ea[n]), DOMAIN ea)
             + MapThenSumSet(LAMBDA n : Missing(tb, eb[n]), DOMAIN eb \ DOMAIN ea)

(* data.c and check.c: comparing contents.  data is the file found; a      *)
(* result is a set of complaints.                                          *)
\* The version of the oldest change with the same directory structure.
findokversion(log, v) == Max({w \in 1 .. v : log[w].type \notin {"truncate", "write"}})

\* The latest change up to v that affects the contents of a file; 0 if there is none.
backup_for_file(log, v, id) ==
  Latest(SubSeq(log, 1, v), LAMBDA c : c.type \in {"truncate", "write", "creat"} /\ c.file = id)


checkfilezeros(data, start, end) ==
  IF end > Len(data) THEN {"eof"}
  ELSE IF \E i \in start + 1 .. end : data[i] # Zero THEN {"error"} ELSE {}

\* data_matches, from offset where to offset end of a write: pieces that end at a block's end
\* or at zerostart, each of which must be the write's data, or zeros after zerostart.
RECURSIVE Pieces(_, _, _, _, _)
Pieces(data, c, zerostart, where, end) ==
  IF where >= end THEN [ok |-> TRUE, says |-> {}]
  ELSE LET most == Min({BLOCKSIZE, end - where})
           slop == (c.pos + where + most) % BLOCKSIZE
           atblock == IF slop # 0 /\ slop < most THEN most - slop ELSE most
           howmuch == IF where < zerostart /\ where + atblock > zerostart THEN zerostart - where ELSE atblock
           piece == where .. where + howmuch - 1
           All(P(_, _)) == \A i \in piece : P(data[c.pos + i + 1], i)
           here == CASE All(LAMBDA x, i : x = prepdata(c.code, c.seq, i)) -> [ok |-> TRUE, says |-> {}]
                     [] All(LAMBDA x, i : x = Zero) /\ where >= zerostart -> [ok |-> TRUE, says |-> {"warning"}]
                     [] All(LAMBDA x, i : x = Poison) /\ where >= zerostart -> [ok |-> TRUE, says |-> {"error"}]
                     [] OTHER -> [ok |-> FALSE, says |-> {}]
           rest == Pieces(data, c, zerostart, where + howmuch, end)
       IN  [ok |-> here.ok /\ rest.ok, says |-> here.says \cup rest.says]


\* Where, in a write, zeros may stand for the data: from where it extended the file.
zerostart(c) == IF c.oldfilesize < c.pos THEN 0
                ELSE IF c.oldfilesize < c.pos + c.len THEN c.oldfilesize - c.pos ELSE c.len

data_matches(data, c, start, end) == Pieces(data, c, zerostart(c), start - c.pos, end - c.pos)

checkfiledata(data, c, start, end) ==
  LET from == Max({start, c.pos})
      to == Min({end, c.pos + c.len})
  IN  IF to > Len(data) THEN {"eof"}
      ELSE LET r == data_matches(data, c, from, to) IN r.says \cup IF r.ok THEN {} ELSE {"error"}

RECURSIVE checkfilerange(_, _, _, _, _)
checkfilerange(data, log, v, start, end) ==
  LET c == log[v]
      Before(s, e) == IF s < e THEN checkfilerange(data, log, c.prev, s, e) ELSE {"assert"}
  IN  CASE c.type = "truncate" ->
             IF c.len < start THEN checkfilezeros(data, start, end)
             ELSE IF c.len < end THEN Before(start, c.len) \cup checkfilezeros(data, c.len, end)
             ELSE Before(start, end)
        [] c.type = "write" ->
             LET wend == c.pos + c.len
             IN  IF end <= c.pos \/ start >= wend THEN Before(start, end)
                 ELSE (IF start < c.pos THEN Before(start, c.pos) ELSE {})
                      \cup checkfiledata(data, c, start, end)
                      \cup (IF end > wend THEN Before(wend, end) ELSE {})
        [] c.type = "renamefile" -> Before(start, end)
        [] c.type = "creat" -> checkfilezeros(data, start, end)
        [] OTHER -> {"assert"}

\* Whether a change is in the file; "eof" when the file is too short to tell.
change_is_present(data, filesize, c) ==
  CASE c.type = "truncate" -> [yes |-> filesize = c.len, says |-> {}]
    [] c.type = "creat" -> [yes |-> TRUE, says |-> {}]
    [] c.pos + c.len > Len(data) -> [yes |-> TRUE, says |-> {"eof"}]
    [] OTHER -> LET r == data_matches(data, c, c.pos, c.pos + c.len) IN [yes |-> r.ok, says |-> r.says]

\* Back up from v to a change that is in the file, and compare the file with that.
RECURSIVE BackUp(_, _, _, _, _)
BackUp(data, log, v, len, okversion) ==
  LET p == change_is_present(data, len, log[v])
      w == backup_for_file(log, v - 1, log[v].file)
  IN  p.says \cup
      IF p.yes THEN IF "eof" \in p.says THEN {} ELSE checkfilerange(data, log, v, 0, len)
      ELSE (IF v < okversion THEN {"missing"} ELSE {})
           \cup IF w = 0 THEN {"nomatch"} ELSE BackUp(data, log, w, len, okversion)

checkonefilecontents(data, log, v, id, len) ==
  LET w == backup_for_file(log, v, id)
  IN  IF w = 0 THEN {"die"}
      ELSE IF len = 0
      THEN CASE log[w].type = "creat" -> {}
             [] log[w].type = "truncate" -> IF log[w].len = 0 THEN {} ELSE {"assert"}
             [] OTHER -> {"error"}
      ELSE IF log[w].type = "creat" THEN {"error"}
      ELSE BackUp(data, log, w, len, findokversion(log, v))

\* Every name of the version's tree is a name of the volume; the file is found by that name.
RECURSIVE checkallfilecontents(_, _, _, _, _, _)
checkallfilecontents(v, d, log, version, tree, td) ==
  UNION {LET o == tree.ents[td][n]
         IN  IF IsDir(o) THEN checkallfilecontents(v, v.ents[d][n][2], log, version, tree, o[2])
             ELSE checkonefilecontents(v.data[v.ents[d][n][2]], log, version, o[2], tree.len[o[2]]) :
         n \in DOMAIN tree.ents[td]}

\* Rolling the state forward again gives the trees the replay went through.
checkfs(m, v) ==
  LET found == inspectfs(v)
      trees == m.trees
      score == [w \in DOMAIN trees |-> compare_objects(trees[w], D(0), found, D(0))]
      bestscore == Min({score[w] : w \in DOMAIN score})
      best == Max({w \in DOMAIN score : score[w] = bestscore})
  IN  m.tree.bad
      \cup (IF bestscore > 0 THEN {"failure"}
            ELSE (IF m.log[best].partial THEN {"partial"} ELSE {})
                 \cup checkallfilecontents(v, 0, m.log, best, trees[best], 0))

Check ==
  /\ mode = "down"
  /\ mode' = "checked"
  /\ report' = checkfs(model, vol)
  /\ UNCHANGED <<ops, at, model, versions, vol, cwd, file, damage>>

Init ==
  /\ ops \in Workloads
  /\ at = 0
  /\ model = check_setup
  /\ versions = <<1>>
  /\ vol = NewVolume
  /\ cwd = 0
  /\ file = Empty
  /\ mode = "replay"
  /\ damage = "none"
  /\ report = {}
Next ==
  \/ do_open \/ do_write \/ do_truncate \/ do_close \/ do_opendir \/ do_closedir \/ do_sync
  \/ do_mkdir \/ do_rmdir \/ do_unlink \/ do_link \/ do_rename \/ do_renamexd \/ do_chdir \/ do_chdirup
  \/ Crash \/ CrashLosesData \/ CrashSpoilsData \/ CrashSpoilsTree
  \/ ReplayCall \/ Replayed \/ Check

Spec == Init /\ [][Next]_vars
-----------------------------------------------------------------------------
Complaints == {"die", "assert", "failure", "error", "eof", "missing", "nomatch"}

\* The version the volume holds, and the one checkfs takes it for: the last with the same tree.
Own == versions[at + 1]
Taken == Max({w \in DOMAIN model.trees : compare_objects(model.trees[w], D(0), inspectfs(vol), D(0)) = 0})

\* checkfs's comment says that versions with the same tree may be confused, and
\* checkonefilecontents's that truncates may be: the names are of other files, or a
\* file was truncated, between the two.
Confused ==
  \/ model.trees[Taken].ents # vol.ents
  \/ \E w \in Own + 1 .. Taken : model.log[w].type = "truncate"

\* A workload only makes calls that a correct file system carries out, and a volume
\* that holds what the calls so far put there, but for data it never said it had
\* written, gives "frack check" nothing to complain of, unless a later version that
\* cannot be told apart has the same tree.
NoFalseAlarm ==
  /\ mode # "failed"
  /\ mode = "checked" /\ damage \in {"none", "lost"} =>
       /\ "failure" \notin report
       /\ report \cap Complaints # {} => Confused

\* checkfilerange only ever looks at a part of a file "(if any)": no assertion of the
\* checker fails on the volume of a workload it generated itself.
NeverAborts == "assert" \notin report

\* All the names in a tree, each with what it is the name of.
RECURSIVE Listing(_, _)
Listing(t, d) ==
  UNION {LET o == t.ents[d][n]
         IN  IF IsDir(o) THEN {<<<<n>>, "dir">>} \cup {<<<<n>> \o e[1], e[2]>> : e \in Listing(t, o[2])}
             ELSE {<<<<n>>, ToString(t.len[o[2]])>>} : n \in DOMAIN t.ents[d]}

\* A block with other data in it, in any file, is reported; a volume whose names or
\* lengths are those of no version of the workload is a failure, and no other is.
DamageReported ==
  mode = "checked" =>
    /\ damage = "data" => report \cap Complaints # {}
    /\ ("failure" \in report) =
         (\A w \in DOMAIN model.trees : Listing(model.trees[w], 0) # Listing(inspectfs(vol), 0))
=============================================================================
