------------------------------ MODULE FsTests ------------------------------
(***************************************************************************)
(* The kernel's file system tests (kern/test/fstest.c): fs1 to fs6 of the  *)
(* menu and pf, which copies a file to the console.  A test is the list of *)
(* jobs of each of its threads: write a file in chunks (all of them, or    *)
(* every stride-th), read it back and compare, remove it.  The file system *)
(* is the one vfs_open, VOP_READ and VOP_WRITE promise, which may fail, be *)
(* short or silently do the wrong thing MaxFaults times.                   *)
(*                                                                         *)
(* A chunk is one SLOGAN, rotated by its number: what tells two of them    *)
(* apart is that number modulo ROT (26 in the code).  Hole is what a read  *)
(* finds where nobody wrote, or what a faulty transfer leaves.             *)
(***************************************************************************)
EXTENDS Naturals, SequencesExt, FiniteSets

CONSTANTS NTHREADS, NCHUNKS, NLONG, NCREATE, ROT,
          PfBuf,          \* chunks printfile moves at a time
          MaxFaults

VARIABLES test,
          ph, i,          \* each thread's job (0: not forked) and chunk
          vn,             \* the file it has open, 0 if none
          dir,            \* names to files; 0 if there is none
          data,           \* the contents of each file
          threadsem,
          said,           \* threads that reported a failure
          con,            \* what printfile put on the console
          faults

vars == <<test, ph, i, vn, dir, data, threadsem, said, con, faults>>

main == NTHREADS
Threads == 0 .. NTHREADS
Kids == 0 .. NTHREADS - 1
Hole == ROT
NFiles == 2 + (NTHREADS * (NLONG + NCREATE))
Files == 1 .. NFiles

rotate(n) == n % ROT

Repeat(s, n) == FlattenSeq([k \in 1 .. n |-> s])
Each(n, F(_)) == FlattenSeq([k \in 1 .. n |-> F(k)])

\* fstest_makename: the file of the whole test, or a thread's k-th.
Shared == <<0, 0>>
MAKENAME(num, k) == <<num + 1, k>>
Names == {Shared} \cup {MAKENAME(t, k) : t \in Kids, k \in 0 .. NLONG + NCREATE}

fstest_write(name, stride, pos) == << <<"write", name, stride, pos>> >>
fstest_read(name) == << <<"read", name>> >>
fstest_remove(name) == << <<"remove", name>> >>
ForkAll == Each(NTHREADS, LAMBDA k : << <<"fork", k - 1>> >>)
WaitAll == Repeat(<< <<"P">> >>, NTHREADS)
WholeTest(name) == fstest_write(name, 1, 0) \o fstest_read(name) \o fstest_remove(name)

-----------------------------------------------------------------------------
dofstest == WholeTest(Shared)

doreadstress == fstest_write(Shared, 1, 0) \o ForkAll \o WaitAll \o fstest_remove(Shared)
readstress_thread == fstest_read(Shared) \o << <<"V">> >>

dowritestress == ForkAll \o WaitAll
writestress_thread(num) == WholeTest(MAKENAME(num, 0)) \o << <<"V">> >>

dowritestress2 ==
  << <<"create", Shared>> >> \o ForkAll \o WaitAll \o fstest_read(Shared) \o fstest_remove(Shared)
writestress2_thread(num) == fstest_write(Shared, NTHREADS, num) \o << <<"V">> >>

dolongstress == ForkAll \o WaitAll
longstress_thread(num) == Each(NLONG, LAMBDA k : WholeTest(MAKENAME(num, k))) \o << <<"V">> >>

\* createstress goes on to the next file when one fails.
docreatestress == ForkAll \o WaitAll
createstress_thread(num) ==
  Each(NCREATE, LAMBDA k : << <<"cwrite", MAKENAME(num, k), k>> >>)
    \o Each(NCREATE, LAMBDA k : << <<"cread", MAKENAME(num, k), k>> >>)
    \o Each(NCREATE, LAMBDA k : << <<"cremove", MAKENAME(num, k)>> >>) \o << <<"V">> >>

printfile == << <<"copy", Shared>> >>

Jobs ==
  [fstest |-> [t \in Threads |-> IF t = main THEN dofstest ELSE <<>>],
   readstress |-> [t \in Threads |-> IF t = main THEN doreadstress ELSE readstress_thread],
   writestress |-> [t \in Threads |-> IF t = main THEN dowritestress ELSE writestress_thread(t)],
   writestress2 |-> [t \in Threads |-> IF t = main THEN dowritestress2 ELSE writestress2_thread(t)],
   longstress |-> [t \in Threads |-> IF t = main THEN dolongstress ELSE longstress_thread(t)],
   createstress |-> [t \in Threads |-> IF t = main THEN docreatestress ELSE createstress_thread(t)],
   printfile |-> [t \in Threads |-> IF t = main THEN printfile ELSE <<>>]]

Init ==
  /\ test \in DOMAIN Jobs
  /\ ph = [t \in Threads |-> IF t = main THEN 1 ELSE 0]
  /\ i = [t \in Threads |-> 0]
  /\ vn = [t \in Threads |-> 0]
  /\ dir = [n \in Names |-> IF test = "printfile" /\ n = Shared THEN 1 ELSE 0]
  /\ \E n \in 0 .. NCHUNKS :
       /\ test # "printfile" => n = 0
       /\ data = [f \in Files |-> IF f = 1 THEN [k \in 1 .. n |-> rotate(k - 1)] ELSE <<>>]
  /\ threadsem = 0 /\ said = {} /\ con = <<>> /\ faults = 0

-----------------------------------------------------------------------------
Job(t) == Jobs[test][t][ph[t]]
Ended(t) == ph[t] > Len(Jobs[test][t])
At(t, kinds) == ph[t] > 0 /\ ~Ended(t) /\ Job(t)[1] \in kinds
Continues(t) == Job(t)[1] \in {"cwrite", "cread", "cremove"}

\* The end of a job.  A thread whose job failed goes to its V, the main thread
\* gives up.
Finish(t) ==
  /\ ph' = [ph EXCEPT ![t] = @ + 1]
  /\ i' = [i EXCEPT ![t] = 0] /\ vn' = [vn EXCEPT ![t] = 0]
  /\ UNCHANGED said
Fail(t) ==
  /\ ph' = [ph EXCEPT ![t] = IF Continues(t) THEN @ + 1
                             ELSE IF t = main THEN Len(Jobs[test][t]) + 1 ELSE Len(Jobs[test][t])]
  /\ i' = [i EXCEPT ![t] = 0] /\ vn' = [vn EXCEPT ![t] = 0]
  /\ said' = said \cup {t}
Fault == faults < MaxFaults /\ faults' = faults + 1
NoFault == UNCHANGED faults

\* A file nobody names or has open.
Unused == {f \in Files : (\A n \in Names : dir[n] # f) /\ (\A t \in Threads : vn[t] # f)}
NewFile == CHOOSE f \in Unused : \A g \in Unused : f <= g

O_TRUNC(t) == Job(t)[1] = "write" => Job(t)[3] = 1

\* vfs_open, to write (O_CREAT) or to read.
Opens(t) ==
  /\ At(t, {"write", "create", "cwrite", "read", "cread", "copy"}) /\ vn[t] = 0
  /\ LET name == Job(t)[2]
         create == Job(t)[1] \in {"write", "create", "cwrite"}
         f == IF dir[name] = 0 THEN NewFile ELSE dir[name] IN
     \/ /\ dir[name] # 0 \/ create
        /\ dir' = [dir EXCEPT ![name] = f]
        /\ data' = IF dir[name] = 0 \/ (create /\ O_TRUNC(t)) THEN [data EXCEPT ![f] = <<>>] ELSE data
        /\ vn' = [vn EXCEPT ![t] = f] /\ NoFault
        /\ UNCHANGED <<ph, i, said>>
     \/ /\ dir[name] = 0 /\ ~create
        /\ Fail(t) /\ NoFault /\ UNCHANGED <<dir, data>>
     \/ Fault /\ Fail(t) /\ UNCHANGED <<dir, data>>
  /\ UNCHANGED <<test, threadsem, con>>

Put(s, k, v) == [j \in 1 .. (IF Len(s) > k THEN Len(s) ELSE k + 1) |->
                   IF j = k + 1 THEN v ELSE IF j <= Len(s) THEN s[j] ELSE Hole]

Strided(t) == {k \in i[t] .. NCHUNKS - 1 : k % Job(t)[3] = Job(t)[4]}

\* fstest_write: the next chunk of ours; a failed or short write closes and
\* removes the file, whoever else has it.
VOP_WRITE(t) ==
  /\ At(t, {"write"}) /\ vn[t] # 0 /\ Strided(t) # {}
  /\ LET k == CHOOSE k \in Strided(t) : \A m \in Strided(t) : k <= m IN
     \/ /\ \/ NoFault /\ data' = [data EXCEPT ![vn[t]] = Put(@, k, rotate(k))]
           \/ Fault /\ data' = [data EXCEPT ![vn[t]] = Put(@, k, Hole)]
        /\ i' = [i EXCEPT ![t] = k + 1]
        /\ UNCHANGED <<ph, vn, said, dir>>
     \/ /\ Fault /\ Fail(t)
        /\ dir' = [dir EXCEPT ![Job(t)[2]] = 0]
        /\ UNCHANGED data
  /\ UNCHANGED <<test, threadsem, con>>

Written(t) ==
  /\ At(t, {"write", "create"}) /\ vn[t] # 0
  /\ Job(t)[1] = "write" => Strided(t) = {}
  /\ Finish(t)
  /\ UNCHANGED <<test, dir, data, threadsem, con, faults>>

\* fstest_read: a chunk that is short or different is reported.
VOP_READ(t) ==
  /\ At(t, {"read"}) /\ vn[t] # 0 /\ i[t] < NCHUNKS
  /\ LET s == data[vn[t]] IN
     \/ /\ i[t] < Len(s) /\ s[i[t] + 1] = rotate(i[t]) /\ NoFault
        /\ i' = [i EXCEPT ![t] = @ + 1] /\ UNCHANGED <<ph, vn, said>>
     \/ /\ ~(i[t] < Len(s) /\ s[i[t] + 1] = rotate(i[t])) /\ NoFault /\ Fail(t)
     \/ Fault /\ Fail(t)
  /\ UNCHANGED <<test, dir, data, threadsem, con>>

ReadDone(t) ==
  /\ At(t, {"read"}) /\ vn[t] # 0 /\ i[t] = NCHUNKS
  /\ Finish(t)
  /\ UNCHANGED <<test, dir, data, threadsem, con, faults>>

\* createstress: one chunk, which stands for the file's number.
CreateWrite(t) ==
  /\ At(t, {"cwrite"}) /\ vn[t] # 0
  /\ \/ NoFault /\ Finish(t) /\ data' = [data EXCEPT ![vn[t]] = Put(@, 0, rotate(Job(t)[3]))]
     \/ Fault /\ Finish(t) /\ data' = [data EXCEPT ![vn[t]] = Put(@, 0, Hole)]
     \/ Fault /\ Fail(t) /\ UNCHANGED data
  /\ UNCHANGED <<test, dir, threadsem, con>>

CreateRead(t) ==
  /\ At(t, {"cread"}) /\ vn[t] # 0
  /\ \/ NoFault /\ data[vn[t]] = <<rotate(Job(t)[3])>> /\ Finish(t)
     \/ NoFault /\ data[vn[t]] # <<rotate(Job(t)[3])>> /\ Fail(t)
     \/ Fault /\ Fail(t)
  /\ UNCHANGED <<test, dir, data, threadsem, con>>

vfs_remove(t) ==
  /\ At(t, {"remove", "cremove"})
  /\ \/ NoFault /\ dir[Job(t)[2]] # 0 /\ Finish(t) /\ dir' = [dir EXCEPT ![Job(t)[2]] = 0]
     \/ NoFault /\ dir[Job(t)[2]] = 0 /\ Fail(t) /\ UNCHANGED dir
     \/ Fault /\ Fail(t) /\ UNCHANGED dir
  /\ UNCHANGED <<test, data, threadsem, con>>

thread_fork(t) ==
  /\ At(t, {"fork"})
  /\ ph' = [ph EXCEPT ![t] = @ + 1, ![Job(t)[2]] = 1]
  /\ UNCHANGED <<test, i, vn, dir, data, threadsem, said, con, faults>>

P(t) ==
  /\ At(t, {"P"}) /\ threadsem > 0
  /\ threadsem' = threadsem - 1 /\ ph' = [ph EXCEPT ![t] = @ + 1]
  /\ UNCHANGED <<test, i, vn, dir, data, said, con, faults>>

V(t) ==
  /\ At(t, {"V"})
  /\ threadsem' = threadsem + 1 /\ ph' = [ph EXCEPT ![t] = @ + 1]
  /\ UNCHANGED <<test, i, vn, dir, data, said, con, faults>>

\* printfile: a buffer from the file, and what came of it to the console, until
\* a read is short.  It reports an error and a short write, and returns 0.
Copies(t) ==
  /\ At(t, {"copy"}) /\ vn[t] # 0
  /\ LET s == data[vn[t]]
         to == IF Len(s) < i[t] + PfBuf THEN Len(s) ELSE i[t] + PfBuf
         short == to < i[t] + PfBuf IN
     \/ /\ NoFault /\ con' = con \o SubSeq(s, i[t] + 1, to)
        /\ IF short THEN Finish(t) ELSE i' = [i EXCEPT ![t] = to] /\ UNCHANGED <<ph, vn, said>>
     \/ Fault /\ Fail(t) /\ UNCHANGED con
  /\ UNCHANGED <<test, dir, data, threadsem>>

Next ==
  \/ \E t \in Threads : Opens(t)
  \/ \E t \in Threads : VOP_WRITE(t)
  \/ \E t \in Threads : Written(t)
  \/ \E t \in Threads : VOP_READ(t)
  \/ \E t \in Threads : ReadDone(t)
  \/ \E t \in Threads : CreateWrite(t)
  \/ \E t \in Threads : CreateRead(t)
  \/ \E t \in Threads : vfs_remove(t)
  \/ \E t \in Threads : thread_fork(t)
  \/ \E t \in Threads : P(t)
  \/ \E t \in Threads : V(t)
  \/ \E t \in Threads : Copies(t)

Spec == Init /\ [][Next]_vars

-----------------------------------------------------------------------------
\* Nobody can go on.
Stopped == \A t \in Threads : ph[t] = 0 \/ Ended(t) \/ (At(t, {"P"}) /\ threadsem = 0)

TypeOK ==
  /\ \A t \in Threads : ph[t] \in 0 .. Len(Jobs[test][t]) + 1 /\ i[t] \in 0 .. NCHUNKS /\ vn[t] \in 0 .. NFiles
  /\ dir \in [Names -> 0 .. NFiles] /\ threadsem \in 0 .. NTHREADS /\ said \subseteq Threads

\* What the tests print can be believed, whatever the interleaving of their
\* threads: on a file system that does its job nobody reports a failure and no
\* file is left behind; one operation that fails, is short or silently leaves the
\* wrong bytes is reported by somebody before the test is over.  The main thread
\* always finishes, failures or not, and uses up the threads' semaphore, which
\* the next test takes over.  printfile shows the whole file, in order.
Believable ==
  /\ TypeOK
  /\ faults = 0 => said = {}
  /\ Stopped =>
       /\ Ended(main) /\ threadsem = 0
       /\ faults > 0 => said # {}
       /\ faults = 0 /\ test # "printfile" => \A n \in Names : dir[n] = 0
       /\ faults = 0 /\ test = "printfile" => con = data[1]
=============================================================================
