------------------------------- MODULE Psort -------------------------------
(***************************************************************************)
(* The parallel sort that tests processes and files                        *)
(* (userland/testbin/psort/psort.c): in each phase the program forks       *)
(* numprocs children, which share the files keys and sorted and have the   *)
(* bins, merged bins and validation files to themselves, and waits for     *)
(* all of them.  A file is a sequence of keys; 0 is a hole.  fork, wait    *)
(* and files are as the manual pages say; fork may fail.                   *)
(***************************************************************************)
EXTENDS Naturals, SequencesExt, FiniteSets

CONSTANTS numprocs,
          NumKeys,        \* settings of numkeys
          WORKNUM,        \* keys in the workspace of a child
          RANDOM_MAX,
          CatBuf          \* what cat copies at a time, in keys

VARIABLES numkeys,
          phase,          \* the child function of doforkall, "done" or "failed"
          forked,         \* children forked in this phase
          child,          \* "none", "runs", or "ok" or "bad" (the exit status)
          done,           \* how far each is in its loop
          keys, bins, merged, sorted, valid,   \* files
          nofork          \* a fork failed

files == <<keys, bins, merged, sorted, valid>>
vars == <<numkeys, phase, forked, child, done, files, nofork>>

Procs == 0 .. numprocs - 1

Init ==
  /\ numkeys \in NumKeys
  /\ phase = "genkeys_sub" /\ forked = 0
  /\ child = [p \in Procs |-> "none"] /\ done = [p \in Procs |-> 0]
  /\ keys = <<>> /\ sorted = <<>>
  /\ bins = [p \in Procs |-> [q \in Procs |-> <<>>]]
  /\ merged = [p \in Procs |-> <<>>] /\ valid = [p \in Procs |-> <<>>]
  /\ nofork = FALSE

-----------------------------------------------------------------------------
\* A write at an offset, past the end of the file as well.
WriteAt(f, off, data) ==
  [i \in 1 .. (IF off + Len(data) > Len(f) THEN off + Len(data) ELSE Len(f)) |->
     IF i \in off + 1 .. off + Len(data) THEN data[i - off] ELSE IF i <= Len(f) THEN f[i] ELSE 0]

keys_per == numkeys \div numprocs
seekmyplace(me) == me * keys_per
getmykeys(me) == IF me < numprocs - 1 THEN keys_per ELSE numkeys - me * keys_per
keys_to_do(me) ==
  LET left == getmykeys(me) - done[me] IN IF left > WORKNUM THEN WORKNUM ELSE left
pivot == RANDOM_MAX \div numprocs

Runs(me, func) == phase = func /\ child[me] = "runs"
Exit(me, status) == child' = [child EXCEPT ![me] = status] /\ UNCHANGED done
GoOn(me, n) == done' = [done EXCEPT ![me] = @ + n] /\ UNCHANGED child
Rest == UNCHANGED <<numkeys, phase, forked, nofork>>

\* doforkall forks the children one by one ...
dofork ==
  /\ phase \notin {"done", "failed"} /\ forked < numprocs
  /\ forked' = forked + 1
  /\ \/ child' = [child EXCEPT ![forked] = "runs"] /\ UNCHANGED nofork
     \/ child' = [child EXCEPT ![forked] = "bad"] /\ nofork' = TRUE
  /\ UNCHANGED <<numkeys, phase, done, files>>

-----------------------------------------------------------------------------
genkeys_sub(me) ==
  /\ Runs(me, "genkeys_sub") /\ Rest
  /\ \/ /\ done[me] < getmykeys(me)
        /\ \E data \in [1 .. keys_to_do(me) -> 1 .. RANDOM_MAX - 1] :
             keys' = WriteAt(keys, seekmyplace(me) + done[me], data)
        /\ GoOn(me, keys_to_do(me))
     \/ done[me] >= getmykeys(me) /\ Exit(me, "ok") /\ UNCHANGED keys
  /\ UNCHANGED <<bins, merged, sorted, valid>>

\* bin: each key of the child's part goes to the bin of its size; the assertion
\* that there is such a bin ends the child.
Binned(me, q, data) == SelectSeq(data, LAMBDA key : key \div pivot = q)

bin(me) ==
  /\ Runs(me, "bin") /\ Rest
  /\ LET first == seekmyplace(me) + done[me]
         data == SubSeq(keys, first + 1, first + keys_to_do(me))
     IN  \/ /\ done[me] < getmykeys(me) /\ Len(data) = keys_to_do(me)
            /\ \A i \in DOMAIN data : data[i] \div pivot < numprocs
            /\ bins' = [bins EXCEPT ![me] = [q \in Procs |->
                          (IF done[me] = 0 THEN <<>> ELSE bins[me][q]) \o Binned(me, q, data)]]
            /\ GoOn(me, keys_to_do(me))
         \/ /\ done[me] < getmykeys(me)
            /\ Len(data) = keys_to_do(me) => \E i \in DOMAIN data : data[i] \div pivot >= numprocs
            /\ Exit(me, "bad") /\ UNCHANGED bins
         \/ done[me] >= getmykeys(me) /\ Exit(me, "ok") /\ UNCHANGED bins
  /\ UNCHANGED <<keys, merged, sorted, valid>>

\* sortints: smaller keys are moved down in place, larger ones to the end, where
\* they come to stand in reverse; the parts are then sorted in the same way.
RECURSIVE Partition(_, _, _, _, _)
Partition(v, pivotval, front, read, end) ==
  CASE read >= end -> [v |-> v, front |-> front, end |-> end]
    [] read < end /\ v[read + 1] < pivotval ->
         Partition([v EXCEPT ![front + 1] = v[read + 1]], pivotval, front + 1, read + 1, end)
    [] read < end /\ v[read + 1] = pivotval -> Partition(v, pivotval, front, read + 1, end)
    [] OTHER -> Partition([v EXCEPT ![end] = v[read + 1], ![read + 1] = v[end]], pivotval, front, read, end - 1)

RECURSIVE sortints(_)
sortints(v) ==
  IF Len(v) < 2 THEN v
  ELSE LET pivotval == v[(Len(v) \div 2) + 1]
           p == Partition(v, pivotval, 0, 0, Len(v))
       IN  sortints(SubSeq(p.v, 1, p.front))
             \o [i \in 1 .. p.end - p.front |-> pivotval]
             \o sortints(Reverse(SubSeq(p.v, p.end + 1, Len(v))))

\* sortbins: a bin at a time, each of which must fit in the workspace.
sortbins(me) ==
  /\ Runs(me, "sortbins") /\ Rest
  /\ \/ /\ done[me] < numprocs /\ Len(bins[me][done[me]]) <= WORKNUM
        /\ bins' = [bins EXCEPT ![me][done[me]] = sortints(@)]
        /\ GoOn(me, 1)
     \/ done[me] < numprocs /\ Len(bins[me][done[me]]) > WORKNUM /\ Exit(me, "bad") /\ UNCHANGED bins
     \/ done[me] = numprocs /\ Exit(me, "ok") /\ UNCHANGED bins
  /\ UNCHANGED <<keys, merged, sorted, valid>>

\* mergebins: the smallest of the first keys of what is left of each bin, and of
\* the bins that have it the first.
RECURSIVE Merge(_)
Merge(ins) ==
  LET ready == {i \in DOMAIN ins : ins[i] # <<>>}
  IN  IF ready = {} THEN <<>>
      ELSE LET place == CHOOSE i \in ready : \A j \in ready :
                          Head(ins[i]) < Head(ins[j]) \/ (Head(ins[i]) = Head(ins[j]) /\ i <= j)
           IN  <<Head(ins[place])>> \o Merge([ins EXCEPT ![place] = Tail(@)])

mergebins(me) ==
  /\ Runs(me, "mergebins") /\ Rest
  /\ merged' = [merged EXCEPT ![me] = Merge([i \in Procs |-> bins[i][me]])]
  /\ Exit(me, "ok")
  /\ UNCHANGED <<keys, bins, sorted, valid>>

\* assemble: cat copies the merged bin to its place among the others.
RECURSIVE Before(_)
Before(me) == IF me = 0 THEN 0 ELSE Len(merged[me - 1]) + Before(me - 1)

assemble(me) ==
  /\ Runs(me, "assemble") /\ Rest
  /\ LET n == IF Len(merged[me]) - done[me] > CatBuf THEN CatBuf ELSE Len(merged[me]) - done[me]
     IN  \/ /\ n > 0 /\ GoOn(me, n)
            /\ sorted' = WriteAt(sorted, Before(me) + done[me], SubSeq(merged[me], done[me] + 1, done[me] + n))
         \/ n = 0 /\ Exit(me, "ok") /\ UNCHANGED sorted
  /\ UNCHANGED <<keys, bins, merged, valid>>

\* dovalidate: the smallest and the largest key of a part, the bounds the other
\* way round when it has none.
dovalidate(me) ==
  /\ Runs(me, "dovalidate") /\ Rest
  /\ LET part == {sorted[i] : i \in {j \in DOMAIN sorted : j \in seekmyplace(me) + 1 .. seekmyplace(me) + getmykeys(me)}}
         smallest == CHOOSE k \in part \cup {RANDOM_MAX} : \A j \in part : k <= j
         largest == CHOOSE k \in part \cup {0} : \A j \in part : k >= j
     IN  \/ /\ \A k \in part : k # 0 /\ k < RANDOM_MAX
            /\ valid' = [valid EXCEPT ![me] = <<smallest, largest>>] /\ Exit(me, "ok")
         \/ /\ \E k \in part : k = 0 \/ k >= RANDOM_MAX
            /\ Exit(me, "bad") /\ UNCHANGED valid
  /\ UNCHANGED <<keys, bins, merged, sorted>>

-----------------------------------------------------------------------------
\* ... waits for them, checks the sizes of what they wrote, and starts the next
\* phase; after the last it looks at what the validation found, block by block
\* (prev_largest stays 1).
Sum(f) == LET S[i \in 0 .. numprocs] == IF i = 0 THEN 0 ELSE Len(f[i - 1]) + S[i - 1] IN S[numprocs]
checksize_bins == LET T[i \in 0 .. numprocs] == IF i = 0 THEN 0 ELSE Sum(bins[i - 1]) + T[i - 1] IN T[numprocs] = numkeys
checksum(f) == LET S[i \in 0 .. Len(f)] == IF i = 0 THEN 0 ELSE f[i] + S[i - 1] IN S[Len(f)]

genkeys == Len(keys) = numkeys
Checked ==
  CASE phase = "genkeys_sub" -> genkeys
    [] phase \in {"bin", "sortbins"} -> checksize_bins
    [] phase = "mergebins" -> Sum(merged) = numkeys
    [] phase = "assemble" -> Len(sorted) = numkeys /\ checksum(sorted) = checksum(keys)
    [] phase = "dovalidate" -> \A p \in Procs :
         /\ valid[p][1] >= 1 /\ valid[p][2] < RANDOM_MAX
         /\ valid[p][1] <= valid[p][2]

Following ==
  CASE phase = "genkeys_sub" -> "bin"
    [] phase = "bin" -> "sortbins"
    [] phase = "sortbins" -> "mergebins"
    [] phase = "mergebins" -> "assemble"
    [] phase = "assemble" -> "dovalidate"
    [] phase = "dovalidate" -> "done"

dowait ==
  /\ phase \notin {"done", "failed"} /\ forked = numprocs
  /\ \A p \in Procs : child[p] \in {"ok", "bad"}
  /\ phase' = IF (\A p \in Procs : child[p] = "ok") /\ Checked THEN Following ELSE "failed"
  /\ forked' = 0
  /\ child' = [p \in Procs |-> "none"] /\ done' = [p \in Procs |-> 0]
  /\ UNCHANGED <<numkeys, files, nofork>>

Next ==
  \/ dofork
  \/ \E me \in Procs : genkeys_sub(me)
  \/ \E me \in Procs : bin(me)
  \/ \E me \in Procs : sortbins(me)
  \/ \E me \in Procs : mergebins(me)
  \/ \E me \in Procs : assemble(me)
  \/ \E me \in Procs : dovalidate(me)
  \/ dowait

Spec == Init /\ [][Next]_vars

-----------------------------------------------------------------------------
Occurs(k, f) == Cardinality({i \in DOMAIN f : f[i] = k})

\* psort sorts, however its children interleave: when it reports success the
\* output has the keys that were generated, as often as they were, in order; it
\* gives up only if a fork failed, a child had no keys, a bin did not fit the
\* workspace, or a key lies past the last bin (seekmyplace and getmykeys share
\* out numkeys that numprocs does not divide; WriteAt in two files at once).
SortsOrSaysWhy ==
  /\ phase = "done" =>
       /\ \A i, j \in DOMAIN sorted : i <= j => sorted[i] <= sorted[j]
       /\ \A k \in 0 .. RANDOM_MAX : Occurs(k, sorted) = Occurs(k, keys)
  /\ phase = "failed" =>
       \/ nofork
       \/ numkeys < numprocs
       \/ \E i \in DOMAIN keys : keys[i] \div pivot >= numprocs
       \/ \E p, q \in Procs : Len(bins[p][q]) > WORKNUM

\* "This test is supposed to adjust to arbitrary settings of WORKNUM, numprocs,
\* and numkeys" (psort.c:72): when no fork fails the test does not fail.
AdjustsToSettings == phase = "failed" => nofork
=============================================================================
