------------------------------ MODULE SemTests -----------------------------
(***************************************************************************)
(* The user-level tests that run on the semaphores of semfs:               *)
(* userland/testbin/usemtest, schedpong and parallelvm -w.  A program is   *)
(* the list of steps of each of its processes.  The system calls are the   *)
(* ones the tests are written for: read of n from a semaphore takes n      *)
(* units as they come, write of n adds n, fork may fail, the child has its *)
(* parent's files, and waitpid gives the exit status.                      *)
(***************************************************************************)
EXTENDS Naturals, SequencesExt, FiniteSets

CONSTANTS NUMJOBS,                            \* at least 3
          ONCELOOPS, TWICELOOPS, THRICELOOPS, PONGLOOPS,
          MaxForkFails

VARIABLES test, pc,
          status,         \* "none", "running", or the exit status "0" or "1"
          count, linked,  \* of each semaphore: its units, whether its name exists
          files,          \* semaphores each process has open
          left,           \* units the read of a process has still to take
          saying, printed, \* processes amid a line; who printed or ponged, in order
          failures,       \* failed subprocesses each process knows of
          results,        \* groups with an end time in the results file
          forkfails, pulled  \* forks that failed; a semaphore was removed under somebody

semtests_vars == <<test, pc, status, count, linked, files, left, saying, printed, failures,
          results, forkfails, pulled>>

main == 0
Jobs == 1 .. NUMJOBS
Director(groupid) == NUMJOBS + 1 + groupid    \* of schedpong's groups 0, 1 and 2
Thinker == NUMJOBS + 4
Procs == 0 .. 2 * NUMJOBS + 1
LOOPS == ONCELOOPS + (2 * TWICELOOPS) + (3 * THRICELOOPS)

start == <<"start", 0>>
s1 == <<"s", 1>>
s2 == <<"s", 2>>
gosem(i) == <<"g", i>>
waitsem(i) == <<"w", i>>
sems(id) == <<"pong", id>>                    \* id from 0
Sems == {start, s1, s2} \cup {gosem(i) : i \in Jobs} \cup {waitsem(i) : i \in Jobs}
          \cup {sems(i - 1) : i \in Jobs}

Repeat(s, n) == FlattenSeq([i \in 1 .. n |-> s])
ForJobs(F(_)) == FlattenSeq([i \in 1 .. NUMJOBS |-> F(i)])
Init1(s) == << <<"init", s>> >>
Open(s) == << <<"open", s>> >>
Close(s) == << <<"close", s>> >>
Cleanup(s) == << <<"remove", s>> >>
Take(s, n) == << <<"P", s, n>> >>
Give(s, n) == << <<"V", s, n>> >>
say == << <<"say">>, <<"said">> >>

-----------------------------------------------------------------------------
(* usemtest.                                                               *)

child_plain(i) == Repeat(Take(gosem(i), 1) \o << <<"print">> >> \o say \o Give(waitsem(i), 1), LOOPS)
child_with_own_fd(i) ==
  Open(gosem(i)) \o Open(waitsem(i)) \o child_plain(i) \o Close(gosem(i)) \o Close(waitsem(i))

Prompt(i) == Give(gosem(i), 1) \o Take(waitsem(i), 1) \o say
baseparent ==
  ForJobs(LAMBDA i : Open(gosem(i)) \o Open(waitsem(i))) \o say
    \o Repeat(ForJobs(Prompt), ONCELOOPS)
    \o Repeat(ForJobs(LAMBDA i : Repeat(Prompt(i), 2)), TWICELOOPS)
    \o Repeat(ForJobs(LAMBDA i : Repeat(Prompt(i), 3)), THRICELOOPS)
    \o ForJobs(LAMBDA i : Close(gosem(i)) \o Close(waitsem(i)))
basetest ==
  ForJobs(LAMBDA i : Init1(gosem(i)) \o Init1(waitsem(i)))
    \o ForJobs(LAMBDA i : << <<"fork", i>> >>)
    \o baseparent
    \o ForJobs(LAMBDA i : << <<"wait", i>> >>)
    \o ForJobs(LAMBDA i : Cleanup(gosem(i)) \o Cleanup(waitsem(i)))

concparent == Repeat(ForJobs(Prompt), LOOPS)
conctest ==
  say \o ForJobs(LAMBDA i : Init1(gosem(i)) \o Init1(waitsem(i)) \o Open(gosem(i)) \o Open(waitsem(i)))
    \o ForJobs(LAMBDA i : << <<"fork", NUMJOBS + i>> >>)
    \o concparent
    \o ForJobs(LAMBDA i : << <<"wait", NUMJOBS + i>> >>)
    \o ForJobs(LAMBDA i : Close(gosem(i)) \o Close(waitsem(i)) \o Cleanup(gosem(i)) \o Cleanup(waitsem(i)))

usemtest(p) ==
  CASE p = main -> basetest \o conctest \o say
    [] p \in Jobs -> child_with_own_fd(p)
    [] OTHER -> child_plain(p - NUMJOBS)

-----------------------------------------------------------------------------
(* schedpong, with one thinker, no grinders and one group that plays pong. *)

pong_prep == ForJobs(LAMBDA i : Init1(sems(i - 1)))
pong_cleanup == ForJobs(LAMBDA i : Cleanup(sems(i - 1)))

Hit(id, to) == << <<"print">> >> \o Give(sems(to), 1)
LastWait(id) == IF id = 0 THEN Take(sems(id), 1) ELSE <<>>

pong_cyclic(id) ==
  FlattenSeq([i \in 1 .. PONGLOOPS |->
    (IF i > 1 \/ id > 0 THEN Take(sems(id), 1) ELSE <<>>) \o Hit(id, (id + 1) % NUMJOBS)]) \o LastWait(id)

pong_reciprocating(id) ==
  LET nextfwd == CASE id = 0 -> 1 [] id = NUMJOBS - 1 -> NUMJOBS - 2 [] OTHER -> id + 1
      nextback == CASE id = 0 -> 1 [] id = NUMJOBS - 1 -> NUMJOBS - 2 [] OTHER -> id - 1
      n == IF id \in {0, NUMJOBS - 1} THEN PONGLOOPS ELSE PONGLOOPS * 2
  IN  FlattenSeq([i \in 1 .. n |->
        (IF i > 1 \/ id > 0 THEN Take(sems(id), 1) ELSE <<>>)
          \o Hit(id, IF i % 2 = 1 THEN nextfwd ELSE nextback)]) \o LastWait(id)

waitstart == Open(start) \o Take(start, 1) \o Close(start)
pong(id) ==
  LET idfwd == (id + 1) % NUMJOBS
      idback == (id + NUMJOBS - 1) % NUMJOBS
  IN  Open(sems(id)) \o Open(sems(idfwd)) \o Open(sems(idback))
        \o waitstart \o pong_cyclic(id) \o pong_reciprocating(id) \o pong_cyclic(id)
        \o Close(sems(id)) \o Close(sems(idfwd)) \o Close(sems(idback))

runtaskgroup(prep, tasks, cleanup, groupid) ==
  prep \o FlattenSeq([i \in DOMAIN tasks |-> << <<"fork", tasks[i]>> >>])
    \o FlattenSeq([i \in DOMAIN tasks |-> << <<"wait", tasks[i]>> >>])
    \o << <<"putresult", groupid>> >> \o cleanup \o << <<"exit">> >>

waitall == << <<"wait", Director(0)>>, <<"wait", Director(1)>>, <<"wait", Director(2)>>, <<"check">> >>
runit ==
  Init1(start) \o << <<"fork", Director(0)>>, <<"fork", Director(1)>>, <<"fork", Director(2)>> >>
    \o Open(start) \o Give(start, 1 + NUMJOBS) \o waitall
    \o Close(start) \o Cleanup(start)
    \o << <<"getresult", 0>>, <<"getresult", 2>> >>

schedpong(p) ==
  CASE p = main -> runit
    [] p \in Jobs -> pong(p - 1)
    [] p = Director(0) -> runtaskgroup(<<>>, <<Thinker>>, <<>>, 0)
    [] p = Director(1) -> runtaskgroup(<<>>, <<>>, <<>>, 1)
    [] p = Director(2) -> runtaskgroup(pong_prep, [i \in Jobs |-> i], pong_cleanup, 2)
    [] OTHER -> waitstart

-----------------------------------------------------------------------------
(* parallelvm -w.                                                          *)

makeprocs ==
  Init1(s1) \o Init1(s2)
    \o ForJobs(LAMBDA i : << <<"tryfork", i>>, <<"unless", i>> >> \o Open(s1) \o Give(s1, 1) \o Close(s1))
    \o Open(s1) \o Open(s2) \o Take(s1, NUMJOBS) \o Give(s2, NUMJOBS)
    \o ForJobs(LAMBDA i : << <<"wait", i>> >>) \o << <<"check">> >>
    \o Close(s1) \o Close(s2) \o Cleanup(s1) \o Cleanup(s2)
go == Open(s1) \o Open(s2) \o Give(s1, 1) \o Take(s2, 1) \o Close(s1) \o Close(s2) \o << <<"print">> >>

Tests == {"usemtest", "schedpong", "parallelvm"}
Programs ==
  [t \in Tests |-> [p \in Procs |->
    CASE t = "usemtest" -> usemtest(p)
      [] t = "schedpong" -> schedpong(p)
      [] OTHER -> IF p = main THEN makeprocs ELSE go]]

-----------------------------------------------------------------------------
SemTestsInit ==
  /\ test \in Tests
  /\ pc = [p \in Procs |-> 1]
  /\ status = [p \in Procs |-> IF p = main THEN "running" ELSE "none"]
  /\ count = [s \in Sems |-> 0] /\ linked = {}
  /\ files = [p \in Procs |-> {}] /\ left = [p \in Procs |-> 0]
  /\ saying = {} /\ printed = <<>>
  /\ failures = [p \in Procs |-> 0] /\ results = {}
  /\ forkfails = 0 /\ pulled = FALSE

Program(p) == Programs[test][p]
UserOp(p) == Program(p)[pc[p]]
At(p, ops) == status[p] = "running" /\ pc[p] <= Len(Program(p)) /\ UserOp(p)[1] \in ops
Goes(p) == pc' = [pc EXCEPT ![p] = @ + 1] /\ UNCHANGED status
Dies(p) == status' = [status EXCEPT ![p] = "1"] /\ UNCHANGED pc
Closed(p, s) == files' = [files EXCEPT ![p] = @ \ s]

\* A new semaphore, or the old one with its count set back.
usem_init(p) ==
  /\ At(p, {"init"}) /\ Goes(p)
  /\ linked' = linked \cup {UserOp(p)[2]} /\ count' = [count EXCEPT ![UserOp(p)[2]] = 0]
  /\ UNCHANGED <<test, files, left, saying, printed, failures, results, forkfails, pulled>>

usem_open(p) ==
  /\ At(p, {"open"})
  /\ IF UserOp(p)[2] \in linked
     THEN Goes(p) /\ files' = [files EXCEPT ![p] = @ \cup {UserOp(p)[2]}]
     ELSE Dies(p) /\ Closed(p, Sems)
  /\ UNCHANGED <<test, count, linked, left, saying, printed, failures, results, forkfails, pulled>>

usem_close(p) ==
  /\ At(p, {"close"}) /\ Goes(p) /\ Closed(p, {UserOp(p)[2]})
  /\ UNCHANGED <<test, count, linked, left, saying, printed, failures, results, forkfails, pulled>>

usem_cleanup(p) ==
  /\ At(p, {"remove"}) /\ Goes(p)
  /\ linked' = linked \ {UserOp(p)[2]}
  /\ pulled' = (pulled \/ \E o \in Procs : UserOp(p)[2] \in files[o])
  /\ UNCHANGED <<test, count, files, left, saying, printed, failures, results, forkfails>>

\* Through a file that is not open: err(1).
Pn(p) ==
  /\ At(p, {"P"})
  /\ LET s == UserOp(p)[2]
         need == IF left[p] = 0 THEN UserOp(p)[3] ELSE left[p]
         taken == IF count[s] < need THEN count[s] ELSE need IN
     IF s \notin files[p] THEN Dies(p) /\ Closed(p, Sems) /\ UNCHANGED <<count, left>>
     ELSE /\ taken > 0
          /\ count' = [count EXCEPT ![s] = @ - taken]
          /\ left' = [left EXCEPT ![p] = need - taken]
          /\ IF need = taken THEN Goes(p) ELSE UNCHANGED <<pc, status>>
          /\ UNCHANGED files
  /\ UNCHANGED <<test, linked, saying, printed, failures, results, forkfails, pulled>>

Vn(p) ==
  /\ At(p, {"V"})
  /\ IF UserOp(p)[2] \notin files[p] THEN Dies(p) /\ Closed(p, Sems) /\ UNCHANGED count
     ELSE Goes(p) /\ count' = [count EXCEPT ![UserOp(p)[2]] = @ + UserOp(p)[3]] /\ UNCHANGED files
  /\ UNCHANGED <<test, linked, left, saying, printed, failures, results, forkfails, pulled>>

\* A line comes out character by character.
Say(p) ==
  /\ At(p, {"say", "said", "print"}) /\ Goes(p)
  /\ saying' = CASE UserOp(p)[1] = "say" -> saying \cup {p} [] UserOp(p)[1] = "said" -> saying \ {p} [] OTHER -> saying
  /\ printed' = IF UserOp(p)[1] = "print" THEN Append(printed, p) ELSE printed
  /\ UNCHANGED <<test, count, linked, files, left, failures, results, forkfails, pulled>>

fork(p) ==
  /\ At(p, {"fork", "tryfork"})
  /\ LET kid == UserOp(p)[2] IN
     \/ /\ pc' = [pc EXCEPT ![p] = @ + 1]
        /\ status' = [status EXCEPT ![kid] = "running"]
        /\ files' = [files EXCEPT ![kid] = files[p]]
        /\ UNCHANGED <<forkfails, failures>>
     \/ /\ forkfails < MaxForkFails /\ forkfails' = forkfails + 1
        /\ \/ UserOp(p)[1] = "fork" /\ Dies(p) /\ Closed(p, Sems) /\ UNCHANGED failures
           \/ UserOp(p)[1] = "tryfork" /\ Goes(p) /\ UNCHANGED <<files, failures>>
  /\ UNCHANGED <<test, count, linked, left, saying, printed, results, pulled>>

\* parallelvm: only the parent whose fork failed speaks for the child.
IfForkFailed(p) ==
  /\ At(p, {"unless"})
  /\ pc' = [pc EXCEPT ![p] = @ + (IF status[UserOp(p)[2]] = "none" THEN 1 ELSE 4)]
  /\ UNCHANGED <<test, status, count, linked, files, left, saying, printed, failures, results, forkfails, pulled>>

dowait(p) ==
  /\ At(p, {"wait"})
  /\ status[UserOp(p)[2]] # "running"
  /\ failures' = [failures EXCEPT ![p] = @ + (IF status[UserOp(p)[2]] = "0" THEN 0 ELSE 1)]
  /\ Goes(p)
  /\ UNCHANGED <<test, count, linked, files, left, saying, printed, results, forkfails, pulled>>

putresult(p) ==
  /\ At(p, {"putresult"}) /\ Goes(p)
  /\ results' = results \cup {UserOp(p)[2]}
  /\ UNCHANGED <<test, count, linked, files, left, saying, printed, failures, forkfails, pulled>>

getresult(p) ==
  /\ At(p, {"getresult"})
  /\ IF \E g \in results : g >= UserOp(p)[2]
     THEN Goes(p) /\ UNCHANGED files
     ELSE Dies(p) /\ Closed(p, Sems)
  /\ UNCHANGED <<test, count, linked, left, saying, printed, failures, results, forkfails, pulled>>

\* exit, at the end of the program or where failures are looked at.
exit(p) ==
  /\ status[p] = "running"
  /\ \/ pc[p] > Len(Program(p)) /\ status' = [status EXCEPT ![p] = "0"] /\ UNCHANGED pc /\ Closed(p, Sems)
     \/ At(p, {"check", "exit"}) /\ failures[p] > 0 /\ Dies(p) /\ Closed(p, Sems)
     \/ At(p, {"check", "exit"}) /\ failures[p] = 0 /\ Goes(p) /\ UNCHANGED files
  /\ UNCHANGED <<test, count, linked, left, saying, printed, failures, results, forkfails, pulled>>

SemTestsNext ==
  \/ \E p \in Procs : usem_init(p)
  \/ \E p \in Procs : usem_open(p)
  \/ \E p \in Procs : usem_close(p)
  \/ \E p \in Procs : usem_cleanup(p)
  \/ \E p \in Procs : Pn(p)
  \/ \E p \in Procs : Vn(p)
  \/ \E p \in Procs : Say(p)
  \/ \E p \in Procs : fork(p)
  \/ \E p \in Procs : IfForkFailed(p)
  \/ \E p \in Procs : dowait(p)
  \/ \E p \in Procs : putresult(p)
  \/ \E p \in Procs : getresult(p)
  \/ \E p \in Procs : exit(p)

SemTestsSpec == SemTestsInit /\ [][SemTestsNext]_semtests_vars

-----------------------------------------------------------------------------
\* Whom the processes should hear from, in order.
Rounds(n, times) == Repeat(ForJobs(LAMBDA i : Repeat(<<i>>, times)), n)
BaseOrder == Rounds(ONCELOOPS, 1) \o Rounds(TWICELOOPS, 2) \o Rounds(THRICELOOPS, 3)
ConcOrder == Repeat(ForJobs(LAMBDA i : <<NUMJOBS + i>>), LOOPS)
Cyclic == Rounds(PONGLOOPS, 1)
Reciprocating == Repeat([i \in 1 .. 2 * (NUMJOBS - 1) |-> IF i <= NUMJOBS THEN i ELSE (2 * NUMJOBS) - i], PONGLOOPS)
Order == [usemtest |-> BaseOrder \o ConcOrder, schedpong |-> Cyclic \o Reciprocating \o Cyclic]

\* A process that has nothing to wait for; nobody can go on.
Waits(p) ==
  \/ status[p] # "running"
  \/ At(p, {"P"}) /\ UserOp(p)[2] \in files[p] /\ count[UserOp(p)[2]] = 0
  \/ At(p, {"wait"}) /\ status[UserOp(p)[2]] = "running"
Stuck == \A p \in Procs : Waits(p)

TypeOK ==
  /\ test \in Tests /\ \A p \in Procs : pc[p] \in 1 .. Len(Program(p)) + 1
  /\ status \in [Procs -> {"none", "running", "0", "1"}]
  /\ \A s \in Sems : count[s] \in Nat
  /\ linked \subseteq Sems /\ \A p \in Procs : files[p] \subseteq Sems

\* The handshakes of the tests work whatever the interleaving: the lines of
\* usemtest come one at a time, and the processes of usemtest and the pongers of
\* schedpong take their turns in the order the parent and the semaphores give
\* them; no job of parallelvm computes before every fork has been tried; nobody
\* removes a semaphore that somebody has open.  When nobody can go on the main
\* process has exited, failed forks or not; with none failed everybody has, with
\* status 0, and no semaphore has a unit left over.
Handshakes ==
  /\ TypeOK
  /\ Cardinality(saying) <= 1
  /\ test \in DOMAIN Order => IsPrefix(printed, Order[test])
  /\ test = "parallelvm" /\ printed # <<>> =>
       forkfails + Cardinality({p \in Jobs : status[p] # "none"}) = NUMJOBS
  /\ forkfails = 0 => ~pulled
  /\ Stuck => status[main] \in {"0", "1"}
  /\ Stuck /\ forkfails = 0 =>
       /\ \A p \in Procs : status[p] \in {"none", "0"}
       /\ \A s \in Sems : count[s] = 0
       /\ test \in DOMAIN Order => printed = Order[test]
=============================================================================
