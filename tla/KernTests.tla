----------------------------- MODULE KernTests -----------------------------
(***************************************************************************)
(* The kernel's own tests of semaphores, locks, condition variables and    *)
(* threads (kern/test/semunit.c, synchtest.c, threadtest.c, tt3.c), run    *)
(* from the menu against semaphores as kern/thread/synch.c implements      *)
(* them and locks and condition variables as kern/include/synch.h          *)
(* specifies them.  A test is the list of steps of each of its threads;    *)
(* clocksleep(1) is taken to last until nobody else can run.               *)
(***************************************************************************)
EXTENDS Naturals, SequencesExt, FiniteSets

CONSTANTS NTHREADS, LOOPS, UMAX      \* threads, rounds, largest sem_count

VARIABLES test,       \* the test that is run
          pc,         \* next step of each thread; 0 before thread_fork
          sem_count, waiting,    \* by semaphore or channel: count, sleepers
          holder,     \* of testlock, NTHREADS + 1 if none
          relock,     \* threads in cv_wait that were woken
          waiters_running, testval, printing, printed,
          outcome     \* "running", "assert" (of the kernel) or "failed" (the test's)

vars == <<test, pc, sem_count, waiting, holder, relock, waiters_running, testval,
          printing, printed, outcome>>

main == NTHREADS
Threads == 0 .. NTHREADS
Kids == 0 .. NTHREADS - 1
Nobody == NTHREADS + 1
Sems == {"sem", "donesem", "gatesem", "wakersem"}
Chans == Sems \cup {"testcv", "wc0", "wc1"}

Repeat(s, n) == FlattenSeq([i \in 1 .. n |-> s])
ForAll(F(_)) == FlattenSeq([i \in 1 .. NTHREADS |-> F(i - 1)])

-----------------------------------------------------------------------------
(* The tests.                                                              *)

Synch == {"semtest", "locktest", "cvtest", "cvtest2"}
ThreadTests == {"threadtest", "threadtest3"}

\* Tests that should end in a kernel assertion or crash.
Crashing == {"semu2", "semu3", "semu6", "semu14", "semu15", "semu20", "semu21", "semu22"}

waiter == << <<"P", "sem">>, <<"waiter_gone">> >>
makewaiter(i) == << <<"waiter_new">>, <<"fork", i>>, <<"clocksleep">> >>

Interrupting(interrupthandler, ops) ==
  IF interrupthandler THEN << <<"interrupt">> >> \o ops \o << <<"uninterrupt">> >> ELSE ops

semu1 == << <<"count", UMAX - 1>>, <<"sem_destroy", "sem">> >>
semu2 == << <<"crash">>, <<"panic">> >>
semu3 == << <<"sem_destroy", "null">>, <<"panic">> >>
semu4 == << <<"count--">>, <<"count", UMAX>>, <<"sem_destroy", "sem">> >>
semu5 == << <<"count", UMAX>>, <<"sem_destroy", "sem">> >>
semu6 == makewaiter(0) \o << <<"sem_destroy", "sem">>, <<"panic">> >>
semu7 == << <<"spin">>, <<"V", "sem">>, <<"V", "sem">>, <<"V", "sem">>, <<"unspin">>, <<"sem_destroy", "sem">> >>
do_semu89(interrupthandler) ==
  Interrupting(interrupthandler, << <<"V", "sem">> >>) \o << <<"count", 1>>, <<"sem_destroy", "sem">> >>
do_semu1011(interrupthandler) ==
  makewaiter(0) \o << <<"running", 1>> >> \o Interrupting(interrupthandler, << <<"V", "sem">> >>)
    \o << <<"clocksleep">>, <<"count", 0>>, <<"running", 0>>, <<"sem_destroy", "sem">> >>
semu1213(interrupthandler) ==
  makewaiter(0) \o makewaiter(1) \o << <<"running", 2>> >>
    \o Interrupting(interrupthandler, << <<"V", "sem">> >>)
    \o << <<"clocksleep">>, <<"count", 0>>, <<"running", 1>>, <<"V", "sem">>, <<"clocksleep">>,
          <<"running", 0>>, <<"sem_destroy", "sem">> >>
semu14 == << <<"count--">>, <<"V", "sem">>, <<"panic">> >>
semu15 == << <<"V", "null">>, <<"panic">> >>
semu16 == << <<"spin">>, <<"P", "sem">>, <<"unspin">>, <<"sem_destroy", "sem">> >>
semu17_sub == << <<"count", 0>>, <<"P", "sem">> >>
semu17 == << <<"fork", 0>>, <<"clocksleep">>, <<"asleep", 0>>, <<"V", "sem">>, <<"clocksleep">>,
             <<"sem_destroy", "sem">> >>
semu18 == << <<"count", 1>>, <<"P", "sem">>, <<"count", 0>> >>
semu19_sub == << <<"clocksleep">>, <<"V", "sem">> >>
semu19 == << <<"fork", 0>>, <<"count", 0>>, <<"P", "sem">>, <<"count", 0>> >>
semu20 == << <<"interrupt">>, <<"P", "sem">>, <<"panic">> >>
semu21 == << <<"interrupt">>, <<"P", "sem">>, <<"panic">> >>
semu22 == << <<"P", "null">>, <<"panic">> >>

Unit == [semu1 |-> semu1, semu2 |-> semu2, semu3 |-> semu3, semu4 |-> semu4, semu5 |-> semu5, semu6 |-> semu6,
         semu7 |-> semu7, semu8 |-> do_semu89(FALSE), semu9 |-> do_semu89(TRUE),
         semu10 |-> do_semu1011(FALSE), semu11 |-> do_semu1011(TRUE), semu12 |-> semu1213(FALSE),
         semu13 |-> semu1213(TRUE), semu14 |-> semu14, semu15 |-> semu15, semu16 |-> semu16, semu17 |-> semu17,
         semu18 |-> semu18, semu19 |-> semu19, semu20 |-> semu20, semu21 |-> semu21, semu22 |-> semu22]
UnitTests == DOMAIN Unit
UnitKid == CASE test = "semu17" -> semu17_sub [] test = "semu19" -> semu19_sub [] OTHER -> waiter

InitialCount ==
  [s \in Sems |-> CASE s = "sem" /\ test = "semtest" -> 2
                    [] s = "sem" /\ test \in {"semu16", "semu18", "semu21"} -> 1
                    [] s = "sem" /\ test = "semu1" -> UMAX - 1
                    [] s = "sem" /\ test = "semu5" -> UMAX
                    [] s = "wakersem" -> 1
                    [] OTHER -> 0]

ForkAll == ForAll(LAMBDA i : << <<"fork", i>> >>)
WaitAll == Repeat(<< <<"P", "donesem">> >>, NTHREADS)

semtest ==
  << <<"P", "sem">>, <<"P", "sem">> >> \o ForkAll
    \o Repeat(<< <<"V", "sem">>, <<"P", "donesem">> >>, NTHREADS)
    \o << <<"V", "sem">>, <<"V", "sem">> >>
semtestthread == << <<"P", "sem">>, <<"print">>, <<"printed">>, <<"V", "donesem">> >>

locktest == ForkAll \o WaitAll
locktestthread ==
  Repeat(<< <<"lock_acquire">>, <<"testval1">>, <<"testval2">>, <<"testval3">>, <<"compare">>,
            <<"lock_release">> >>, LOOPS) \o << <<"V", "donesem">> >>

cvtest == << <<"last">> >> \o ForkAll \o WaitAll
cvtestthread ==
  Repeat(<< <<"lock_acquire">>, <<"cv_wait_turn">>, <<"turn">>, <<"cv_broadcast">>,
            <<"lock_release">> >>, LOOPS) \o << <<"V", "donesem">> >>

cvtest2 == << <<"fork", 0>>, <<"fork", 1>>, <<"P", "donesem">>, <<"P", "donesem">> >>
sleepthread ==
  Repeat(<< <<"lock_acquire">>, <<"V", "gatesem">>, <<"cv_wait">>, <<"lock_release">> >>, LOOPS)
    \o << <<"V", "donesem">> >>
wakethread ==
  Repeat(<< <<"P", "gatesem">>, <<"lock_acquire">>, <<"cv_signal">>, <<"lock_release">> >>, LOOPS)
    \o << <<"V", "donesem">> >>

\* threadtest: putch in loops.
runthreads == ForkAll \o WaitAll
loudthread == << <<"thread_yield">>, <<"V", "donesem">> >>

\* tt3: the threads but one sleep (the last of them computes instead), one wakes
\* whoever sleeps on channels it picks until it is told to stop.
runtest3 ==
  ForkAll \o Repeat(<< <<"P", "donesem">> >>, NTHREADS - 1)
    \o << <<"P", "wakersem">>, <<"wakerdone">>, <<"V", "wakersem">>, <<"P", "donesem">> >>
waker_thread ==
  << <<"P", "wakersem">>, <<"done">>, <<"V", "wakersem">>, <<"unless", 7>>, <<"wakeall">>,
     <<"goto", 1>>, <<"V", "donesem">> >>
sleepalot_thread == Repeat(<< <<"wchan_sleep">> >>, LOOPS) \o << <<"V", "donesem">> >>
compute_thread == << <<"thread_yield">>, <<"V", "donesem">> >>

Program(t) ==
  CASE test \in UnitTests -> IF t = main THEN Unit[test] ELSE UnitKid
    [] test = "semtest" -> IF t = main THEN semtest ELSE semtestthread
    [] test = "locktest" -> IF t = main THEN locktest ELSE locktestthread
    [] test = "cvtest" -> IF t = main THEN cvtest ELSE cvtestthread
    [] test = "cvtest2" -> CASE t = main -> cvtest2 [] t = 0 -> sleepthread [] OTHER -> wakethread
    [] test = "threadtest" -> IF t = main THEN runthreads ELSE loudthread
    [] test = "threadtest3" -> CASE t = main -> runtest3 [] t = 0 -> waker_thread
                                 [] t = 1 -> compute_thread [] OTHER -> sleepalot_thread

-----------------------------------------------------------------------------
Init ==
  /\ test \in UnitTests \cup Synch \cup ThreadTests
  /\ pc = [t \in Threads |-> IF t = main THEN 1 ELSE 0]
  /\ sem_count = InitialCount
  /\ waiting = [c \in Chans |-> <<>>]
  /\ holder = Nobody /\ relock = {}
  /\ waiters_running = 0
  /\ testval = [v1 |-> 0, v2 |-> 0, v3 |-> 0, spin |-> FALSE, intr |-> FALSE, done |-> FALSE, seen |-> FALSE]
  /\ printing = {} /\ printed = <<>>
  /\ outcome = "running"

Ended(t) == pc[t] > Len(Program(t))
Asleep(t) == \E c \in Chans : t \in Range(waiting[c])
Op(t) == Program(t)[pc[t]]
Ready(t) == pc[t] > 0 /\ ~Ended(t) /\ ~Asleep(t)

Runnable(t) ==
  /\ Ready(t)
  /\ Op(t)[1] # "clocksleep"
  /\ Op(t)[1] = "lock_acquire" \/ t \in relock => holder = Nobody

\* The next step of t is one of ops.
At(t, ops) == outcome = "running" /\ Ready(t) /\ t \notin relock /\ Op(t)[1] \in ops
Goes(t) == pc' = [pc EXCEPT ![t] = @ + 1]
End(o) == outcome' = o /\ UNCHANGED pc

\* Only the main thread of a test pretends to be in an interrupt handler.
InInterrupt(t) == t = main /\ testval.intr

\* P: a thread that finds the count zero sleeps and looks again when woken.
P(t) ==
  /\ At(t, {"P"})
  /\ LET s == Op(t)[2] IN
     \/ /\ s = "null" \/ InInterrupt(t)
        /\ End("assert") /\ UNCHANGED <<sem_count, waiting>>
     \/ /\ s # "null" /\ ~InInterrupt(t) /\ sem_count[s] = 0 /\ t = main /\ testval.spin
        /\ End("assert") /\ UNCHANGED <<sem_count, waiting>>
     \/ /\ s # "null" /\ ~InInterrupt(t) /\ sem_count[s] = 0 /\ ~(t = main /\ testval.spin)
        /\ waiting' = [waiting EXCEPT ![s] = Append(@, t)]
        /\ UNCHANGED <<pc, outcome, sem_count>>
     \/ /\ s # "null" /\ ~InInterrupt(t) /\ sem_count[s] > 0
        /\ sem_count' = [sem_count EXCEPT ![s] = @ - 1]
        /\ Goes(t) /\ UNCHANGED <<outcome, waiting>>
  /\ UNCHANGED <<test, holder, relock, waiters_running, testval, printing, printed>>

wchan_wakeone(w, c) == IF w[c] = <<>> THEN w ELSE [w EXCEPT ![c] = Tail(@)]

V(t) ==
  /\ At(t, {"V"})
  /\ LET s == Op(t)[2] IN
     \/ s = "null" /\ End("assert") /\ UNCHANGED <<sem_count, waiting>>
     \/ /\ s # "null"
        /\ sem_count' = [sem_count EXCEPT ![s] = (@ + 1) % (UMAX + 1)]
        /\ \/ sem_count'[s] = 0 /\ End("assert") /\ UNCHANGED waiting
           \/ /\ sem_count'[s] > 0
              /\ waiting' = wchan_wakeone(waiting, s)
              /\ Goes(t) /\ UNCHANGED outcome
  /\ UNCHANGED <<test, holder, relock, waiters_running, testval, printing, printed>>

sem_destroy(t) ==
  /\ At(t, {"sem_destroy", "crash", "panic"})
  /\ \/ Op(t)[1] = "panic" /\ End("failed")
     \/ Op(t)[1] = "crash" /\ End("assert")
     \/ /\ Op(t)[1] = "sem_destroy"
        /\ IF Op(t)[2] = "null" \/ waiting["sem"] # <<>> THEN End("assert") ELSE Goes(t) /\ UNCHANGED outcome
  /\ UNCHANGED <<test, sem_count, waiting, holder, relock, waiters_running, testval, printing, printed>>

\* What the unit tests look at, and do to the state behind the semaphore's back.
Holds(t) ==
  CASE Op(t)[1] = "count" -> sem_count["sem"] = Op(t)[2]
    [] Op(t)[1] = "running" -> waiters_running = Op(t)[2]
    [] Op(t)[1] = "asleep" -> Asleep(Op(t)[2])
    [] OTHER -> TRUE

KASSERT(t) ==
  /\ At(t, {"count", "running", "asleep"})
  /\ IF Holds(t) THEN Goes(t) /\ UNCHANGED outcome ELSE End("failed")
  /\ UNCHANGED <<test, sem_count, waiting, holder, relock, waiters_running, testval, printing, printed>>

Arrange(t) ==
  /\ At(t, {"count--", "spin", "unspin", "interrupt", "uninterrupt", "waiter_new", "waiter_gone", "thread_yield", "fork"})
  /\ pc' = [o \in Threads |-> CASE o = t -> pc[t] + 1
                               [] o # t /\ Op(t)[1] = "fork" -> IF o = Op(t)[2] THEN 1 ELSE pc[o]
                               [] OTHER -> pc[o]]
  /\ sem_count' = IF Op(t)[1] = "count--"
                  THEN [sem_count EXCEPT !["sem"] = (@ + UMAX) % (UMAX + 1)] ELSE sem_count
  /\ testval' = [testval EXCEPT !.spin = IF Op(t)[1] \in {"spin", "unspin"} THEN Op(t)[1] = "spin" ELSE @,
                                !.intr = Op(t)[1] = "interrupt" \/ (@ /\ Op(t)[1] # "uninterrupt")]
  /\ Op(t)[1] = "waiter_gone" => waiters_running > 0
  /\ waiters_running' = CASE Op(t)[1] = "waiter_new" -> waiters_running + 1
                          [] Op(t)[1] = "waiter_gone" -> waiters_running - 1
                          [] OTHER -> waiters_running
  /\ UNCHANGED <<test, waiting, holder, relock, printing, printed, outcome>>

clocksleep(t) ==
  /\ At(t, {"clocksleep"})
  /\ \A o \in Threads \ {t} : ~Runnable(o)
  /\ Goes(t)
  /\ UNCHANGED <<test, sem_count, waiting, holder, relock, waiters_running, testval, printing, printed, outcome>>

-----------------------------------------------------------------------------
\* Locks and condition variables, as synch.h has them.
lock_acquire(t) ==
  /\ outcome = "running" /\ Ready(t)
  /\ holder = Nobody
  /\ t \in relock \/ Op(t)[1] = "lock_acquire"
  /\ holder' = t /\ relock' = relock \ {t}
  /\ IF t \in relock /\ Op(t)[1] = "cv_wait_turn" THEN UNCHANGED pc ELSE Goes(t)
  /\ UNCHANGED <<test, sem_count, waiting, waiters_running, testval, printing, printed, outcome>>

lock_release(t) ==
  /\ At(t, {"lock_release"})
  /\ holder' = Nobody /\ Goes(t)
  /\ UNCHANGED <<test, sem_count, waiting, relock, waiters_running, testval, printing, printed, outcome>>

cv_wait(t) ==
  /\ At(t, {"cv_wait", "cv_wait_turn"})
  /\ \/ /\ Op(t)[1] = "cv_wait_turn" /\ testval.v1 = t
        /\ Goes(t) /\ UNCHANGED <<waiting, holder, relock>>
     \/ /\ Op(t)[1] = "cv_wait_turn" => testval.v1 # t
        /\ waiting' = [waiting EXCEPT !["testcv"] = Append(@, t)]
        /\ relock' = relock \cup {t} /\ holder' = Nobody
        /\ UNCHANGED pc
  /\ UNCHANGED <<test, sem_count, waiters_running, testval, printing, printed, outcome>>

cv_signal(t) ==
  /\ At(t, {"cv_signal", "cv_broadcast"})
  /\ waiting' = IF Op(t)[1] = "cv_signal" THEN wchan_wakeone(waiting, "testcv")
                ELSE [waiting EXCEPT !["testcv"] = <<>>]
  /\ Goes(t)
  /\ UNCHANGED <<test, sem_count, holder, relock, waiters_running, testval, printing, printed, outcome>>

-----------------------------------------------------------------------------
\* What the threads of synchtest do between: the lines they print, the three
\* shared values (written one by one), the turn that goes round.
Square(t) == t * t

Compared(t) ==
  /\ testval.v2 = Square(testval.v1) /\ testval.v2 % 3 = (testval.v3 * testval.v3) % 3
  /\ testval.v3 = testval.v1 % 3
  /\ testval.v1 = t /\ testval.v2 = Square(t) /\ testval.v3 = t % 3

Work(t) ==
  /\ At(t, {"print", "printed", "last", "testval1", "testval2", "testval3", "compare", "turn", "wakerdone", "done"})
  /\ LET op == Op(t)[1] IN
     /\ printing' = CASE op = "print" -> printing \cup {t} [] op = "printed" -> printing \ {t} [] OTHER -> printing
     /\ printed' = IF op = "turn" THEN Append(printed, t) ELSE printed
     /\ testval' = CASE op = "last" -> [testval EXCEPT !.v1 = NTHREADS - 1]
                     [] op = "testval1" -> [testval EXCEPT !.v1 = t]
                     [] op = "testval2" -> [testval EXCEPT !.v2 = Square(t)]
                     [] op = "testval3" -> [testval EXCEPT !.v3 = t % 3]
                     [] op = "turn" -> [testval EXCEPT !.v1 = (@ + NTHREADS - 1) % NTHREADS]
                     [] op = "wakerdone" -> [testval EXCEPT !.done = TRUE]
                     [] op = "done" -> [testval EXCEPT !.seen = testval.done]
                     [] OTHER -> testval
     /\ IF op = "compare" /\ ~Compared(t) THEN End("failed") ELSE Goes(t) /\ UNCHANGED outcome
  /\ UNCHANGED <<test, sem_count, waiting, holder, relock, waiters_running>>

\* tt3: a thread sleeps on a channel of its choice; the waker's loop.
wchan_sleep(t) ==
  /\ At(t, {"wchan_sleep"})
  /\ \E c \in {"wc0", "wc1"} : waiting' = [waiting EXCEPT ![c] = Append(@, t)]
  /\ Goes(t)
  /\ UNCHANGED <<test, sem_count, holder, relock, waiters_running, testval, printing, printed, outcome>>

Waker(t) ==
  /\ At(t, {"wakeall", "goto", "unless"})
  /\ IF Op(t)[1] = "wakeall"
     THEN \E c \in {"wc0", "wc1"} : waiting' = [waiting EXCEPT ![c] = <<>>] /\ Goes(t)
     ELSE /\ pc' = [pc EXCEPT ![t] = IF Op(t)[1] = "goto" \/ testval.seen THEN Op(t)[2] ELSE @ + 1]
          /\ UNCHANGED waiting
  /\ UNCHANGED <<test, sem_count, holder, relock, waiters_running, testval, printing, printed, outcome>>

Next ==
  \/ \E t \in Threads : P(t)
  \/ \E t \in Threads : V(t)
  \/ \E t \in Threads : sem_destroy(t)
  \/ \E t \in Threads : KASSERT(t)
  \/ \E t \in Threads : Arrange(t)
  \/ \E t \in Threads : clocksleep(t)
  \/ \E t \in Threads : lock_acquire(t)
  \/ \E t \in Threads : lock_release(t)
  \/ \E t \in Threads : cv_wait(t)
  \/ \E t \in Threads : cv_signal(t)
  \/ \E t \in Threads : Work(t)
  \/ \E t \in Threads : wchan_sleep(t)
  \/ \E t \in Threads : Waker(t)

Spec == Init /\ [][Next]_vars

-----------------------------------------------------------------------------
\* Nobody can run, not even a thread that waits for the clock.
Stuck == \A t \in Threads : ~Runnable(t) /\ (Ready(t) => Op(t)[1] # "clocksleep")

\* The tests pass on a correct kernel whatever the interleaving, and say what
\* they should: no check of a test fails; a test that should end in an assertion
\* of the kernel does and no other; whenever nobody can run any more the test's
\* main thread has finished (no wakeup of P, V, cv_wait or wchan_sleep was lost);
\* "only one of these should print at a time" (synchtest.c:89); the threads of
\* cvtest print in reverse order.
TestsPass ==
  /\ outcome # "failed"
  /\ outcome = "assert" => test \in Crashing
  /\ Stuck /\ outcome = "running" => Ended(main) /\ test \notin Crashing
  /\ Cardinality(printing) <= 1
  /\ \A i \in DOMAIN printed : printed[i] = NTHREADS - 1 - ((i - 1) % NTHREADS)
=============================================================================
