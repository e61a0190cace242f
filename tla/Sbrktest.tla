------------------------------ MODULE Sbrktest ------------------------------
(***************************************************************************)
(* sbrktest (userland/testbin/sbrktest/sbrktest.c) and the sbrk it is run   *)
(* against, which is right or has one of the faults the tests are there to  *)
(* find.  Memory is a set of frames; a process maps the pages of its heap   *)
(* to frames, and its break counts bytes from the bottom of the heap.  A    *)
(* test is the list of the steps of the parent, and after a fork of the     *)
(* child.  A random number is any number, so a seed makes no difference.    *)
(***************************************************************************)
EXTENDS Integers, SequencesExt, FiniteSetsExt

CONSTANTS PAGE_SIZE,        \* bytes
          NFRAMES,          \* memory the heaps can have, in pages
          HUGESIZE,         \* what test 9 tries first
          num, BIG,         \* pages of tests 3 and 4, and of test 11
          SmallPages, SmallMax, LargePages, LargeMax, loops,   \* stress tests
          MaxRuns           \* tests run from the menu one after the other

VARIABLES fault,      \* of this system's sbrk and fork
          status, test, runs,
          pc,         \* of parent and child, 0 if there is none
          r,          \* their variables
          brk, page, content, free,
          childbad,   \* how the child ended
          refused,    \* dosbrk or fork had to say no
          before      \* break and free memory when the test began

sbrk_vars == <<fault, status, test, runs, pc, r, brk, page, content, free, childbad, refused, before>>

Procs == {"parent", "child"}
Frames == 1 .. NFRAMES
Nowhere == 0
MaxPage == 2 * NFRAMES
Faults == {"none", "newbreak", "keeps", "shares", "drops", "leaks", "forkshares"}

\* A page as the tests see it, the number of the page it was marked for: in its
\* first word and in the others.  New pages are zero.
Marked(k) == [first |-> k, rest |-> k]
Fresh == [first |-> 0, rest |-> -1]
Gone == [first |-> -2, rest |-> -2]

PagesOf(b) == (b + PAGE_SIZE - 1) \div PAGE_SIZE
Holds(p, k) == page[p][k] # Nowhere

-----------------------------------------------------------------------------
(* The tests.                                                              *)

PAGE == PAGE_SIZE
Each(F(_), n) == FlattenSeq([i \in 1 .. n |-> F(i - 1)])
Upto(n) == 0 .. n - 1

\* The old break, then the same again after growing by n pages.
Grow(n) == << <<"dosbrk", "op", 0>>, <<"dosbrk", "p", n * PAGE>>, <<"same", "p", "op">> >>
Shrink(n) == << <<"dosbrk", "p", 0>>, <<"dosbrk", "q", -n * PAGE>>, <<"same", "q", "p">> >>
Restored == << <<"dosbrk", "q", 0>>, <<"same", "q", "op">> >>
MarkAndCheck == << <<"mark", "p", {0}>>, <<"check", "p", {0}>> >>
MarkEach(n) == Each(LAMBDA i : << <<"mark", "p", {i}>>, <<"checkbad", "p", {i}>> >>, n) \o << <<"exitbad">> >>

test1 == << <<"dosbrk", "p", PAGE>> >> \o MarkAndCheck \o << <<"passed">> >>
test2 == Grow(1) \o MarkAndCheck \o Shrink(1) \o Restored \o << <<"passed">> >>
test3 == Grow(num) \o MarkEach(num) \o Shrink(num) \o Restored \o << <<"passed">> >>
test4 ==
  Grow(num) \o MarkEach(num)
    \o Each(LAMBDA i : << <<"dosbrk", "q", -PAGE>>, <<"checkbad", "p", Upto(num - 1 - i)>> >>, num)
    \o << <<"exitbad">> >> \o Restored \o << <<"passed">> >>

PastTheEnd == << <<"dosbrk", "p", 0>>, <<"touch", "p">>, <<"fail">> >>
test5 == PastTheEnd
test6 == << <<"dosbrk", "p", PAGE>> >> \o PastTheEnd
test7 == << <<"dosbrk", "p", PAGE>>, <<"dosbrk", "p", -PAGE>> >> \o PastTheEnd
test8 == << <<"dosbrk", "p", 2 * num * PAGE>>, <<"dosbrk", "p", -num * PAGE>> >> \o PastTheEnd

\* Halve the size until sbrk grants it; then use the memory, give it back, and
\* the same again without use.
test9(v) ==
  << <<"size", HUGESIZE>>, <<"sbrk", "p", v.size, 4>>, <<"goto", 6>>, <<"size", v.size \div 2>>, <<"goto", 2>>,
     <<"marklight", "p", Upto(v.size \div PAGE)>>, <<"checkbad light", "p", Upto(v.size \div PAGE)>>, <<"exitbad">>,
     <<"dosbrk", "q", -v.size>>, <<"dosbrk", "q", v.size>>, <<"dosbrk", "q", -v.size>>, <<"passed">> >>

\* A page at a time until sbrk refuses, and back.
test10(v) ==
  << <<"dosbrk", "op", 0>>, <<"sbrk", "p", PAGE, 6>>, <<"marklight", "op", {v.n}>>, <<"n", v.n + 1>>, <<"goto", 2>>,
     <<"unless", v.n > 0, 11>>, <<"checkbad light", "op", {v.n - 1}>>, <<"dosbrk", "q", -PAGE>>, <<"n", v.n - 1>>,
     <<"goto", 6>>,
     <<"exitbad">>, <<"dosbrk", "p", 0>>, <<"same", "p", "op">>, <<"dosbrk", "p", PAGE>> >>
    \o MarkAndCheck \o << <<"dosbrk", "q", -PAGE>>, <<"passed">> >>

test11 ==
  << <<"dosbrk", "p", BIG * PAGE>>, <<"marklight", "p", Upto(BIG)>>, <<"checkbad light", "p", Upto(BIG)>>,
     <<"exitbad">>, <<"passed">> >>

\* What the child does follows "exit", where a parent never gets: <<"fork", k>>
\* starts the child at step k.
test12 ==
  << <<"fork", 7>>, <<"dosbrk", "p", PAGE>> >> \o MarkAndCheck \o << <<"dowait">>, <<"passed">> >>
    \o << <<"dosbrk", "p", PAGE>> >> \o MarkAndCheck \o << <<"exit">> >>
test13 ==
  << <<"dosbrk", "p", PAGE>> >> \o MarkAndCheck
    \o << <<"fork", 8>>, <<"check", "p", {0}>>, <<"dowait">>, <<"passed">>, <<"check", "p", {0}>>, <<"exit">> >>
test14 ==
  << <<"dosbrk", "p", PAGE>> >> \o MarkAndCheck
    \o << <<"fork", 8>>, <<"dowait">>, <<"check", "p", {0}>>, <<"passed">>,
          <<"check", "p", {0}>>, <<"dosbrk", "q", -PAGE>>, <<"exit">> >>
test15 ==
  LET n == 2 * num IN
  << <<"dosbrk", "p", n * PAGE>>, <<"mark", "p", Upto(n)>>, <<"check", "p", Upto(n)>>,
     <<"dosbrk", "q", -PAGE>>, <<"check", "p", Upto(n - 1)>>,
     <<"dosbrk", "q", 2 * PAGE>>, <<"mark", "p", {n - 1, n}>>, <<"check", "p", Upto(n + 1)>>,
     <<"fork", 17>>,
     <<"dosbrk", "q", 4 * PAGE>>, <<"mark", "p", (n + 1) .. (n + 4)>>, <<"check", "p", Upto(n + 5)>>,
     <<"dowait">>, <<"check", "p", Upto(n + 5)>>, <<"dosbrk", "q", -(n + 5) * PAGE>>, <<"passed">>,
     <<"check", "p", Upto(n + 1)>>, <<"dosbrk", "q", -3 * PAGE>>, <<"check", "p", Upto(n - 2)>>,
     <<"dosbrk", "q", 2 * PAGE>>, <<"mark", "p", {n - 2, n - 1}>>, <<"check", "p", Upto(n)>>,
     <<"dosbrk", "q", -n * PAGE>>, <<"exit">> >>

\* Each round grows or shrinks by a random number of pages; v.n is the pages held.
stresstest(v) ==
  << <<"dosbrk", "op", 0>>, <<"unless", v.i < loops, 9>>, <<"draw">>,
     <<"dosbrk", "q", v.pages * PAGE>>,
     <<"marklight", "op", v.n .. v.n + v.pages - 1>>, <<"n", v.n + v.pages>>,
     <<"checkbad light", "op", Upto(v.n)>>, <<"goto", 2>>,
     <<"exitbad">>, <<"dosbrk", "q", -v.n * PAGE>>, <<"passed">> >>

numtests == 21
tests(v) ==
  CASE test = 1 -> test1 [] test = 2 -> test2 [] test = 3 -> test3 [] test = 4 -> test4 [] test = 5 -> test5
    [] test = 6 -> test6 [] test = 7 -> test7 [] test = 8 -> test8 [] test = 9 -> test9(v) [] test = 10 -> test10(v)
    [] test = 11 -> test11 [] test = 12 -> test12 [] test = 13 -> test13 [] test = 14 -> test14 [] test = 15 -> test15
    [] OTHER -> stresstest(v)
Large == {19, 20, 21}
Crashing == {5, 6, 7, 8}

-----------------------------------------------------------------------------
(* sbrk, fork and exit of the kernel, with the fault it has.               *)

Old(p) == PagesOf(brk[p])
Grown(p, n) == {k \in Old(p) .. PagesOf(brk[p] + n) - 1 : ~Holds(p, k)}
Frame(i) == CHOOSE f \in free : Cardinality({g \in free : g <= f}) = i
Taken(p, n) == IF fault = "shares" /\ Grown(p, n) # {} THEN 1 ELSE Cardinality(Grown(p, n))

Granted(p, n) ==
  brk[p] + n >= 0 /\ PagesOf(brk[p] + n) <= MaxPage /\ Taken(p, n) <= Cardinality(free)

\* The pages a smaller break takes away.
Lost(p, n) ==
  CASE fault = "keeps" \/ PagesOf(brk[p] + n) >= Old(p) -> {}
    [] fault = "drops" -> (PagesOf(brk[p] + n) - 1) .. (Old(p) - 1) \cap 0 .. MaxPage - 1
    [] OTHER -> PagesOf(brk[p] + n) .. Old(p) - 1

Release(p, pages) ==
  LET frames == {page[p][k] : k \in pages} \ {Nowhere} IN
    /\ page' = [page EXCEPT ![p] = [k \in DOMAIN @ |-> IF k \in pages THEN Nowhere ELSE @[k]]]
    /\ free' = IF fault = "leaks" THEN free ELSE free \cup frames
    /\ content' = [f \in Frames |-> IF f \in frames THEN Gone ELSE content[f]]

Resize(p, n) ==
  LET grown == Grown(p, n)
      frame(k) == Frame(IF fault = "shares" THEN 1 ELSE 1 + k - Min(grown))
      taken == {frame(k) : k \in grown}
  IN  /\ brk' = [brk EXCEPT ![p] = @ + n]
      /\ IF n < 0 THEN Release(p, Lost(p, n))
         ELSE /\ page' = [page EXCEPT ![p] = [k \in DOMAIN @ |-> IF k \in grown THEN frame(k) ELSE @[k]]]
              /\ free' = free \ taken
              /\ content' = [f \in Frames |-> IF f \in taken THEN Fresh ELSE content[f]]

-----------------------------------------------------------------------------
(* The steps of a test.                                                    *)

Locals == [op |-> 0, p |-> 0, q |-> 0, size |-> 0, n |-> 0, i |-> 0, pages |-> 0, bad |-> FALSE]

Step(p) == tests(r[p])[pc[p]]
At(p, op) == status = "running" /\ pc[p] # 0 /\ Step(p)[1] = op
Goto(p, k) == pc' = [pc EXCEPT ![p] = k]
Continue(p) == Goto(p, pc[p] + 1)

memory == <<brk, page, content, free>>
test_vars == <<fault, test, runs, before>>

\* err and errx, and a signal: the end of the program, or of the child.
Ends(p, how) ==
  /\ Goto(p, 0)
  /\ IF p = "parent" THEN status' = how /\ UNCHANGED <<memory, childbad>>
     ELSE childbad' = TRUE /\ Release(p, 0 .. MaxPage - 1) /\ UNCHANGED <<status, brk>>

\* sbrk granted: the old break is the answer.
Grant(p, dst, n) ==
  /\ Resize(p, n)
  /\ r' = [r EXCEPT ![p][dst] = IF fault = "newbreak" THEN brk[p] + n ELSE brk[p]]
  /\ Continue(p)
  /\ UNCHANGED <<test_vars, status, childbad, refused>>

dosbrk(p) ==
  /\ At(p, "dosbrk")
  /\ IF Granted(p, Step(p)[3]) THEN Grant(p, Step(p)[2], Step(p)[3])
     ELSE Ends(p, "failed") /\ refused' = TRUE /\ UNCHANGED <<test_vars, r>>

sbrk(p) ==
  /\ At(p, "sbrk")
  /\ IF Granted(p, Step(p)[3]) THEN Grant(p, Step(p)[2], Step(p)[3])
     ELSE Goto(p, Step(p)[4]) /\ UNCHANGED <<test_vars, status, r, memory, childbad, refused>>

\* Page k of the block that register base points to.
PageAt(p, base, k) == r[p][base] \div PAGE_SIZE + k
Mapped(p, base, k) == PageAt(p, base, k) < MaxPage /\ Holds(p, PageAt(p, base, k))
FrameAt(p, base, k) == page[p][PageAt(p, base, k)]

markpage(p) ==
  LET base == Step(p)[2]
      pages == Step(p)[3]
      here(f) == {k \in pages : FrameAt(p, base, k) = f}
  IN  /\ At(p, "mark") \/ At(p, "marklight")
      /\ UNCHANGED <<test_vars, r, refused>>
      /\ IF \E k \in pages : ~Mapped(p, base, k) THEN Ends(p, "crashed")
         ELSE /\ content' = [f \in Frames |->
                   IF here(f) = {} THEN content[f]
                   ELSE IF At(p, "mark") THEN Marked(Max(here(f))) ELSE [content[f] EXCEPT !.first = Max(here(f))]]
              /\ Continue(p)
              /\ UNCHANGED <<status, brk, page, free, childbad>>

Agrees(p, base, k) ==
  LET c == content[FrameAt(p, base, k)] IN
    c.first = k /\ (Step(p)[1] # "checkbad light" => c.rest = k)

\* One that fails ends the test, or is remembered in `bad' until exitbad.
checkpage(p) ==
  LET base == Step(p)[2]
      pages == Step(p)[3]
  IN  /\ At(p, "check") \/ At(p, "checkbad") \/ At(p, "checkbad light")
      /\ UNCHANGED <<test_vars, refused>>
      /\ IF \E k \in pages : ~Mapped(p, base, k) THEN Ends(p, "crashed") /\ UNCHANGED r
         ELSE IF At(p, "check") /\ \E k \in pages : ~Agrees(p, base, k) THEN Ends(p, "failed") /\ UNCHANGED r
         ELSE /\ r' = [r EXCEPT ![p].bad = @ \/ \E k \in pages : ~Agrees(p, base, k)]
              /\ Continue(p)
              /\ UNCHANGED <<status, memory, childbad>>

\* Comparisons of breaks, exit(1) after a bad page, and writing past the end.
Verdict(p) ==
  \/ /\ \/ At(p, "same") /\ r[p][Step(p)[2]] # r[p][Step(p)[3]]
        \/ At(p, "exitbad") /\ r[p].bad
        \/ At(p, "fail")
     /\ Ends(p, "failed") /\ UNCHANGED <<test_vars, r, refused>>
  \/ At(p, "touch") /\ ~Mapped(p, Step(p)[2], 0) /\ Ends(p, "crashed") /\ UNCHANGED <<test_vars, r, refused>>

\* The program goes on.
Proceed(p) ==
  /\ \/ At(p, "same") /\ r[p][Step(p)[2]] = r[p][Step(p)[3]] /\ Continue(p)
     \/ At(p, "exitbad") /\ ~r[p].bad /\ Continue(p)
     \/ At(p, "touch") /\ Mapped(p, Step(p)[2], 0) /\ Continue(p)
     \/ At(p, "goto") /\ Goto(p, Step(p)[2])
     \/ At(p, "unless") /\ Goto(p, IF Step(p)[2] THEN pc[p] + 1 ELSE Step(p)[3])
  /\ UNCHANGED <<test_vars, status, r, memory, childbad, refused>>

Assign(p) ==
  /\ At(p, "size") \/ At(p, "n")
  /\ r' = [r EXCEPT ![p][Step(p)[1]] = Step(p)[2]]
  /\ Continue(p)
  /\ UNCHANGED <<test_vars, status, memory, childbad, refused>>

\* A round of a stress test: how many pages, and which way.
Draw(p) ==
  LET limit == IF test \in Large THEN LargeMax ELSE SmallMax IN
  /\ At(p, "draw")
  /\ \E pages \in 0 .. (IF test \in Large THEN LargePages ELSE SmallPages) - 1, bit \in BOOLEAN :
       LET neg == (pages <= r[p].n /\ bit) \/ r[p].n + pages > limit IN
         r' = [r EXCEPT ![p].pages = IF neg THEN -pages ELSE pages, ![p].i = @ + 1]
  /\ Continue(p)
  /\ UNCHANGED <<test_vars, status, memory, childbad, refused>>

\* The child's pages are copies, if there is memory for them.
dofork(p) ==
  LET held == {k \in 0 .. MaxPage - 1 : Holds(p, k)}
      copy(k) == IF fault = "forkshares" THEN page[p][k] ELSE Frame(Cardinality({j \in held : j <= k}))
      pages == [k \in 0 .. MaxPage - 1 |-> IF k \in held THEN copy(k) ELSE Nowhere]
  IN  /\ At(p, "fork")
      /\ UNCHANGED test_vars
      /\ IF fault # "forkshares" /\ Cardinality(held) > Cardinality(free)
         THEN Ends(p, "failed") /\ refused' = TRUE /\ UNCHANGED r
         ELSE /\ page' = [page EXCEPT !["child"] = pages]
              /\ free' = free \ {copy(k) : k \in held}
              /\ content' = [f \in Frames |->
                   IF \E k \in held : copy(k) = f THEN content[page[p][CHOOSE k \in held : copy(k) = f]]
                   ELSE content[f]]
              /\ brk' = [brk EXCEPT !["child"] = brk[p]]
              /\ r' = [r EXCEPT !["child"] = r[p]]
              /\ pc' = [pc EXCEPT ![p] = @ + 1, !["child"] = Step(p)[2]]
              /\ childbad' = FALSE
              /\ UNCHANGED <<status, refused>>

exit(p) ==
  /\ At(p, "exit")
  /\ Release(p, 0 .. MaxPage - 1)
  /\ Goto(p, 0)
  /\ UNCHANGED <<test_vars, status, r, brk, childbad, refused>>

dowait(p) ==
  /\ At(p, "dowait") /\ pc["child"] = 0
  /\ IF childbad THEN Ends(p, "failed") ELSE Continue(p) /\ UNCHANGED <<status, memory, childbad>>
  /\ UNCHANGED <<test_vars, r, refused>>

Passed(p) ==
  /\ At(p, "passed")
  /\ status' = "passed"
  /\ Goto(p, 0)
  /\ r' = [q \in Procs |-> Locals]
  /\ UNCHANGED <<test_vars, memory, childbad, refused>>

-----------------------------------------------------------------------------
\* The break may be anywhere in a page when the program starts.
SbrkInit ==
  /\ fault \in Faults
  /\ status = "start" /\ test = 0 /\ runs = 0 /\ childbad = FALSE /\ refused = FALSE
  /\ pc = [p \in Procs |-> 0]
  /\ r = [p \in Procs |-> Locals]
  /\ \E b \in 0 .. PAGE_SIZE - 1 :
       /\ brk = [p \in Procs |-> IF p = "parent" THEN b ELSE 0]
       /\ page = [p \in Procs |-> [k \in 0 .. MaxPage - 1 |-> IF p = "parent" /\ k = 0 /\ b > 0 THEN 1 ELSE Nowhere]]
       /\ free = IF b > 0 THEN Frames \ {1} ELSE Frames
  /\ content = [f \in Frames |-> Fresh]
  /\ before = [brk |-> 0, free |-> {}]

\* Align the break; the rest of its page is there already.
setup ==
  /\ status = "start"
  /\ status' = "menu"
  /\ brk' = [brk EXCEPT !["parent"] = PAGE_SIZE * PagesOf(@)]
  /\ UNCHANGED <<test_vars, pc, r, page, content, free, childbad, refused>>

dotest ==
  /\ status \in {"menu", "passed"} /\ runs < MaxRuns
  /\ \E tn \in 1 .. numtests : test' = tn
  /\ runs' = runs + 1
  /\ status' = "running"
  /\ pc' = [pc EXCEPT !["parent"] = 1]
  /\ before' = [brk |-> brk["parent"], free |-> free]
  /\ UNCHANGED <<fault, r, memory, childbad, refused>>

SbrkNext ==
  \/ setup \/ dotest
  \/ \E p \in Procs :
       \/ dosbrk(p) \/ sbrk(p) \/ markpage(p) \/ checkpage(p) \/ Verdict(p) \/ Proceed(p) \/ Assign(p) \/ Draw(p)
       \/ dofork(p) \/ exit(p) \/ dowait(p) \/ Passed(p)

SbrkSpec == SbrkInit /\ [][SbrkNext]_sbrk_vars

-----------------------------------------------------------------------------
(* Properties.                                                             *)

\* The faults a test is there to find, whatever ran before it.
Finds ==
  [newbreak |-> {2, 3, 4}, keeps |-> {7, 8}, shares |-> {4, 15}, drops |-> {4, 15}, leaks |-> {10},
   forkshares |-> {14, 15}]
Leaky == {1, 11, 12, 13, 14}

\* What sbrktest says can be relied on.  With an sbrk that is right, a test fails
\* only if memory had to be refused, no test but 5 to 8 ends in a signal, and the
\* tests that give their memory back leave the heap as they found it.  A test
\* does not pass with a fault it is there to find.
SbrkVerdicts ==
  /\ fault = "none" =>
       /\ status = "failed" => refused
       /\ status = "crashed" => test \in Crashing
       /\ status = "passed" /\ test \notin Leaky => before = [brk |-> brk["parent"], free |-> free]
  /\ fault # "none" /\ status = "passed" => test \notin Finds[fault]
=============================================================================
