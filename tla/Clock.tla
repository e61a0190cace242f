------------------------------- MODULE Clock -------------------------------
(***************************************************************************)
(* Time: the timer card (kern/dev/lamebus/ltimer.c) with its time of day,  *)
(* read in three pieces, and its interrupt once a second, which wakes      *)
(* everybody in clocksleep (kern/thread/clock.c).  A second is Second      *)
(* ticks.                                                                  *)
(***************************************************************************)
EXTENDS Naturals, FiniteSets

CONSTANTS Sleepers, Second,
          Turnover,            \* 5 ms: how late a nanosecond count is called small
          ReadTime,            \* most ticks the three register reads take
          MaxTime, MaxSecs

VARIABLES now,                 \* the card's clock, in ticks
          phase,               \* when in a second the card interrupts
          irq,                 \* LT_REG_IRQ
          sleeper,             \* clocksleep: state, num_secs left, asked, since
          reader,              \* ltimer_gettime: pc, start, secs1, nsec, secs2
          ran                  \* ticks that the reads took so far

vars == <<now, phase, irq, sleeper, reader, ran>>

Reading == reader.pc \in {"secs1", "nsec"}

Init ==
  /\ now = 0 /\ phase \in 0 .. Second - 1 /\ irq = FALSE
  /\ sleeper = [s \in Sleepers |-> [pc |-> "out", num_secs |-> 0, asked |-> 0, since |-> 0]]
  /\ reader = [pc |-> "out", start |-> 0, secs1 |-> 0, nsec |-> 0, secs2 |-> 0]
  /\ ran = 0

\* Time passes, but not much while ltimer_gettime has interrupts off; otherwise
\* the interrupt is taken when it comes.
Tick ==
  /\ now < MaxTime /\ (irq => Reading)
  /\ Reading => ran < ReadTime
  /\ now' = now + 1
  /\ ran' = IF Reading THEN ran + 1 ELSE ran
  /\ irq' = (irq \/ (now + 1) % Second = phase)
  /\ UNCHANGED <<phase, sleeper, reader>>

-----------------------------------------------------------------------------
\* timerclock: everybody on lbolt wakes; clocksleep counts what it slept.
Woken(s) ==
  CASE sleeper[s].pc # "lbolt" -> sleeper[s]
    [] sleeper[s].num_secs = 1 -> [sleeper[s] EXCEPT !.num_secs = 0, !.pc = "back"]
    [] OTHER -> [sleeper[s] EXCEPT !.num_secs = @ - 1]

\* The interrupt is not taken while ltimer_gettime has interrupts off (one CPU
\* takes the card's interrupts and reads the clock).
ltimer_irq ==
  /\ irq /\ ~Reading
  /\ irq' = FALSE
  /\ sleeper' = [s \in Sleepers |-> Woken(s)]
  /\ UNCHANGED <<now, phase, reader, ran>>

clocksleep(s) ==
  /\ sleeper[s].pc = "out"
  /\ \E num_secs \in 0 .. MaxSecs :
       sleeper' = [sleeper EXCEPT ![s] =
         [pc |-> IF num_secs = 0 THEN "back" ELSE "lbolt", num_secs |-> num_secs, asked |-> num_secs, since |-> now]]
  /\ UNCHANGED <<now, phase, irq, reader, ran>>

Return(s) ==
  /\ sleeper[s].pc = "back"
  /\ sleeper' = [sleeper EXCEPT ![s] = [pc |-> "out", num_secs |-> 0, asked |-> 0, since |-> 0]]
  /\ UNCHANGED <<now, phase, irq, reader, ran>>

-----------------------------------------------------------------------------
\* ltimer_gettime: seconds, nanoseconds, seconds again.
ReadSecs1 ==
  /\ reader.pc = "out" /\ ~irq
  /\ reader' = [pc |-> "secs1", start |-> now, secs1 |-> now \div Second, nsec |-> 0, secs2 |-> 0]
  /\ ran' = 0
  /\ UNCHANGED <<now, phase, irq, sleeper>>

ReadNsec ==
  /\ reader.pc = "secs1"
  /\ reader' = [reader EXCEPT !.pc = "nsec", !.nsec = now % Second]
  /\ UNCHANGED <<now, phase, irq, sleeper, ran>>

ReadSecs2 ==
  /\ reader.pc = "nsec"
  /\ reader' = [reader EXCEPT !.pc = "done", !.secs2 = now \div Second]
  /\ UNCHANGED <<now, phase, irq, sleeper, ran>>

Use ==
  /\ reader.pc = "done"
  /\ reader' = [pc |-> "out", start |-> 0, secs1 |-> 0, nsec |-> 0, secs2 |-> 0]
  /\ ran' = 0
  /\ UNCHANGED <<now, phase, irq, sleeper>>

tv_sec == IF reader.nsec < Turnover THEN reader.secs2 ELSE reader.secs1


Next ==
  \/ Tick \/ ltimer_irq
  \/ \E s \in Sleepers : clocksleep(s)
  \/ \E s \in Sleepers : Return(s)
  \/ ReadSecs1 \/ ReadNsec \/ ReadSecs2 \/ Use

Spec == Init /\ [][Next]_vars

-----------------------------------------------------------------------------

\* "clocksleep() suspends execution for the requested number of seconds, like
\* userlevel sleep(3)" (kern/include/clock.h): it does not come back earlier.
SleepsLongEnough ==
  \A s \in Sleepers : sleeper[s].pc = "back" => now - sleeper[s].since >= sleeper[s].asked * Second
=============================================================================
