------------------------------ MODULE Console ------------------------------
(***************************************************************************)
(* The console (kern/dev/generic/console.c) on a LAMEbus serial port       *)
(* (kern/dev/lamebus/lser.c): threads that read and write the device con:, *)
(* kernel messages that wait for the port with an interrupt or, where that *)
(* is impossible, by polling it, and the interrupt handler of the boot     *)
(* CPU.  The port sends one character at a time and holds one that it has  *)
(* received; its two interrupt registers have the bits lser.c uses.        *)
(***************************************************************************)
EXTENDS Naturals, Sequences, FiniteSets

CONSTANTS Threads, None,
          BufSize,    \* CONSOLE_INPUT_BUFFER_SIZE
          MaxIn,      \* bound on the characters received
          MaxPolled   \* bound on the characters sent by polling

VARIABLES tx,         \* the port is sending a character
          wirq,       \* LSER_REG_WIRQ: the bits ENABLE, ACTIVE and FORCE that are set
          rirq,       \* LSER_IRQ_ACTIVE of LSER_REG_RIRQ: a character is in
          rchar, nin, \* LSER_REG_CHAR; how many came, which numbers them
          ls_lock, ls_wbusy,
          wsem, rsem, gotchars, head, tail,
          lock_r, lock_w, lock_k, spin_k,   \* con_userlock_read, con_userlock_write,
                                            \* kprintf_lock, kprintf_spinlock
          irq,        \* the handler: its place and its locals
          pc, todo,   \* each thread's place; characters it has still to move
          npolled,
          taken, missed,    \* characters readers took, in order; dropped ones
          overrun, panicked

port == <<tx, wirq, rirq, rchar, nin>>
con == <<wsem, rsem, gotchars, head, tail>>
locks == <<lock_r, lock_w, lock_k, spin_k>>
ghost == <<npolled, taken, missed>>
vars == <<port, ls_lock, ls_wbusy, con, locks, irq, pc, todo, ghost, overrun, panicked>>

NoIrq == [at |-> "none", start |-> FALSE, input |-> FALSE, ch |-> 0]

Init ==
  /\ tx = FALSE /\ wirq = {"ENABLE"} /\ rirq = FALSE /\ rchar = 0 /\ nin = 0
  /\ ls_lock = None /\ ls_wbusy = FALSE
  /\ wsem = 1 /\ rsem = 0 /\ gotchars = [i \in 0 .. BufSize - 1 |-> 0] /\ head = 0 /\ tail = 0
  /\ lock_r = None /\ lock_w = None /\ lock_k = None /\ spin_k = None
  /\ irq = NoIrq
  /\ pc = [t \in Threads |-> "idle"]
  /\ todo = [t \in Threads |-> <<>>]
  /\ npolled = 0 /\ taken = <<>> /\ missed = {}
  /\ overrun = FALSE /\ panicked = FALSE

Goto(t, l) == pc' = [pc EXCEPT ![t] = l]

-----------------------------------------------------------------------------
\* The port.  A character written to it while it is sending another is lost.
Transmit ==
  /\ tx' = TRUE
  /\ overrun' = (overrun \/ tx)

Sent ==
  /\ tx /\ tx' = FALSE
  /\ wirq' = wirq \cup {"ACTIVE"}
  /\ UNCHANGED <<rirq, rchar, nin, ls_lock, ls_wbusy, con, locks, irq, pc, todo, ghost, overrun, panicked>>

Received ==
  /\ ~rirq /\ nin < MaxIn
  /\ nin' = nin + 1 /\ rchar' = nin + 1 /\ rirq' = TRUE
  /\ UNCHANGED <<tx, wirq, ls_lock, ls_wbusy, con, locks, irq, pc, todo, ghost, overrun, panicked>>

Asserted == rirq \/ ("ENABLE" \in wirq /\ wirq \cap {"ACTIVE", "FORCE"} # {})

\* lamebus_interrupt finds the slot and calls lser_irq, which looks at both
\* registers under ls_lock.
lamebus_interrupt ==
  /\ irq.at = "none" /\ Asserted
  /\ irq' = [irq EXCEPT !.at = "lser_irq"]
  /\ UNCHANGED <<port, ls_lock, ls_wbusy, con, locks, pc, todo, ghost, overrun, panicked>>

lser_irq ==
  /\ irq.at = "lser_irq" /\ ls_lock = None
  /\ LET w == "ACTIVE" \in wirq
     IN  /\ irq' = [at |-> "start", start |-> w, input |-> rirq, ch |-> rchar]
         /\ IF w THEN ls_wbusy' = FALSE /\ wirq' = {"ENABLE"} ELSE UNCHANGED <<ls_wbusy, wirq>>
         /\ rirq' = FALSE
  /\ UNCHANGED <<tx, rchar, nin, ls_lock, con, locks, pc, todo, ghost, overrun, panicked>>

con_start ==
  /\ irq.at = "start"
  /\ wsem' = IF irq.start THEN wsem + 1 ELSE wsem
  /\ irq' = IF irq.input THEN [irq EXCEPT !.at = "con_input", !.start = FALSE] ELSE NoIrq
  /\ UNCHANGED <<port, ls_lock, ls_wbusy, rsem, gotchars, head, tail, locks, pc, todo, ghost, overrun, panicked>>

NextSlot(i) == (i + 1) % BufSize

\* con_input: no room, and the character is dropped; or it is stored, and then
\* the head moves and a reader is told.
con_input ==
  /\ irq.at = "con_input"
  /\ IF NextSlot(head) = tail
     THEN /\ missed' = missed \cup {irq.ch}
          /\ irq' = NoIrq
          /\ UNCHANGED gotchars
     ELSE /\ gotchars' = [gotchars EXCEPT ![head] = irq.ch]
          /\ irq' = [irq EXCEPT !.at = "V"]
          /\ UNCHANGED missed
  /\ UNCHANGED <<port, ls_lock, ls_wbusy, wsem, rsem, head, tail, locks, pc, todo, npolled, taken, overrun, panicked>>

con_input_V ==
  /\ irq.at = "V"
  /\ head' = NextSlot(head)
  /\ rsem' = rsem + 1
  /\ irq' = NoIrq
  /\ UNCHANGED <<port, ls_lock, ls_wbusy, wsem, gotchars, tail, locks, pc, todo, ghost, overrun, panicked>>

-----------------------------------------------------------------------------
\* Output that waits for the port with an interrupt.  con_io writes under
\* con_userlock_write, and stops when uiomove fails; kprintf holds kprintf_lock.
BeginWrite(t) ==
  /\ pc[t] = "idle"
  /\ \/ lock_w = None /\ lock_w' = t /\ UNCHANGED lock_k
     \/ lock_k = None /\ lock_k' = t /\ UNCHANGED lock_w
  /\ \E s \in {<<"x">>, <<"\n">>, <<"x", "x">>} : todo' = [todo EXCEPT ![t] = s]
  /\ Goto(t, "write")
  /\ UNCHANGED <<port, ls_lock, ls_wbusy, con, lock_r, spin_k, irq, ghost, overrun, panicked>>

\* putch_intr: a newline of a write to con: is sent as two characters.
P_wsem(t) ==
  /\ pc[t] = "write" /\ todo[t] # <<>>
  /\ wsem > 0 /\ wsem' = wsem - 1
  /\ todo' = IF Head(todo[t]) = "\n" /\ lock_w = t THEN [todo EXCEPT ![t] = <<"\r", "lf">> \o Tail(@)] ELSE todo
  /\ Goto(t, "send")
  /\ UNCHANGED <<port, ls_lock, ls_wbusy, rsem, gotchars, head, tail, locks, irq, ghost, overrun, panicked>>

lser_write(t) ==
  /\ pc[t] = "send" /\ ls_lock = None
  /\ panicked' = (panicked \/ ls_wbusy)
  /\ ls_wbusy' = TRUE
  /\ Transmit
  /\ todo' = [todo EXCEPT ![t] = Tail(@)]
  /\ Goto(t, "write")
  /\ UNCHANGED <<wirq, rirq, rchar, nin, ls_lock, con, locks, irq, ghost>>

EndWrite(t) ==
  /\ pc[t] = "write"
  /\ todo[t] # <<>> => lock_w = t /\ Head(todo[t]) # "lf"
  /\ lock_w' = IF lock_w = t THEN None ELSE lock_w
  /\ lock_k' = IF lock_k = t THEN None ELSE lock_k
  /\ todo' = [todo EXCEPT ![t] = <<>>]
  /\ Goto(t, "idle")
  /\ UNCHANGED <<port, ls_lock, ls_wbusy, con, lock_r, spin_k, irq, ghost, overrun, panicked>>

-----------------------------------------------------------------------------
\* kprintf in a handler, with a spinlock or with interrupts off: lser_writepolled
\* sends one character, under ls_lock from beginning to end.
BeginPolled(t) ==
  /\ pc[t] = "idle" /\ spin_k = None /\ npolled < MaxPolled
  /\ spin_k' = t /\ npolled' = npolled + 1
  /\ Goto(t, "polled")
  /\ UNCHANGED <<port, ls_lock, ls_wbusy, con, lock_r, lock_w, lock_k, irq, todo, taken, missed, overrun, panicked>>

\* ls_wbusy says whether an interrupt is to come for a character of putch_intr.
lser_writepolled(t) ==
  /\ pc[t] = "polled" /\ ls_lock = None
  /\ ls_lock' = t
  /\ IF ls_wbusy
     THEN Goto(t, "drain") /\ UNCHANGED <<tx, wirq, overrun>>
     ELSE /\ wirq' = {} /\ Transmit
          /\ Goto(t, "poll")
  /\ UNCHANGED <<rirq, rchar, nin, ls_wbusy, con, locks, irq, todo, ghost, panicked>>


Drain(t) ==
  /\ pc[t] = "drain" /\ "ACTIVE" \in wirq
  /\ wirq' = {"FORCE", "ENABLE"} /\ Transmit
  /\ Goto(t, "forced")
  /\ UNCHANGED <<rirq, rchar, nin, ls_lock, ls_wbusy, con, locks, irq, todo, ghost, panicked>>

\* Wait for the character to be out.  When an interrupt is to come, the ready
\* condition is left for its handler.
Poll(t) ==
  /\ pc[t] \in {"poll", "forced"} /\ "ACTIVE" \in wirq
  /\ wirq' = IF pc[t] = "forced" THEN wirq ELSE {"ENABLE"}
  /\ ls_lock' = None /\ spin_k' = None
  /\ Goto(t, "idle")
  /\ UNCHANGED <<tx, rirq, rchar, nin, ls_wbusy, con, lock_r, lock_w, lock_k, irq, todo, ghost, overrun, panicked>>

-----------------------------------------------------------------------------
\* con_io reading, under con_userlock_read, up to a newline or the end of the
\* buffer: getch_intr takes the character, then moves the tail.
BeginRead(t) ==
  /\ pc[t] = "idle" /\ lock_r = None
  /\ lock_r' = t
  /\ Goto(t, "read")
  /\ UNCHANGED <<port, ls_lock, ls_wbusy, con, lock_w, lock_k, spin_k, irq, todo, ghost, overrun, panicked>>

getch_intr(t) ==
  /\ pc[t] = "read"
  /\ rsem > 0 /\ rsem' = rsem - 1
  /\ Goto(t, "getch")
  /\ UNCHANGED <<port, ls_lock, ls_wbusy, wsem, gotchars, head, tail, locks, irq, todo, ghost, overrun, panicked>>

getch_take(t) ==
  /\ pc[t] = "getch"
  /\ taken' = Append(taken, gotchars[tail])
  /\ tail' = NextSlot(tail)
  /\ \E more \in BOOLEAN :
       /\ lock_r' = IF more THEN lock_r ELSE None
       /\ Goto(t, IF more THEN "read" ELSE "idle")
  /\ UNCHANGED <<port, ls_lock, ls_wbusy, wsem, rsem, gotchars, head, lock_w, lock_k, spin_k, irq, todo, npolled, missed, overrun, panicked>>

-----------------------------------------------------------------------------
Handler == lamebus_interrupt \/ lser_irq \/ con_start \/ con_input \/ con_input_V

Output(t) == P_wsem(t) \/ lser_write(t) \/ EndWrite(t) \/ lser_writepolled(t) \/ Drain(t) \/ Poll(t)

Next ==
  \/ Sent \/ Received \/ Handler
  \/ \E t \in Threads : \/ BeginWrite(t) \/ BeginPolled(t) \/ BeginRead(t)
                        \/ Output(t) \/ getch_intr(t) \/ getch_take(t)

Spec == Init /\ [][Next]_vars

\* The port sends what it is given, interrupts are taken, threads run, and locks
\* and semaphores serve those who wait.
Fairness ==
  /\ WF_vars(Sent) /\ WF_vars(Handler)
  /\ \A t \in Threads : SF_vars(Output(t))

FairSpec == Spec /\ Fairness

\* The characters of the buffer, from the tail to the head.
Buffered == (head + BufSize - tail) % BufSize

\* Type invariant; ClearToWrite includes it.
TypeOK ==
  /\ wirq \subseteq {"ENABLE", "ACTIVE", "FORCE"} /\ rchar \in 0 .. MaxIn
  /\ head \in 0 .. BufSize - 1 /\ tail \in 0 .. BufSize - 1
  /\ \A l \in {ls_lock, lock_r, lock_w, lock_k, spin_k} : l \in Threads \cup {None}

\* The port is never given a character while it is sending one, whichever way
\* each of them is sent, and lser_write never finds it busy: one of cs_wsem, a
\* thread about to send, a character on its way and the handler that will raise
\* cs_wsem has the right to send.
ClearToWrite ==
  /\ TypeOK /\ ~overrun /\ ~panicked
  /\ wsem + Cardinality({t \in Threads : pc[t] = "send"}) + (IF ls_wbusy THEN 1 ELSE 0)
       + (IF irq.start THEN 1 ELSE 0) = 1

\* Every character received is read once, in order, unless there was no room:
\* the count of cs_rsem and the two indices never disagree about what is in the
\* buffer.
EachCharOnce ==
  /\ \A i, j \in 1 .. Len(taken) : i < j => taken[i] < taken[j]
  /\ rsem + Cardinality({t \in Threads : pc[t] = "getch"}) = Buffered
  /\ Len(taken) + Buffered + Cardinality(missed) + (IF rirq THEN 1 ELSE 0)
       + (IF irq.input THEN 1 ELSE 0) = nin

\* Output makes progress: a thread that has a character to print prints it.
OutputFlows == \A t \in Threads : pc[t] \in {"send", "polled", "drain", "poll", "forced"}
                                    ~> pc[t] \in {"write", "idle"}

=============================================================================
