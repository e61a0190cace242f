-------------------------------- MODULE Ipi --------------------------------
(***************************************************************************)
(* Interprocessor interrupts: ipi_send, ipi_broadcast, ipi_tlbshootdown    *)
(* and interprocessor_interrupt (kern/thread/thread.c), the interrupt      *)
(* dispatcher that calls it (mainbus_interrupt in                          *)
(* kern/arch/sys161/dev/lamebus_machdep.c) and the bus controller's        *)
(* interrupt line (lamebus_assert_ipi, lamebus_clear_ipi).                 *)
(*                                                                         *)
(* c_ipi_lock covers ipi_send and the body of interprocessor_interrupt,    *)
(* which are one step each; lowering the line is a step of its own.        *)
(***************************************************************************)
EXTENDS Naturals, Sequences

CONSTANTS allcpus,
          TLBSHOOTDOWN_MAX

VARIABLES c_ipi_pending,    \* IPI codes pending on each CPU
          c_numshootdown,   \* TLB shootdown requests queued on each CPU
          line,             \* the bus controller's CIPI register of each CPU
          ipi_pc,               \* "run", "clear", "halted", or "broadcast"
          bcast             \* a broadcast in progress: its code, and the CPUs left

ipi_vars == <<c_ipi_pending, c_numshootdown, line, ipi_pc, bcast>>

Codes == {"IPI_PANIC", "IPI_OFFLINE", "IPI_UNIDLE", "IPI_TLBSHOOTDOWN"}

Idle == [code |-> "IPI_UNIDLE", left |-> {}]

IpiInit ==
  /\ c_ipi_pending = [c \in allcpus |-> {}]
  /\ c_numshootdown = [c \in allcpus |-> 0]
  /\ line = [c \in allcpus |-> FALSE]
  /\ ipi_pc = [c \in allcpus |-> "run"]
  /\ bcast = [c \in allcpus |-> Idle]

-----------------------------------------------------------------------------
\* Mark the IPI pending and raise the line of CPU d (mainbus_send_ipi).
Post(d, code) ==
  /\ c_ipi_pending' = [c_ipi_pending EXCEPT ![d] = @ \cup {code}]
  /\ line' = [line EXCEPT ![d] = TRUE]

\* ipi_send, as thread_make_runnable uses it.
ipi_send(c, d) ==
  /\ ipi_pc[c] = "run" /\ c # d
  /\ Post(d, "IPI_UNIDLE")
  /\ UNCHANGED <<c_numshootdown, ipi_pc, bcast>>

ipi_tlbshootdown(c, d) ==
  /\ ipi_pc[c] = "run" /\ c # d
  /\ c_numshootdown[d] < TLBSHOOTDOWN_MAX
  /\ c_numshootdown' = [c_numshootdown EXCEPT ![d] = @ + 1]
  /\ Post(d, "IPI_TLBSHOOTDOWN")
  /\ UNCHANGED <<ipi_pc, bcast>>

\* thread_panic (for any reason, a full shootdown queue included) and
\* thread_shutdown broadcast; the CPU then stops.
StartBroadcast(c, code) ==
  /\ ipi_pc[c] = "run"
  /\ ipi_pc' = [ipi_pc EXCEPT ![c] = "broadcast"]
  /\ bcast' = [bcast EXCEPT ![c] = [code |-> code, left |-> allcpus \ {c}]]
  /\ UNCHANGED <<c_ipi_pending, c_numshootdown, line>>

ipi_broadcast(c) ==
  /\ ipi_pc[c] = "broadcast"
  /\ IF bcast[c].left = {}
     THEN /\ ipi_pc' = [ipi_pc EXCEPT ![c] = "halted"]
          /\ bcast' = [bcast EXCEPT ![c] = Idle]
          /\ UNCHANGED <<c_ipi_pending, line>>
     ELSE \E d \in bcast[c].left :
            /\ Post(d, bcast[c].code)
            /\ bcast' = [bcast EXCEPT ![c].left = @ \ {d}]
            /\ UNCHANGED ipi_pc
  /\ UNCHANGED c_numshootdown

-----------------------------------------------------------------------------
\* Mutant: only the codes are cleared.
interprocessor_interrupt_keep(c) ==
  /\ ipi_pc[c] = "run" /\ line[c]
  /\ c_ipi_pending' = [c_ipi_pending EXCEPT ![c] = {}]
  /\ ipi_pc' = [ipi_pc EXCEPT ![c] = "clear"]
  /\ UNCHANGED <<line, bcast, c_numshootdown>>


\* mainbus_interrupt with LAMEBUS_IPI_BIT: interprocessor_interrupt halts, or
\* handles everything that is pending.
interprocessor_interrupt(c) ==
  /\ ipi_pc[c] = "run" /\ line[c]
  /\ IF c_ipi_pending[c] \cap {"IPI_PANIC", "IPI_OFFLINE"} # {}
     THEN /\ ipi_pc' = [ipi_pc EXCEPT ![c] = "halted"]
          /\ UNCHANGED <<c_ipi_pending, c_numshootdown>>
     ELSE /\ c_numshootdown' =
               [c_numshootdown EXCEPT ![c] = IF "IPI_TLBSHOOTDOWN" \in c_ipi_pending[c] THEN 0 ELSE @]
          /\ c_ipi_pending' = [c_ipi_pending EXCEPT ![c] = {}]
          /\ ipi_pc' = [ipi_pc EXCEPT ![c] = "clear"]
  /\ UNCHANGED <<line, bcast>>

\* ... and mainbus_interrupt lowers the line afterwards.
lamebus_clear_ipi(c) ==
  /\ ipi_pc[c] = "clear"
  /\ line' = [line EXCEPT ![c] = FALSE]
  /\ ipi_pc' = [ipi_pc EXCEPT ![c] = "run"]
  /\ UNCHANGED <<c_ipi_pending, c_numshootdown, bcast>>

IpiNext ==
  \/ \E c, d \in allcpus : ipi_send(c, d) \/ ipi_tlbshootdown(c, d)
  \/ \E c \in allcpus :
       \/ StartBroadcast(c, "IPI_PANIC") \/ StartBroadcast(c, "IPI_OFFLINE")
       \/ ipi_broadcast(c)
       \/ interprocessor_interrupt(c) \/ lamebus_clear_ipi(c)

IpiSpec == IpiInit /\ [][IpiNext]_ipi_vars

\* A CPU goes on executing: it takes an interrupt whose line stays up, and it
\* finishes its handler and its broadcast.
Fairness ==
  \A c \in allcpus : WF_ipi_vars(interprocessor_interrupt(c) \/ lamebus_clear_ipi(c) \/ ipi_broadcast(c))

FairIpiSpec == IpiSpec /\ Fairness

-----------------------------------------------------------------------------
\* Type invariant; ShootdownPending includes it.
IpiTypeOK ==
  /\ c_ipi_pending \in [allcpus -> SUBSET Codes]
  /\ c_numshootdown \in [allcpus -> 0 .. TLBSHOOTDOWN_MAX]
  /\ line \in [allcpus -> BOOLEAN]
  /\ ipi_pc \in [allcpus -> {"run", "clear", "halted", "broadcast"}]
  /\ \A c \in allcpus : bcast[c].code \in Codes /\ bcast[c].left \subseteq allcpus \ {c}

\* Queued TLB shootdown requests are never without their pending bit, so that
\* the next interprocessor_interrupt, whatever raised it, performs them.
ShootdownPending ==
  /\ IpiTypeOK
  /\ \A c \in allcpus : c_numshootdown[c] > 0 <=> "IPI_TLBSHOOTDOWN" \in c_ipi_pending[c]

\* A CPU that is not inside its handler and has its line up has something to
\* do: no interrupt finds an empty pending word.
NoEmptyInterrupt ==
  \A c \in allcpus : line[c] /\ ipi_pc[c] = "run" => c_ipi_pending[c] # {}


\* What is pending, the queue of shootdowns and the interrupt line agree, except
\* in the window of the handler (ipi_send, ipi_tlbshootdown,
\* interprocessor_interrupt).
PendingExact == ShootdownPending /\ NoEmptyInterrupt
=============================================================================
