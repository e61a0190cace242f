------------------------------- MODULE Shell -------------------------------
(***************************************************************************)
(* The shell (userland/bin/sh/sh.c): the command line it reads, the        *)
(* builtins, commands it runs in the foreground and in the background, and *)
(* the table of background jobs.  fork, execvp, waitpid (with WNOHANG) and *)
(* _exit are as their manual pages say; a pid may be used again once its   *)
(* process has been waited for.                                            *)
(***************************************************************************)
EXTENDS Naturals, SequencesExt, FiniteSets

CONSTANTS Pids, NoPid,
          Stranger,        \* a number given to wait that is nobody's pid
          MAXBG, CMDLINE_MAX,
          Codes,           \* exit codes, 0 among them
          MaxJobs

VARIABLES pc,              \* the shell: "getcmd", "foreground", "wait", "poll", "exited"
          pos,             \* characters in the command line
          bgpids,          \* slots 1 .. MAXBG
          proc,            \* by pid: "none", "runs", or the code it exited with (code + 1)
          pid, i,          \* locals of docommand, cmd_wait, waitpoll
          all,             \* cmd_wait without argument
          ei,              \* exit status of the command
          jobs, reported   \* ghosts: background jobs started, and those reported, in order

vars == <<pc, pos, bgpids, proc, pid, i, all, ei, jobs, reported>>

Slots == 1 .. MAXBG
None == 0
Runs == 1
Zombie(code) == code + 2
Dead(p) == p \in Pids /\ proc[p] > Runs

Init ==
  /\ pc = "getcmd" /\ pos = 0
  /\ bgpids = [s \in Slots |-> NoPid]
  /\ proc = [p \in Pids |-> None]
  /\ pid = NoPid /\ i = 1 /\ all = FALSE /\ ei = 0
  /\ jobs = <<>> /\ reported = <<>>

-----------------------------------------------------------------------------
\* getcmd: a character is kept while there is room, backspace takes one back,
\* anything else rings the bell.
getcmd ==
  /\ pc = "getcmd"
  /\ \/ pos > 0 /\ pos' = pos - 1
     \/ pos < CMDLINE_MAX - 1 /\ pos' = pos + 1
  /\ UNCHANGED <<pc, bgpids, proc, pid, i, all, ei, jobs, reported>>

\* After the line: what docommand makes of it.
Entered == pc = "getcmd" /\ pos' = 0
Polls == pc' = "poll" /\ i' = 1

\* An empty line, cd and chdir, misuse of a builtin, too many arguments.
Simple ==
  /\ Entered /\ Polls
  /\ ei' \in {0, 1}
  /\ UNCHANGED <<bgpids, proc, pid, all, jobs, reported>>

cmd_exit ==
  /\ Entered /\ pos > 0 /\ pc' = "exited"
  /\ UNCHANGED <<bgpids, proc, pid, i, all, ei, jobs, reported>>

can_bg == \E s \in Slots : bgpids[s] = NoPid
Fork(p) == proc[p] = None /\ proc' = [proc EXCEPT ![p] = Runs]

\* docommand in the foreground.
Foreground ==
  /\ Entered /\ pos > 0
  /\ \/ \E p \in Pids : Fork(p) /\ pid' = p /\ pc' = "foreground" /\ UNCHANGED <<i, ei>>
     \/ ei' = 255 /\ Polls /\ UNCHANGED <<proc, pid>>
  /\ UNCHANGED <<bgpids, all, jobs, reported>>

\* docommand in the background: there must be a slot before there is a process.
remember_bg_last(p) == [bgpids EXCEPT ![MAXBG] = p]
remember_bg(p) ==
  LET free == {s \in Slots : bgpids[s] = NoPid}
  IN  [bgpids EXCEPT ![CHOOSE s \in free : \A t \in free : s <= t] = p]

Background ==
  /\ Entered /\ pos > 0 /\ Len(jobs) < MaxJobs
  /\ \/ ~can_bg /\ ei' = 1 /\ UNCHANGED <<bgpids, proc, pid, jobs>>
     \/ can_bg /\ ei' = 255 /\ UNCHANGED <<bgpids, proc, pid, jobs>>
     \/ /\ can_bg /\ ei' = 0
        /\ \E p \in Pids : /\ Fork(p) /\ pid' = p
                           /\ bgpids' = remember_bg(p)
                           /\ jobs' = Append(jobs, p)
  /\ Polls
  /\ UNCHANGED <<all, reported>>

\* waitpid in the foreground: the code, or the number of a signal.
Waited ==
  /\ pc = "foreground" /\ Dead(pid)
  /\ ei' = proc[pid] - 2
  /\ proc' = [proc EXCEPT ![pid] = None]
  /\ Polls
  /\ UNCHANGED <<pos, bgpids, pid, all, jobs, reported>>

\* cmd_wait, with a number or for all jobs.
cmd_wait ==
  /\ Entered /\ pos > 0 /\ pc' = "wait" /\ i' = 1
  /\ \/ all' = TRUE /\ UNCHANGED pid
     \/ all' = FALSE /\ pid' \in Pids \cup {Stranger}
  /\ UNCHANGED <<bgpids, proc, ei, jobs, reported>>

\* dowait on a child that has ended reports it; on no child it warns.
Forget(p) == [s \in Slots |-> IF bgpids[s] = p THEN NoPid ELSE bgpids[s]]
Reap(p) == proc' = [proc EXCEPT ![p] = None] /\ reported' = Append(reported, p)

WaitOne ==
  /\ pc = "wait" /\ ~all
  /\ IF pid \in Pids /\ proc[pid] # None
     THEN Dead(pid) /\ Reap(pid)
     ELSE UNCHANGED <<proc, reported>>
  /\ bgpids' = Forget(pid)
  /\ ei' = 0 /\ Polls
  /\ UNCHANGED <<pos, pid, all, jobs>>

WaitAll ==
  /\ pc = "wait" /\ all
  /\ \/ /\ i > MAXBG /\ ei' = 0 /\ Polls
        /\ UNCHANGED <<bgpids, proc, reported>>
     \/ /\ i <= MAXBG /\ i' = i + 1
        /\ IF bgpids[i] = NoPid THEN UNCHANGED <<bgpids, proc, reported>>
           ELSE /\ bgpids' = [bgpids EXCEPT ![i] = NoPid]
                /\ IF proc[bgpids[i]] # None THEN Dead(bgpids[i]) /\ Reap(bgpids[i])
                   ELSE UNCHANGED <<proc, reported>>
        /\ UNCHANGED <<pc, ei>>
  /\ UNCHANGED <<pos, pid, all, jobs>>

\* waitpoll after every command: a slot whose process has ended is emptied.
waitpoll ==
  /\ pc = "poll"
  /\ \/ i > MAXBG /\ pc' = "getcmd" /\ i' = 1 /\ UNCHANGED <<bgpids, proc, reported>>
     \/ /\ i <= MAXBG /\ i' = i + 1 /\ UNCHANGED pc
        /\ IF bgpids[i] # NoPid /\ Dead(bgpids[i])
           THEN Reap(bgpids[i]) /\ bgpids' = [bgpids EXCEPT ![i] = NoPid]
           ELSE UNCHANGED <<bgpids, proc, reported>>
  /\ UNCHANGED <<pos, pid, all, ei, jobs>>

\* A command ends, whenever it likes.
Ends ==
  /\ pc # "exited"
  /\ \E p \in Pids, code \in Codes : proc[p] = Runs /\ proc' = [proc EXCEPT ![p] = Zombie(code)]
  /\ UNCHANGED <<pc, pos, bgpids, pid, i, all, ei, jobs, reported>>

Next ==
  \/ getcmd \/ Simple \/ cmd_exit
  \/ Foreground \/ Background \/ Waited
  \/ cmd_wait \/ WaitOne \/ WaitAll
  \/ waitpoll \/ Ends

Spec == Init /\ [][Next]_vars

-----------------------------------------------------------------------------
Times(p, s) == Cardinality({k \in DOMAIN s : s[k] = p})
Listed(p) == \E s \in Slots : bgpids[s] = p
InForeground(p) == pc = "foreground" /\ pid = p

\* Every process the shell started and has not waited for is its foreground
\* command or in the table, in one slot; every slot names such a process, even
\* when pids are used again; so each background job is reported exactly once,
\* by wait or by waitpoll, and none is lost when the table is full (can_bg before
\* remember_bg); the command line stays within its buffer (getcmd).
JobsAccounted ==
  /\ \A p \in Pids : proc[p] # None <=> Listed(p) \/ InForeground(p)
  /\ \A s, t \in Slots : bgpids[s] = bgpids[t] /\ bgpids[s] # NoPid => s = t
  /\ \A p \in Pids : Times(p, jobs) = Times(p, reported) + (IF Listed(p) THEN 1 ELSE 0)
  /\ pos < CMDLINE_MAX
=============================================================================
