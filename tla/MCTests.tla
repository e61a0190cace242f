------------------------------ MODULE MCTests -------------------------------
(*****************************************************************************)
(* The test programs and the shell, model-checked side by side: a behaviour  *)
(* is one of frack, of the file system tests of the kernel menu, of the      *)
(* semaphore tests of userland, of psort, of the thread and synchronisation  *)
(* tests of the kernel, of sbrktest, or of the shell, and the variables of   *)
(* the others are 0. Frack runs every workload of its list on files of up to *)
(* five blocks of two units, of which three are direct. psort has two        *)
(* processes and fewer, as many and more keys than they have room for.       *)
(* sbrktest has 16 pages of memory and runs two tests one after the other.   *)
(* The shell has four jobs, three pids and two slots for background jobs.    *)
(*****************************************************************************)
EXTENDS Frack, SemTests

CONSTANTS FsThreads, NCHUNKS, NLONG, NCREATE, ROT, PfBuf, MaxFaults, numprocs, NumKeys, WORKNUM,
          RANDOM_MAX, CatBuf, NTHREADS, KernLoops, UMAX, PAGE_SIZE, NFRAMES, HUGESIZE, num, BIG,
          SmallPages, SmallMax, LargePages, LargeMax, loops, MaxRuns, Pids, NoPid, Stranger, MAXBG,
          CMDLINE_MAX, Codes, MaxJobs

VARIABLES subject,
          fstests_test, ph, fstests_i, vn, fstests_dir, fstests_data, threadsem, said, con, faults,
          numkeys, phase, forked, child, psort_done, keys, bins, merged, sorted, valid, nofork,
          kerntests_test, kerntests_pc, sem_count, waiting, holder, relock, waiters_running, testval,
          printing, kerntests_printed, outcome,
          fault, sbrktest_status, sbrktest_test, runs, sbrktest_pc, sbrktest_r, brk, page, content,
          sbrktest_free, childbad, refused, before,
          shell_pc, shell_pos, bgpids, proc, pid, shell_i, all, ei, jobs, reported

H == INSTANCE FsTests WITH test <- fstests_test, i <- fstests_i, dir <- fstests_dir, data <- fstests_data,
       NTHREADS <- FsThreads
P == INSTANCE Psort WITH done <- psort_done
K == INSTANCE KernTests WITH test <- kerntests_test, pc <- kerntests_pc, printed <- kerntests_printed,
       LOOPS <- KernLoops
B == INSTANCE Sbrktest WITH status <- sbrktest_status, test <- sbrktest_test, pc <- sbrktest_pc,
       r <- sbrktest_r, free <- sbrktest_free
C == INSTANCE Shell WITH pc <- shell_pc, pos <- shell_pos, i <- shell_i

fstests_vars == <<fstests_test, ph, fstests_i, vn, fstests_dir, fstests_data, threadsem, said, con,
  faults>>
psort_vars == <<numkeys, phase, forked, child, psort_done, keys, bins, merged, sorted, valid, nofork>>
kerntests_vars == <<kerntests_test, kerntests_pc, sem_count, waiting, holder, relock, waiters_running,
  testval, printing, kerntests_printed, outcome>>
sbrktest_vars == <<fault, sbrktest_status, sbrktest_test, runs, sbrktest_pc, sbrktest_r, brk, page,
  content, sbrktest_free, childbad, refused, before>>
shell_vars == <<shell_pc, shell_pos, bgpids, proc, pid, shell_i, all, ei, jobs, reported>>

\* The variables of the parts a behaviour is not about.
semtests_idle ==
  /\ test = 0 /\ pc = 0 /\ status = 0 /\ count = 0 /\ linked = 0 /\ files = 0 /\ left = 0 /\ saying = 0
  /\ printed = 0 /\ failures = 0 /\ results = 0 /\ forkfails = 0 /\ pulled = 0
frack_idle ==
  /\ ops = 0 /\ at = 0 /\ model = 0 /\ versions = 0 /\ vol = 0 /\ cwd = 0 /\ file = 0 /\ mode = 0
  /\ damage = 0 /\ report = 0
fstests_idle ==
  /\ fstests_test = 0 /\ ph = 0 /\ fstests_i = 0 /\ vn = 0 /\ fstests_dir = 0 /\ fstests_data = 0
  /\ threadsem = 0 /\ said = 0 /\ con = 0 /\ faults = 0
psort_idle ==
  /\ numkeys = 0 /\ phase = 0 /\ forked = 0 /\ child = 0 /\ psort_done = 0 /\ keys = 0 /\ bins = 0
  /\ merged = 0 /\ sorted = 0 /\ valid = 0 /\ nofork = 0
kerntests_idle ==
  /\ kerntests_test = 0 /\ kerntests_pc = 0 /\ sem_count = 0 /\ waiting = 0 /\ holder = 0 /\ relock = 0
  /\ waiters_running = 0 /\ testval = 0 /\ printing = 0 /\ kerntests_printed = 0 /\ outcome = 0
sbrktest_idle ==
  /\ fault = 0 /\ sbrktest_status = 0 /\ sbrktest_test = 0 /\ runs = 0 /\ sbrktest_pc = 0 /\ sbrktest_r = 0
  /\ brk = 0 /\ page = 0 /\ content = 0 /\ sbrktest_free = 0 /\ childbad = 0 /\ refused = 0 /\ before = 0
shell_idle ==
  /\ shell_pc = 0 /\ shell_pos = 0 /\ bgpids = 0 /\ proc = 0 /\ pid = 0 /\ shell_i = 0 /\ all = 0 /\ ei = 0
  /\ jobs = 0 /\ reported = 0

TestsInit ==
  \/ subject = "semtests" /\ SemTestsInit
     /\ frack_idle /\ fstests_idle /\ psort_idle /\ kerntests_idle /\ sbrktest_idle /\ shell_idle
  \/ subject = "frack" /\ Init
     /\ semtests_idle /\ fstests_idle /\ psort_idle /\ kerntests_idle /\ sbrktest_idle /\ shell_idle
  \/ subject = "fstests" /\ H!Init
     /\ semtests_idle /\ frack_idle /\ psort_idle /\ kerntests_idle /\ sbrktest_idle /\ shell_idle
  \/ subject = "psort" /\ P!Init
     /\ semtests_idle /\ frack_idle /\ fstests_idle /\ kerntests_idle /\ sbrktest_idle /\ shell_idle
  \/ subject = "kerntests" /\ K!Init
     /\ semtests_idle /\ frack_idle /\ fstests_idle /\ psort_idle /\ sbrktest_idle /\ shell_idle
  \/ subject = "sbrktest" /\ B!SbrkInit
     /\ semtests_idle /\ frack_idle /\ fstests_idle /\ psort_idle /\ kerntests_idle /\ shell_idle
  \/ subject = "shell" /\ C!Init
     /\ semtests_idle /\ frack_idle /\ fstests_idle /\ psort_idle /\ kerntests_idle /\ sbrktest_idle

TestsNext ==
  \/ subject = "semtests" /\ SemTestsNext
     /\ UNCHANGED <<subject, vars, fstests_vars, psort_vars, kerntests_vars, sbrktest_vars, shell_vars>>
  \/ subject = "frack" /\ Next
     /\ UNCHANGED <<subject, semtests_vars, fstests_vars, psort_vars, kerntests_vars, sbrktest_vars, shell_vars>>
  \/ subject = "fstests" /\ H!Next
     /\ UNCHANGED <<subject, semtests_vars, vars, psort_vars, kerntests_vars, sbrktest_vars, shell_vars>>
  \/ subject = "psort" /\ P!Next
     /\ UNCHANGED <<subject, semtests_vars, vars, fstests_vars, kerntests_vars, sbrktest_vars, shell_vars>>
  \/ subject = "kerntests" /\ K!Next
     /\ UNCHANGED <<subject, semtests_vars, vars, fstests_vars, psort_vars, sbrktest_vars, shell_vars>>
  \/ subject = "sbrktest" /\ B!SbrkNext
     /\ UNCHANGED <<subject, semtests_vars, vars, fstests_vars, psort_vars, kerntests_vars, shell_vars>>
  \/ subject = "shell" /\ C!Next
     /\ UNCHANGED <<subject, semtests_vars, vars, fstests_vars, psort_vars, kerntests_vars, sbrktest_vars>>

TestsSpec ==
  /\ TestsInit
  /\ [][TestsNext]_<<subject, semtests_vars, vars, fstests_vars, psort_vars, kerntests_vars, sbrktest_vars, shell_vars>>

MCWorkloads == AllWorkloads

Symmetry == Permutations(Pids)




\* The shell waits for each job once and reports its own exit status (sh.c).
JobsAccounted == subject = "shell" => C!JobsAccounted
=============================================================================
