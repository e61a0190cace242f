------------------------------ MODULE Process ------------------------------
(***************************************************************************)
(* User programs: the menu starts one in a process of its own              *)
(* (kern/main/menu.c, kern/proc/proc.c), its thread loads an executable    *)
(* (kern/syscall/runprogram.c, loadelf.c) into an address space of dumbvm  *)
(* (kern/arch/mips/vm/dumbvm.c, ram.c) and goes to user mode, from where   *)
(* it comes back by traps (kern/arch/mips/locore/trap.c): page faults and  *)
(* system calls, which copy to user memory (kern/vm/copyinout.c).  Threads *)
(* are preempted between any two steps and may resume on another CPU.      *)
(***************************************************************************)
EXTENDS Naturals, FiniteSets, Sequences

CONSTANTS Procs, Menu, CPUs, None,
          Execs,              \* the executables the menu runs in each process
          Pointers,           \* addresses that programs use
          PAGE_SIZE, NUM_TLB, DUMBVM_STACKPAGES,
          USERSTACK,          \* = USERSPACETOP
          KSEG,               \* one past the last address
          RamPages            \* pages of RAM the kernel leaves, from page 1 on

VARIABLES running,            \* the thread on each CPU, or None
          pc, cmdline,        \* cmdline: the name in the menu's args array
          exe, opened,        \* the program's file; whether its vnode is held
          numthreads, t_proc, \* p_numthreads; whether the thread's t_proc is the process
          as, newas,          \* p_addrspace; runprogram's local as
          ph,                 \* load_elf's loop index
          copy,               \* the copyout in progress
          fault,              \* the page fault in progress
          tlb, firstpaddr, mem,
          panicked

proc == <<numthreads, t_proc, as, newas>>
load == <<exe, opened, ph, copy>>
vars == <<running, pc, cmdline, proc, load, fault, tlb, firstpaddr, mem, panicked>>

Threads == Procs \cup {Menu}
PageOf(a) == (a \div PAGE_SIZE) * PAGE_SIZE
lastpaddr == (RamPages + 1) * PAGE_SIZE
Zero == [of |-> None, byte |-> 0]
Junk == [of |-> None, byte |-> 1]
NoRegion == [vbase |-> 0, npages |-> 0, pbase |-> 0]
NoCopy == [dst |-> 0, src |-> <<>>, at |-> 0, badfault |-> FALSE]
NoFault == [addr |-> 0, paddr |-> 0, user |-> FALSE, back |-> "none"]
Invalid == [v |-> KSEG, p |-> 0]

Init ==
  /\ running = [c \in CPUs |-> None]
  /\ pc = [t \in Threads |-> IF t = Menu THEN "prompt" ELSE "none"]
  /\ cmdline = None
  /\ exe = [p \in Procs |-> None] /\ opened = [p \in Procs |-> FALSE]
  /\ numthreads = [p \in Procs |-> 0] /\ t_proc = [p \in Procs |-> FALSE]
  /\ as = [p \in Procs |-> None] /\ newas = [p \in Procs |-> None]
  /\ ph = [p \in Procs |-> 0]
  /\ copy = [p \in Procs |-> NoCopy] /\ fault = [p \in Procs |-> NoFault]
  /\ tlb = [c \in CPUs |-> [i \in 1 .. NUM_TLB |-> Invalid]]
  /\ firstpaddr = PAGE_SIZE
  /\ mem = [a \in PAGE_SIZE .. lastpaddr - 1 |-> Junk]
  /\ panicked = None

Goto(t, l) == pc' = [pc EXCEPT ![t] = l]
OnCpu(t) == panicked = None /\ \E c \in CPUs : running[c] = t
CpuOf(t) == CHOOSE c \in CPUs : running[c] = t
panic(why) == panicked' = why

-----------------------------------------------------------------------------
\* as_activate on a CPU: nothing for a thread without an address space.
as_activate_keep(c, t) == tlb' = tlb

as_activate(c, t) ==
  IF t \in Procs /\ t_proc[t] /\ as[t] # None
  THEN tlb' = [tlb EXCEPT ![c] = [i \in 1 .. NUM_TLB |-> Invalid]]
  ELSE tlb' = tlb

\* A context switch: an interrupt or a yield takes the thread off the CPU, and
\* a ready one, that has run here or on another CPU, comes out of thread_switch
\* (or thread_startup), which activates its address space with interrupts off.
thread_switch(c, t) ==
  /\ panicked = None
  /\ pc[t] \notin {"none", "gone"} /\ \A d \in CPUs : running[d] # t
  /\ running' = [running EXCEPT ![c] = t]
  /\ as_activate(c, t)
  /\ UNCHANGED <<pc, cmdline, proc, load, fault, firstpaddr, mem, panicked>>

-----------------------------------------------------------------------------
\* The menu.  common_prog makes the process and forks the thread, which is given
\* a pointer to the menu's own words: the next command overwrites them.
common_prog(p, e) ==
  /\ OnCpu(Menu) /\ pc[Menu] = "prompt" /\ pc[p] = "none"
  /\ cmdline' = e
  /\ pc' = [pc EXCEPT ![Menu] = "fork", ![p] = "created"]
  /\ UNCHANGED <<running, proc, load, fault, tlb, firstpaddr, mem, panicked>>

\* thread_fork has no memory for the thread, and the process goes.
proc_destroy(p) ==
  /\ OnCpu(Menu) /\ pc[Menu] = "fork" /\ pc[p] = "created" /\ numthreads[p] = 0
  /\ pc' = [pc EXCEPT ![Menu] = "prompt", ![p] = "none"]
  /\ UNCHANGED <<running, cmdline, proc, load, fault, tlb, firstpaddr, mem, panicked>>

proc_addthread(p) ==
  /\ OnCpu(Menu) /\ pc[p] = "created"
  /\ \/ pc[Menu] = "fork" /\ Goto(Menu, "attach")
        /\ numthreads' = [numthreads EXCEPT ![p] = @ + 1]
        /\ UNCHANGED t_proc
     \/ pc[Menu] = "attach"
        /\ pc' = [pc EXCEPT ![Menu] = "prompt", ![p] = "start"]
        /\ t_proc' = [t_proc EXCEPT ![p] = TRUE]
        /\ UNCHANGED numthreads
  /\ UNCHANGED <<running, cmdline, as, newas, load, fault, tlb, firstpaddr, mem, panicked>>

cmd_progthread(p) ==
  /\ OnCpu(p) /\ pc[p] = "start"
  /\ exe' = [exe EXCEPT ![p] = cmdline]
  /\ Goto(p, "open")
  /\ UNCHANGED <<running, cmdline, proc, opened, ph, copy, fault, tlb, firstpaddr, mem, panicked>>

\* The thread of a program that could not be started ends; its process stays.
proc_remthread(p) ==
  /\ OnCpu(p)
  /\ \/ pc[p] = "exit" /\ numthreads[p] > 0 /\ Goto(p, "detach")
        /\ numthreads' = [numthreads EXCEPT ![p] = @ - 1]
        /\ UNCHANGED <<t_proc, running>>
     \/ pc[p] = "detach" /\ Goto(p, "gone")
        /\ t_proc' = [t_proc EXCEPT ![p] = FALSE]
        /\ running' = [running EXCEPT ![CpuOf(p)] = None]
        /\ UNCHANGED numthreads
  /\ UNCHANGED <<cmdline, as, newas, load, fault, tlb, firstpaddr, mem, panicked>>

-----------------------------------------------------------------------------
\* runprogram up to load_elf, and what it does after.
runprogram(p) ==
  /\ OnCpu(p)
  /\ \/ /\ pc[p] = "open"
        /\ \/ opened' = [opened EXCEPT ![p] = TRUE] /\ Goto(p, "create")
           \/ opened' = opened /\ Goto(p, "exit")
        /\ UNCHANGED <<as, newas, tlb>>
     \/ /\ pc[p] = "create"
        /\ \/ newas' = [newas EXCEPT ![p] = <<NoRegion, NoRegion, NoRegion>>]
              /\ Goto(p, "setas") /\ opened' = opened
           \/ opened' = [opened EXCEPT ![p] = FALSE] /\ Goto(p, "exit") /\ newas' = newas
        /\ UNCHANGED <<as, tlb>>
     \/ /\ pc[p] = "setas"
        /\ as' = [as EXCEPT ![p] = newas[p]]
        /\ Goto(p, "activate") /\ UNCHANGED <<opened, newas, tlb>>
     \/ /\ pc[p] = "activate"
        /\ as_activate(CpuOf(p), p)
        /\ Goto(p, "ehdr") /\ UNCHANGED <<as, opened, newas>>
     \/ /\ pc[p] = "loadfailed"
        /\ opened' = [opened EXCEPT ![p] = FALSE]
        /\ Goto(p, "exit") /\ UNCHANGED <<as, newas, tlb>>
     \/ /\ pc[p] = "loaded"
        /\ opened' = [opened EXCEPT ![p] = FALSE]
        /\ Goto(p, "user") /\ UNCHANGED <<as, newas, tlb>>
  /\ UNCHANGED <<running, cmdline, numthreads, t_proc, exe, ph, copy, fault, firstpaddr, mem, panicked>>

-----------------------------------------------------------------------------
\* load_elf.  Any read can fail, or find the file too short.
Keep(p) == UNCHANGED <<running, cmdline, numthreads, t_proc, newas, exe, opened, fault, tlb, panicked>>
Next1(p, l) == ph' = [ph EXCEPT ![p] = @ + 1] /\ Goto(p, l)
Phdr(p) == exe[p].phdrs[ph[p]]

load_elf_header(p) ==
  /\ OnCpu(p) /\ pc[p] = "ehdr"
  /\ \/ exe[p].elf /\ Goto(p, "define") /\ ph' = [ph EXCEPT ![p] = 1]
     \/ Goto(p, "loadfailed") /\ ph' = ph
  /\ Keep(p) /\ UNCHANGED <<as, copy, firstpaddr, mem>>

\* as_define_region: the address space has two; its base tells whether one is set.
RoundUp(sz) == PageOf(sz + PAGE_SIZE - 1)
as_define_region(a, vaddr, memsz) ==
  LET r == [vbase |-> PageOf(vaddr), pbase |-> 0,
            npages |-> RoundUp(memsz + (vaddr % PAGE_SIZE)) \div PAGE_SIZE]
  IN  CASE a[1].vbase = 0 -> [a EXCEPT ![1] = r]
        [] a[1].vbase # 0 /\ a[2].vbase = 0 -> [a EXCEPT ![2] = r]
        [] OTHER -> None

load_elf_define(p) ==
  /\ OnCpu(p) /\ pc[p] = "define" /\ ph[p] <= Len(exe[p].phdrs)
  /\ LET region == as_define_region(as[p], Phdr(p).vaddr, Phdr(p).memsz)
     IN  \/ Phdr(p).type = "skip" /\ as' = as /\ Next1(p, "define")
         \/ Phdr(p).type = "LOAD" /\ region # None
            /\ as' = [as EXCEPT ![p] = region] /\ Next1(p, "define")
         \/ Phdr(p).type = "LOAD" /\ region = None
            /\ as' = as /\ ph' = ph /\ Goto(p, "loadfailed")
         \/ as' = as /\ ph' = ph /\ Goto(p, "loadfailed")
  /\ Keep(p) /\ UNCHANGED <<copy, firstpaddr, mem>>

\* ram_stealmem: pages from the bottom of what is left, never given back.
ram_stealmem(first, npages) == IF first + npages * PAGE_SIZE > lastpaddr THEN 0 ELSE first

\* as_prepare_load: memory for both regions and the stack, all of it zeroed; an
\* allocation that fails leaves the earlier ones in place.
as_zero_region_not(m, r) == m

as_zero_region(m, r) ==
  [a \in DOMAIN m |-> IF a \in r.pbase .. r.pbase + r.npages * PAGE_SIZE - 1 THEN Zero ELSE m[a]]
as_prepare_load(p) ==
  /\ OnCpu(p) /\ pc[p] = "define" /\ ph[p] > Len(exe[p].phdrs)
  /\ LET n1 == as[p][1].npages
         n2 == as[p][2].npages
         p1 == ram_stealmem(firstpaddr, n1)
         p2 == ram_stealmem(p1 + n1 * PAGE_SIZE, n2)
         p3 == ram_stealmem(p2 + n2 * PAGE_SIZE, DUMBVM_STACKPAGES)
         got1 == [as[p] EXCEPT ![1].pbase = p1]
         got2 == [got1 EXCEPT ![2].pbase = p2]
         full == [got2 EXCEPT ![3] = [vbase |-> USERSTACK - DUMBVM_STACKPAGES * PAGE_SIZE,
                                      npages |-> DUMBVM_STACKPAGES, pbase |-> p3]]
     IN  \/ p1 = 0
            /\ UNCHANGED <<as, firstpaddr, mem, ph>> /\ Goto(p, "loadfailed")
         \/ p1 # 0 /\ p2 = 0
            /\ as' = [as EXCEPT ![p] = got1] /\ firstpaddr' = p1 + n1 * PAGE_SIZE
            /\ UNCHANGED <<mem, ph>> /\ Goto(p, "loadfailed")
         \/ p1 # 0 /\ p2 # 0 /\ p3 = 0
            /\ as' = [as EXCEPT ![p] = got2] /\ firstpaddr' = p2 + n2 * PAGE_SIZE
            /\ UNCHANGED <<mem, ph>> /\ Goto(p, "loadfailed")
         \/ p1 # 0 /\ p2 # 0 /\ p3 # 0
            /\ as' = [as EXCEPT ![p] = full] /\ firstpaddr' = p3 + DUMBVM_STACKPAGES * PAGE_SIZE
            /\ mem' = as_zero_region(as_zero_region(as_zero_region(mem, full[1]), full[2]), full[3])
            /\ ph' = [ph EXCEPT ![p] = 1] /\ Goto(p, "segment")
  /\ Keep(p) /\ UNCHANGED copy

-----------------------------------------------------------------------------
\* copycheck and copyout: the block must lie below USERSPACETOP (addresses that
\* wrap around are past KSEG); then the bytes are copied one by one, where each
\* can fault.  A fault that cannot be handled resumes in copyfail.
copycheck(dst, len) == dst + len <= KSEG /\ dst < USERSTACK /\ dst + len - 1 < USERSTACK

copyout(p, dst, src, back, failed) ==
  IF copycheck(dst, Len(src))
  THEN copy' = [copy EXCEPT ![p] = [dst |-> dst, src |-> src, at |-> 0, badfault |-> TRUE]] /\ Goto(p, back)
  ELSE copy' = copy /\ Goto(p, failed)

\* load_segment: the part of the segment that is in the file, never more than its
\* size in memory; a file that ends before is not executable.
Data(p, h) ==
  LET n == IF h.filesz > h.memsz THEN h.memsz ELSE h.filesz
  IN  [i \in 1 .. n |-> [of |-> p, byte |-> h.offset + i]]

load_segment(p) ==
  /\ OnCpu(p) /\ pc[p] = "segment" /\ ph[p] <= Len(exe[p].phdrs)
  /\ \/ Phdr(p).type = "skip" /\ Next1(p, "segment") /\ copy' = copy
     \/ Phdr(p).type = "LOAD"
        /\ Phdr(p).offset + Len(Data(p, Phdr(p))) <= exe[p].size
        /\ copyout(p, Phdr(p).vaddr, Data(p, Phdr(p)), "copying", "loadfailed") /\ ph' = ph
     \/ Goto(p, "loadfailed") /\ UNCHANGED <<copy, ph>>
  /\ Keep(p) /\ UNCHANGED <<as, firstpaddr, mem>>

load_elf_done(p) ==
  /\ OnCpu(p) /\ pc[p] = "segment" /\ ph[p] > Len(exe[p].phdrs)
  /\ Goto(p, "loaded")
  /\ Keep(p) /\ UNCHANGED <<as, firstpaddr, mem, copy, ph>>

-----------------------------------------------------------------------------
\* An access to user memory, by the program or by the kernel for it: through the
\* TLB of the CPU, or by a page fault.
Entry(c, va) == {i \in 1 .. NUM_TLB : tlb[c][i].v = PageOf(va)}
Hit(p, va) == Entry(CpuOf(p), va) # {}
Physical(p, va) == tlb[CpuOf(p)][CHOOSE i \in Entry(CpuOf(p), va) : TRUE].p + (va % PAGE_SIZE)
Miss(p, va, user) ==
  /\ fault' = [fault EXCEPT ![p] = [addr |-> PageOf(va), paddr |-> 0, user |-> user, back |-> pc[p]]]
  /\ Goto(p, "fault")
  /\ UNCHANGED mem

\* memcpy in copyout; at its end load_elf goes on with the next segment and a
\* system call returns to the program.
memcpy(p) ==
  /\ OnCpu(p) /\ pc[p] \in {"copying", "sys_copying"}
  /\ LET k == copy[p]
         va == k.dst + k.at
     IN  \/ /\ k.at = Len(k.src)
            /\ copy' = [copy EXCEPT ![p] = NoCopy]
            /\ IF pc[p] = "copying" THEN Next1(p, "segment") ELSE ph' = ph /\ Goto(p, "user")
            /\ UNCHANGED <<mem, fault>>
         \/ /\ k.at < Len(k.src) /\ Hit(p, va)
            /\ mem' = [mem EXCEPT ![Physical(p, va)] = k.src[k.at + 1]]
            /\ copy' = [copy EXCEPT ![p].at = @ + 1]
            /\ UNCHANGED <<pc, ph, fault>>
         \/ k.at < Len(k.src) /\ ~ Hit(p, va) /\ Miss(p, va, FALSE) /\ UNCHANGED <<copy, ph>>
  /\ UNCHANGED <<running, cmdline, proc, exe, opened, tlb, firstpaddr, panicked>>

\* The program stores at an address; a load goes the same way and changes nothing.
\* Addresses of the kernel are an address error, which is fatal.
Store(p, va) ==
  /\ OnCpu(p) /\ pc[p] = "user"
  /\ \/ va >= USERSTACK /\ panic("user trap") /\ UNCHANGED <<pc, fault, mem>>
     \/ /\ va < USERSTACK /\ Hit(p, va)
        /\ mem' = [mem EXCEPT ![Physical(p, va)] = [of |-> p, byte |-> 0]]
        /\ UNCHANGED <<pc, fault, panicked>>
     \/ va < USERSTACK /\ ~ Hit(p, va) /\ Miss(p, va, TRUE) /\ UNCHANGED panicked
  /\ UNCHANGED <<running, cmdline, proc, load, tlb, firstpaddr>>

\* System calls: __time copies its result out; another number is ENOSYS, which
\* like EFAULT is returned to the program in its registers.
syscall(p, ptr) ==
  /\ OnCpu(p) /\ pc[p] = "user"
  /\ copyout(p, ptr, <<[of |-> p, byte |-> 0]>>, "sys_copying", "user")
  /\ UNCHANGED <<running, cmdline, proc, exe, opened, ph, fault, tlb, firstpaddr, mem, panicked>>

-----------------------------------------------------------------------------
\* What mips_trap does with a fault nobody could handle: a program that causes one
\* takes the kernel with it; copyout fails with EFAULT; else it is the kernel's own.
Unhandled(p) ==
  /\ fault' = [fault EXCEPT ![p] = NoFault]
  /\ \/ fault[p].user /\ panic("user trap") /\ UNCHANGED <<pc, copy>>
     \/ /\ ~ fault[p].user /\ copy[p].badfault
        /\ copy' = [copy EXCEPT ![p] = NoCopy]
        /\ Goto(p, IF fault[p].back = "copying" THEN "loadfailed" ELSE "user")
        /\ UNCHANGED panicked
     \/ ~ fault[p].user /\ ~ copy[p].badfault /\ panic("kernel trap") /\ UNCHANGED <<pc, copy>>

\* vm_fault: the regions in order, the first one that has the page; then, with
\* interrupts off, a free entry of this CPU's TLB, which may be none.
Covers(r, va) == va >= r.vbase /\ va < r.vbase + r.npages * PAGE_SIZE
SetUp(a) == \A i \in 1 .. 3 : a[i].pbase # 0 /\ a[i].vbase # 0 /\ a[i].npages # 0

vm_fault(p) ==
  /\ OnCpu(p) /\ pc[p] = "fault"
  /\ LET a == as[p]
         va == fault[p].addr
         regions == {i \in 1 .. 3 : Covers(a[i], va)}
         r == a[CHOOSE i \in regions : \A j \in regions : i <= j]
     IN  \/ ~ SetUp(a) /\ panic("assertion") /\ UNCHANGED <<pc, copy, fault>>
         \/ SetUp(a) /\ regions = {} /\ Unhandled(p)
         \/ SetUp(a) /\ regions # {}
            /\ fault' = [fault EXCEPT ![p].paddr = va - r.vbase + r.pbase]
            /\ Goto(p, "refill") /\ UNCHANGED <<copy, panicked>>
  /\ UNCHANGED <<running, cmdline, proc, exe, opened, ph, tlb, firstpaddr, mem>>

tlb_write(p) ==
  /\ OnCpu(p) /\ pc[p] = "refill"
  /\ LET c == CpuOf(p)
         free == {i \in 1 .. NUM_TLB : tlb[c][i] = Invalid}
         i == CHOOSE k \in free : \A j \in free : k <= j
     IN  \/ free = {} /\ Unhandled(p) /\ UNCHANGED tlb
         \/ /\ free # {}
            /\ tlb' = [tlb EXCEPT ![c][i] = [v |-> fault[p].addr, p |-> fault[p].paddr]]
            /\ Goto(p, fault[p].back)
            /\ fault' = [fault EXCEPT ![p] = NoFault]
            /\ UNCHANGED <<copy, panicked>>
  /\ UNCHANGED <<running, cmdline, proc, exe, opened, ph, firstpaddr, mem>>

-----------------------------------------------------------------------------
Next ==
  \/ \E c \in CPUs, t \in Threads : thread_switch(c, t)
  \/ \E p \in Procs : \E e \in Execs[p] : common_prog(p, e)
  \/ \E p \in Procs : proc_destroy(p)
  \/ \E p \in Procs : proc_addthread(p)
  \/ \E p \in Procs : cmd_progthread(p)
  \/ \E p \in Procs : proc_remthread(p)
  \/ \E p \in Procs : runprogram(p)
  \/ \E p \in Procs : load_elf_header(p)
  \/ \E p \in Procs : load_elf_define(p)
  \/ \E p \in Procs : as_prepare_load(p)
  \/ \E p \in Procs : load_segment(p)
  \/ \E p \in Procs : load_elf_done(p)
  \/ \E p \in Procs : memcpy(p)
  \/ \E p \in Procs, va \in Pointers : Store(p, va)
  \/ \E p \in Procs, va \in Pointers : syscall(p, va)
  \/ \E p \in Procs : vm_fault(p)
  \/ \E p \in Procs : tlb_write(p)

Spec == Init /\ [][Next]_vars

-----------------------------------------------------------------------------
Frames(a) == UNION {a[i].pbase .. a[i].pbase + a[i].npages * PAGE_SIZE - 1 : i \in {j \in 1 .. 3 : a[j].pbase # 0}}

Translation(a, v) ==
  LET regions == {i \in 1 .. 3 : Covers(a[i], v)}
      r == a[CHOOSE i \in regions : \A j \in regions : i <= j]
  IN  v - r.vbase + r.pbase

TypeOK ==
  /\ running \in [CPUs -> Threads \cup {None}]
  /\ DOMAIN tlb = CPUs /\ firstpaddr \in PAGE_SIZE .. lastpaddr
  /\ panicked \in {None, "user trap", "kernel trap", "assertion"}

\* No program reaches memory that is not its own: whatever preemption and
\* migration did, a CPU that runs a program with an address space has only
\* translations of that address space in its TLB, none twice, from the moment
\* runprogram has activated it (as_activate at every switch); no two address
\* spaces share a frame; a process counts the threads that point to it
\* (proc_addthread, proc_remthread); and user memory the kernel touches never
\* brings it down (copyout's tm_badfaultfunc).
Isolated ==
  /\ TypeOK
  /\ \A c \in CPUs, p \in Procs :
       running[c] = p /\ as[p] # None /\ t_proc[p] /\ pc[p] # "activate" =>
           \A i, j \in {k \in 1 .. NUM_TLB : tlb[c][k] # Invalid} :
             /\ \E r \in 1 .. 3 : Covers(as[p][r], tlb[c][i].v)
             /\ tlb[c][i].p = Translation(as[p], tlb[c][i].v)
             /\ i # j => tlb[c][i].v # tlb[c][j].v
  /\ \A p, q \in Procs : p # q /\ as[p] # None /\ as[q] # None =>
       Frames(as[p]) \cap Frames(as[q]) = {}
  /\ \A p \in Procs :
       numthreads[p] = IF \/ t_proc[p] /\ pc[p] # "detach"
                          \/ pc[p] = "created" /\ pc[Menu] = "attach"
                       THEN 1 ELSE 0
  /\ panicked # "kernel trap"

Loads(e) == {i \in DOMAIN e.phdrs : e.phdrs[i].type = "LOAD"}
Overlap(a) == \E i, j \in 1 .. 3 : i # j /\ \E v \in 0 .. KSEG : Covers(a[i], v) /\ Covers(a[j], v)

\* A program starts with the memory its executable describes: once it is in user
\* mode, and as long as it has not stored there, each byte of a segment is the
\* file's or, past what the file has, zero, also when the frame held other data
\* before; the executable is closed by then, as it is when the program could
\* not be started (load_segment, as_prepare_load, runprogram).  Segments that share a page
\* with each other or with the stack are not kept apart by dumbvm.
StartsAsWritten ==
  \A p \in Procs :
    /\ pc[p] \in {"user", "exit", "detach", "gone", "sys_copying"} => ~ opened[p]
    /\ pc[p] = "user" /\ ~ Overlap(as[p]) /\ SetUp(as[p]) =>
       \A h \in Loads(exe[p]) : LET s == exe[p].phdrs[h] IN \A o \in 0 .. s.memsz - 1 :
         mem[Translation(as[p], s.vaddr + o)]
           \in {IF o < s.filesz THEN [of |-> p, byte |-> s.offset + o + 1] ELSE Zero,
                [of |-> p, byte |-> 0]}
=============================================================================
