------------------------------ MODULE MCMemory ------------------------------
(*****************************************************************************)
(* Programs, and the libraries below them, model-checked side by side: a     *)
(* behaviour is one of processes on two CPUs, of the program loader on one   *)
(* CPU, of malloc, of the kernel's lists, arrays and bitmaps, of 64-bit      *)
(* arithmetic, or of printf, and the variables of the others are 0.          *)
(* Processes run Good, whose data is at a place that is no page boundary,    *)
(* with more in the file than in memory, and a header to skip. The loader is *)
(* also given segments that share a page; a segment too many; one segment    *)
(* only; one in the kernel's half of memory; and three executables for which *)
(* there is too little RAM. malloc's heap is full after three pages of four  *)
(* blocks. Two lists share three nodes; the array has up to five elements    *)
(* and the bitmap up to seven bits in words of three. printf is given a      *)
(* field with every argument of three bits, and those of seven bits that are *)
(* at a boundary, which has the longest octal number just fit its buffer.    *)
(* All but the arithmetic may stop.                                          *)
(*****************************************************************************)
EXTENDS Naturals, Sequences, TLC

CONSTANTS Procs, Menu, CPUs, None, Execs, Pointers, PAGE_SIZE, NUM_TLB, DUMBVM_STACKPAGES, USERSTACK,
          KSEG, RamPages, OddExecs, MBLOCKSIZE, PageBlocks, HeapLimit, Sizes, Members, NULL, Unset, Lists,
          MaxNum, BITS_PER_WORD, MaxBits, HALF_BITS, IntBits, LLBits, LLValues, Strings, Null, Lengths,
          MaxFields, MaxSpacing, MaxLiteral, Uni, Special, Other

VARIABLES subject,
          running, pc, cmdline, exe, opened, numthreads, t_proc, as, newas, ph, copy, fault, tlb,
          firstpaddr, mem, panicked,
          hdr, heaptop, held, corrupt,
          which, containers_next, containers_prev, count, content, containers_num, max, containers_v,
          items, nbits, words, marked,
          opa, opb,
          pf, out, snlen, snp, shown, fields

P == INSTANCE Process
O == INSTANCE Process WITH Execs <- OddExecs, CPUs <- {Uni}, Procs <- {Special, Other}, Pointers <- {8,
       13}
L == INSTANCE Libc
C == INSTANCE Containers WITH next <- containers_next, prev <- containers_prev, num <- containers_num,
       v <- containers_v

process_vars == <<running, pc, cmdline, exe, opened, numthreads, t_proc, as, newas, ph, copy, fault, tlb,
  firstpaddr, mem, panicked>>
malloc_vars == <<hdr, heaptop, held, corrupt>>
containers_vars == <<which, containers_next, containers_prev, count, content, containers_num, max,
  containers_v, items, nbits, words, marked>>
longlong_vars == <<opa, opb>>
printf_vars == <<pf, out, snlen, snp, shown, fields>>

\* The variables of the parts a behaviour is not about.
process_idle ==
  /\ running = 0 /\ pc = 0 /\ cmdline = 0 /\ exe = 0 /\ opened = 0 /\ numthreads = 0 /\ t_proc = 0
  /\ as = 0 /\ newas = 0 /\ ph = 0 /\ copy = 0 /\ fault = 0 /\ tlb = 0 /\ firstpaddr = 0 /\ mem = 0
  /\ panicked = 0
malloc_idle == hdr = 0 /\ heaptop = 0 /\ held = 0 /\ corrupt = 0
containers_idle ==
  /\ which = 0 /\ containers_next = 0 /\ containers_prev = 0 /\ count = 0 /\ content = 0
  /\ containers_num = 0 /\ max = 0 /\ containers_v = 0 /\ items = 0 /\ nbits = 0 /\ words = 0 /\ marked = 0
longlong_idle == opa = 0 /\ opb = 0
printf_idle == pf = 0 /\ out = 0 /\ snlen = 0 /\ snp = 0 /\ shown = 0 /\ fields = 0

MemoryInit ==
  \/ subject = "process" /\ P!Init /\ malloc_idle /\ containers_idle /\ longlong_idle /\ printf_idle
  \/ subject = "loader" /\ O!Init /\ malloc_idle /\ containers_idle /\ longlong_idle /\ printf_idle
  \/ subject = "malloc" /\ L!MallocInit /\ process_idle /\ containers_idle /\ longlong_idle /\ printf_idle
  \/ subject = "containers" /\ C!Init /\ process_idle /\ malloc_idle /\ longlong_idle /\ printf_idle
  \/ subject = "longlong" /\ L!LonglongInit /\ process_idle /\ malloc_idle /\ containers_idle /\ printf_idle
  \/ subject = "printf" /\ L!PrintfInit /\ process_idle /\ malloc_idle /\ containers_idle /\ longlong_idle

MemoryNext ==
  \/ subject = "process" /\ P!Next
     /\ UNCHANGED <<subject, malloc_vars, containers_vars, longlong_vars, printf_vars>>
  \/ subject = "loader" /\ O!Next
     /\ UNCHANGED <<subject, malloc_vars, containers_vars, longlong_vars, printf_vars>>
  \/ subject = "malloc" /\ L!MallocNext
     /\ UNCHANGED <<subject, process_vars, containers_vars, longlong_vars, printf_vars>>
  \/ subject = "containers" /\ C!Next
     /\ UNCHANGED <<subject, process_vars, malloc_vars, longlong_vars, printf_vars>>
  \/ subject = "longlong" /\ L!LonglongNext
     /\ UNCHANGED <<subject, process_vars, malloc_vars, containers_vars, printf_vars>>
  \/ subject = "printf" /\ L!PrintfNext
     /\ UNCHANGED <<subject, process_vars, malloc_vars, containers_vars, longlong_vars>>
  \/ subject \in {"process", "loader", "malloc", "containers", "printf"}
     /\ UNCHANGED <<subject, process_vars, malloc_vars, containers_vars, longlong_vars, printf_vars>>

MemorySpec ==
  /\ MemoryInit
  /\ [][MemoryNext]_<<subject, process_vars, malloc_vars, containers_vars, longlong_vars, printf_vars>>

Seg(va, ms, fs, off) == [type |-> "LOAD", vaddr |-> va, memsz |-> ms, filesz |-> fs, offset |-> off]
Skip == [type |-> "skip", vaddr |-> 0, memsz |-> 0, filesz |-> 0, offset |-> 0]
Exec(phdrs, size) == [elf |-> TRUE, phdrs |-> phdrs, size |-> size]

Good == Exec(<<Skip, Seg(2, 2, 3, 0), Seg(7, 2, 1, 2)>>, 3)
Odd ==
  {Exec(<<Seg(2, 1, 1, 0), Seg(3, 2, 1, 1)>>, 2),
   Exec(<<Seg(2, 1, 1, 0), Seg(4, 1, 0, 1), Seg(6, 1, 0, 1)>>, 2),
   Exec(<<Seg(2, 1, 1, 0)>>, 2),
   Exec(<<Seg(2, 1, 1, 0), Seg(14, 1, 1, 1)>>, 2)}
  \cup {Exec(<<Seg(2, m, 0, 0), Seg(4, n, 0, 0)>>, 2) :
          <<m, n>> \in {<<18, 1>>, <<2, 16>>, <<2, 14>>}}

MCExecs == [p \in Procs |-> {Good}]
MCOddExecs == [p \in {Special, Other} |-> IF p = Special THEN {Good} \cup Odd ELSE {Good}]

Symmetry == Permutations(Procs) \cup Permutations(CPUs)

\* Processes: a program reads and writes its own memory and no other's, whichever
\* CPU it runs on (as_activate, vm_fault, thread_switch).
Isolated == (subject = "process" => P!Isolated) /\ (subject = "loader" => O!Isolated)

\* A program that starts finds its segments as they are in the file, and zeroes
\* elsewhere (load_elf, load_segment, as_prepare_load).
StartsAsWritten == (subject = "process" => P!StartsAsWritten) /\ (subject = "loader" => O!StartsAsWritten)

\* malloc: the headers chain through the whole heap, and what a program holds is
\* in blocks of its own (malloc.c).
HeapWhole == subject = "malloc" => L!HeapWhole

\* Lists, arrays and bitmaps hold what was put into them (threadlist.c, array.c,
\* bitmap.c).
ContainersAgree == subject = "containers" => C!ContainersAgree

MCStrings == {<<>>, <<"a", "b">>}

\* 64-bit division, shifts and comparisons on 32-bit words give the quotient,
\* remainder and product (gcc-millicode), and printf writes a number so that it
\* reads back, in its field and its buffers (__printf.c, snprintf.c).
ArithmeticExact == (subject = "longlong" => L!ArithmeticExact) /\ (subject = "printf" => L!PrintsExactly)
=============================================================================
