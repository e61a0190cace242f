-------------------------------- MODULE Libc --------------------------------
(***************************************************************************)
(* Three parts of the C library, each a behaviour of its own.              *)
(*                                                                         *)
(* malloc and free (userland/lib/libc/stdlib/malloc.c): addresses count    *)
(* blocks of MBLOCKSIZE bytes from the base of the heap; a header takes    *)
(* one block and holds the distances to the headers before and after.      *)
(* Sizes are in bytes, far below the wrap of size_t.                       *)
(*                                                                         *)
(* 64-bit arithmetic on a 32-bit machine (common/gcc-millicode), with      *)
(* digits of HALF_BITS bits: an unsigned int has two, a long long four.    *)
(* A long long is the number below LL that its bits spell; its sign bit    *)
(* is looked at where the code does.  Where C computes in unsigned ints    *)
(* the results are taken modulo UI, and digits are truncated as the casts  *)
(* do.                                                                     *)
(*                                                                         *)
(* snprintf (common/libc/printf/__printf.c, snprintf.c), shared with the   *)
(* kernel: the format is any sequence of characters, taken one at a time   *)
(* by __pf_send, with an argument of the type each field asks for.  An     *)
(* int has IntBits bits and so do long, size_t and pointers; a long long   *)
(* has LLBits.  A number is the word that holds it.                        *)
(***************************************************************************)
EXTENDS Integers, SequencesExt, FiniteSets, Bitwise

CONSTANTS MBLOCKSIZE,
          PageBlocks,      \* PAGE_SIZE in blocks
          HeapLimit,       \* blocks after which sbrk fails
          Sizes            \* sizes programs ask for

CONSTANTS HALF_BITS

CONSTANTS IntBits, LLBits,
          LLValues,          \* the long longs that are printed
          Strings, Null,     \* arguments of %s
          Lengths,           \* of the buffers given to snprintf
          MaxFields, MaxSpacing, MaxLiteral   \* bounds on the format

VARIABLES hdr,             \* the headers, by address
          heaptop,
          held,            \* what the program holds: address of the data and size asked for
          corrupt          \* the library found its data inconsistent and ended the program

VARIABLES opa, opb       \* the operands of one call

VARIABLES pf,              \* struct PF
          out,             \* what was sent to sendfunc
          snlen, snp,      \* vsnprintf's argument; the buffer of its SNP
          shown,           \* the last field: its type, its PF, argument and text
          fields

malloc_vars == <<hdr, heaptop, held, corrupt>>
longlong_vars == <<opa, opb>>
printf_vars == <<pf, out, snlen, snp, shown, fields>>

-----------------------------------------------------------------------------
(* malloc and free.                                                        *)

NoHeader == [prev |-> 0, next |-> 0, inuse |-> FALSE, ok |-> FALSE]
Header(p, n, u) == [prev |-> p, next |-> n, inuse |-> u, ok |-> TRUE]

MallocInit ==
  /\ hdr = [a \in 0 .. HeapLimit - 1 |-> NoHeader]
  /\ heaptop = 0
  /\ held = {}
  /\ corrupt = FALSE

M_SIZE(h, m) == h[m].next - 1

\* __malloc_split: the rest becomes a free block when it has room for a header
\* and a block of data.
malloc_split_noback(h, top, m, size) ==
  LET new == m + size + 1
  IN  IF M_SIZE(h, m) - size < 2 THEN h
      ELSE [h EXCEPT ![m].next = size + 1, ![new] = Header(size + 1, M_SIZE(h, m) - size, FALSE)]

malloc_split(h, top, m, size) ==
  LET after == m + h[m].next
      new == m + size + 1
      rest == M_SIZE(h, m) - size
      cut == [h EXCEPT ![m].next = size + 1, ![new] = Header(size + 1, rest, FALSE)]
  IN  CASE rest < 2 -> h
        [] rest >= 2 /\ after = top -> cut
        [] OTHER -> [cut EXCEPT ![after].prev = rest]

\* The search of malloc from header m on: the first free block that is large
\* enough, or the last block there is; an inconsistency ends the program.
RECURSIVE Search(_, _, _, _)
Search(m, last, right, size) ==
  CASE m = heaptop -> [found |-> FALSE, at |-> last, right |-> right, bad |-> FALSE]
    [] m > heaptop -> [found |-> FALSE, at |-> last, right |-> right, bad |-> TRUE]
    [] m < heaptop /\ (~ hdr[m].ok \/ hdr[m].prev # right) ->
         [found |-> FALSE, at |-> m, right |-> right, bad |-> TRUE]
    [] m < heaptop /\ hdr[m].ok /\ hdr[m].prev = right /\ ~ hdr[m].inuse /\ M_SIZE(hdr, m) >= size ->
         [found |-> TRUE, at |-> m, right |-> hdr[m].next, bad |-> FALSE]
    [] OTHER -> Search(m + hdr[m].next, m, hdr[m].next, size)

Take(m, h, asked) ==
  /\ hdr' = h
  /\ held' = held \cup {[at |-> m + 1, size |-> asked]}

\* sbrk (a system call that the kernel leaves to be written) moves the top of the
\* heap up, or fails.
malloc(asked) ==
  LET size == (asked + MBLOCKSIZE - 1) \div MBLOCKSIZE
      s == Search(0, HeapLimit, 0, size)
      top == s.at < HeapLimit /\ ~ hdr[s.at].inuse
      more == IF top THEN size - M_SIZE(hdr, s.at) ELSE 1 + size
      morespace == PageBlocks * ((more + PageBlocks - 1) \div PageBlocks)
      m == IF top THEN s.at ELSE heaptop
      grown == IF top THEN [hdr EXCEPT ![m].next = @ + morespace, ![m].inuse = TRUE]
                      ELSE [hdr EXCEPT ![m] = Header(s.right, morespace, TRUE)]
  IN  /\ ~ corrupt
      /\ \/ s.bad /\ corrupt' = TRUE /\ UNCHANGED <<hdr, heaptop, held>>
         \/ /\ ~ s.bad /\ s.found
            /\ Take(s.at, [malloc_split(hdr, heaptop, s.at, size) EXCEPT ![s.at].inuse = TRUE], asked)
            /\ UNCHANGED <<heaptop, corrupt>>
         \/ ~ s.bad /\ ~ s.found /\ UNCHANGED malloc_vars
         \/ /\ ~ s.bad /\ ~ s.found /\ heaptop + morespace <= HeapLimit
            /\ heaptop' = heaptop + morespace
            /\ Take(m, malloc_split(grown, heaptop + morespace, m, size), asked)
            /\ UNCHANGED corrupt

\* __malloc_trymerge; the header that is no longer one is overwritten.
malloc_trymerge(h, m, mnext) ==
  LET after == mnext + h[mnext].next
      both == h[m].next + h[mnext].next
      joined == [h EXCEPT ![m].next = both, ![mnext] = NoHeader]
  IN  CASE h[m].inuse \/ h[mnext].inuse -> h
        [] ~ (h[m].inuse \/ h[mnext].inuse) /\ after = heaptop -> joined
        [] OTHER -> [joined EXCEPT ![after].prev = both]

\* free, of something malloc returned.
free(x) ==
  LET m == x.at - 1
      freed == [hdr EXCEPT ![m].inuse = FALSE]
      mnext == m + hdr[m].next
      up == IF mnext # heaptop THEN malloc_trymerge(freed, m, mnext) ELSE freed
      mprev == m - up[m].prev
      down == IF m # 0 THEN malloc_trymerge(up, mprev, m) ELSE up
      bad == \/ x.at >= heaptop \/ ~ hdr[m].ok \/ ~ hdr[m].inuse
             \/ mnext # heaptop /\ hdr[m].next # hdr[mnext].prev
             \/ m # 0 /\ up[mprev].next # up[m].prev
  IN  /\ ~ corrupt /\ x \in held
      /\ \/ bad /\ corrupt' = TRUE /\ UNCHANGED <<hdr, heaptop, held>>
         \/ /\ ~ bad
            /\ hdr' = down
            /\ held' = held \ {x}
            /\ UNCHANGED <<heaptop, corrupt>>

MallocNext ==
  \/ \E size \in Sizes : malloc(size)
  \/ \E x \in held : free(x)

MallocSpec == MallocInit /\ [][MallocNext]_malloc_vars

-----------------------------------------------------------------------------
RECURSIVE Headers(_)
Headers(m) == IF m >= heaptop \/ hdr[m].next = 0 THEN {m} ELSE {m} \cup Headers(m + hdr[m].next)

Data(x) == x.at .. x.at + ((x.size + MBLOCKSIZE - 1) \div MBLOCKSIZE) - 1

\* The heap stays whole under any sequence of calls: its blocks follow one
\* another to its top and name the one before; none that are free touch, so what
\* was freed can be had again in one piece (__malloc_split and
\* __malloc_trymerge keep three headers in step); what the program holds are
\* the blocks in use, each as large as was asked for, and none contains a header
\* or part of another; and the library's own checks never end the program.
HeapWhole ==
  LET hs == Headers(0)
      blocks == hs \ {heaptop}
  IN  /\ ~ corrupt
      /\ heaptop \in hs /\ \A m \in hs : m <= heaptop
      /\ \A m \in 0 .. HeapLimit - 1 : hdr[m].ok <=> m \in blocks
      /\ \A m \in blocks : LET n == m + hdr[m].next IN n # heaptop =>
           hdr[n].prev = hdr[m].next /\ (hdr[m].inuse \/ hdr[n].inuse)
      /\ {x.at - 1 : x \in held} = {m \in blocks : hdr[m].inuse}
      /\ \A x \in held : Data(x) \cap hs = {} /\ \A y \in held \ {x} : x.at # y.at /\ Data(x) \cap Data(y) = {}

-----------------------------------------------------------------------------
(* 64-bit arithmetic.                                                      *)

B == 2 ^ HALF_BITS
INT_BITS == 2 * HALF_BITS
UI == 2 ^ INT_BITS
LL == UI * UI

HHALF(x) == x \div B
LHALF(x) == x % B
LHUP(x) == (x * B) % UI
COMBINE(x, y) == (x * B + y) % UI
H(x) == x \div UI
L(x) == x % UI
Quad(h, l) == (h % UI) * UI + (l % UI)

Neg(x) == x >= LL \div 2                      \* the sign of a long long
Signed(x, mod) == IF x >= mod \div 2 THEN x - mod ELSE x
Flag(c) == IF c THEN 1 ELSE 0
Shl(x, n) == (x * 2 ^ n) % UI
Shr(x, n) == x \div 2 ^ n
Sar(x, n) == (Signed(x, UI) \div 2 ^ n) % UI

-----------------------------------------------------------------------------
adddi3(x, y) ==
  LET l == (L(x) + L(y)) % UI
  IN  Quad(H(x) + H(y) + Flag(l < L(y)), l)

subdi3(x, y) ==
  LET l == (L(x) - L(y)) % UI
  IN  Quad(H(x) - H(y) - Flag(l > L(x)), l)

negdi2(x) ==
  LET l == (- L(x)) % UI
  IN  Quad((- H(x)) - Flag(l > 0), l)

anddi3(x, y) == Quad(H(x) & H(y), L(x) & L(y))
iordi3(x, y) == Quad(H(x) | H(y), L(x) | L(y))
xordi3(x, y) == Quad(H(x) ^^ H(y), L(x) ^^ L(y))
notdi2(x) == Quad(UI - 1 - H(x), UI - 1 - L(x))

cmpdi2(x, y) ==
  CASE Signed(H(x), UI) < Signed(H(y), UI) -> 0
    [] Signed(H(x), UI) > Signed(H(y), UI) -> 2
    [] OTHER -> IF L(x) < L(y) THEN 0 ELSE IF L(x) > L(y) THEN 2 ELSE 1

ucmpdi2(x, y) ==
  CASE H(x) < H(y) -> 0
    [] H(x) > H(y) -> 2
    [] OTHER -> IF L(x) < L(y) THEN 0 ELSE IF L(x) > L(y) THEN 2 ELSE 1

ashldi3(x, shift) ==
  CASE shift = 0 -> x
    [] shift >= INT_BITS -> Quad(Shl(L(x), shift - INT_BITS), 0)
    [] OTHER -> Quad(Shl(H(x), shift) | Shr(L(x), INT_BITS - shift), Shl(L(x), shift))

lshrdi3(x, shift) ==
  CASE shift = 0 -> x
    [] shift >= INT_BITS -> Quad(0, Shr(H(x), shift - INT_BITS))
    [] OTHER -> Quad(Shr(H(x), shift), Shr(L(x), shift) | Shl(H(x), INT_BITS - shift))

ashrdi3(x, shift) ==
  CASE shift = 0 -> x
    [] shift >= INT_BITS -> Quad(Sar(Sar(H(x), INT_BITS - 1), 1), Sar(H(x), shift - INT_BITS))
    [] OTHER -> Quad(Sar(H(x), shift), Shr(L(x), shift) | Shl(H(x), INT_BITS - shift))

-----------------------------------------------------------------------------
\* The product of two ints, from three products of halves (Knuth 4.3.3).
lmulq(u, v) ==
  LET u1 == HHALF(u)
      u0 == LHALF(u)
      v1 == HHALF(v)
      v0 == LHALF(v)
      low == u0 * v0
      neg == (u1 < u0) # (v0 < v1)
      udiff == IF u1 >= u0 THEN u1 - u0 ELSE u0 - u1
      vdiff == IF v0 >= v1 THEN v0 - v1 ELSE v1 - v0
      mid == udiff * vdiff
      high == u1 * v1
      prodl0 == LHUP(high)
      prodh0 == high + HHALF(high)
      prodl1 == IF neg THEN (prodl0 - LHUP(mid)) % UI ELSE (prodl0 + LHUP(mid)) % UI
      prodh1 == IF neg THEN prodh0 - (HHALF(mid) + Flag(prodl1 > prodl0))
                       ELSE prodh0 + HHALF(mid) + Flag(prodl1 < prodl0)
      prodl2 == (prodl1 + LHUP(low)) % UI
      prodh2 == prodh1 + HHALF(low) + Flag(prodl2 < prodl1)
      prodl3 == (prodl2 + low) % UI
      prodh3 == prodh2 + Flag(prodl3 < low)
  IN  IF u1 = 0 /\ v1 = 0 THEN low ELSE Quad(prodh3, prodl3)

muldi3(x, y) ==
  LET u == IF Neg(x) THEN negdi2(x) ELSE x
      v == IF Neg(y) THEN negdi2(y) ELSE y
      negall == Neg(x) # Neg(y)
      low == lmulq(L(u), L(v))
      negmid == (H(u) < L(u)) # (L(v) < H(v))
      udiff == IF H(u) >= L(u) THEN H(u) - L(u) ELSE L(u) - H(u)
      vdiff == IF L(v) >= H(v) THEN L(v) - H(v) ELSE H(v) - L(v)
      mid == (udiff * vdiff) % UI
      high == (H(u) * H(v)) % UI
      prod == IF H(u) = 0 /\ H(v) = 0 THEN low
              ELSE Quad(high + (IF negmid THEN - mid ELSE mid) + L(low) + H(low), L(low))
  IN  IF negall THEN negdi2(prod) ELSE prod

-----------------------------------------------------------------------------
\* Division (Knuth 4.3.1, algorithm D) on arrays of five digits; the pointers u,
\* v and q of the code, which it moves past leading zeros, are offsets here.
Digits(x) == [i \in 0 .. 4 |-> IF i = 0 THEN 0 ELSE (x \div B ^ (4 - i)) % B]
Value(d) == Quad(COMBINE(d[1], d[2]), COMBINE(d[3], d[4]))

\* shl: digits at .. at + len of d, sh bits to the left.
shl(d, at, len, sh) ==
  [i \in 0 .. 4 |->
     IF i \notin at .. at + len THEN d[i]
     ELSE LHALF(d[i] * 2 ^ sh) + (IF i < at + len THEN Shr(d[i + 1], HALF_BITS - sh) ELSE 0)]

\* A divisor of one digit: schoolbook division, a digit at a time.
OneDigit(u, t) ==
  LET r1 == COMBINE(u[1] % t, u[2])
      r2 == COMBINE(r1 % t, u[3])
      r3 == COMBINE(r2 % t, u[4])
  IN  [q |-> Quad(COMBINE(u[1] \div t, (r1 \div t) % B), COMBINE((r2 \div t) % B, (r3 \div t) % B)),
       r |-> r3 % t]

\* D3: the trial digit, made smaller until its product with v's second digit fits.
RECURSIVE TooBig(_, _, _, _, _)
TooBig(qhat, rhat, v1, v2, uj2) ==
  IF v2 * qhat > COMBINE(rhat, uj2)
  THEN IF rhat + v1 >= B THEN qhat - 1 ELSE TooBig(qhat - 1, rhat + v1, v1, v2, uj2)
  ELSE qhat

TrialDigit(uj0, uj1, uj2, v1, v2) ==
  IF uj0 = v1
  THEN IF uj1 + v1 >= B THEN B - 1 ELSE TooBig(B - 1, uj1 + v1, v1, v2, uj2)
  ELSE TooBig(COMBINE(uj0, uj1) \div v1, COMBINE(uj0, uj1) % v1, v1, v2, uj2)

\* D4: u[j .. j+n] minus qhat times v[1 .. n], from the right; t holds the borrow.
RECURSIVE MulSub(_, _, _, _, _, _, _)
MulSub(u, v, uo, vo, i, qhat, t) ==
  IF i = 0
  THEN LET s == (u[uo] - t) % UI IN [u |-> [u EXCEPT ![uo] = LHALF(s)], borrow |-> HHALF(s) # 0]
  ELSE LET s == (u[uo + i] - v[vo + i] * qhat - t) % UI
       IN  MulSub([u EXCEPT ![uo + i] = LHALF(s)], v, uo, vo, i - 1, qhat, (B - HHALF(s)) % B)

\* D6: the divisor is added back.
RECURSIVE AddBack(_, _, _, _, _, _)
AddBack(u, v, uo, vo, i, t) ==
  IF i = 0 THEN [u EXCEPT ![uo] = LHALF(u[uo] + t)]
  ELSE LET s == t + u[uo + i] + v[vo + i]
       IN  AddBack([u EXCEPT ![uo + i] = LHALF(s)], v, uo, vo, i - 1, HHALF(s))

\* One round of D3 to D6, for quotient digit j; a digit that was one too large
\* shows as a borrow.
RoundNoFix(u, v, q, uo, vo, n, j, m) ==
  LET qhat == TrialDigit(u[uo + j], u[uo + j + 1], u[uo + j + 2], v[vo + 1], v[vo + 2])
      sub == MulSub(u, v, uo + j, vo, n, qhat, 0)
  IN  [u |-> sub.u, q |-> [q EXCEPT ![4 - m + j] = LHALF(qhat)]]

Round(u, v, q, uo, vo, n, j, m) ==
  LET qhat == TrialDigit(u[uo + j], u[uo + j + 1], u[uo + j + 2], v[vo + 1], v[vo + 2])
      sub == MulSub(u, v, uo + j, vo, n, qhat, 0)
  IN  IF sub.borrow
      THEN [u |-> AddBack(sub.u, v, uo + j, vo, n, 0), q |-> [q EXCEPT ![4 - m + j] = LHALF(qhat - 1)]]
      ELSE [u |-> sub.u, q |-> [q EXCEPT ![4 - m + j] = LHALF(qhat)]]

RECURSIVE Rounds(_, _, _, _, _, _, _, _)
Rounds(u, v, q, uo, vo, n, j, m) ==
  IF j > m THEN [u |-> u, q |-> q]
  ELSE LET r == Round(u, v, q, uo, vo, n, j, m) IN Rounds(r.u, v, r.q, uo, vo, n, j + 1, m)

qdivrem(ull, vll) ==
  LET u == Digits(ull)
      v == Digits(vll)
      vo == CHOOSE i \in 0 .. 3 : v[i + 1] # 0 /\ \A k \in 1 .. i : v[k] = 0
      uo == CHOOSE i \in 0 .. 3 : u[i + 1] # 0 /\ \A k \in 1 .. i : u[k] = 0
      n == 4 - vo
      m == 4 - n - uo
      d == CHOOSE s \in 0 .. HALF_BITS : v[vo + 1] * 2 ^ s >= B \div 2 /\ (s > 0 => v[vo + 1] * 2 ^ (s - 1) < B \div 2)
      us == IF d > 0 THEN shl(u, uo, m + n, d) ELSE u
      vs == IF d > 0 THEN shl(v, vo + 1, n - 1, d) ELSE v
      res == Rounds(us, vs, [i \in 0 .. 4 |-> 0], uo, vo, n, 0, m)
      rem == [i \in 0 .. 4 |->
                IF i \in uo + m + 1 .. uo + m + n
                THEN Shr(res.u[i], d) + (IF d > 0 THEN LHALF(res.u[i - 1] * 2 ^ (HALF_BITS - d)) ELSE 0)
                ELSE IF i = uo + m /\ d > 0 THEN 0 ELSE res.u[i]]
  IN  CASE ull < vll -> [q |-> 0, r |-> ull]
        [] ull >= vll /\ n = 1 -> OneDigit(u, v[4])
        [] OTHER -> [q |-> Value(res.q), r |-> Value(rem)]

udivdi3(x, y) == qdivrem(x, y).q
umoddi3(x, y) == qdivrem(x, y).r
divdi3(x, y) ==
  LET q == qdivrem(IF Neg(x) THEN negdi2(x) ELSE x, IF Neg(y) THEN negdi2(y) ELSE y).q
  IN  IF Neg(x) # Neg(y) THEN negdi2(q) ELSE q
moddi3(x, y) ==
  LET r == qdivrem(IF Neg(x) THEN negdi2(x) ELSE x, IF Neg(y) THEN negdi2(y) ELSE y).r
  IN  IF Neg(x) THEN negdi2(r) ELSE r

-----------------------------------------------------------------------------
\* Calls with every pair of operands.
LonglongInit == opa \in 0 .. LL - 1 /\ opb = 0
LonglongNext == opb' = (opb + 1) % LL /\ opa' = opa
LonglongSpec == LonglongInit /\ [][LonglongNext]_longlong_vars

\* C's division rounds towards zero.
Abs(x) == IF x < 0 THEN - x ELSE x
Quot(x, y) == IF (x < 0) # (y < 0) THEN - (Abs(x) \div Abs(y)) ELSE Abs(x) \div Abs(y)

\* Every routine gcc calls for long long computes what C says of the operator,
\* for every pair of operands: sums, products and shifts modulo the width, the
\* order signed and unsigned, quotients that round towards zero with the
\* remainder that belongs to them (the trial digits, borrow and add-back of
\* __qdivrem).  Division by zero traps and is left out.
ArithmeticExact ==
  LET sa == Signed(opa, LL)
      sb == Signed(opb, LL)
      Order(x, y) == IF x < y THEN 0 ELSE IF x > y THEN 2 ELSE 1
  IN  /\ adddi3(opa, opb) = (opa + opb) % LL /\ subdi3(opa, opb) = (opa - opb) % LL /\ negdi2(opa) = (- opa) % LL
      /\ anddi3(opa, opb) = opa & opb /\ iordi3(opa, opb) = opa | opb /\ xordi3(opa, opb) = opa ^^ opb
      /\ notdi2(opa) = LL - 1 - opa
      /\ cmpdi2(opa, opb) = Order(sa, sb) /\ ucmpdi2(opa, opb) = Order(opa, opb)
      /\ opb < 2 * INT_BITS =>
           /\ ashldi3(opa, opb) = (opa * 2 ^ opb) % LL
           /\ lshrdi3(opa, opb) = opa \div 2 ^ opb
           /\ ashrdi3(opa, opb) = (sa \div 2 ^ opb) % LL
      /\ muldi3(opa, opb) = (sa * sb) % LL
      /\ opb # 0 =>
           /\ udivdi3(opa, opb) = opa \div opb /\ umoddi3(opa, opb) = opa % opb
           /\ divdi3(opa, opb) = Quot(sa, sb) % LL
           /\ moddi3(opa, opb) = (sa - Quot(sa, sb) * sb) % LL

-----------------------------------------------------------------------------
(* printf.                                                                 *)

INTTYPE == 2 ^ LLBits
NUMBER_BUF_SIZE == LLBits \div 3 + 2
digits == <<"0", "1", "2", "3", "4", "5", "6", "7", "8", "9", "a", "b", "c", "d", "e", "f">>

Modifiers == {"#", "-", "l", "z", "0", "1", "2"}     \* and the other digits
Width == [d \in {"1", "2"} |-> IF d = "1" THEN 1 ELSE 2]
Numeric == {"d", "o", "u", "p", "x"}
Literals == {"a", "k"}
Types == Numeric \cup {"s", "c", "%"} \cup Literals  \* of fields

Bits(size) == IF size = "LLONGSZ" THEN LLBits ELSE IntBits
Words(size) == IF size = "LLONGSZ" THEN LLValues ELSE 0 .. 2 ^ IntBits - 1

-----------------------------------------------------------------------------
\* __pf_print and __snprintf_send: what the buffer has no room for is dropped.
buflen == IF snlen = 0 THEN 0 ELSE snlen - 1
Sent(txt) ==
  /\ out' = out \o txt
  /\ snp' = FoldLeft(LAMBDA b, ch : IF Len(b) < buflen THEN Append(b, ch) ELSE b, snp, txt)

EndField ==
  [in_pct |-> FALSE, size |-> "INTSZ", num |-> 0, sign |-> FALSE, spacing |-> 0, rightspc |-> FALSE,
   fillchar |-> " ", base |-> 0, baseprefix |-> FALSE, altformat |-> FALSE]

pf_modifier(ch) ==
  CASE ch = "#" -> [pf EXCEPT !.altformat = TRUE]
    [] ch = "-" -> [pf EXCEPT !.rightspc = TRUE]
    [] ch = "l" -> [pf EXCEPT !.size = IF @ = "LONGSZ" THEN "LLONGSZ" ELSE "LONGSZ"]
    [] ch = "z" -> [pf EXCEPT !.size = "SIZETSZ"]
    [] ch = "0" -> IF pf.spacing > 0 THEN [pf EXCEPT !.spacing = @ * 10] ELSE [pf EXCEPT !.fillchar = "0"]
    [] OTHER -> [pf EXCEPT !.spacing = @ * 10 + Width[ch]]

pf_getnum(ch, arg) ==
  LET signednum == Signed(arg, 2 ^ Bits(pf.size)) IN
    IF ch = "d" THEN [pf EXCEPT !.sign = signednum < 0,
                                !.num = (IF signednum < 0 THEN -signednum ELSE signednum) % INTTYPE]
    ELSE [pf EXCEPT !.num = arg]

pf_setbase(f, ch) ==
  [f EXCEPT !.base = CASE ch \in {"d", "u"} -> 10 [] ch \in {"x", "p"} -> 16 [] ch = "o" -> 8,
            !.baseprefix = @ \/ f.altformat \/ ch = "p"]

pf_fill(f, spc) == [i \in 1 .. spc |-> f.fillchar]

pf_printstuff(f, prefix, prefix2, stuff) ==
  LET n == Len(prefix) + Len(prefix2) + Len(stuff)
      pad == pf_fill(f, IF f.spacing > n THEN f.spacing - n ELSE 0)
  IN  (IF ~f.rightspc /\ f.fillchar # "0" THEN pad ELSE <<>>) \o prefix \o prefix2
        \o (IF ~f.rightspc /\ f.fillchar = "0" THEN pad ELSE <<>>) \o stuff
        \o (IF f.rightspc THEN pad ELSE <<>>)

\* The digits of xnum from right to left, at least one.
RECURSIVE Convert(_, _)
Convert(xnum, base) ==
  (IF xnum \div base > 0 THEN Convert(xnum \div base, base) ELSE <<>>) \o <<digits[1 + (xnum % base)]>>

Prefix(f) == CASE f.baseprefix /\ f.base = 16 -> <<"0", "x">> [] f.baseprefix /\ f.base = 8 -> <<"0">> [] OTHER -> <<>>

pf_printnum(f) == pf_printstuff(f, IF f.sign THEN <<"-">> ELSE <<>>, Prefix(f), Convert(f.num, f.base))

\* The text of a field of type ch.
Field(ch, arg) ==
  CASE ch \in Numeric -> pf_printnum(pf_setbase(pf_getnum(ch, arg), ch))
    [] ch = "s" -> pf_printstuff(pf, <<>>, <<>>, IF arg = Null THEN <<"(", "n", "u", "l", "l", ")">> ELSE arg)
    [] ch = "c" -> pf_printstuff(pf, <<>>, <<>>, <<arg>>)
    [] OTHER -> pf_printstuff(pf, <<>>, <<>>, <<ch>>)

Arguments(ch) ==
  CASE ch = "p" -> Words("INTSZ") [] ch \in Numeric -> Words(pf.size)
    [] ch = "s" -> Strings \cup {Null} [] ch = "c" -> Literals [] OTHER -> {Null}

-----------------------------------------------------------------------------
PrintfInit ==
  /\ pf = EndField
  /\ out = <<>> /\ snp = <<>> /\ snlen \in Lengths
  /\ shown = Null /\ fields = 0

\* __pf_send, one disjunct for each kind of character.
Literal ==
  /\ ~pf.in_pct /\ Len(out) < MaxLiteral
  /\ \E ch \in Literals : Sent(<<ch>>)
  /\ UNCHANGED <<pf, snlen, shown, fields>>
Percent ==
  /\ ~pf.in_pct /\ fields < MaxFields
  /\ pf' = [pf EXCEPT !.in_pct = TRUE]
  /\ UNCHANGED <<out, snlen, snp, shown, fields>>
Modifier ==
  /\ pf.in_pct
  /\ \E ch \in Modifiers : pf' = pf_modifier(ch) /\ pf'.spacing <= MaxSpacing
  /\ UNCHANGED <<out, snlen, snp, shown, fields>>
Conversion ==
  /\ pf.in_pct
  /\ \E ch \in Types : \E arg \in Arguments(ch) :
       LET print(txt) == Sent(txt) /\ shown' = [ch |-> ch, pf |-> pf, arg |-> arg, text |-> txt] IN
         print(Field(ch, arg))
  /\ pf' = EndField
  /\ fields' = fields + 1
  /\ UNCHANGED snlen

PrintfNext == Literal \/ Percent \/ Modifier \/ Conversion
PrintfSpec == PrintfInit /\ [][PrintfNext]_printf_vars

\* The buffer when vsnprintf returns, here with "" for NUL.
buf == IF snlen > 0 THEN Append(snp, "") ELSE snp

-----------------------------------------------------------------------------
(* Properties.                                                             *)

\* A number as a reader takes it: spaces, a sign, a prefix of the base, digits.
Val(ch) == (CHOOSE i \in 1 .. 16 : digits[i] = ch) - 1
RECURSIVE Horner(_, _)
Horner(txt, base) == IF txt = <<>> THEN 0 ELSE Horner(Front(txt), base) * base + Val(Last(txt))
ReadBack(txt, base) ==
  LET bare == SelectSeq(txt, LAMBDA ch : ch # " ")
      neg == bare # <<>> /\ Head(bare) = "-"
      magnitude == IF neg THEN Tail(bare) ELSE bare
      number == IF base = 16 /\ Len(magnitude) > 1 /\ magnitude[2] = "x" THEN SubSeq(magnitude, 3, Len(magnitude))
                ELSE magnitude
  IN  IF neg THEN -Horner(number, base) ELSE Horner(number, base)

Base(ch) == CASE ch \in {"d", "u"} -> 10 [] ch = "o" -> 8 [] OTHER -> 16
Meant(f) == IF f.ch = "d" THEN Signed(f.arg, 2 ^ Bits(f.pf.size)) ELSE f.arg
NumDigits(x, base) == CHOOSE d \in 1 .. LLBits : base ^ d > x /\ (d > 1 => base ^ (d - 1) <= x)

\* The characters a number takes without padding.
Natural(f) ==
  NumDigits(Abs(Meant(f)), Base(f.ch)) + (IF Meant(f) < 0 THEN 1 ELSE 0)
    + (IF ~(f.pf.altformat \/ f.ch = "p") THEN 0 ELSE CASE Base(f.ch) = 16 -> 2 [] Base(f.ch) = 8 -> 1 [] OTHER -> 0)

\* printf: every number reads back as the argument, fills its field exactly, on
\* the side the format asks for, and fits the buffer it is converted in; and
\* snprintf keeps the start of the text that fits with its NUL, and no more.  (A
\* field filled with zeros on the right, %-0, does not read back.)
PrintsExactly ==
  /\ shown # Null =>
       /\ shown.ch \in Numeric =>
            /\ ~(shown.pf.rightspc /\ shown.pf.fillchar = "0") => ReadBack(shown.text, Base(shown.ch)) = Meant(shown)
            /\ Len(shown.text) = IF shown.pf.spacing > Natural(shown) THEN shown.pf.spacing ELSE Natural(shown)
            /\ NumDigits(Abs(Meant(shown)), Base(shown.ch)) + 1 <= NUMBER_BUF_SIZE
       /\ shown.ch # "s" => (IF shown.pf.rightspc THEN Head(shown.text) ELSE Last(shown.text)) # " "
       /\ Len(shown.text) >= shown.pf.spacing
  /\ Len(buf) <= snlen /\ IsPrefix(snp, out)
  /\ snlen > 0 => Len(snp) = (IF Len(out) < snlen THEN Len(out) ELSE snlen - 1)
=============================================================================
