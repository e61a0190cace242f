-------------------------- MODULE KmallocInvariant --------------------------
(***************************************************************************)
(* What keeps the kernel heap exact, for any number of threads, pages,     *)
(* pagerefs and block sizes: HeapExact together with where each thread is  *)
(* when the lock is dropped, which page and which pageref it has in hand,  *)
(* and that nobody else has them.  Here, that whole pages come and go and  *)
(* that a block is handed out.                                             *)
(***************************************************************************)
EXTENDS Kmalloc, SequenceLemmas, TLAPS

Labels == {"idle", "alloc_kpages", "allocpageref", "allocpagerefpage", "relock", "oops", "free_kpages"}

Locals == [type : Types, page : 0 .. NPages, ref : Refs \cup {NoRef}, va : 0 .. NPages]
Pagerefs == [page : 0 .. NPages, type : Types, free : Seq(Nat)]

Typed ==
  /\ pool \subseteq Pages /\ big \subseteq Pages /\ gone \subseteq Pages
  /\ rootpage \in [Roots -> 0 .. NPages]
  /\ inuse \subseteq Refs
  /\ pageref \in [Refs -> Pagerefs]
  /\ sizebases \in [Types -> Seq(Refs)] /\ allbase \in Seq(Refs)
  /\ used \subseteq Pages \X Nat
  /\ pc \in [Threads -> Labels]
  /\ loc \in [Threads -> Locals]

\* What a thread has in hand at each place where the lock is dropped.
Place(t) ==
  /\ pc[t] = "idle" => loc[t] = NoLoc
  /\ loc[t].page = 0 <=> pc[t] \in {"idle", "alloc_kpages"}
  /\ loc[t].ref # NoRef <=> pc[t] \in {"allocpagerefpage", "relock", "oops"}
  /\ loc[t].va # 0 => pc[t] \in {"relock", "oops"}
  /\ pc[t] = "oops" => loc[t].va # 0

\* No two threads have the same pageref in hand.
Apart == \A t, u \in Threads : loc[t].ref # NoRef /\ loc[t].ref = loc[u].ref => t = u

\* ListsAgree, pageref by pageref.
Listing ==
  /\ IsInjective(allbase)
  /\ \A y \in Types : IsInjective(sizebases[y]) /\ Range(sizebases[y]) = {p \in Listed : pageref[p].type = y}

InHand(p) == \E t \in Threads : loc[t].ref = p
Marked(p) ==
  /\ p \in inuse <=> p \in Listed \/ InHand(p) \/ p \in leaked
  /\ p \in Listed => ~InHand(p)
  /\ p \in leaked => p \notin Listed /\ ~InHand(p)

\* The blocks of a page on the lists: on its free list or with a caller, which
\* makes two lists that are as long together as the page has blocks.
Size(p) == BlocksPerPage[pageref[p].type]
Divided(s, n) ==
  \E w \in Seq(Nat) : IsInjective(w) /\ Len(w) + Len(s) = n /\ Range(w) = (0 .. n - 1) \ Range(s)
Blocks(p) ==
  /\ pageref[p].page # 0
  /\ IsInjective(pageref[p].free) /\ Range(pageref[p].free) \subseteq 0 .. Size(p) - 1
  /\ Divided(pageref[p].free, Size(p))
  /\ \A i \in Nat : <<pageref[p].page, i>> \in used <=> i \in (0 .. Size(p) - 1) \ Range(pageref[p].free)

Owned == \A b \in used : \E p \in Listed : pageref[p].page = b[1]

\* Page a has exactly one use.
Sole(a) == \E u \in Uses(a) : Uses(a) = {u}

\* What the lists and bits say agrees.
Agreed ==
  /\ Apart /\ Listing /\ Owned
  /\ leaked \subseteq Refs /\ \A p \in Refs : Marked(p)
  /\ \A p \in Listed : Blocks(p)

Heap == Agreed /\ (\A t \in Threads : Place(t)) /\ \A a \in Pages : Sole(a)

\* The inductive invariant.
IInv == Typed /\ panicked \in BOOLEAN /\ (~panicked => Heap)

-----------------------------------------------------------------------------
\* A pageref put at the front of a list.
LEMMA PrependFacts ==
  ASSUME NEW S, NEW s \in Seq(S), NEW x \in S
  PROVE  /\ <<x>> \o s \in Seq(S) /\ Len(<<x>> \o s) = Len(s) + 1
         /\ Range(<<x>> \o s) = {x} \cup Range(s)
         /\ IsInjective(s) /\ x \notin Range(s) => IsInjective(<<x>> \o s)
<1>1. <<x>> \in Seq(S) /\ Len(<<x>>) = 1 /\ <<x>>[1] = x /\ DOMAIN <<x>> = {1}
  OBVIOUS
<1>2. Range(<<x>>) = {x} /\ IsInjective(<<x>>)
  BY <1>1 DEF Range, IsInjective
<1>3. /\ <<x>> \o s \in Seq(S) /\ Len(<<x>> \o s) = Len(<<x>>) + Len(s)
      /\ Range(<<x>> \o s) = Range(<<x>>) \cup Range(s)
      /\ IsInjective(<<x>>) /\ IsInjective(s) /\ Range(<<x>>) \cap Range(s) = {} => IsInjective(<<x>> \o s)
  BY <1>1, ConcatFacts, Zenon
<1>4. Len(s) \in Nat
  OBVIOUS
<1>5. QED
  BY <1>1, <1>2, <1>3, <1>4

\* remove_lists takes exactly p off a list without repetitions.
LEMMA UnlinkedFacts ==
  ASSUME NEW S, NEW s \in Seq(S), IsInjective(s), NEW p \in Range(s)
  PROVE  /\ Unlinked(s, p) \in Seq(S) /\ Len(Unlinked(s, p)) + 1 = Len(s)
         /\ Range(Unlinked(s, p)) = Range(s) \ {p}
         /\ IsInjective(Unlinked(s, p))
<1>1. PICK i : i = CHOOSE j \in DOMAIN s : s[j] = p
  OBVIOUS
<1>2. i \in DOMAIN s /\ s[i] = p
  BY <1>1 DEF Range
<1>3. i \in 1 .. Len(s) /\ Len(s) \in Nat /\ i - 1 \in 0 .. Len(s) /\ i \in 0 .. Len(s)
  BY <1>2
<1>4. Unlinked(s, p) = SubSeq(s, 1, i - 1) \o SubSeq(s, i + 1, Len(s))
  BY <1>1 DEF Unlinked
<1>5. /\ SubSeq(s, 1, i - 1) \in Seq(S) /\ Len(SubSeq(s, 1, i - 1)) = i - 1
      /\ SubSeq(s, i + 1, Len(s)) \in Seq(S) /\ Len(SubSeq(s, i + 1, Len(s))) = Len(s) - i
  BY <1>3, SplitFacts
<1>6. Len(Unlinked(s, p)) = (i - 1) + (Len(s) - i)
  BY <1>4, <1>5, ConcatFacts
<1>7. Len(Unlinked(s, p)) + 1 = Len(s)
  BY <1>3, <1>6
<1>8. QED
  BY <1>2, <1>3, <1>4, <1>7, CutFacts

\* The free list of a new page has each of its blocks once, the last one first.
LEMMA FreshFacts ==
  ASSUME NEW n \in Nat \ {0}, NEW s, s = [i \in 1 .. n |-> n - i]
  PROVE  /\ s \in Seq(Nat) /\ s # <<>> /\ Head(s) = n - 1
         /\ Tail(s) \in Seq(Nat) /\ IsInjective(Tail(s))
         /\ Range(Tail(s)) = (0 .. n - 1) \ {n - 1}
         /\ Divided(Tail(s), n)
<1>1. s \in Seq(Nat) /\ Len(s) = n /\ DOMAIN s = 1 .. n /\ \A i \in 1 .. n : s[i] = n - i
  OBVIOUS
<1>2. s # <<>> /\ Head(s) = n - 1
  BY <1>1
<1>3. IsInjective(s)
  BY <1>1 DEF IsInjective
<1>4. Range(s) = 0 .. n - 1
  <2>1. ASSUME NEW k \in 0 .. n - 1 PROVE k \in Range(s)
    <3>1. n - k \in 1 .. n /\ s[n - k] = k
      BY <1>1
    <3>2. QED
      BY <3>1, <1>1 DEF Range
  <2>2. ASSUME NEW k \in Range(s) PROVE k \in 0 .. n - 1
    BY <1>1 DEF Range
  <2>3. QED
    BY <2>1, <2>2, Zenon
<1>5. /\ Tail(s) \in Seq(Nat) /\ Range(s) = {Head(s)} \cup Range(Tail(s))
      /\ IsInjective(Tail(s)) /\ Head(s) \notin Range(Tail(s))
  BY <1>1, <1>2, <1>3, TailFacts, Zenon
<1>6. Range(Tail(s)) = (0 .. n - 1) \ {n - 1}
  BY <1>2, <1>4, <1>5, Zenon
<1>7. Divided(Tail(s), n)
  <2>1. PICK w : w = <<n - 1>>
    BY Zenon
  <2>2. w \in Seq(Nat) /\ Len(w) = 1 /\ w[1] = n - 1 /\ DOMAIN w = {1}
    BY <2>1
  <2>3. IsInjective(w) /\ Range(w) = {n - 1}
    BY <2>2 DEF IsInjective, Range
  <2>4. Len(Tail(s)) = n - 1
    BY <1>1, <1>2
  <2>5. Range(w) = (0 .. n - 1) \ Range(Tail(s))
    BY <2>3, <1>6
  <2>6. Len(w) + Len(Tail(s)) = n
    BY <2>2, <2>4
  <2>7. QED
    BY <2>2, <2>3, <2>5, <2>6, Zenon DEF Divided
<1>8. QED
  BY <1>1, <1>2, <1>5, <1>6, <1>7, Zenon

\* A block changes sides.
LEMMA Taken ==
  ASSUME NEW n \in Nat, NEW s \in Seq(Nat), s # <<>>, IsInjective(s), Range(s) \subseteq 0 .. n - 1, Divided(s, n)
  PROVE  Divided(Tail(s), n)
<1>1. PICK w \in Seq(Nat) : IsInjective(w) /\ Len(w) + Len(s) = n /\ Range(w) = (0 .. n - 1) \ Range(s)
  BY DEF Divided
<1>2. PICK h : h = Head(s)
  OBVIOUS
<1>3. /\ h \in Nat /\ h \in Range(s) /\ Tail(s) \in Seq(Nat) /\ Len(Tail(s)) = Len(s) - 1
      /\ Range(s) = {h} \cup Range(Tail(s)) /\ h \notin Range(Tail(s))
  BY <1>2, TailFacts, Zenon
<1>4. PICK v : v = <<h>> \o w
  BY Zenon
<1>5. v \in Seq(Nat) /\ Len(v) = Len(w) + 1 /\ Range(v) = {h} \cup Range(w) /\ IsInjective(v)
  BY <1>1, <1>3, <1>4, PrependFacts
<1>6. Len(v) + Len(Tail(s)) = n
  <2>1. Len(w) \in Nat /\ Len(s) \in Nat
    OBVIOUS
  <2>2. QED
    BY <1>1, <1>3, <1>5, <2>1
<1>7. Range(v) = (0 .. n - 1) \ Range(Tail(s))
  BY <1>1, <1>3, <1>5, Zenon
<1>8. QED
  BY <1>5, <1>6, <1>7, Zenon DEF Divided

LEMMA PutBack ==
  ASSUME NEW n \in Nat, NEW s \in Seq(Nat), Divided(s, n), NEW h \in (0 .. n - 1) \ Range(s)
  PROVE  Divided(<<h>> \o s, n)
<1>1. PICK w \in Seq(Nat) : IsInjective(w) /\ Len(w) + Len(s) = n /\ Range(w) = (0 .. n - 1) \ Range(s)
  BY DEF Divided
<1>2. h \in Nat /\ h \in Range(w)
  BY <1>1
<1>3. PICK v : v = Unlinked(w, h)
  OBVIOUS
<1>4. v \in Seq(Nat) /\ Len(v) + 1 = Len(w) /\ Range(v) = Range(w) \ {h} /\ IsInjective(v)
  BY <1>1, <1>2, <1>3, UnlinkedFacts, Zenon
<1>5. PICK f : f = <<h>> \o s
  BY Zenon
<1>6. Len(f) = Len(s) + 1 /\ Range(f) = {h} \cup Range(s)
  BY <1>2, <1>5, PrependFacts
<1>7. Len(v) + Len(f) = n
  <2>1. PICK x, y, z : x = Len(v) /\ y = Len(w) /\ z = Len(s)
    BY Zenon
  <2>2. x \in Nat /\ y \in Nat /\ z \in Nat
    BY <1>4, <2>1
  <2>3. x + 1 = y /\ y + z = n /\ Len(f) = z + 1
    BY <1>1, <1>4, <1>6, <2>1, Zenon
  <2>4. QED
    BY <2>1, <2>2, <2>3
<1>8. Range(v) = (0 .. n - 1) \ Range(f)
  BY <1>1, <1>4, <1>6, Zenon
<1>9. Divided(f, n)
  BY <1>4, <1>7, <1>8, Zenon DEF Divided
<1>10. QED
  BY <1>5, <1>9

\* When all blocks of a page but one are free, there is only one that is not.
LEMMA LastBlock ==
  ASSUME NEW n \in Nat, NEW s \in Seq(Nat), Divided(s, n), Len(s) + 1 = n,
         NEW i \in (0 .. n - 1) \ Range(s), NEW j \in (0 .. n - 1) \ Range(s)
  PROVE  i = j
<1>1. PICK w \in Seq(Nat) : Len(w) + Len(s) = n /\ Range(w) = (0 .. n - 1) \ Range(s)
  BY DEF Divided
<1>2. Len(w) = 1
  <2>1. PICK x, y : x = Len(w) /\ y = Len(s)
    BY Zenon
  <2>2. x \in Nat /\ y \in Nat
    BY <2>1
  <2>3. x + y = n /\ y + 1 = n
    BY <1>1, <2>1, Zenon
  <2>4. QED
    BY <2>1, <2>2, <2>3
<1>3. DOMAIN w = {1}
  BY <1>2
<1>4. \A x \in Range(w) : x = w[1]
  BY <1>3 DEF Range
<1>5. i \in Range(w) /\ j \in Range(w)
  BY <1>1, Zenon
<1>6. QED
  BY <1>4, <1>5, Zenon

-----------------------------------------------------------------------------
\* The uses of a page, one by one.
LEMMA UseFacts ==
  ASSUME NEW a
  PROVE  /\ <<"pool", 0>> \in Uses(a) <=> a \in pool
         /\ <<"gone", 0>> \in Uses(a) <=> a \in gone
         /\ <<"whole", 0>> \in Uses(a) <=> a \in big
         /\ \A r : <<"pagerefs", r>> \in Uses(a) <=> r \in Roots /\ rootpage[r] = a
         /\ \A p : <<"blocks", p>> \in Uses(a) <=> p \in Listed /\ pageref[p].page = a
         /\ \A t : <<"page", t>> \in Uses(a) <=> t \in Threads /\ loc[t].page = a
         /\ \A t : <<"va", t>> \in Uses(a) <=> t \in Threads /\ loc[t].va = a
  BY DEF Uses

\* A page keeps its use in a step that changes nothing about it.
Same(a) ==
  /\ a \in pool' <=> a \in pool
  /\ a \in gone' <=> a \in gone
  /\ a \in big' <=> a \in big
  /\ \A r \in Roots : rootpage'[r] = a <=> rootpage[r] = a
  /\ \A p : p \in Listed' /\ pageref'[p].page = a <=> p \in Listed /\ pageref[p].page = a
  /\ \A t \in Threads : loc'[t].page = a <=> loc[t].page = a
  /\ \A t \in Threads : loc'[t].va = a <=> loc[t].va = a

LEMMA Stays ==
  ASSUME NEW a, Sole(a), Same(a)
  PROVE  Sole(a)'
<1>1. Uses(a)' = Uses(a)
  BY DEF Uses, Same
<1>2. QED
  BY <1>1 DEF Sole

\* Two pages on the lists are different pages.
LEMMA DistinctPages ==
  ASSUME Typed, Heap, NEW p \in Listed, NEW q \in Listed, pageref[p].page = pageref[q].page
  PROVE  p = q
<1>1. p \in Refs /\ q \in Refs
  BY EmptyFacts DEF Typed, Listed
<1>2. PICK a : a = pageref[p].page
  OBVIOUS
<1>3. a \in Pages
  BY <1>1, <1>2 DEF Typed, Heap, Agreed, Blocks, Pages, Pagerefs
<1>4. Sole(a)
  BY <1>3 DEF Heap
<1>5. <<"blocks", p>> \in Uses(a) /\ <<"blocks", q>> \in Uses(a)
  BY <1>2, UseFacts
<1>6. QED
  BY <1>4, <1>5 DEF Sole

\* v is the one use of page a.
OneUse(v, a) ==
  /\ a \in pool <=> v = <<"pool", 0>>
  /\ a \in gone <=> v = <<"gone", 0>>
  /\ a \in big <=> v = <<"whole", 0>>
  /\ \A r \in Roots : rootpage[r] = a <=> v = <<"pagerefs", r>>
  /\ \A p : p \in Listed /\ pageref[p].page = a <=> v = <<"blocks", p>>
  /\ \A t \in Threads : loc[t].page = a <=> v = <<"page", t>>
  /\ \A t \in Threads : loc[t].va = a <=> v = <<"va", t>>

LEMMA Alone ==
  ASSUME NEW a, Sole(a), NEW u \in Uses(a)
  PROVE  OneUse(u, a)
<1>1. \A v : v \in Uses(a) <=> v = u
  BY DEF Sole
<1>2. QED
  BY <1>1, UseFacts, Zenon DEF OneUse

LEMMA Settled ==
  ASSUME NEW a, NEW v, v \in Uses(a)', OneUse(v, a)'
  PROVE  Sole(a)'
<1>1. ASSUME NEW w \in Uses(a)' PROVE w = v
  BY <1>1 DEF Uses, OneUse
<1>2. QED
  BY <1>1 DEF Sole

\* The same as UseFacts, after a step.
LEMMA UseFactsNext ==
  ASSUME NEW a
  PROVE  /\ <<"pool", 0>> \in Uses(a)' <=> a \in pool'
         /\ <<"gone", 0>> \in Uses(a)' <=> a \in gone'
         /\ <<"whole", 0>> \in Uses(a)' <=> a \in big'
         /\ \A r : <<"pagerefs", r>> \in Uses(a)' <=> r \in Roots /\ rootpage'[r] = a
         /\ \A p : <<"blocks", p>> \in Uses(a)' <=> p \in Listed' /\ pageref'[p].page = a
         /\ \A t : <<"page", t>> \in Uses(a)' <=> t \in Threads /\ loc'[t].page = a
         /\ \A t : <<"va", t>> \in Uses(a)' <=> t \in Threads /\ loc'[t].va = a
  BY DEF Uses

\* One page changes its use.
LEMMA Moves ==
  ASSUME Heap, NEW a \in Pages, NEW u \in Uses(a), NEW v, v \in Uses(a)',
         OneUse(u, a) => OneUse(v, a)',
         \A b \in Pages : b # a => Same(b)
  PROVE  \A b \in Pages : Sole(b)'
<1>1. Sole(a)'
  BY Alone, Settled DEF Heap
<1>2. ASSUME NEW b \in Pages, b # a PROVE Sole(b)'
  BY <1>2, Stays DEF Heap
<1>3. QED
  BY <1>1, <1>2

-----------------------------------------------------------------------------
\* A step that leaves lists, pagerefs and blocks alone.
LEMMA Untouched ==
  ASSUME Typed, Heap, UNCHANGED <<inuse, pageref, lists, used, leaked>>,
         \A t \in Threads : loc'[t].ref = loc[t].ref
  PROVE  Agreed'
<1>1. Listed' = Listed /\ allbase' = allbase /\ sizebases' = sizebases
  BY DEF Listed, lists
<1>2. Apart'
  BY DEF Heap, Agreed, Apart
<1>3. Listing'
  BY <1>1 DEF Heap, Agreed, Listing
<1>4. Owned'
  BY <1>1 DEF Heap, Agreed, Owned
<1>5. \A p \in Refs : Marked(p)'
  BY <1>1 DEF Heap, Agreed, Marked, InHand
<1>6. \A p \in Listed' : Blocks(p)'
  BY <1>1 DEF Heap, Agreed, Blocks, Size
<1>7. QED
  BY <1>2, <1>3, <1>4, <1>5, <1>6 DEF Heap, Agreed

\* Only thread t moves.
LEMMA OthersPlaced ==
  ASSUME Typed, Heap, NEW t \in Threads,
         \A u \in Threads : u # t => pc'[u] = pc[u] /\ loc'[u] = loc[u],
         Place(t)'
  PROVE  \A u \in Threads : Place(u)'
<1>1. ASSUME NEW u \in Threads, u # t PROVE Place(u)'
  BY <1>1 DEF Heap, Place
<1>2. QED
  BY <1>1

LEMMA Nothing ==
  /\ NoLoc \in Locals /\ NoLoc.page = 0 /\ NoLoc.ref = NoRef /\ NoLoc.va = 0
  /\ NoPage \in Pagerefs
  /\ NoRef \notin Refs
<1>1. (CHOOSE y \in Types : TRUE) \in Types
  BY SizeAssumption
<1>2. NPages \in Nat
  BY RoomAssumption
<1>3. <<>> \in Seq(Nat)
  OBVIOUS
<1>4. QED
  BY <1>1, <1>2, <1>3 DEF NoLoc, Locals, NoPage, Pagerefs, NoRef, Refs, Roots

\* A thread changes one of its variables.
LEMMA LocFacts ==
  ASSUME loc \in [Threads -> Locals], NEW t \in Threads, NEW a \in 0 .. NPages, NEW p \in Refs \cup {NoRef},
         \/ loc' = [loc EXCEPT ![t].page = a]
         \/ loc' = [loc EXCEPT ![t].va = a]
         \/ loc' = [loc EXCEPT ![t].ref = p]
  PROVE  /\ loc' \in [Threads -> Locals]
         /\ \A u \in Threads : u # t => loc'[u] = loc[u]
         /\ loc' = [loc EXCEPT ![t].page = a] =>
              loc'[t].page = a /\ loc'[t].ref = loc[t].ref /\ loc'[t].va = loc[t].va
         /\ loc' = [loc EXCEPT ![t].va = a] =>
              loc'[t].va = a /\ loc'[t].ref = loc[t].ref /\ loc'[t].page = loc[t].page
         /\ loc' = [loc EXCEPT ![t].ref = p] =>
              loc'[t].ref = p /\ loc'[t].va = loc[t].va /\ loc'[t].page = loc[t].page
<1>1. PICK q \in Refs \cup {NoRef} : q = p
  OBVIOUS
<1>2. QED
  BY <1>1 DEF Locals

LEMMA PageNumbers ==
  ASSUME NEW a \in Pages
  PROVE  a \in 0 .. NPages /\ a # 0
  BY RoomAssumption DEF Pages

\* What IInv says in a step, which is taken only before a panic.
LEMMA Before ==
  ASSUME IInv, NEW t \in Threads, NEW from, NEW to, Goto(t, from, to)
  PROVE  /\ Typed /\ Heap /\ ~panicked /\ pc[t] = from /\ Place(t)
         /\ pc'[t] = to /\ \A u \in Threads : u # t => pc'[u] = pc[u]
         /\ to \in Labels => pc' \in [Threads -> Labels]
  BY DEF IInv, Heap, Goto, Typed

\* alloc_kpages: the page goes from the pool into the hands of the thread.
LEMMA AllocPageKeeps ==
  ASSUME IInv, NEW t \in Threads, AllocPage(t)
  PROVE  IInv'
<1> USE DEF Labels
<1>1. CASE pool = {} /\ Return(t, "alloc_kpages") /\ UNCHANGED pool
  <2>1. /\ Goto(t, "alloc_kpages", "idle") /\ loc' = [loc EXCEPT ![t] = NoLoc]
        /\ UNCHANGED <<pool, rootpage, inuse, pageref, lists, used, big, gone, leaked, panicked>>
    BY <1>1 DEF AllocPage, Return, refs
  <2>2. /\ Typed /\ Heap /\ ~panicked /\ pc[t] = "alloc_kpages" /\ Place(t)
        /\ pc'[t] = "idle" /\ \A u \in Threads : u # t => pc'[u] = pc[u]
        /\ pc' \in [Threads -> Labels]
    BY <2>1, Before
  <2>3. loc[t].page = 0 /\ loc[t].ref = NoRef /\ loc[t].va = 0 /\ loc'[t] = NoLoc
    BY <2>1, <2>2 DEF Place, Typed
  <2>4. \A u \in Threads : loc'[u].ref = loc[u].ref /\ loc'[u].page = loc[u].page /\ loc'[u].va = loc[u].va
    BY <2>1, <2>2, <2>3, Nothing DEF Typed
  <2>5. Typed'
    BY <2>1, <2>2, Nothing DEF Typed, lists
  <2>6. Place(t)'
    BY <2>2, <2>3, Nothing DEF Place
  <2>7. \A u \in Threads : Place(u)'
    BY <2>1, <2>2, <2>6, OthersPlaced DEF Typed
  <2>8. \A a \in Pages : Sole(a)'
    BY <2>1, <2>2, <2>4, Stays DEF Heap, Same, Listed, lists
  <2>9. QED
    BY <2>1, <2>2, <2>4, <2>5, <2>7, <2>8, Untouched DEF IInv, Heap
<1>2. CASE /\ Goto(t, "alloc_kpages", "allocpageref")
           /\ \E a \in Pages : Take(a) /\ loc' = [loc EXCEPT ![t].page = a]
  <2>0. PICK a \in Pages : Take(a) /\ loc' = [loc EXCEPT ![t].page = a]
    BY <1>2, Zenon
  <2>1. /\ a \in pool /\ pool' = pool \ {a}
        /\ UNCHANGED <<rootpage, inuse, pageref, lists, used, big, gone, leaked, panicked>>
    BY <2>0 DEF AllocPage, Take, refs
  <2>2. /\ Typed /\ Heap /\ ~panicked /\ pc[t] = "alloc_kpages" /\ Place(t)
        /\ pc'[t] = "allocpageref" /\ \A u \in Threads : u # t => pc'[u] = pc[u]
        /\ pc' \in [Threads -> Labels]
    BY <1>2, Before
  <2>3. loc[t].page = 0 /\ loc[t].ref = NoRef /\ loc[t].va = 0
    BY <2>2 DEF Place
  <2>4. /\ loc'[t].page = a /\ loc'[t].ref = NoRef /\ loc'[t].va = 0
        /\ \A u \in Threads : u # t => loc'[u] = loc[u]
        /\ loc' \in [Threads -> Locals] /\ a # 0
    BY <2>0, <2>2, <2>3, LocFacts, PageNumbers, Zenon DEF Typed
  <2>5. Typed'
    BY <2>1, <2>2, <2>4 DEF Typed, lists
  <2>6. Place(t)'
    BY <2>2, <2>4 DEF Place
  <2>7. \A u \in Threads : Place(u)'
    BY <2>2, <2>4, <2>6, OthersPlaced
  <2>8. \A b \in Pages : Sole(b)'
    <3>1. <<"pool", 0>> \in Uses(a) /\ <<"page", t>> \in Uses(a)'
      BY <2>1, <2>4, UseFacts, UseFactsNext
    <3>2. OneUse(<<"pool", 0>>, a) => OneUse(<<"page", t>>, a)'
      BY <2>1, <2>4 DEF OneUse, Listed, lists
    <3>3. ASSUME NEW b \in Pages, b # a PROVE Same(b)
      BY <2>1, <2>3, <2>4, <3>3, PageNumbers DEF Same, Listed, lists
    <3>4. QED
      BY <2>2, <3>1, <3>2, <3>3, Moves
  <2>9. \A u \in Threads : loc'[u].ref = loc[u].ref
    BY <2>3, <2>4
  <2>10. QED
    BY <2>1, <2>2, <2>5, <2>7, <2>8, <2>9, Untouched DEF IInv, Heap
<1>3. QED
  BY <1>1, <1>2 DEF AllocPage

\* allocpagerefpage, with the lock dropped: a page for the pagerefs.
LEMMA AllocRefPageKeeps ==
  ASSUME IInv, NEW t \in Threads, AllocRefPage(t)
  PROVE  IInv'
<1> USE DEF Labels
<1>1. /\ Goto(t, "allocpagerefpage", "relock")
      /\ UNCHANGED <<rootpage, inuse, pageref, lists, used, big, gone, leaked, panicked>>
  BY DEF AllocRefPage, refs
<1>2. /\ Typed /\ Heap /\ ~panicked /\ pc[t] = "allocpagerefpage" /\ Place(t)
      /\ pc'[t] = "relock" /\ \A u \in Threads : u # t => pc'[u] = pc[u]
      /\ pc' \in [Threads -> Labels]
  BY <1>1, Before
<1>3. loc[t].va = 0 /\ loc[t].page # 0 /\ loc[t].ref # NoRef
  BY SMTT(30), <1>2 DEF Place
<1>4. CASE pool = {} /\ UNCHANGED <<pool, loc>>
  <2>1. Typed'
    BY <1>1, <1>2, <1>4 DEF Typed, lists
  <2>2. Place(t)'
    BY <1>2, <1>3, <1>4, Nothing DEF Place
  <2>3. \A u \in Threads : Place(u)'
    BY <1>2, <1>4, <2>2, OthersPlaced
  <2>4. \A a \in Pages : Sole(a)'
    BY <1>1, <1>2, <1>4, Stays DEF Heap, Same, Listed, lists
  <2>5. QED
    BY <1>1, <1>2, <1>4, <2>1, <2>3, <2>4, Untouched DEF IInv, Heap
<1>5. CASE \E a \in Pages : Take(a) /\ loc' = [loc EXCEPT ![t].va = a]
  <2>0. PICK a \in Pages : Take(a) /\ loc' = [loc EXCEPT ![t].va = a]
    BY <1>5, Zenon
  <2>1. a \in pool /\ pool' = pool \ {a}
    BY <2>0 DEF Take
  <2>4. /\ loc'[t].va = a /\ loc'[t].ref = loc[t].ref /\ loc'[t].page = loc[t].page
        /\ \A u \in Threads : u # t => loc'[u] = loc[u]
        /\ loc' \in [Threads -> Locals] /\ a # 0
    BY <1>2, <2>0, LocFacts, PageNumbers, ZenonT(40) DEF Typed
  <2>5. Typed'
    BY <1>1, <1>2, <2>1, <2>4 DEF Typed, lists
  <2>6. Place(t)'
    BY <1>2, <1>3, <2>4, Nothing DEF Place
  <2>7. \A u \in Threads : Place(u)'
    BY <1>2, <2>4, <2>6, OthersPlaced
  <2>8. \A b \in Pages : Sole(b)'
    <3>1. <<"pool", 0>> \in Uses(a) /\ <<"va", t>> \in Uses(a)'
      BY SMTT(30), <2>1, <2>4, UseFacts, UseFactsNext
    <3>2. OneUse(<<"pool", 0>>, a) => OneUse(<<"va", t>>, a)'
      BY SMTT(30), <1>1, <2>1, <2>4 DEF OneUse, Listed, lists
    <3>3. ASSUME NEW b \in Pages, b # a PROVE Same(b)
      BY <1>1, <1>3, <2>1, <2>4, <3>3, PageNumbers DEF Same, Listed, lists
    <3>4. QED
      BY <1>2, <3>1, <3>2, <3>3, Moves
  <2>9. \A u \in Threads : loc'[u].ref = loc[u].ref
    BY SMTT(30), <2>4
  <2>10. QED
    BY <1>1, <1>2, <2>5, <2>7, <2>8, <2>9, Untouched DEF IInv, Heap
<1>6. QED
  BY <1>4, <1>5 DEF AllocRefPage

\* A page that a thread or a caller had goes back.
LEMMA GiveBackMoves ==
  ASSUME Typed, Heap, NEW a \in Pages, GiveBack(a), NEW u \in Uses(a),
         UNCHANGED <<rootpage, pageref, lists>>,
         a \notin big', \A t \in Threads : loc'[t].page # a /\ loc'[t].va # a,
         \A b \in Pages \ {a} : b \in big' <=> b \in big,
         \A t \in Threads, b \in Pages \ {a} : (loc'[t].page = b <=> loc[t].page = b) /\ (loc'[t].va = b <=> loc[t].va = b),
         u \in {<<"whole", 0>>} \cup {<<"page", t>> : t \in Threads} \cup {<<"va", t>> : t \in Threads}
  PROVE  (\A b \in Pages : Sole(b)') /\ pool' \subseteq Pages /\ gone' \subseteq Pages
<1>1. Listed' = Listed /\ \A p : p \in Listed' /\ pageref'[p].page = a <=> p \in Listed /\ pageref[p].page = a
  BY DEF Listed, lists
<1>2. ASSUME NEW b \in Pages, b # a PROVE Same(b)
  BY <1>1, <1>2 DEF Same, GiveBack
<1>3. OneUse(u, a)
  BY Alone DEF Heap
<1>4. /\ a \notin pool /\ a \notin gone
      /\ \A r \in Roots : rootpage'[r] # a
      /\ \A p : ~(p \in Listed' /\ pageref'[p].page = a)
  BY <1>1, <1>3 DEF OneUse
<1>5. CASE gone' = gone \cup {a} /\ UNCHANGED pool
  <2>1. <<"gone", 0>> \in Uses(a)' /\ OneUse(<<"gone", 0>>, a)'
    BY <1>4, <1>5, UseFactsNext DEF OneUse
  <2>2. QED
    BY <1>2, <1>5, <2>1, Moves DEF Typed
<1>6. CASE pool' = pool \cup {a} /\ UNCHANGED gone
  <2>1. <<"pool", 0>> \in Uses(a)' /\ OneUse(<<"pool", 0>>, a)'
    BY <1>4, <1>6, UseFactsNext DEF OneUse
  <2>2. QED
    BY <1>2, <1>6, <2>1, Moves DEF Typed
<1>7. QED
  BY <1>5, <1>6 DEF GiveBack

\* allocpagerefpage frees the page it has no use for.
LEMMA FreeRefPageKeeps ==
  ASSUME IInv, NEW t \in Threads, FreeRefPage(t)
  PROVE  IInv'
<1> USE DEF Labels
<1>1. /\ Goto(t, "oops", "relock") /\ GiveBack(loc[t].va) /\ loc' = [loc EXCEPT ![t].va = 0]
      /\ UNCHANGED <<rootpage, inuse, pageref, lists, used, big, leaked, panicked>>
  BY DEF FreeRefPage, refs
<1>2. /\ Typed /\ Heap /\ ~panicked /\ pc[t] = "oops" /\ Place(t)
      /\ pc'[t] = "relock" /\ \A u \in Threads : u # t => pc'[u] = pc[u]
      /\ pc' \in [Threads -> Labels]
  BY <1>1, Before
<1>3. loc[t].va # 0 /\ loc[t].page # 0 /\ loc[t].ref # NoRef
  BY <1>2 DEF Place
<1>4. PICK a : a = loc[t].va
  OBVIOUS
<1>5. a \in Pages /\ 0 \in 0 .. NPages
  BY <1>2, <1>3, <1>4, RoomAssumption DEF Typed, Locals, Pages
<1>6. /\ loc'[t].va = 0 /\ loc'[t].ref = loc[t].ref /\ loc'[t].page = loc[t].page
      /\ \A u \in Threads : u # t => loc'[u] = loc[u]
      /\ loc' \in [Threads -> Locals]
  BY <1>1, <1>2, <1>5, LocFacts, ZenonT(40) DEF Typed
<1>7. <<"va", t>> \in Uses(a)
  BY <1>4, UseFacts
<1>8. OneUse(<<"va", t>>, a)
  BY <1>2, <1>5, <1>7, Alone DEF Heap
<1>9. (\A b \in Pages : Sole(b)') /\ pool' \subseteq Pages /\ gone' \subseteq Pages
  <2>1. a \notin big' /\ \A u \in Threads : loc'[u].page # a /\ loc'[u].va # a
    BY <1>1, <1>5, <1>6, <1>8, PageNumbers DEF OneUse
  <2>2. \A u \in Threads, b \in Pages \ {a} : (loc'[u].page = b <=> loc[u].page = b) /\ (loc'[u].va = b <=> loc[u].va = b)
    BY <1>4, <1>6, PageNumbers
  <2>3. QED
    BY <1>1, <1>2, <1>4, <1>5, <1>7, <2>1, <2>2, GiveBackMoves
<1>10. Typed'
  BY <1>1, <1>2, <1>6, <1>9 DEF Typed, lists
<1>11. Place(t)'
  BY <1>2, <1>3, <1>6, Nothing DEF Place
<1>12. \A u \in Threads : Place(u)'
  BY <1>2, <1>6, <1>11, OthersPlaced
<1>13. \A u \in Threads : loc'[u].ref = loc[u].ref
  BY <1>6
<1>14. QED
  BY <1>1, <1>2, <1>9, <1>10, <1>12, <1>13, Untouched DEF IInv, Heap

\* subpage_kmalloc or subpage_kfree frees the page it has in hand.
LEMMA FreePageKeeps ==
  ASSUME IInv, NEW t \in Threads, free_kpages(t)
  PROVE  IInv'
<1> USE DEF Labels
<1>1. /\ Goto(t, "free_kpages", "idle") /\ GiveBack(loc[t].page) /\ loc' = [loc EXCEPT ![t] = NoLoc]
      /\ UNCHANGED <<rootpage, inuse, pageref, lists, used, big, leaked, panicked>>
  BY DEF free_kpages, Return, refs
<1>2. /\ Typed /\ Heap /\ ~panicked /\ pc[t] = "free_kpages" /\ Place(t)
      /\ pc'[t] = "idle" /\ \A u \in Threads : u # t => pc'[u] = pc[u]
      /\ pc' \in [Threads -> Labels]
  BY <1>1, Before
<1>3. loc[t].va = 0 /\ loc[t].page # 0 /\ loc[t].ref = NoRef
  BY <1>2 DEF Place
<1>4. PICK a : a = loc[t].page
  OBVIOUS
<1>5. a \in Pages
  BY <1>2, <1>3, <1>4, RoomAssumption DEF Typed, Locals, Pages
<1>6. /\ loc'[t] = NoLoc /\ loc'[t].va = 0 /\ loc'[t].ref = NoRef /\ loc'[t].page = 0
      /\ \A u \in Threads : u # t => loc'[u] = loc[u]
      /\ loc' \in [Threads -> Locals]
  BY <1>1, <1>2, Nothing DEF Typed
<1>7. <<"page", t>> \in Uses(a)
  BY <1>4, UseFacts
<1>8. OneUse(<<"page", t>>, a)
  BY SMTT(30), <1>2, <1>5, <1>7, Alone DEF Heap
<1>9. (\A b \in Pages : Sole(b)') /\ pool' \subseteq Pages /\ gone' \subseteq Pages
  <2>1. a \notin big' /\ \A u \in Threads : loc'[u].page # a /\ loc'[u].va # a
    BY <1>1, <1>5, <1>6, <1>8, PageNumbers DEF OneUse
  <2>2. \A u \in Threads, b \in Pages \ {a} : (loc'[u].page = b <=> loc[u].page = b) /\ (loc'[u].va = b <=> loc[u].va = b)
    BY <1>3, <1>4, <1>6, PageNumbers
  <2>3. QED
    BY SMTT(30), <1>1, <1>2, <1>4, <1>5, <1>7, <2>1, <2>2, GiveBackMoves
<1>10. Typed'
  BY SMTT(30), <1>1, <1>2, <1>6, <1>9 DEF Typed, lists
<1>11. Place(t)'
  BY SMTT(30), <1>2, <1>6 DEF Place
<1>12. \A u \in Threads : Place(u)'
  BY <1>2, <1>6, <1>11, OthersPlaced
<1>13. \A u \in Threads : loc'[u].ref = loc[u].ref
  BY <1>3, <1>6
<1>14. QED
  BY <1>1, <1>2, <1>9, <1>10, <1>12, <1>13, Untouched DEF IInv, Heap

\* A request of a whole page.
LEMMA BigAllocKeeps ==
  ASSUME IInv, NEW t \in Threads, kmalloc(t)
  PROVE  IInv'
<1> USE DEF Labels
<1>1. /\ Goto(t, "idle", "idle")
      /\ UNCHANGED <<rootpage, inuse, pageref, lists, used, gone, loc, leaked, panicked>>
  BY DEF kmalloc, refs
<1>2. /\ Typed /\ Heap /\ ~panicked /\ pc[t] = "idle" /\ Place(t)
      /\ pc'[t] = "idle" /\ \A u \in Threads : u # t => pc'[u] = pc[u]
      /\ pc' \in [Threads -> Labels]
  BY <1>1, Before
<1>3. PICK a \in Pages : a \in pool /\ pool' = pool \ {a} /\ big' = big \cup {a}
  BY DEF kmalloc, Take
<1>4. \A b \in Pages : Sole(b)'
  <2>1. <<"pool", 0>> \in Uses(a) /\ <<"whole", 0>> \in Uses(a)'
    BY <1>3, UseFacts, UseFactsNext
  <2>2. OneUse(<<"pool", 0>>, a) => OneUse(<<"whole", 0>>, a)'
    BY SMTT(30), <1>1, <1>3 DEF OneUse, Listed, lists
  <2>3. ASSUME NEW b \in Pages, b # a PROVE Same(b)
    BY <1>1, <1>3, <2>3 DEF Same, Listed, lists
  <2>4. QED
    BY SMTT(30), <1>2, <2>1, <2>2, <2>3, Moves
<1>5. Typed'
  BY SMTT(30), <1>1, <1>2, <1>3 DEF Typed, lists
<1>6. Place(t)'
  BY <1>1, <1>2 DEF Place
<1>7. \A u \in Threads : Place(u)'
  BY <1>1, <1>2, <1>6, OthersPlaced
<1>8. QED
  BY <1>1, <1>2, <1>4, <1>5, <1>7, Untouched DEF IInv, Heap

\* Its release.
LEMMA BigFreeKeeps ==
  ASSUME IInv, NEW t \in Threads, kfree(t)
  PROVE  IInv'
<1> USE DEF Labels
<1>1. /\ Goto(t, "idle", "idle")
      /\ UNCHANGED <<rootpage, inuse, pageref, lists, used, loc, leaked, panicked>>
  BY DEF kfree, refs
<1>2. /\ Typed /\ Heap /\ ~panicked /\ pc[t] = "idle" /\ Place(t)
      /\ pc'[t] = "idle" /\ \A u \in Threads : u # t => pc'[u] = pc[u]
      /\ pc' \in [Threads -> Labels]
  BY <1>1, Before
<1>3. PICK a \in big : big' = big \ {a} /\ GiveBack(a)
  BY DEF kfree
<1>4. a \in Pages /\ big' \subseteq Pages
  BY <1>2, <1>3 DEF Typed
<1>5. <<"whole", 0>> \in Uses(a)
  BY UseFacts
<1>6. OneUse(<<"whole", 0>>, a)
  BY <1>2, <1>4, <1>5, Alone DEF Heap
<1>7. (\A b \in Pages : Sole(b)') /\ pool' \subseteq Pages /\ gone' \subseteq Pages
  <2>1. a \notin big' /\ \A u \in Threads : loc'[u].page # a /\ loc'[u].va # a
    BY <1>1, <1>3, <1>6 DEF OneUse
  <2>2. \A u \in Threads, b \in Pages \ {a} : (loc'[u].page = b <=> loc[u].page = b) /\ (loc'[u].va = b <=> loc[u].va = b)
    BY <1>1
  <2>3. QED
    BY <1>1, <1>2, <1>3, <1>4, <1>5, <2>1, <2>2, GiveBackMoves
<1>8. Typed'
  BY SMTT(30), <1>1, <1>2, <1>4, <1>7 DEF Typed, lists
<1>9. Place(t)'
  BY SMTT(30), <1>1, <1>2 DEF Place
<1>10. \A u \in Threads : Place(u)'
  BY SMTT(30), <1>1, <1>2, <1>9, OthersPlaced
<1>11. QED
  BY <1>1, <1>2, <1>7, <1>8, <1>10, Untouched DEF IInv, Heap

-----------------------------------------------------------------------------
LEMMA ListedFacts ==
  ASSUME Typed, Heap, NEW p \in Listed
  PROVE  /\ p \in Refs /\ pageref[p] \in Pagerefs /\ pageref[p].page \in Pages
         /\ pageref[p].type \in Types /\ pageref[p].free \in Seq(Nat)
         /\ Size(p) \in Nat \ {0} /\ Blocks(p)
<1>1. p \in Refs
  BY EmptyFacts DEF Typed, Listed
<1>2. pageref[p] \in Pagerefs /\ Blocks(p)
  BY <1>1 DEF Typed, Heap, Agreed
<1>3. pageref[p].page \in Pages
  BY <1>2, RoomAssumption DEF Pagerefs, Blocks, Pages
<1>4. Size(p) \in Nat \ {0}
  BY <1>2, SizeAssumption DEF Pagerefs, Size
<1>5. QED
  BY <1>1, <1>2, <1>3, <1>4 DEF Pagerefs

\* A block of page p goes from its free list to a caller or back.
LEMMA BlockMoved ==
  ASSUME Typed, Heap, NEW p \in Listed, NEW f \in Seq(Nat),
         pageref' = [pageref EXCEPT ![p].free = f],
         UNCHANGED <<pool, rootpage, inuse, lists, big, gone, loc, leaked>>,
         used' \subseteq Pages \X Nat,
         \A c \in Pages \X Nat : c[1] # pageref[p].page => (c \in used' <=> c \in used),
         Blocks(p)'
  PROVE  /\ Agreed'
         /\ \A a \in Pages : Sole(a)'
         /\ pageref' \in [Refs -> Pagerefs]
<1>1. Listed' = Listed /\ allbase' = allbase /\ sizebases' = sizebases
  BY DEF Listed, lists
<1>2. p \in Refs /\ pageref[p] \in Pagerefs /\ pageref[p].page \in Pages
  BY ListedFacts
<1>3. /\ pageref' \in [Refs -> Pagerefs]
      /\ pageref'[p].page = pageref[p].page /\ pageref'[p].type = pageref[p].type
      /\ \A q \in Refs : q # p => pageref'[q] = pageref[q]
  BY <1>2, Zenon DEF Typed, Pagerefs
<1>4. \A q \in Refs : pageref'[q].page = pageref[q].page /\ pageref'[q].type = pageref[q].type
  BY <1>3
<1>5. Listed \subseteq Refs
  BY EmptyFacts DEF Typed, Listed
<1>6. Apart'
  BY DEF Heap, Agreed, Apart
<1>7. Listing'
  BY <1>1, <1>4, <1>5 DEF Heap, Agreed, Listing
<1>8. Owned'
  <2>1. ASSUME NEW c \in used' PROVE \E q \in Listed' : pageref'[q].page = c[1]
    <3>1. CASE c[1] = pageref[p].page
      BY <1>1, <1>3, <3>1
    <3>2. CASE c[1] # pageref[p].page
      BY <1>1, <1>4, <1>5, <3>2 DEF Heap, Agreed, Owned
    <3>3. QED
      BY <3>1, <3>2
  <2>2. QED
    BY <2>1 DEF Owned
<1>9. \A q \in Refs : Marked(q)'
  BY <1>1 DEF Heap, Agreed, Marked, InHand
<1>10. ASSUME NEW q \in Listed' PROVE Blocks(q)'
  <2>1. CASE q = p
    BY <2>1
  <2>2. CASE q # p
    <3>1. pageref[q].page # pageref[p].page
      BY <1>1, <2>2, DistinctPages
    <3>2. q \in Listed /\ q \in Refs /\ pageref'[q] = pageref[q] /\ pageref[q].page \in Pages /\ Blocks(q)
      BY <1>1, <1>3, <1>5, <2>2, ListedFacts
    <3>3. \A i \in Nat : <<pageref[q].page, i>> \in used' <=> <<pageref[q].page, i>> \in used
      BY <3>1, <3>2
    <3>4. QED
      BY <3>2, <3>3 DEF Blocks, Size
  <2>3. QED
    BY <2>1, <2>2
<1>11. ASSUME NEW a \in Pages PROVE Sole(a)'
  <2>1. Same(a)
    BY <1>1, <1>4, <1>5 DEF Same
  <2>2. QED
    BY <2>1, Stays DEF Heap
<1>12. QED
  BY <1>3, <1>6, <1>7, <1>8, <1>9, <1>10, <1>11 DEF Heap, Agreed

\* doalloc on a page that has a free block.
LEMMA AllocBlock ==
  ASSUME Typed, Heap, NEW p \in Listed, pageref[p].free # <<>>, doalloc(pageref, p),
         UNCHANGED <<pool, rootpage, inuse, lists, big, gone, loc, leaked>>
  PROVE  /\ Agreed'
         /\ \A a \in Pages : Sole(a)'
         /\ pageref' \in [Refs -> Pagerefs] /\ used' \subseteq Pages \X Nat
<1>1. PICK s, a, h : s = pageref[p].free /\ a = pageref[p].page /\ h = Head(s)
  BY Zenon
<1>2. /\ p \in Refs /\ pageref[p] \in Pagerefs /\ a \in Pages /\ s \in Seq(Nat)
      /\ Size(p) \in Nat \ {0} /\ Blocks(p)
  BY SMTT(30), <1>1, ListedFacts
<1>3. IsInjective(s) /\ Range(s) \subseteq 0 .. Size(p) - 1 /\ s # <<>> /\ Divided(s, Size(p))
  BY <1>1, <1>2 DEF Blocks
<1>4. /\ h \in Nat /\ h \in Range(s) /\ Tail(s) \in Seq(Nat)
      /\ Range(s) = {h} \cup Range(Tail(s)) /\ IsInjective(Tail(s)) /\ h \notin Range(Tail(s))
  BY <1>1, <1>2, <1>3, TailFacts, Zenon
<1>5. used' = used \cup {<<a, h>>} /\ pageref' = [pageref EXCEPT ![p].free = Tail(s)]
  BY <1>1, <1>2 DEF doalloc, Typed
<1>6. /\ used' \subseteq Pages \X Nat
      /\ \A c \in Pages \X Nat : c[1] # pageref[p].page => (c \in used' <=> c \in used)
  BY <1>1, <1>2, <1>4, <1>5 DEF Typed
<1>7. pageref'[p].free = Tail(s) /\ pageref'[p].page = a /\ pageref'[p].type = pageref[p].type
  BY <1>1, <1>2, <1>5 DEF Typed, Pagerefs
<1>8. Size(p)' = Size(p)
  BY <1>7 DEF Size
<1>9. ASSUME NEW i \in Nat
      PROVE  <<a, i>> \in used' <=> i \in (0 .. Size(p) - 1) \ Range(Tail(s))
  <2>1. <<a, i>> \in used <=> i \in (0 .. Size(p) - 1) \ Range(s)
    BY <1>1, <1>2 DEF Blocks
  <2>2. <<a, i>> \in used' <=> <<a, i>> \in used \/ i = h
    BY SMTT(30), <1>5
  <2>3. QED
    BY <1>3, <1>4, <2>1, <2>2, Zenon
<1>10. Blocks(p)'
  <2>1. Range(Tail(s)) \subseteq 0 .. Size(p) - 1
    BY <1>3, <1>4, Zenon
  <2>2. a # 0
    BY <1>2, PageNumbers
  <2>3. Divided(Tail(s), Size(p))
    BY <1>2, <1>3, Taken
  <2>4. QED
    BY <1>4, <1>7, <1>8, <1>9, <2>1, <2>2, <2>3 DEF Blocks
<1>11. QED
  BY <1>4, <1>5, <1>6, <1>10, BlockMoved, Zenon

\* subpage_kmalloc, before it drops the lock.
LEMMA SubpageAllocKeeps ==
  ASSUME IInv, NEW t \in Threads, subpage_kmalloc(t)
  PROVE  IInv'
<1> USE DEF Labels
<1>0. UNCHANGED <<pool, rootpage, inuse, lists, big, gone, leaked, panicked>>
  BY DEF subpage_kmalloc
<1>1. ASSUME NEW y \in Types, NEW i \in DOMAIN sizebases[y], pageref[sizebases[y][i]].free # <<>>,
             Return(t, "idle"), doalloc(pageref, sizebases[y][i])
      PROVE  IInv'
  <2>1. Goto(t, "idle", "idle") /\ loc' = [loc EXCEPT ![t] = NoLoc]
    BY <1>1 DEF Return
  <2>2. /\ Typed /\ Heap /\ ~panicked /\ pc[t] = "idle" /\ Place(t)
        /\ pc'[t] = "idle" /\ \A u \in Threads : u # t => pc'[u] = pc[u]
        /\ pc' \in [Threads -> Labels]
    BY <2>1, Before
  <2>3. loc' = loc
    <3>1. loc \in [Threads -> Locals] /\ loc[t] = NoLoc
      BY <2>2 DEF Typed, Place
    <3>2. QED
      BY <2>1, <3>1
  <2>4. sizebases[y][i] \in Range(sizebases[y])
    BY SMTT(30), <1>1 DEF Range
  <2>5. sizebases[y][i] \in Listed
    <3>1. Range(sizebases[y]) = {p \in Listed : pageref[p].type = y}
      BY <1>1, <2>2, Zenon DEF Heap, Agreed, Listing
    <3>2. QED
      BY <2>4, <3>1, Zenon
  <2>6. /\ Agreed'
        /\ \A a \in Pages : Sole(a)'
        /\ pageref' \in [Refs -> Pagerefs] /\ used' \subseteq Pages \X Nat
    BY <1>0, <1>1, <2>2, <2>3, <2>5, AllocBlock
  <2>7. Typed'
    BY <1>0, <2>2, <2>3, <2>6 DEF Typed, lists
  <2>8. Place(t)'
    BY <2>2, <2>3 DEF Place
  <2>9. \A u \in Threads : Place(u)'
    BY <2>2, <2>3, <2>8, OthersPlaced
  <2>10. QED
    BY <1>0, <2>2, <2>6, <2>7, <2>9 DEF IInv, Heap
<1>2. ASSUME NEW y \in Types, Goto(t, "idle", "alloc_kpages"),
             loc' = [loc EXCEPT ![t] = [NoLoc EXCEPT !.type = y]], UNCHANGED <<used, pageref>>
      PROVE  IInv'
  <2>2. /\ Typed /\ Heap /\ ~panicked /\ pc[t] = "idle" /\ Place(t)
        /\ pc'[t] = "alloc_kpages" /\ \A u \in Threads : u # t => pc'[u] = pc[u]
        /\ pc' \in [Threads -> Labels]
    BY <1>2, Before
  <2>3. loc[t] = NoLoc
    BY <2>2 DEF Place
  <2>4. /\ loc'[t].page = 0 /\ loc'[t].ref = NoRef /\ loc'[t].va = 0
        /\ loc' \in [Threads -> Locals] /\ \A u \in Threads : u # t => loc'[u] = loc[u]
    BY <1>2, <2>2, Nothing, Zenon DEF Typed, Locals
  <2>5. \A u \in Threads : loc'[u].ref = loc[u].ref /\ loc'[u].page = loc[u].page /\ loc'[u].va = loc[u].va
    BY <2>3, <2>4, Nothing
  <2>6. Typed'
    BY <1>0, <1>2, <2>2, <2>4 DEF Typed, lists
  <2>7. Place(t)'
    BY <2>2, <2>4 DEF Place
  <2>8. \A u \in Threads : Place(u)'
    BY <2>2, <2>4, <2>7, OthersPlaced
  <2>9. \A a \in Pages : Sole(a)'
    BY <1>0, <1>2, <2>2, <2>5, Stays DEF Heap, Same, Listed, lists
  <2>10. QED
    BY <1>0, <1>2, <2>2, <2>5, <2>6, <2>8, <2>9, Untouched DEF IInv, Heap
<1>3. QED
  BY <1>1, <1>2 DEF subpage_kmalloc
=============================================================================
