------------------------------- MODULE Kmalloc -------------------------------
(***************************************************************************)
(* The kernel heap (kern/vm/kmalloc.c): pages cut into blocks of one size, *)
(* a pageref for each page, and the pages that hold the pagerefs.  What    *)
(* runs under kmalloc_spinlock is one step; the lock is dropped around     *)
(* alloc_kpages and free_kpages.  A page that is freed either never comes  *)
(* back (kern/arch/mips/vm/dumbvm.c) or goes back to be given out again,   *)
(* as it does in any virtual memory system that takes dumbvm's place.      *)
(***************************************************************************)
EXTENDS Naturals, Sequences, FiniteSets, Functions

CONSTANTS Threads, Types,
          BlocksPerPage,      \* PAGE_SIZE / sizes[blktype]
          NPages,             \* pages of the pool
          NPAGEREFS_PER_PAGE, NUM_PAGEREFPAGES

\* There are block sizes, and a page has room for at least one block of each.
ASSUME SizeAssumption == Types # {} /\ BlocksPerPage \in [Types -> Nat \ {0}]
ASSUME RoomAssumption == NPages \in Nat /\ NPAGEREFS_PER_PAGE \in Nat /\ NUM_PAGEREFPAGES \in Nat

VARIABLES pool,          \* pages alloc_kpages can give
          rootpage,      \* kheaproots[].page, 0 for NULL
          inuse,         \* kheaproots[].pagerefs_inuse, whose size is numinuse
          pageref,       \* page, block type and free list of each pageref
          sizebases, allbase,
          used,          \* blocks <<page, index>> the callers have
          big,           \* pages the callers have
          gone,          \* pages freed for good
          pc, loc,       \* each thread's place; its block type, page, pageref
                         \* and new pageref page
          leaked,        \* pageref bits set for nothing
          panicked

refs == <<rootpage, inuse, pageref>>
lists == <<sizebases, allbase>>
vars == <<pool, refs, lists, used, big, gone, pc, loc, leaked, panicked>>

Pages == 1 .. NPages
Roots == 1 .. NUM_PAGEREFPAGES
Refs == Roots \X (1 .. NPAGEREFS_PER_PAGE)
NoRef == <<0, 0>>
NoLoc == [type |-> CHOOSE y \in Types : TRUE, page |-> 0, ref |-> NoRef, va |-> 0]
NoPage == [page |-> 0, type |-> CHOOSE y \in Types : TRUE, free |-> <<>>]

Init ==
  /\ pool = Pages
  /\ rootpage = [r \in Roots |-> 0]
  /\ inuse = {}
  /\ pageref = [p \in Refs |-> NoPage]
  /\ sizebases = [y \in Types |-> <<>>] /\ allbase = <<>>
  /\ used = {} /\ big = {} /\ gone = {}
  /\ pc = [t \in Threads |-> "idle"] /\ loc = [t \in Threads |-> NoLoc]
  /\ leaked = {} /\ panicked = FALSE

Goto(t, from, to) == ~panicked /\ pc[t] = from /\ pc' = [pc EXCEPT ![t] = to]
Return(t, from) == Goto(t, from, "idle") /\ loc' = [loc EXCEPT ![t] = NoLoc]

\* alloc_kpages gives page a, or there is none to give.
Take(a) == a \in pool /\ (\A b \in pool : a <= b) /\ pool' = pool \ {a}

GiveBack(a) ==
  \/ gone' = gone \cup {a} /\ UNCHANGED pool
  \/ pool' = pool \cup {a} /\ UNCHANGED gone

-----------------------------------------------------------------------------
\* doalloc: take the head of the free list of a page.
doalloc(prs, p) ==
  /\ used' = used \cup {<<prs[p].page, Head(prs[p].free)>>}
  /\ pageref' = [prs EXCEPT ![p].free = Tail(@)]

\* A block from the first page of its size that has one ...
subpage_kmalloc(t) ==
  /\ \E y \in Types :
       \/ \E i \in DOMAIN sizebases[y] :
            /\ pageref[sizebases[y][i]].free # <<>>
            /\ \A j \in 1 .. i - 1 : pageref[sizebases[y][j]].free = <<>>
            /\ Return(t, "idle") /\ doalloc(pageref, sizebases[y][i])
       \/ /\ \A p \in Range(sizebases[y]) : pageref[p].free = <<>>
          /\ Goto(t, "idle", "alloc_kpages")
          /\ loc' = [loc EXCEPT ![t] = [NoLoc EXCEPT !.type = y]]
          /\ UNCHANGED <<used, pageref>>
  /\ UNCHANGED <<pool, rootpage, inuse, lists, big, gone, leaked, panicked>>

\* ... or from a new page, without the lock.
AllocPage(t) ==
  /\ \/ /\ pool = {} /\ Return(t, "alloc_kpages") /\ UNCHANGED pool
     \/ /\ Goto(t, "alloc_kpages", "allocpageref")
        /\ \E a \in Pages : Take(a) /\ loc' = [loc EXCEPT ![t].page = a]
  /\ UNCHANGED <<refs, lists, used, big, gone, leaked, panicked>>

\* The new page is set up, with its last block at the head of the free list, put
\* on both lists, and a block is taken from it.
NewPage(t, p) ==
  LET y == loc[t].type
      fresh == [page |-> loc[t].page, type |-> y,
                free |-> [i \in 1 .. BlocksPerPage[y] |-> BlocksPerPage[y] - i]]
  IN  /\ doalloc([pageref EXCEPT ![p] = fresh], p)
      /\ sizebases' = [sizebases EXCEPT ![y] = <<p>> \o @]
      /\ allbase' = <<p>> \o allbase

\* allocpageref: the first bit that is clear, in the first root that has one.
FirstClear(p) ==
  /\ p \notin inuse
  /\ \A q \in Refs \ inuse : p[1] < q[1] \/ (p[1] = q[1] /\ p[2] <= q[2])

allocpageref(t) ==
  /\ \/ /\ Refs \subseteq inuse /\ Goto(t, "allocpageref", "free_kpages")
        /\ UNCHANGED <<inuse, pageref, used, lists, loc>>
     \/ \E p \in Refs :
          /\ FirstClear(p) /\ inuse' = inuse \cup {p}
          /\ \/ /\ rootpage[p[1]] # 0
                /\ Return(t, "allocpageref") /\ NewPage(t, p)
             \/ /\ rootpage[p[1]] = 0
                /\ Goto(t, "allocpageref", "allocpagerefpage")
                /\ loc' = [loc EXCEPT ![t].ref = p]
                /\ UNCHANGED <<pageref, used, lists>>
  /\ UNCHANGED <<pool, rootpage, big, gone, leaked, panicked>>

\* allocpagerefpage: with the lock dropped, get a page for the root.
AllocRefPage(t) ==
  /\ Goto(t, "allocpagerefpage", "relock")
  /\ \/ pool = {} /\ UNCHANGED <<pool, loc>>
     \/ \E a \in Pages : Take(a) /\ loc' = [loc EXCEPT ![t].va = a]
  /\ UNCHANGED <<refs, lists, used, big, gone, leaked, panicked>>

\* Mutant: nobody looks whether the root got a page meanwhile.
allocpagerefpage_nocheck(t) ==
  LET p == loc[t].ref
  IN  /\ Return(t, "relock") /\ loc[t].va # 0
      /\ rootpage' = [rootpage EXCEPT ![p[1]] = loc[t].va]
      /\ NewPage(t, p)
      /\ UNCHANGED <<pool, inuse, big, gone, leaked, panicked>>

\* With the lock again: the page becomes the root's, unless somebody else has
\* given it one; then it is freed, with the lock dropped once more.  With no
\* page at all the bit stays set.
allocpagerefpage(t) ==
  LET p == loc[t].ref
      r == p[1]
      va == loc[t].va
  IN  /\ pc[t] = "relock"
      /\ \/ /\ rootpage[r] = 0 /\ va = 0
            /\ Goto(t, "relock", "free_kpages") /\ leaked' = leaked \cup {p}
            /\ loc' = [loc EXCEPT ![t].ref = NoRef]
            /\ UNCHANGED <<rootpage, pageref, used, lists>>
         \/ /\ rootpage[r] # 0 /\ va # 0
            /\ Goto(t, "relock", "oops")
            /\ UNCHANGED <<rootpage, pageref, used, lists, loc, leaked>>
         \/ /\ (rootpage[r] = 0) # (va = 0)
            /\ rootpage' = IF va = 0 THEN rootpage ELSE [rootpage EXCEPT ![r] = va]
            /\ Return(t, "relock") /\ NewPage(t, p)
            /\ UNCHANGED leaked
      /\ UNCHANGED <<pool, inuse, big, gone, panicked>>

FreeRefPage(t) ==
  /\ Goto(t, "oops", "relock")
  /\ GiveBack(loc[t].va) /\ loc' = [loc EXCEPT ![t].va = 0]
  /\ UNCHANGED <<refs, lists, used, big, leaked, panicked>>

-----------------------------------------------------------------------------
\* freepageref looks for p from the first root on, and asserts of a root without
\* a page that nothing in it is in use.
RefAssertion(p) == \A r \in 1 .. p[1] - 1 : rootpage[r] = 0 => \A q \in inuse : q[1] # r

\* The list s without p, which is on it.
Unlinked(s, p) ==
  LET i == CHOOSE j \in DOMAIN s : s[j] = p
  IN  SubSeq(s, 1, i - 1) \o SubSeq(s, i + 1, Len(s))

remove_lists(p) ==
  /\ sizebases' = [sizebases EXCEPT ![pageref[p].type] = Unlinked(@, p)]
  /\ allbase' = Unlinked(allbase, p)

\* With this block the whole page is free.
WholePage(p) == Len(pageref[p].free) + 1 = BlocksPerPage[pageref[p].type]

\* A block goes back to the free list of its page; a page that is all free goes
\* back, once the lock is released.
subpage_kfree(t) ==
  /\ \E b \in used : \E p \in Range(allbase) :
       /\ pageref[p].page = b[1]
       /\ used' = used \ {b}
       /\ \/ /\ WholePage(p)
             /\ Goto(t, "idle", "free_kpages")
             /\ loc' = [loc EXCEPT ![t] = [NoLoc EXCEPT !.page = b[1]]]
             /\ remove_lists(p)
             /\ IF RefAssertion(p)
                THEN inuse' = inuse \ {p} /\ pageref' = [pageref EXCEPT ![p] = NoPage] /\ UNCHANGED panicked
                ELSE panicked' = TRUE /\ UNCHANGED <<inuse, pageref>>
          \/ /\ ~WholePage(p)
             /\ Return(t, "idle")
             /\ pageref' = [pageref EXCEPT ![p].free = <<b[2]>> \o @]
             /\ UNCHANGED <<inuse, lists, panicked>>
  /\ UNCHANGED <<pool, rootpage, big, gone, leaked>>

free_kpages(t) ==
  /\ Return(t, "free_kpages")
  /\ GiveBack(loc[t].page)
  /\ UNCHANGED <<refs, lists, used, big, leaked, panicked>>

\* A request of a page or more, and its release: an address on no page of the
\* lists is taken to be one of these.
kmalloc(t) ==
  /\ Goto(t, "idle", "idle")
  /\ \E a \in Pages : Take(a) /\ big' = big \cup {a}
  /\ UNCHANGED <<refs, lists, used, gone, loc, leaked, panicked>>

kfree(t) ==
  /\ Goto(t, "idle", "idle")
  /\ \E a \in big :
       /\ \A p \in Range(allbase) : pageref[p].page # a
       /\ big' = big \ {a} /\ GiveBack(a)
  /\ UNCHANGED <<refs, lists, used, loc, leaked, panicked>>

Next ==
  \E t \in Threads :
    \/ subpage_kmalloc(t) \/ AllocPage(t) \/ allocpageref(t) \/ AllocRefPage(t) \/ allocpagerefpage(t)
    \/ FreeRefPage(t) \/ subpage_kfree(t) \/ free_kpages(t) \/ kmalloc(t) \/ kfree(t)

Spec == Init /\ [][Next]_vars

-----------------------------------------------------------------------------
Listed == Range(allbase)
InFlight == {loc[t].ref : t \in Threads} \ {NoRef}

\* Type invariant; PagesPartitioned includes it.
TypeOK ==
  /\ pool \subseteq Pages /\ big \subseteq Pages /\ rootpage \in [Roots -> 0 .. NPages]
  /\ inuse \subseteq Refs /\ Listed \subseteq Refs
  /\ \A p \in Refs : pageref[p].page \in 0 .. NPages /\ pageref[p].type \in Types
  /\ \A b \in used : b[1] \in Pages

\* What page a is for: in the pool, freed for good, given out whole, of
\* pagerefs, cut into blocks, or in the hands of a thread inside the allocator.
Uses(a) ==
  {<<"pool", 0>> : b \in pool \cap {a}}
  \cup {<<"gone", 0>> : b \in gone \cap {a}}
  \cup {<<"whole", 0>> : b \in big \cap {a}}
  \cup {<<"pagerefs", r>> : r \in {q \in Roots : rootpage[q] = a}}
  \cup {<<"blocks", p>> : p \in {q \in Listed : pageref[q].page = a}}
  \cup {<<"page", t>> : t \in {u \in Threads : loc[u].page = a}}
  \cup {<<"va", t>> : t \in {u \in Threads : loc[u].va = a}}

\* No page has two uses and none is lost, whatever happens while the lock is
\* dropped around alloc_kpages and free_kpages.
PagesPartitioned ==
  /\ TypeOK
  /\ ~panicked => \A a \in Pages : \E u \in Uses(a) : Uses(a) = {u}

\* Every block of every page on the lists is either with a caller or once on the
\* free list of its page; so a block is never handed out twice.
BlocksAccounted ==
  ~panicked =>
    /\ \A b \in used : \E p \in Listed : pageref[p].page = b[1]
    /\ \A p \in Listed :
         LET out == {b[2] : b \in {u \in used : u[1] = pageref[p].page}}
         IN  /\ IsInjective(pageref[p].free)
             /\ out \cap Range(pageref[p].free) = {}
             /\ out \cup Range(pageref[p].free) = 0 .. BlocksPerPage[pageref[p].type] - 1

\* The lists agree: each page is once on the list of all pages and once on that
\* of its size, and a pageref is marked in use exactly when its page is listed,
\* a thread is about to use it, or its root got no page.
ListsAgree ==
  ~panicked =>
    /\ IsInjective(allbase)
    /\ \A y \in Types : IsInjective(sizebases[y]) /\ Range(sizebases[y]) = {p \in Listed : pageref[p].type = y}
    /\ inuse = Listed \cup InFlight \cup leaked
    /\ leaked \cap (Listed \cup InFlight) = {} /\ Listed \cap InFlight = {}

\* The heap stays exact although subpage_kmalloc and subpage_kfree drop the lock
\* around alloc_kpages and free_kpages: every page has one use, every block one
\* owner, and the lists agree.
HeapExact == PagesPartitioned /\ BlocksAccounted /\ ListsAgree
=============================================================================
