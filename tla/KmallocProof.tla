---------------------------- MODULE KmallocProof ----------------------------
(***************************************************************************)
(* The kernel heap stays exact for any number of threads, pages, pagerefs  *)
(* and block sizes: a page is made into blocks, a pageref is found for it, *)
(* a block is freed and with the last one its page, and every other step   *)
(* is one of KmallocInvariant.                                             *)
(***************************************************************************)
EXTENDS KmallocInvariant

\* Thread t sets up the page in its hands under pageref p, and the page for the
\* pagerefs, if it has one, becomes the root's.
Opens(t, p) ==
  /\ p \notin Listed /\ p \notin leaked
  /\ \A u \in Threads : loc[u].ref = p => u = t
  /\ loc[t].ref \in {NoRef, p} /\ loc[t].page # 0
  /\ NewPage(t, p) /\ inuse' = inuse \cup {p}
  /\ pc'[t] = "idle" /\ pc' \in [Threads -> Labels]
  /\ \A u \in Threads : u # t => pc'[u] = pc[u]
  /\ loc' = [loc EXCEPT ![t] = NoLoc]
  /\ UNCHANGED <<pool, big, gone, leaked, panicked>>
  /\ \/ loc[t].va = 0 /\ rootpage' = rootpage
     \/ loc[t].va # 0 /\ rootpage[p[1]] = 0 /\ rootpage' = [rootpage EXCEPT ![p[1]] = loc[t].va]

LEMMA NewPageKeeps ==
  ASSUME IInv, Heap, NEW t \in Threads, NEW p \in Refs, Opens(t, p)
  PROVE  IInv'
<1>a. Typed /\ panicked \in BOOLEAN
  BY DEF IInv
<1>b. p \notin Listed /\ p \notin leaked /\ loc[t].page # 0
  BY DEF Opens
<1>c. loc[t].ref \in {NoRef, p} /\ \A u \in Threads : loc[u].ref = p => u = t
  BY DEF Opens
<1>d. UNCHANGED <<pool, big, gone, leaked, panicked>> /\ inuse' = inuse \cup {p}
  BY DEF Opens
<1>e. /\ pc'[t] = "idle" /\ pc' \in [Threads -> Labels]
      /\ \A u \in Threads : u # t => pc'[u] = pc[u]
  BY DEF Opens
<1>1. PICK y, a, va : y = loc[t].type /\ a = loc[t].page /\ va = loc[t].va
  OBVIOUS
<1>2. y \in Types /\ a \in Pages /\ a # 0 /\ va \in 0 .. NPages
  BY <1>a, <1>b, <1>1, RoomAssumption DEF Typed, Locals, Pages
<1>3. PICK n : n = BlocksPerPage[y]
  OBVIOUS
<1>4. n \in Nat \ {0}
  BY <1>2, <1>3, SizeAssumption
<1>5. PICK s : s = [i \in 1 .. n |-> n - i]
  BY Zenon
<1>6. /\ s \in Seq(Nat) /\ s # <<>> /\ Head(s) = n - 1
      /\ Tail(s) \in Seq(Nat) /\ IsInjective(Tail(s))
      /\ Range(Tail(s)) = (0 .. n - 1) \ {n - 1} /\ Divided(Tail(s), n)
  BY <1>4, <1>5, FreshFacts, Zenon
<1>7. PICK fresh : fresh = [page |-> a, type |-> y, free |-> s]
  BY Zenon
<1>8. /\ doalloc([pageref EXCEPT ![p] = fresh], p)
      /\ sizebases' = [sizebases EXCEPT ![y] = <<p>> \o @]
      /\ allbase' = <<p>> \o allbase
  BY <1>1, <1>3, <1>5, <1>7 DEF Opens, NewPage
<1>9. /\ used' = used \cup {<<a, n - 1>>}
      /\ pageref'[p] = [page |-> a, type |-> y, free |-> Tail(s)]
      /\ \A q \in Refs : q # p => pageref'[q] = pageref[q]
      /\ pageref' \in [Refs -> Pagerefs]
  <2>1. [pageref EXCEPT ![p] = fresh][p] = fresh
    BY <1>a DEF Typed
  <2>2. fresh.free = s /\ fresh.page = a /\ fresh.type = y
    BY <1>7
  <2>3. used' = used \cup {<<a, n - 1>>}
    BY <1>6, <1>8, <2>1, <2>2 DEF doalloc
  <2>4. pageref' = [pageref EXCEPT ![p] = [fresh EXCEPT !.free = Tail(s)]]
    BY <1>a, <1>8, <2>1, <2>2, Zenon DEF doalloc, Typed
  <2>5. [fresh EXCEPT !.free = Tail(s)] = [page |-> a, type |-> y, free |-> Tail(s)]
    <3>1. \A e : [fresh EXCEPT !.free = e] = [page |-> a, type |-> y, free |-> e]
      BY <1>7
    <3>2. QED
      BY <3>1, Zenon
  <2>6. [page |-> a, type |-> y, free |-> Tail(s)] \in Pagerefs
    BY <1>2, <1>6, PageNumbers DEF Pagerefs
  <2>7. QED
    BY <1>a, <2>3, <2>4, <2>5, <2>6 DEF Typed
<1>10. pageref'[p].page = a /\ pageref'[p].type = y /\ pageref'[p].free = Tail(s)
  BY <1>9
<1>11. Listed \subseteq Refs
  BY <1>a, EmptyFacts DEF Typed, Listed
<1>12. allbase' \in Seq(Refs) /\ Listed' = {p} \cup Listed /\ IsInjective(allbase')
  BY <1>a, <1>b, <1>8, PrependFacts DEF Typed, Heap, Agreed, Listing, Listed
<1>13. ASSUME NEW z \in Types
       PROVE  sizebases'[z] \in Seq(Refs) /\ IsInjective(sizebases'[z]) /\ Range(sizebases'[z]) = {q \in Listed' : pageref'[q].type = z}
  <2>0. \A q \in Listed : pageref'[q].type = pageref[q].type
    BY <1>b, <1>9, <1>11
  <2>1. sizebases[z] \in Seq(Refs) /\ IsInjective(sizebases[z]) /\ Range(sizebases[z]) = {q \in Listed : pageref[q].type = z}
    BY <1>a DEF Typed, Heap, Agreed, Listing
  <2>2. CASE z = y
    <3>1. sizebases'[z] = <<p>> \o sizebases[z]
      BY <1>a, <1>2, <1>8, <2>2 DEF Typed
    <3>2. p \notin Range(sizebases[z])
      BY <1>b, <2>1
    <3>3. sizebases'[z] \in Seq(Refs) /\ IsInjective(sizebases'[z]) /\ Range(sizebases'[z]) = {p} \cup Range(sizebases[z])
      BY <2>1, <3>1, <3>2, PrependFacts
    <3>4. {q \in Listed' : pageref'[q].type = z} = {p} \cup {q \in Listed : pageref[q].type = z}
      BY <1>10, <1>12, <2>0, <2>2
    <3>5. QED
      BY <2>1, <3>3, <3>4
  <2>3. CASE z # y
    <3>1. sizebases'[z] = sizebases[z]
      BY <1>a, <1>2, <1>8, <2>3 DEF Typed
    <3>2. {q \in Listed' : pageref'[q].type = z} = {q \in Listed : pageref[q].type = z}
      BY <1>10, <1>12, <2>0, <2>3
    <3>3. QED
      BY <2>1, <3>1, <3>2
  <2>4. QED
    BY <2>2, <2>3
<1>14. Listing'
  BY <1>12, <1>13 DEF Listing
<1>15. /\ loc'[t] = NoLoc /\ loc'[t].page = 0 /\ loc'[t].ref = NoRef /\ loc'[t].va = 0
       /\ \A u \in Threads : u # t => loc'[u] = loc[u]
       /\ loc' \in [Threads -> Locals]
  BY <1>a, Nothing DEF Opens, Typed
<1>16. Typed'
  <2>1. rootpage' \in [Roots -> 0 .. NPages]
    <3>1. \/ rootpage' = rootpage
          \/ rootpage' = [rootpage EXCEPT ![p[1]] = va]
      BY <1>1 DEF Opens
    <3>2. QED
      BY <1>a, <1>2, <3>1, Zenon DEF Typed
  <2>2. sizebases' \in [Types -> Seq(Refs)]
    BY <1>a, <1>8, <1>13, Zenon DEF Typed
  <2>3. used' \subseteq Pages \X Nat
    BY <1>a, <1>2, <1>4, <1>9 DEF Typed
  <2>4. inuse' \subseteq Refs
    BY <1>a, <1>d DEF Typed
  <2>5. QED
    BY <1>a, <1>d, <1>e, <1>9, <1>12, <1>15, <2>1, <2>2, <2>3, <2>4 DEF Typed
<1>17. \A u \in Threads : Place(u)'
  <2>1. Place(t)'
    BY <1>e, <1>15 DEF Place
  <2>2. QED
    BY <1>a, <1>e, <1>15, <2>1, OthersPlaced
<1>18. Apart'
  BY <1>15 DEF Heap, Agreed, Apart
<1>19. \A q \in Refs : Marked(q)'
  <2>1. ASSUME NEW q \in Refs, q # p PROVE InHand(q)' <=> InHand(q)
    BY <1>c, <1>15, <2>1, Nothing DEF InHand
  <2>2. ~InHand(p)'
    BY <1>c, <1>15, Nothing DEF InHand
  <2>3. QED
    BY <1>b, <1>d, <1>12, <2>1, <2>2, Zenon DEF Heap, Agreed, Marked
<1>20. OneUse(<<"page", t>>, a)
  BY <1>1, <1>2, Alone, UseFacts DEF Heap
<1>21. \A q \in Listed : pageref[q].page # a
  BY <1>20 DEF OneUse
<1>22. \A i : <<a, i>> \notin used
  <2>1. ASSUME NEW i, <<a, i>> \in used PROVE FALSE
    <3>1. \E q \in Listed : pageref[q].page = <<a, i>>[1]
      BY <2>1 DEF Heap, Agreed, Owned
    <3>2. QED
      BY <1>21, <3>1
  <2>2. QED
    BY <2>1
<1>23. Owned'
  <2>1. ASSUME NEW c \in used PROVE \E q \in Listed' : pageref'[q].page = c[1]
    <3>1. PICK q \in Listed : pageref[q].page = c[1]
      BY DEF Heap, Agreed, Owned
    <3>2. QED
      BY <1>b, <1>9, <1>11, <1>12, <3>1
  <2>2. QED
    BY <1>9, <1>10, <1>12, <2>1 DEF Owned
<1>24. ASSUME NEW q \in Listed' PROVE Blocks(q)'
  <2>1. CASE q = p
    <3>1. Size(p)' = n
      BY <1>3, <1>10 DEF Size
    <3>2. \A i \in Nat : <<a, i>> \in used' <=> i = n - 1
      BY <1>9, <1>22
    <3>3. \A i \in Nat : i \in (0 .. n - 1) \ Range(Tail(s)) <=> i = n - 1
      <4>1. n - 1 \in 0 .. n - 1
        BY <1>4
      <4>2. QED
        BY <1>6, <4>1, Zenon
    <3>4. Range(Tail(s)) \subseteq 0 .. n - 1
      BY <1>6
    <3>5. QED
      BY <1>2, <1>6, <1>10, <2>1, <3>1, <3>2, <3>3, <3>4, Zenon DEF Blocks
  <2>2. CASE q # p
    <3>1. q \in Listed /\ q \in Refs /\ pageref'[q] = pageref[q] /\ pageref[q].page # a /\ Blocks(q)
      BY <1>9, <1>11, <1>12, <1>21, <2>2 DEF Heap, Agreed
    <3>2. \A i \in Nat : <<pageref[q].page, i>> \in used' <=> <<pageref[q].page, i>> \in used
      BY <1>9, <3>1
    <3>3. QED
      BY <3>1, <3>2 DEF Blocks, Size
  <2>3. QED
    BY <2>1, <2>2
<1>25. ASSUME NEW b \in Pages PROVE Sole(b)'
  <2>0. \A q : q \in Listed' /\ pageref'[q].page = b <=> (q \in Listed /\ pageref[q].page = b) \/ (q = p /\ a = b)
    BY <1>b, <1>9, <1>10, <1>11, <1>12
  <2>1. CASE b = a
    <3>1. <<"blocks", p>> \in Uses(a)'
      BY <1>10, <1>12, UseFactsNext
    <3>2. \A r \in Roots : rootpage'[r] # a
      BY <1>a, <1>1, <1>20, ZenonT(40) DEF Opens, OneUse, Typed
    <3>3. OneUse(<<"blocks", p>>, a)'
      BY <1>b, <1>d, <1>2, <1>15, <1>20, <2>0, <2>1, <3>2 DEF OneUse
    <3>4. QED
      BY <2>1, <3>1, <3>3, Settled
  <2>2. CASE b # a /\ b = va
    <3>1. OneUse(<<"va", t>>, b)
      BY <1>1, <2>2, Alone, UseFacts DEF Heap
    <3>2. b # 0
      BY PageNumbers
    <3>3. PICK r : r = p[1]
      OBVIOUS
    <3>4. r \in Roots /\ rootpage' = [rootpage EXCEPT ![r] = b]
      BY <1>1, <2>2, <3>2, <3>3 DEF Refs, Opens
    <3>5. <<"pagerefs", r>> \in Uses(b)'
      BY <1>a, <3>4, UseFactsNext DEF Typed
    <3>6. OneUse(<<"pagerefs", r>>, b)'
      BY <1>a, <1>d, <1>15, <2>0, <2>2, <3>1, <3>2, <3>4, Zenon DEF OneUse, Typed
    <3>7. QED
      BY <3>5, <3>6, Settled
  <2>3. CASE b # a /\ b # va
    <3>1. b # 0
      BY PageNumbers
    <3>2. \A r \in Roots : rootpage'[r] = b <=> rootpage[r] = b
      BY <1>a, <1>1, <2>3, <3>1 DEF Opens, Typed
    <3>3. Same(b)
      BY <1>d, <1>1, <1>15, <2>0, <2>3, <3>1, <3>2 DEF Same
    <3>4. QED
      BY <3>3, Stays DEF Heap
  <2>4. QED
    BY <2>1, <2>2, <2>3
<1>26. leaked' \subseteq Refs
  BY <1>d DEF Heap, Agreed
<1>27. QED
  BY <1>a, <1>d, <1>14, <1>16, <1>17, <1>18, <1>19, <1>23, <1>24, <1>25, <1>26 DEF IInv, Heap, Agreed

\* A thread takes a pageref in hand, or gives one up as leaked.
LEMMA RefMoved ==
  ASSUME Typed, Heap, NEW t \in Threads, NEW p \in Refs,
         UNCHANGED <<pool, rootpage, pageref, lists, used, big, gone>>,
         loc' \in [Threads -> Locals],
         \A u \in Threads : u # t => loc'[u] = loc[u],
         loc'[t].page = loc[t].page, loc'[t].va = loc[t].va,
         \/ /\ p \notin inuse /\ inuse' = inuse \cup {p} /\ leaked' = leaked
            /\ loc[t].ref = NoRef /\ loc'[t].ref = p
         \/ /\ inuse' = inuse /\ leaked' = leaked \cup {p}
            /\ loc[t].ref = p /\ loc'[t].ref = NoRef
  PROVE  /\ Agreed' /\ inuse' \subseteq Refs
         /\ \A a \in Pages : Sole(a)'
<1>1. Listed' = Listed /\ allbase' = allbase /\ sizebases' = sizebases
  BY DEF Listed, lists
<1>2. Marked(p) /\ leaked \subseteq Refs /\ inuse \subseteq Refs
  BY DEF Heap, Agreed, Typed
<1>3. Apart'
  BY <1>2, Nothing DEF Heap, Agreed, Apart, Marked, InHand
<1>4. Listing'
  BY <1>1, Zenon DEF Heap, Agreed, Listing
<1>5. Owned'
  BY <1>1, Zenon DEF Heap, Agreed, Owned
<1>6. ASSUME NEW q \in Refs PROVE Marked(q)'
  <2>1. CASE q # p
    <3>1. InHand(q)' <=> InHand(q)
      BY <2>1, Nothing DEF InHand
    <3>2. QED
      BY <1>1, <2>1, <3>1 DEF Heap, Agreed, Marked
  <2>2. CASE q = p /\ loc'[t].ref = p
    BY <1>1, <1>2, <2>2, Nothing DEF Marked, InHand
  <2>3. CASE q = p /\ loc[t].ref = p /\ loc'[t].ref = NoRef
    <3>1. ~InHand(p)'
      BY <2>3, Nothing DEF InHand, Heap, Agreed, Apart
    <3>2. InHand(p)
      BY SMTT(30), <2>3 DEF InHand
    <3>3. QED
      BY SMTT(30), <1>1, <1>2, <2>3, <3>1, <3>2, Nothing DEF Marked
  <2>4. QED
    BY <2>1, <2>2, <2>3
<1>7. \A q \in Listed' : Blocks(q)'
  BY <1>1 DEF Heap, Agreed, Blocks, Size
<1>8. \A a \in Pages : Sole(a)'
  <2>1. \A u \in Threads : loc'[u].page = loc[u].page /\ loc'[u].va = loc[u].va
    OBVIOUS
  <2>2. QED
    BY <1>1, <2>1, Stays DEF Heap, Same
<1>9. QED
  BY <1>2, <1>3, <1>4, <1>5, <1>6, <1>7, <1>8 DEF Agreed

\* allocpageref.
LEMMA AllocRefKeeps ==
  ASSUME IInv, NEW t \in Threads, allocpageref(t)
  PROVE  IInv'
<1> USE DEF Labels
<1>0. UNCHANGED <<pool, rootpage, big, gone, leaked, panicked>>
  BY DEF allocpageref
<1>1. CASE Goto(t, "allocpageref", "free_kpages") /\ UNCHANGED <<inuse, pageref, used, lists, loc>>
  <2>1. /\ Typed /\ Heap /\ ~panicked /\ pc[t] = "allocpageref" /\ Place(t)
        /\ pc'[t] = "free_kpages" /\ \A u \in Threads : u # t => pc'[u] = pc[u]
        /\ pc' \in [Threads -> Labels]
    BY <1>1, Before
  <2>2. Typed'
    BY <1>0, <1>1, <2>1 DEF Typed, lists
  <2>3. Place(t)'
    BY <1>1, <2>1, Nothing DEF Place
  <2>4. \A u \in Threads : Place(u)'
    BY <1>1, <2>1, <2>3, OthersPlaced
  <2>5. \A a \in Pages : Sole(a)'
    BY <1>0, <1>1, <2>1, Stays, Zenon DEF Heap, Same, Listed, lists
  <2>6. QED
    BY <1>0, <1>1, <2>1, <2>2, <2>4, <2>5, Untouched, Zenon DEF IInv, Heap
<1>2. ASSUME NEW p \in Refs, FirstClear(p), inuse' = inuse \cup {p},
             Return(t, "allocpageref"), NewPage(t, p)
      PROVE  IInv'
  <2>1. Goto(t, "allocpageref", "idle") /\ loc' = [loc EXCEPT ![t] = NoLoc]
    BY <1>2 DEF Return
  <2>2. /\ Typed /\ Heap /\ ~panicked /\ pc[t] = "allocpageref" /\ Place(t)
        /\ pc'[t] = "idle" /\ \A u \in Threads : u # t => pc'[u] = pc[u]
        /\ pc' \in [Threads -> Labels]
    BY <2>1, Before
  <2>3. loc[t].page # 0 /\ loc[t].ref = NoRef /\ loc[t].va = 0
    BY <2>2, Nothing, Zenon DEF Place
  <2>4. p \notin Listed /\ p \notin leaked /\ \A u \in Threads : loc[u].ref # p
    BY <1>2, <2>2, Zenon DEF FirstClear, Heap, Agreed, Marked, InHand
  <2>5. Opens(t, p)
    BY <1>0, <1>2, <2>1, <2>2, <2>3, <2>4 DEF Opens
  <2>6. QED
    BY <1>2, <2>2, <2>5, NewPageKeeps
<1>3. ASSUME NEW p \in Refs, FirstClear(p), inuse' = inuse \cup {p},
             Goto(t, "allocpageref", "allocpagerefpage"), loc' = [loc EXCEPT ![t].ref = p],
             UNCHANGED <<pageref, used, lists>>
      PROVE  IInv'
  <2>1. /\ Typed /\ Heap /\ ~panicked /\ pc[t] = "allocpageref" /\ Place(t)
        /\ pc'[t] = "allocpagerefpage" /\ \A u \in Threads : u # t => pc'[u] = pc[u]
        /\ pc' \in [Threads -> Labels]
    BY <1>3, Before
  <2>2. loc[t].page # 0 /\ loc[t].ref = NoRef /\ loc[t].va = 0
    BY <2>1, Nothing, Zenon DEF Place
  <2>3. 0 \in 0 .. NPages /\ p \notin inuse
    BY <1>3, RoomAssumption DEF FirstClear
  <2>4. /\ loc'[t].ref = p /\ loc'[t].va = loc[t].va /\ loc'[t].page = loc[t].page
        /\ \A u \in Threads : u # t => loc'[u] = loc[u]
        /\ loc' \in [Threads -> Locals]
    BY <1>3, <2>1, <2>3, LocFacts, ZenonT(40) DEF Typed
  <2>5. /\ Agreed' /\ inuse' \subseteq Refs
        /\ \A a \in Pages : Sole(a)'
    BY <1>0, <1>3, <2>1, <2>2, <2>3, <2>4, RefMoved
  <2>6. Typed'
    BY <1>0, <1>3, <2>1, <2>4, <2>5 DEF Typed, lists
  <2>7. Place(t)'
    BY <2>1, <2>2, <2>4, Nothing DEF Place
  <2>8. \A u \in Threads : Place(u)'
    BY <2>1, <2>4, <2>7, OthersPlaced
  <2>9. QED
    BY <1>0, <2>1, <2>5, <2>6, <2>8 DEF IInv, Heap
<1>4. QED
  BY <1>1, <1>2, <1>3 DEF allocpageref

\* allocpagerefpage, with the lock again.
LEMMA RelockKeeps ==
  ASSUME IInv, NEW t \in Threads, allocpagerefpage(t)
  PROVE  IInv'
<1> USE DEF Labels
<1>0. UNCHANGED <<pool, inuse, big, gone, panicked>> /\ pc[t] = "relock"
  BY DEF allocpagerefpage
<1>1. PICK p, va : p = loc[t].ref /\ va = loc[t].va
  OBVIOUS
<1>2. ASSUME Goto(t, "relock", "free_kpages"), leaked' = leaked \cup {p}, va = 0,
             loc' = [loc EXCEPT ![t].ref = NoRef], UNCHANGED <<rootpage, pageref, used, lists>>
      PROVE  IInv'
  <2>1. /\ Typed /\ Heap /\ ~panicked /\ pc[t] = "relock" /\ Place(t)
        /\ pc'[t] = "free_kpages" /\ \A u \in Threads : u # t => pc'[u] = pc[u]
        /\ pc' \in [Threads -> Labels]
    BY <1>2, Before
  <2>2. loc[t].page # 0 /\ p # NoRef /\ p \in Refs
    BY <1>1, <2>1 DEF Place, Typed, Locals
  <2>3. 0 \in 0 .. NPages /\ NoRef \in Refs \cup {NoRef}
    BY RoomAssumption
  <2>4. /\ loc'[t].ref = NoRef /\ loc'[t].va = loc[t].va /\ loc'[t].page = loc[t].page
        /\ \A u \in Threads : u # t => loc'[u] = loc[u]
        /\ loc' \in [Threads -> Locals]
    BY <1>2, <2>1, <2>3, LocFacts, ZenonT(40) DEF Typed
  <2>5. /\ Agreed' /\ inuse' \subseteq Refs
        /\ \A a \in Pages : Sole(a)'
    BY <1>0, <1>1, <1>2, <2>1, <2>2, <2>4, RefMoved
  <2>6. Typed'
    BY <1>0, <1>2, <2>1, <2>4 DEF Typed, lists
  <2>7. Place(t)'
    BY <1>1, <1>2, <2>1, <2>2, <2>4 DEF Place
  <2>8. \A u \in Threads : Place(u)'
    BY <2>1, <2>4, <2>7, OthersPlaced, Zenon
  <2>9. QED
    BY <1>0, <2>1, <2>5, <2>6, <2>8 DEF IInv, Heap
<1>3. ASSUME Goto(t, "relock", "oops"), va # 0, UNCHANGED <<rootpage, pageref, used, lists, loc, leaked>>
      PROVE  IInv'
  <2>1. /\ Typed /\ Heap /\ ~panicked /\ pc[t] = "relock" /\ Place(t)
        /\ pc'[t] = "oops" /\ \A u \in Threads : u # t => pc'[u] = pc[u]
        /\ pc' \in [Threads -> Labels]
    BY <1>3, Before
  <2>2. Typed'
    BY <1>0, <1>3, <2>1 DEF Typed, lists
  <2>3. Place(t)'
    BY SMTT(30), <1>1, <1>3, <2>1 DEF Place
  <2>4. \A u \in Threads : Place(u)'
    BY <1>3, <2>1, <2>3, OthersPlaced
  <2>5. \A a \in Pages : Sole(a)'
    BY SMTT(30), <1>0, <1>3, <2>1, Stays DEF Heap, Same, Listed, lists
  <2>6. QED
    BY <1>0, <1>3, <2>1, <2>2, <2>4, <2>5, Untouched DEF IInv, Heap
<1>4. ASSUME (rootpage[p[1]] = 0) # (va = 0),
             rootpage' = IF va = 0 THEN rootpage ELSE [rootpage EXCEPT ![p[1]] = va],
             Return(t, "relock"), NewPage(t, p), UNCHANGED leaked
      PROVE  IInv'
  <2>1. Goto(t, "relock", "idle") /\ loc' = [loc EXCEPT ![t] = NoLoc]
    BY <1>4 DEF Return
  <2>2. /\ Typed /\ Heap /\ ~panicked /\ pc[t] = "relock" /\ Place(t)
        /\ pc'[t] = "idle" /\ \A u \in Threads : u # t => pc'[u] = pc[u]
        /\ pc' \in [Threads -> Labels]
    BY <2>1, Before
  <2>3. loc[t].page # 0 /\ p # NoRef /\ p \in Refs
    BY <1>1, <2>2 DEF Place, Typed, Locals
  <2>4. InHand(p) /\ \A u \in Threads : loc[u].ref = p => u = t
    BY <1>1, <2>2, <2>3, Zenon DEF InHand, Heap, Agreed, Apart
  <2>5. p \notin Listed /\ p \notin leaked /\ inuse' = inuse \cup {p}
    BY <1>0, <2>2, <2>3, <2>4, Zenon DEF Heap, Agreed, Marked
  <2>6. \/ va = 0 /\ rootpage' = rootpage
        \/ va # 0 /\ rootpage[p[1]] = 0 /\ rootpage' = [rootpage EXCEPT ![p[1]] = va]
    BY <1>4
  <2>7. Opens(t, p)
    BY <1>0, <1>1, <1>4, <2>1, <2>2, <2>3, <2>4, <2>5, <2>6, Zenon DEF Opens
  <2>8. QED
    BY <2>2, <2>3, <2>7, NewPageKeeps
<1>5. QED
  BY <1>1, <1>2, <1>3, <1>4 DEF allocpagerefpage

\* subpage_kfree of a block whose page stays.
LEMMA FreeBlock ==
  ASSUME Typed, Heap, NEW b \in used, NEW p \in Listed, pageref[p].page = b[1],
         used' = used \ {b}, pageref' = [pageref EXCEPT ![p].free = <<b[2]>> \o @],
         UNCHANGED <<pool, rootpage, inuse, lists, big, gone, loc, leaked>>
  PROVE  /\ Agreed'
         /\ \A a \in Pages : Sole(a)'
         /\ pageref' \in [Refs -> Pagerefs] /\ used' \subseteq Pages \X Nat
<1>1. PICK s, a, h : s = pageref[p].free /\ a = pageref[p].page /\ h = b[2]
  OBVIOUS
<1>2. /\ p \in Refs /\ pageref[p] \in Pagerefs /\ a \in Pages /\ s \in Seq(Nat)
      /\ Size(p) \in Nat \ {0} /\ Blocks(p)
  BY <1>1, ListedFacts
<1>3. b = <<a, h>> /\ h \in Nat
  BY <1>1 DEF Typed
<1>4. /\ IsInjective(s) /\ Range(s) \subseteq 0 .. Size(p) - 1
      /\ h \in (0 .. Size(p) - 1) \ Range(s) /\ Divided(s, Size(p))
  BY <1>1, <1>2, <1>3 DEF Blocks
<1>5. PICK f : f = <<h>> \o s
  BY Zenon
<1>6. f \in Seq(Nat) /\ Range(f) = {h} \cup Range(s) /\ IsInjective(f)
  BY <1>2, <1>3, <1>4, <1>5, PrependFacts
<1>7. used' = used \ {<<a, h>>} /\ pageref' = [pageref EXCEPT ![p].free = f]
  BY <1>1, <1>2, <1>3, <1>5 DEF Typed
<1>8. /\ used' \subseteq Pages \X Nat
      /\ \A c \in Pages \X Nat : c[1] # pageref[p].page => (c \in used' <=> c \in used)
  BY <1>1, <1>7 DEF Typed
<1>9. pageref'[p].free = f /\ pageref'[p].page = a /\ pageref'[p].type = pageref[p].type
  BY <1>1, <1>2, <1>7 DEF Typed, Pagerefs
<1>10. Size(p)' = Size(p)
  BY <1>9 DEF Size
<1>11. ASSUME NEW i \in Nat
       PROVE  <<a, i>> \in used' <=> i \in (0 .. Size(p) - 1) \ Range(f)
  <2>1. <<a, i>> \in used <=> i \in (0 .. Size(p) - 1) \ Range(s)
    BY <1>1, <1>2 DEF Blocks
  <2>2. <<a, i>> \in used' <=> <<a, i>> \in used /\ i # h
    BY <1>7
  <2>3. QED
    BY <1>6, <2>1, <2>2, Zenon
<1>12. Blocks(p)'
  <2>1. Range(f) \subseteq 0 .. Size(p) - 1
    BY <1>4, <1>6, Zenon
  <2>2. a # 0
    BY <1>2, PageNumbers
  <2>3. Divided(f, Size(p))
    BY <1>2, <1>4, <1>5, PutBack
  <2>4. QED
    BY <1>6, <1>9, <1>10, <1>11, <2>1, <2>2, <2>3, Zenon DEF Blocks
<1>13. QED
  BY <1>6, <1>7, <1>8, <1>12, BlockMoved, Zenon

\* subpage_kfree takes a page off the lists, whether freepageref then panics or not.
LEMMA Removed ==
  ASSUME Typed, Heap, NEW p \in Listed, remove_lists(p)
  PROVE  /\ allbase' \in Seq(Refs) /\ Range(allbase') = Listed \ {p} /\ IsInjective(allbase')
         /\ sizebases' \in [Types -> Seq(Refs)]
         /\ \A z \in Types : /\ IsInjective(sizebases'[z])
                             /\ Range(sizebases'[z]) = {q \in Listed \ {p} : pageref[q].type = z}
<1>1. allbase' \in Seq(Refs) /\ Range(allbase') = Listed \ {p} /\ IsInjective(allbase')
  BY UnlinkedFacts DEF remove_lists, Typed, Heap, Agreed, Listing, Listed
<1>2. PICK y : y = pageref[p].type
  OBVIOUS
<1>3. y \in Types
  BY <1>2, ListedFacts
<1>4. sizebases' = [sizebases EXCEPT ![y] = Unlinked(@, p)]
  BY <1>2 DEF remove_lists
<1>5. ASSUME NEW z \in Types
      PROVE  /\ sizebases'[z] \in Seq(Refs) /\ IsInjective(sizebases'[z])
             /\ Range(sizebases'[z]) = {q \in Listed \ {p} : pageref[q].type = z}
  <2>1. sizebases[z] \in Seq(Refs) /\ IsInjective(sizebases[z]) /\ Range(sizebases[z]) = {q \in Listed : pageref[q].type = z}
    BY DEF Typed, Heap, Agreed, Listing
  <2>2. CASE z = y
    <3>1. sizebases'[z] = Unlinked(sizebases[z], p)
      BY SMTT(30), <1>3, <1>4, <2>2 DEF Typed
    <3>2. p \in Range(sizebases[z])
      BY SMTT(30), <1>2, <2>1, <2>2
    <3>3. sizebases'[z] \in Seq(Refs) /\ IsInjective(sizebases'[z]) /\ Range(sizebases'[z]) = Range(sizebases[z]) \ {p}
      BY <2>1, <3>1, <3>2, UnlinkedFacts
    <3>4. QED
      BY <2>1, <3>3
  <2>3. CASE z # y
    <3>1. sizebases'[z] = sizebases[z]
      BY <1>3, <1>4, <2>3 DEF Typed
    <3>2. QED
      BY <1>2, <2>1, <2>3, <3>1
  <2>4. QED
    BY <2>2, <2>3
<1>6. sizebases' \in [Types -> Seq(Refs)]
  BY <1>4, <1>5, Zenon DEF Typed
<1>7. QED
  BY <1>1, <1>5, <1>6

\* The last block of a page comes back: the page and its pageref are free.
LEMMA FreeWholePage ==
  ASSUME Typed, Heap, NEW t \in Threads, loc[t] = NoLoc,
         NEW b \in used, NEW p \in Listed, pageref[p].page = b[1], WholePage(p),
         used' = used \ {b}, loc' = [loc EXCEPT ![t] = [NoLoc EXCEPT !.page = b[1]]],
         remove_lists(p), inuse' = inuse \ {p}, pageref' = [pageref EXCEPT ![p] = NoPage],
         UNCHANGED <<pool, rootpage, big, gone, leaked>>
  PROVE  /\ Agreed'
         /\ \A a \in Pages : Sole(a)'
<1>1. PICK s, a, h : s = pageref[p].free /\ a = pageref[p].page /\ h = b[2]
  OBVIOUS
<1>2. /\ p \in Refs /\ pageref[p] \in Pagerefs /\ a \in Pages /\ s \in Seq(Nat) /\ a # 0
      /\ Size(p) \in Nat \ {0} /\ Blocks(p)
  BY <1>1, ListedFacts, PageNumbers
<1>3. b = <<a, h>> /\ h \in Nat
  BY <1>1 DEF Typed
<1>4. /\ IsInjective(s) /\ Range(s) \subseteq 0 .. Size(p) - 1
      /\ h \in (0 .. Size(p) - 1) \ Range(s) /\ Divided(s, Size(p))
  BY <1>1, <1>2, <1>3 DEF Blocks
<1>5. Len(s) + 1 = Size(p)
  BY <1>1 DEF WholePage, Size
<1>6. ASSUME NEW c \in used' PROVE c \in used /\ c \in Pages \X Nat /\ c[1] # a
  <2>1. c \in used /\ c \in Pages \X Nat /\ c # b
    BY DEF Typed
  <2>2. ASSUME c[1] = a PROVE FALSE
    <3>1. c = <<a, c[2]>> /\ c[2] \in Nat
      BY <2>1, <2>2
    <3>2. c[2] \in (0 .. Size(p) - 1) \ Range(s)
      BY <1>1, <1>2, <2>1, <3>1 DEF Blocks
    <3>3. c[2] = h
      BY <1>2, <1>4, <1>5, <3>2, LastBlock
    <3>4. QED
      BY <1>3, <2>1, <3>1, <3>3
  <2>3. QED
    BY <2>1, <2>2
<1>7. Listed \subseteq Refs
  BY EmptyFacts DEF Typed, Listed
<1>8. /\ Listed' = Listed \ {p} /\ IsInjective(allbase')
      /\ \A z \in Types : /\ IsInjective(sizebases'[z])
                          /\ Range(sizebases'[z]) = {q \in Listed \ {p} : pageref[q].type = z}
  BY Removed DEF Listed
<1>9. \A q \in Listed' : q \in Listed /\ q # p /\ q \in Refs /\ pageref'[q] = pageref[q]
  BY <1>7, <1>8 DEF Typed
<1>10. /\ loc'[t].page = a /\ loc'[t].ref = NoRef /\ loc'[t].va = 0
       /\ \A u \in Threads : u # t => loc'[u] = loc[u]
  BY <1>1, Nothing DEF Typed, Locals
<1>11. Apart'
  BY <1>10 DEF Heap, Agreed, Apart
<1>12. Listing'
  <2>1. \A z \in Types : {q \in Listed \ {p} : pageref[q].type = z} = {q \in Listed' : pageref'[q].type = z}
    BY <1>8, <1>9
  <2>2. QED
    BY <1>8, <2>1 DEF Listing
<1>13. Owned'
  <2>1. ASSUME NEW c \in used' PROVE \E q \in Listed' : pageref'[q].page = c[1]
    <3>1. PICK q \in Listed : pageref[q].page = c[1]
      BY <1>6 DEF Heap, Agreed, Owned
    <3>2. q # p
      BY <1>1, <1>6, <3>1
    <3>3. QED
      BY <1>8, <1>9, <3>1, <3>2
  <2>2. QED
    BY <2>1 DEF Owned
<1>14. \A q \in Refs : Marked(q)'
  <2>1. \A q \in Refs : InHand(q)' <=> InHand(q)
    BY <1>10, Nothing DEF InHand
  <2>2. QED
    BY <1>8, <2>1 DEF Heap, Agreed, Marked
<1>15. ASSUME NEW q \in Listed' PROVE Blocks(q)'
  <2>1. q \in Listed /\ q # p /\ pageref'[q] = pageref[q] /\ Blocks(q)
    BY <1>9 DEF Heap, Agreed
  <2>2. pageref[q].page # a
    BY <1>1, <2>1, DistinctPages
  <2>3. \A i \in Nat : <<pageref[q].page, i>> \in used' <=> <<pageref[q].page, i>> \in used
    BY <1>3, <2>2
  <2>4. QED
    BY <2>1, <2>3 DEF Blocks, Size
<1>16. \A c \in Pages : Sole(c)'
  <2>1. <<"blocks", p>> \in Uses(a) /\ <<"page", t>> \in Uses(a)'
    BY <1>1, <1>10, UseFacts, UseFactsNext
  <2>2. OneUse(<<"blocks", p>>, a) => OneUse(<<"page", t>>, a)'
    BY <1>2, <1>8, <1>9, <1>10 DEF OneUse
  <2>3. ASSUME NEW c \in Pages, c # a PROVE Same(c)
    <3>1. c # 0
      BY PageNumbers
    <3>2. \A q : q \in Listed' /\ pageref'[q].page = c <=> q \in Listed /\ pageref[q].page = c
      BY <1>1, <1>8, <1>9, <2>3
    <3>3. QED
      BY <1>10, <2>3, <3>1, <3>2, Nothing DEF Same
  <2>4. QED
    BY SMTT(30), <1>2, <2>1, <2>2, <2>3, Moves
<1>17. QED
  BY <1>11, <1>12, <1>13, <1>14, <1>15, <1>16 DEF Heap, Agreed

\* subpage_kfree.
LEMMA SubpageFreeKeeps ==
  ASSUME IInv, NEW t \in Threads, subpage_kfree(t)
  PROVE  IInv'
<1> USE DEF Labels
<1>0. UNCHANGED <<pool, rootpage, big, gone, leaked>>
  BY DEF subpage_kfree
<1>2. PICK b \in used, p \in Listed :
        /\ pageref[p].page = b[1]
        /\ used' = used \ {b}
        /\ \/ /\ WholePage(p)
              /\ Goto(t, "idle", "free_kpages")
              /\ loc' = [loc EXCEPT ![t] = [NoLoc EXCEPT !.page = b[1]]]
              /\ remove_lists(p)
              /\ IF RefAssertion(p)
                 THEN inuse' = inuse \ {p} /\ pageref' = [pageref EXCEPT ![p] = NoPage] /\ UNCHANGED panicked
                 ELSE panicked' = TRUE /\ UNCHANGED <<inuse, pageref>>
           \/ /\ ~WholePage(p)
              /\ Return(t, "idle")
              /\ pageref' = [pageref EXCEPT ![p].free = <<b[2]>> \o @]
              /\ UNCHANGED <<inuse, lists, panicked>>
  BY Zenon DEF subpage_kfree, Listed
<1>3. CASE WholePage(p)
  <2>1. /\ Goto(t, "idle", "free_kpages") /\ remove_lists(p)
        /\ loc' = [loc EXCEPT ![t] = [NoLoc EXCEPT !.page = b[1]]]
        /\ IF RefAssertion(p)
           THEN inuse' = inuse \ {p} /\ pageref' = [pageref EXCEPT ![p] = NoPage] /\ UNCHANGED panicked
           ELSE panicked' = TRUE /\ UNCHANGED <<inuse, pageref>>
    BY <1>2, <1>3
  <2>2. /\ Typed /\ Heap /\ ~panicked /\ pc[t] = "idle" /\ Place(t)
        /\ pc'[t] = "free_kpages" /\ \A u \in Threads : u # t => pc'[u] = pc[u]
        /\ pc' \in [Threads -> Labels]
    BY <2>1, Before
  <2>3. loc[t] = NoLoc
    BY <2>2 DEF Place
  <2>4. b[1] \in Pages /\ b[1] # 0 /\ b[1] \in 0 .. NPages
    BY <1>2, <2>2, ListedFacts, PageNumbers
  <2>5. /\ loc'[t].page = b[1] /\ loc'[t].ref = NoRef /\ loc'[t].va = 0
        /\ \A u \in Threads : u # t => loc'[u] = loc[u]
        /\ loc' \in [Threads -> Locals]
    BY <2>1, <2>2, <2>4, Nothing, Zenon DEF Typed, Locals
  <2>6. allbase' \in Seq(Refs) /\ sizebases' \in [Types -> Seq(Refs)]
    BY <2>1, <2>2, Removed
  <2>7. used' \subseteq Pages \X Nat
    BY <1>2, <2>2 DEF Typed
  <2>8. CASE RefAssertion(p)
    <3>1. inuse' = inuse \ {p} /\ pageref' = [pageref EXCEPT ![p] = NoPage] /\ UNCHANGED panicked
      BY SMTT(30), <2>1, <2>8
    <3>2. Typed'
      <4>1. pageref' \in [Refs -> Pagerefs]
        BY <2>2, <3>1, Nothing, Zenon DEF Typed
      <4>2. QED
        BY SMTT(30), <1>0, <2>2, <2>5, <2>6, <2>7, <3>1, <4>1 DEF Typed
    <3>3. Place(t)'
      BY <2>2, <2>4, <2>5 DEF Place
    <3>4. \A u \in Threads : Place(u)'
      BY <2>2, <2>5, <3>3, OthersPlaced, Zenon
    <3>5. /\ Agreed'
          /\ \A a \in Pages : Sole(a)'
      BY <1>0, <1>2, <1>3, <2>1, <2>2, <2>3, <3>1, FreeWholePage, Zenon
    <3>6. QED
      BY <2>2, <3>1, <3>2, <3>4, <3>5 DEF IInv, Heap
  <2>9. CASE ~RefAssertion(p)
    <3>1. panicked' = TRUE /\ UNCHANGED <<inuse, pageref>>
      BY <2>1, <2>9
    <3>2. Typed'
      BY SMTT(30), <1>0, <2>2, <2>5, <2>6, <2>7, <3>1 DEF Typed
    <3>3. QED
      BY <3>1, <3>2 DEF IInv
  <2>10. QED
    BY <2>8, <2>9
<1>4. CASE ~WholePage(p)
  <2>1. /\ Goto(t, "idle", "idle") /\ loc' = [loc EXCEPT ![t] = NoLoc]
        /\ pageref' = [pageref EXCEPT ![p].free = <<b[2]>> \o @]
        /\ UNCHANGED <<inuse, lists, panicked>>
    BY <1>2, <1>4 DEF Return
  <2>2. /\ Typed /\ Heap /\ ~panicked /\ pc[t] = "idle" /\ Place(t)
        /\ pc'[t] = "idle" /\ \A u \in Threads : u # t => pc'[u] = pc[u]
        /\ pc' \in [Threads -> Labels]
    BY <2>1, Before
  <2>3. loc' = loc
    BY <2>1, <2>2 DEF Typed, Place
  <2>4. /\ Agreed'
        /\ \A a \in Pages : Sole(a)'
        /\ pageref' \in [Refs -> Pagerefs] /\ used' \subseteq Pages \X Nat
    BY <1>0, <1>2, <2>1, <2>2, <2>3, FreeBlock, Zenon
  <2>5. Typed'
    BY SMTT(30), <1>0, <2>1, <2>2, <2>3, <2>4 DEF Typed, lists
  <2>6. Place(t)'
    BY <2>2, <2>3 DEF Place
  <2>7. \A u \in Threads : Place(u)'
    BY <2>2, <2>3, <2>6, OthersPlaced, Zenon
  <2>8. QED
    BY SMTT(30), <2>1, <2>2, <2>4, <2>5, <2>7 DEF IInv, Heap
<1>5. QED
  BY <1>3, <1>4

-----------------------------------------------------------------------------
\* At boot all pages are in the pool.
LEMMA InitHolds ==
  ASSUME Init
  PROVE  IInv
<1>1. Listed = {} /\ allbase \in Seq(Refs) /\ IsInjective(allbase)
  <2>1. allbase = <<>> /\ <<>> \in Seq(Refs)
    BY DEF Init
  <2>2. QED
    BY <2>1, EmptyFacts, Zenon DEF Listed
<1>2. sizebases \in [Types -> Seq(Refs)] /\ \A y \in Types : IsInjective(sizebases[y]) /\ Range(sizebases[y]) = {}
  <2>1. \A y \in Types : sizebases[y] = <<>>
    BY DEF Init
  <2>2. <<>> \in Seq(Refs)
    OBVIOUS
  <2>3. IsInjective(<<>>) /\ Range(<<>>) = {}
    BY <2>2, EmptyFacts, Zenon
  <2>4. QED
    BY <2>1, <2>2, <2>3 DEF Init
<1>3. Typed
  BY <1>1, <1>2, Nothing, RoomAssumption DEF Init, Typed, Labels
<1>4. Listing /\ Owned
  BY <1>1, <1>2 DEF Init, Listing, Owned
<1>5. Apart /\ \A t \in Threads : Place(t)
  BY Nothing DEF Init, Apart, Place
<1>6. leaked \subseteq Refs /\ \A p \in Refs : Marked(p)
  BY <1>1, Nothing DEF Init, Marked, InHand
<1>7. ASSUME NEW a \in Pages PROVE Sole(a)
  <2>1. a # 0
    BY PageNumbers
  <2>2. Uses(a) = {<<"pool", 0>>}
    BY <1>1, <2>1, Nothing DEF Uses, Init
  <2>3. QED
    BY <2>2 DEF Sole
<1>8. QED
  BY <1>1, <1>3, <1>4, <1>5, <1>6, <1>7, Zenon DEF IInv, Heap, Agreed, Init

\* Every step of every thread keeps the invariant.
LEMMA NextKeeps ==
  ASSUME IInv, [Next]_vars
  PROVE  IInv'
<1>1. CASE Next
  BY <1>1, SubpageAllocKeeps, AllocPageKeeps, AllocRefKeeps, AllocRefPageKeeps, RelockKeeps,
     FreeRefPageKeeps, SubpageFreeKeeps, FreePageKeeps, BigAllocKeeps, BigFreeKeeps DEF Next
<1>2. CASE UNCHANGED vars
  <2>1. /\ UNCHANGED <<pool, rootpage, inuse, pageref, lists, used, big, gone, leaked, panicked>>
        /\ pc' = pc /\ loc' = loc
    BY <1>2 DEF vars, refs
  <2>2. Typed'
    BY <2>1 DEF IInv, Typed, lists
  <2>3. ASSUME Heap PROVE Heap'
    <3>1. \A a \in Pages : Sole(a)'
      BY <2>1, <2>3, Stays DEF Heap, Same, Listed, lists
    <3>2. \A t \in Threads : Place(t)'
      BY <2>1, <2>3 DEF Heap, Place
    <3>3. Typed
      BY DEF IInv
    <3>4. QED
      BY SMTT(30), <2>1, <2>3, <3>1, <3>2, <3>3, Untouched DEF Heap
  <2>4. QED
    BY <2>1, <2>2, <2>3 DEF IInv
<1>3. QED
  BY <1>1, <1>2

\* The invariant gives the three parts of HeapExact.
LEMMA Enough ==
  ASSUME IInv
  PROVE  HeapExact
<1>1. Typed
  BY DEF IInv
<1>2. Listed \subseteq Refs
  BY <1>1, EmptyFacts DEF Typed, Listed
<1>3. TypeOK
  <2>1. \A p \in Refs : pageref[p].page \in 0 .. NPages /\ pageref[p].type \in Types
    BY <1>1 DEF Typed, Pagerefs
  <2>2. \A b \in used : b[1] \in Pages
    BY <1>1 DEF Typed
  <2>3. QED
    BY <1>1, <1>2, <2>1, <2>2 DEF TypeOK, Typed
<1>4. ASSUME Heap, NEW a \in Pages PROVE \E u \in Uses(a) : Uses(a) = {u}
  BY <1>4 DEF Heap, Sole
<1>5. ASSUME Heap, NEW p \in Listed
      PROVE  LET out == {b[2] : b \in {u \in used : u[1] = pageref[p].page}}
             IN  /\ IsInjective(pageref[p].free)
                 /\ out \cap Range(pageref[p].free) = {}
                 /\ out \cup Range(pageref[p].free) = 0 .. BlocksPerPage[pageref[p].type] - 1
  <2>1. PICK a, n, R, out : /\ a = pageref[p].page /\ n = Size(p) /\ R = Range(pageref[p].free)
                            /\ out = {b[2] : b \in {u \in used : u[1] = pageref[p].page}}
    BY Zenon
  <2>2. n \in Nat \ {0} /\ Blocks(p)
    BY SMTT(30), <1>1, <1>5, <2>1, ListedFacts
  <2>3. /\ IsInjective(pageref[p].free) /\ R \subseteq 0 .. n - 1
        /\ \A i \in Nat : <<a, i>> \in used <=> i \in (0 .. n - 1) \ R
    BY <2>1, <2>2 DEF Blocks
  <2>4. ASSUME NEW i \in out PROVE i \in (0 .. n - 1) \ R
    <3>1. PICK b \in used : b[1] = a /\ b[2] = i
      BY <2>1
    <3>2. b = <<a, i>> /\ i \in Nat
      BY <1>1, <3>1 DEF Typed
    <3>3. QED
      BY <2>3, <3>2
  <2>5. ASSUME NEW i \in (0 .. n - 1) \ R PROVE i \in out
    <3>1. i \in Nat
      BY <2>2
    <3>2. <<a, i>> \in used
      BY <2>3, <3>1
    <3>3. QED
      BY <2>1, <3>2
  <2>6. out \cap R = {} /\ out \cup R = 0 .. n - 1
    BY <2>3, <2>4, <2>5, Zenon
  <2>7. QED
    BY <2>1, <2>3, <2>6 DEF Size
<1>6. ASSUME Heap PROVE BlocksAccounted
  BY SMTT(30), <1>5, <1>6 DEF BlocksAccounted, Heap, Agreed, Owned
<1>7. ASSUME Heap PROVE ListsAgree
  <2>1. \A p : p \in InFlight <=> p \in Refs /\ InHand(p)
    <3>1. \A t \in Threads : loc[t].ref \in Refs \cup {NoRef}
      BY <1>1 DEF Typed, Locals
    <3>2. QED
      BY <3>1, Nothing DEF InFlight, InHand
  <2>2. inuse \subseteq Refs /\ leaked \subseteq Refs /\ \A p \in Refs : Marked(p)
    BY <1>1, <1>7 DEF Typed, Heap, Agreed
  <2>3. inuse = Listed \cup InFlight \cup leaked
    BY <1>2, <2>1, <2>2 DEF Marked
  <2>4. leaked \cap (Listed \cup InFlight) = {} /\ Listed \cap InFlight = {}
    BY <1>2, <2>1, <2>2 DEF Marked
  <2>5. QED
    BY <1>7, <2>3, <2>4 DEF ListsAgree, Heap, Agreed, Listing
<1>8. CASE panicked
  BY <1>3, <1>8 DEF HeapExact, PagesPartitioned, BlocksAccounted, ListsAgree
<1>9. CASE ~panicked
  <2>1. Heap
    BY <1>9 DEF IInv
  <2>2. QED
    BY <1>3, <1>4, <1>6, <1>7, <2>1 DEF HeapExact, PagesPartitioned
<1>10. QED
  BY <1>8, <1>9

\* In every reachable state each page has exactly one use, each block exactly one
\* owner, and the lists of pages and the pageref bits agree: kmalloc and kfree
\* lose nothing and give nothing out twice, although they drop kmalloc_spinlock
\* around alloc_kpages and free_kpages.  For any number of threads, pages,
\* pagerefs and block sizes.
THEOREM HeapStaysExact == Spec => []HeapExact
<1>1. Init => IInv
  BY InitHolds
<1>2. IInv /\ [Next]_vars => IInv'
  BY NextKeeps
<1>3. IInv => HeapExact
  BY Enough
<1>4. QED
  BY <1>1, <1>2, <1>3, PTL DEF Spec
=============================================================================
