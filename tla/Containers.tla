----------------------------- MODULE Containers -----------------------------
(***************************************************************************)
(* The kernel's containers: lists of threads as they are linked            *)
(* (kern/thread/threadlist.c), arrays that grow (kern/lib/array.c,         *)
(* kern/include/array.h) and bitmaps (kern/lib/bitmap.c).  A behaviour     *)
(* uses one of the three, told by which; beside each, a variable keeps     *)
(* what the calls should have made of it.                                  *)
(***************************************************************************)
EXTENDS Integers, FiniteSets, SequencesExt

CONSTANTS Members,         \* threads, or what is put in an array
          NULL, Unset,     \* Unset: a slot nobody has written
          Lists,
          MaxNum,          \* bound on the size of the array
          BITS_PER_WORD, MaxBits

VARIABLES which,
          next, prev, count, content,   \* the lists; content: in order
          num, max, v, items,           \* the array; items: its elements
          nbits, words, marked          \* the bitmap; marked: the bits in use

lists == <<next, prev, count, content>>
array == <<num, max, v, items>>
bits == <<nbits, words, marked>>
vars == <<which, lists, array, bits>>

Head1(l) == <<"head", l>>
Tail1(l) == <<"tail", l>>
Node(t) == <<"node", t>>
Nodes == {Node(t) : t \in Members} \cup {Head1(l) : l \in Lists} \cup {Tail1(l) : l \in Lists}
NoNode == <<"none", NULL>>

-----------------------------------------------------------------------------
\* bitmap_create marks what is left over in the last word as in use.
Words(n) == (n + BITS_PER_WORD - 1) \div BITS_PER_WORD
bitmap_create(n) ==
  [ix \in 0 .. Words(n) - 1 |->
     IF Words(n) > n \div BITS_PER_WORD /\ ix = Words(n) - 1
     THEN (n - ix * BITS_PER_WORD) .. BITS_PER_WORD - 1 ELSE {}]

threadlist_init ==
  /\ next = [n \in Nodes |-> IF \E l \in Lists : n = Head1(l) THEN Tail1(n[2]) ELSE NoNode]
  /\ prev = [n \in Nodes |-> IF \E l \in Lists : n = Tail1(l) THEN Head1(n[2]) ELSE NoNode]
  /\ count = [l \in Lists |-> 0]
  /\ content = [l \in Lists |-> <<>>]

Init ==
  /\ which \in {"list", "array", "bitmap"}
  /\ threadlist_init
  /\ num = 0 /\ max = 0 /\ v = <<>> /\ items = <<>>
  /\ nbits \in (IF which = "bitmap" THEN 1 .. MaxBits ELSE {0})
  /\ words = bitmap_create(nbits) /\ marked = {}

-----------------------------------------------------------------------------
Free(t) == next[Node(t)] = NoNode /\ prev[Node(t)] = NoNode

\* The links of addee are set first; what is then reached through them is changed.
insertafternode(onlist, t) ==
  LET addee == Node(t)
      after == next[onlist]
  IN  /\ next' = [next EXCEPT ![addee] = after, ![onlist] = addee]
      /\ prev' = [prev EXCEPT ![addee] = onlist, ![after] = addee]

insertbeforenode(t, onlist) ==
  LET addee == Node(t)
      before == prev[onlist]
  IN  /\ next' = [next EXCEPT ![addee] = onlist, ![before] = addee]
      /\ prev' = [prev EXCEPT ![addee] = before, ![onlist] = addee]

removenode_half(tln) ==
  /\ next' = [next EXCEPT ![prev[tln]] = next[tln], ![tln] = NoNode]
  /\ prev' = [prev EXCEPT ![tln] = NoNode]

removenode(tln) ==
  /\ next' = [next EXCEPT ![prev[tln]] = next[tln], ![tln] = NoNode]
  /\ prev' = [prev EXCEPT ![next[tln]] = prev[tln], ![tln] = NoNode]

Count(l, d) == count' = [count EXCEPT ![l] = @ + d]
Content(l, s) == content' = [content EXCEPT ![l] = s]
OnlyLists == which = "list" /\ UNCHANGED <<which, array, bits>>

threadlist_addhead(l, t) ==
  /\ OnlyLists /\ Free(t)
  /\ insertafternode(Head1(l), t) /\ Count(l, 1)
  /\ Content(l, <<t>> \o content[l])

threadlist_addtail(l, t) ==
  /\ OnlyLists /\ Free(t)
  /\ insertbeforenode(t, Tail1(l)) /\ Count(l, 1)
  /\ Content(l, Append(content[l], t))

\* An empty list is told by the node after the head having none after it.
threadlist_remhead(l) ==
  LET tln == next[Head1(l)]
  IN  /\ OnlyLists
      /\ \/ next[tln] = NoNode /\ UNCHANGED lists
         \/ next[tln] # NoNode /\ removenode(tln) /\ Count(l, -1) /\ Content(l, Tail(content[l]))

threadlist_remtail(l) ==
  LET tln == prev[Tail1(l)]
  IN  /\ OnlyLists
      /\ \/ prev[tln] = NoNode /\ UNCHANGED lists
         \/ prev[tln] # NoNode /\ removenode(tln) /\ Count(l, -1) /\ Content(l, Front(content[l]))

\* The caller knows which list the thread is on.
threadlist_insertafter(l, onlist, t) ==
  /\ OnlyLists /\ Free(t) /\ Contains(content[l], onlist)
  /\ insertafternode(Node(onlist), t) /\ Count(l, 1)
  /\ \E i \in DOMAIN content[l] : content[l][i] = onlist /\ Content(l, InsertAt(content[l], i + 1, t))

threadlist_insertbefore(l, t, onlist) ==
  /\ OnlyLists /\ Free(t) /\ Contains(content[l], onlist)
  /\ insertbeforenode(t, Node(onlist)) /\ Count(l, 1)
  /\ \E i \in DOMAIN content[l] : content[l][i] = onlist /\ Content(l, InsertAt(content[l], i, t))

threadlist_remove(l, t) ==
  /\ OnlyLists /\ Contains(content[l], t)
  /\ removenode(Node(t)) /\ Count(l, -1)
  /\ \E i \in DOMAIN content[l] : content[l][i] = t /\ Content(l, RemoveAt(content[l], i))

-----------------------------------------------------------------------------
OnlyArray == which = "array" /\ UNCHANGED <<which, lists, bits>>

\* array_preallocate doubles the room until it is enough, in a new block into
\* which the elements are copied; or there is no memory, and nothing changes.
RECURSIVE NewMax(_, _)
NewMax(m, n) == IF n > m THEN NewMax(IF m = 0 THEN 4 ELSE m * 2, n) ELSE m

Enlarged(n) ==
  IF n > max
  THEN [i \in 1 .. NewMax(max, n) |-> IF i <= num THEN v[i] ELSE Unset]
  ELSE v

array_preallocate(n) ==
  /\ OnlyArray
  /\ v' = Enlarged(n) /\ max' = Len(v')
  /\ UNCHANGED <<num, items>>

array_setsize(n) ==
  /\ OnlyArray
  /\ v' = Enlarged(n) /\ max' = Len(v')
  /\ num' = n
  /\ items' = [i \in 1 .. n |-> IF i <= Len(items) THEN items[i] ELSE Unset]

array_add(val) ==
  /\ OnlyArray /\ num < MaxNum
  /\ v' = [Enlarged(num + 1) EXCEPT ![num + 1] = val] /\ max' = Len(v')
  /\ num' = num + 1
  /\ items' = Append(items, val)

array_set(index, val) ==
  /\ OnlyArray /\ index < num
  /\ v' = [v EXCEPT ![index + 1] = val]
  /\ items' = [items EXCEPT ![index + 1] = val]
  /\ UNCHANGED <<num, max>>

array_remove(index) ==
  /\ OnlyArray /\ index < num
  /\ v' = [i \in DOMAIN v |-> IF i \in index + 1 .. num - 1 THEN v[i + 1] ELSE v[i]]
  /\ num' = num - 1
  /\ items' = RemoveAt(items, index + 1)
  /\ UNCHANGED max

-----------------------------------------------------------------------------
OnlyBitmap == which = "bitmap" /\ UNCHANGED <<which, lists, array, nbits>>
WORD_ALLBITS == 0 .. BITS_PER_WORD - 1
Index(ix, offset) == ix * BITS_PER_WORD + offset
isset(i) == (i % BITS_PER_WORD) \in words[i \div BITS_PER_WORD]

\* bitmap_alloc: the first word that is not full, its first bit that is clear.
bitmap_alloc ==
  /\ OnlyBitmap
  /\ LET open == {ix \in DOMAIN words : words[ix] # WORD_ALLBITS}
     IN  \/ open = {} /\ UNCHANGED <<words, marked>>
         \/ /\ open # {}
            /\ LET ix == CHOOSE i \in open : \A j \in open : i <= j
                   o == CHOOSE k \in WORD_ALLBITS \ words[ix] : \A j \in WORD_ALLBITS \ words[ix] : k <= j
               IN  words' = [words EXCEPT ![ix] = @ \cup {o}] /\ marked' = marked \cup {Index(ix, o)}

bitmap_mark(i) ==
  /\ OnlyBitmap /\ i < nbits /\ ~ isset(i)
  /\ words' = [words EXCEPT ![i \div BITS_PER_WORD] = @ \cup {i % BITS_PER_WORD}]
  /\ marked' = marked \cup {i}

bitmap_unmark(i) ==
  /\ OnlyBitmap /\ i < nbits /\ isset(i)
  /\ words' = [words EXCEPT ![i \div BITS_PER_WORD] = @ \ {i % BITS_PER_WORD}]
  /\ marked' = marked \ {i}

-----------------------------------------------------------------------------
Next ==
  \/ \E l \in Lists, t \in Members : threadlist_addhead(l, t)
  \/ \E l \in Lists, t \in Members : threadlist_addtail(l, t)
  \/ \E l \in Lists : threadlist_remhead(l)
  \/ \E l \in Lists : threadlist_remtail(l)
  \/ \E l \in Lists, s, t \in Members : threadlist_insertafter(l, s, t)
  \/ \E l \in Lists, s, t \in Members : threadlist_insertbefore(l, s, t)
  \/ \E l \in Lists, t \in Members : threadlist_remove(l, t)
  \/ \E n \in 0 .. MaxNum : array_preallocate(n)
  \/ \E n \in 0 .. MaxNum : array_setsize(n)
  \/ \E val \in Members : array_add(val)
  \/ \E i \in 0 .. MaxNum, val \in Members : array_set(i, val)
  \/ \E i \in 0 .. MaxNum : array_remove(i)
  \/ bitmap_alloc
  \/ \E i \in 0 .. MaxBits : bitmap_mark(i)
  \/ \E i \in 0 .. MaxBits : bitmap_unmark(i)

Spec == Init /\ [][Next]_vars

-----------------------------------------------------------------------------
\* THREADLIST_FORALL and THREADLIST_FORALL_REV, in as many steps as there are nodes.
RECURSIVE Walk(_, _, _)
Walk(link, n, steps) ==
  IF link[n] = NoNode \/ steps = 0 THEN <<>> ELSE <<n>> \o Walk(link, link[n], steps - 1)

\* Each container has what the calls on it say it has, after any sequence of
\* them: a list the same threads in the same order from either end, and as many
\* as its count says (threadlist.c links and unlinks four pointers at a time);
\* an array its elements, wherever it was moved when it grew, and room for
\* them; a bitmap exactly the bits in use, of which bitmap_alloc finds one of the
\* map's own whenever there is one, and never a leftover bit of the last word.
ContainersAgree ==
  /\ which = "list" => \A l \in Lists :
       LET nodes == [i \in DOMAIN content[l] |-> Node(content[l][i])]
           limit == Cardinality(Nodes)
       IN  /\ Walk(next, Head1(l), limit) = <<Head1(l)>> \o nodes
           /\ Walk(prev, Tail1(l), limit) = <<Tail1(l)>> \o Reverse(nodes)
           /\ count[l] = Len(content[l])
  /\ which = "array" =>
       /\ num = Len(items) /\ num <= max /\ max = Len(v)
       /\ \A i \in 1 .. num : items[i] # Unset => v[i] = items[i]
  /\ which = "bitmap" =>
       /\ marked \subseteq 0 .. nbits - 1
       /\ \A i \in 0 .. nbits - 1 : isset(i) <=> i \in marked
       /\ (\A ix \in DOMAIN words : words[ix] = WORD_ALLBITS) <=> marked = 0 .. nbits - 1
=============================================================================
