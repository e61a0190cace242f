--------------------------- MODULE SequenceLemmas ---------------------------
(***************************************************************************)
(* What the operations on the kernel's lists do to the set of the elements *)
(* of a list, and to its having no element twice.  The lists are           *)
(* sequences: threadlist_addtail is Append, threadlist_remhead is Head and *)
(* Tail, and moving threads from one list to another cuts and concatenates *)
(* (kern/thread/threadlist.c).                                             *)
(***************************************************************************)
EXTENDS Naturals, Sequences, Functions, TLAPS

\* An empty list has no elements, and only it.
LEMMA EmptyFacts ==
  ASSUME NEW S, NEW s \in Seq(S)
  PROVE  /\ <<>> \in Seq(S) /\ Range(<<>>) = {} /\ IsInjective(<<>>)
         /\ s = <<>> <=> Range(s) = {}
         /\ Range(s) \subseteq S
<1>1. Range(s) = {s[i] : i \in 1 .. Len(s)} /\ Len(s) \in Nat
  BY DEF Range
<1>2. s # <<>> => Len(s) > 0
  OBVIOUS
<1>3. s # <<>> => s[1] \in Range(s)
  BY <1>1, <1>2
<1>4. Range(s) \subseteq S
  BY <1>1
<1>5. QED
  BY <1>3, <1>4 DEF Range, IsInjective

\* threadlist_addtail.
LEMMA AppendFacts ==
  ASSUME NEW S, NEW s \in Seq(S), NEW x \in S
  PROVE  /\ Append(s, x) \in Seq(S) /\ Append(s, x) # <<>>
         /\ Len(Append(s, x)) = Len(s) + 1
         /\ Range(Append(s, x)) = Range(s) \cup {x}
         /\ IsInjective(s) /\ x \notin Range(s) => IsInjective(Append(s, x))
<1> DEFINE u == Append(s, x)
<1>1. /\ u \in Seq(S) /\ u # <<>> /\ Len(u) = Len(s) + 1 /\ Len(s) \in Nat
      /\ \A i \in 1 .. Len(s) : u[i] = s[i]
      /\ u[Len(s) + 1] = x
  OBVIOUS
<1>2. Range(s) = {s[i] : i \in 1 .. Len(s)} /\ Range(u) = {u[i] : i \in 1 .. Len(s) + 1}
  BY <1>1 DEF Range
<1>3. DOMAIN s = 1 .. Len(s) /\ DOMAIN u = 1 .. Len(s) + 1
  BY <1>1
<1> HIDE DEF u
<1>4. 1 .. Len(s) + 1 = 1 .. Len(s) \cup {Len(s) + 1}
  BY <1>1
<1>5. Range(u) = Range(s) \cup {x}
  BY <1>1, <1>2, <1>4
<1>6. ASSUME IsInjective(s), x \notin Range(s) PROVE IsInjective(u)
  <2>1. \A a, b \in 1 .. Len(s) : s[a] = s[b] => a = b
    BY <1>3, <1>6 DEF IsInjective
  <2>2. \A a \in 1 .. Len(s) : u[a] # x
    BY <1>1, <1>2, <1>6
  <2>3. \A a, b \in 1 .. Len(s) + 1 : u[a] = u[b] => a = b
    BY <1>1, <1>4, <2>1, <2>2
  <2>4. QED
    BY <1>3, <2>3 DEF IsInjective
<1>7. QED
  BY <1>1, <1>5, <1>6 DEF u

\* threadlist_remhead.
LEMMA TailFacts ==
  ASSUME NEW S, NEW s \in Seq(S), s # <<>>
  PROVE  /\ Head(s) \in S /\ Head(s) \in Range(s)
         /\ Tail(s) \in Seq(S) /\ Len(Tail(s)) = Len(s) - 1
         /\ Range(s) = {Head(s)} \cup Range(Tail(s))
         /\ IsInjective(s) => IsInjective(Tail(s)) /\ Head(s) \notin Range(Tail(s))
<1> DEFINE u == Tail(s)
<1>1. /\ u \in Seq(S) /\ Len(u) = Len(s) - 1 /\ Len(s) \in Nat \ {0} /\ Head(s) = s[1] /\ Head(s) \in S
      /\ \A i \in 1 .. Len(s) - 1 : u[i] = s[i + 1]
  OBVIOUS
<1>2. Range(s) = {s[i] : i \in 1 .. Len(s)} /\ Range(u) = {u[i] : i \in 1 .. Len(s) - 1}
  <2>1. DOMAIN s = 1 .. Len(s) /\ DOMAIN u = 1 .. Len(s) - 1
    BY <1>1
  <2> HIDE DEF u
  <2>2. QED
    BY <2>1 DEF Range
<1>3. DOMAIN s = 1 .. Len(s) /\ DOMAIN u = 1 .. Len(s) - 1
  BY <1>1
<1> HIDE DEF u
<1>4. Range(u) \subseteq Range(s) /\ Head(s) \in Range(s)
  BY <1>1, <1>2
<1>5. ASSUME NEW i \in 1 .. Len(s) PROVE s[i] \in {Head(s)} \cup Range(u)
  <2>1. CASE i = 1
    BY <1>1, <2>1
  <2>2. CASE i # 1
    <3>1. i - 1 \in 1 .. Len(s) - 1 /\ (i - 1) + 1 = i
      BY <1>1, <2>2
    <3>2. QED
      BY <1>1, <1>2, <3>1, Zenon
  <2>3. QED
    BY <2>1, <2>2
<1>6. Range(s) = {Head(s)} \cup Range(u)
  BY <1>2, <1>4, <1>5, Zenon
<1>7. ASSUME IsInjective(s) PROVE IsInjective(u) /\ Head(s) \notin Range(u)
  <2>1. \A a, b \in 1 .. Len(s) : s[a] = s[b] => a = b
    BY <1>3, <1>7 DEF IsInjective
  <2>2. \A a \in 1 .. Len(s) - 1 : a + 1 \in 1 .. Len(s) /\ a + 1 # 1
    BY <1>1
  <2>3. \A a, b \in 1 .. Len(s) - 1 : u[a] = u[b] => a = b
    BY <1>1, <2>1, <2>2
  <2>4. \A a \in 1 .. Len(s) - 1 : u[a] # s[1]
    BY <1>1, <2>1, <2>2
  <2>5. QED
    BY SMTT(30), <1>1, <1>2, <1>3, <2>3, <2>4 DEF IsInjective
<1>8. QED
  BY <1>1, <1>4, <1>6, <1>7 DEF u

\* One list behind another.
LEMMA ConcatFacts ==
  ASSUME NEW S, NEW s \in Seq(S), NEW u \in Seq(S)
  PROVE  /\ s \o u \in Seq(S) /\ Len(s \o u) = Len(s) + Len(u)
         /\ Range(s \o u) = Range(s) \cup Range(u)
         /\ IsInjective(s) /\ IsInjective(u) /\ Range(s) \cap Range(u) = {} => IsInjective(s \o u)
<1> DEFINE v == s \o u
<1>1. /\ v \in Seq(S) /\ Len(v) = Len(s) + Len(u) /\ Len(s) \in Nat /\ Len(u) \in Nat
      /\ \A i \in 1 .. Len(s) + Len(u) : v[i] = IF i <= Len(s) THEN s[i] ELSE u[i - Len(s)]
  OBVIOUS
<1>3. DOMAIN s = 1 .. Len(s) /\ DOMAIN u = 1 .. Len(u) /\ DOMAIN v = 1 .. Len(s) + Len(u)
  BY <1>1
<1> HIDE DEF v
<1>2. Range(v) = Range(s) \cup Range(u)
  <2>1. ASSUME NEW i \in 1 .. Len(s) + Len(u) PROVE v[i] \in Range(s) \cup Range(u)
    <3>1. CASE i <= Len(s)
      BY <1>1, <1>3, <3>1 DEF Range
    <3>2. CASE i > Len(s)
      <4>1. i - Len(s) \in 1 .. Len(u) /\ v[i] = u[i - Len(s)]
        BY <1>1, <3>2
      <4>2. QED
        BY <1>3, <4>1 DEF Range
    <3>3. QED
      BY <1>1, <3>1, <3>2
  <2>2. ASSUME NEW i \in 1 .. Len(s) PROVE s[i] \in Range(v)
    BY SMTT(30), <1>1, <1>3 DEF Range
  <2>3. ASSUME NEW i \in 1 .. Len(u) PROVE u[i] \in Range(v)
    <3>1. \A k, n \in Nat : \A j \in 1 .. n : k + j \in 1 .. k + n /\ ~(k + j <= k) /\ (k + j) - k = j
      OBVIOUS
    <3>2. Len(s) + i \in 1 .. Len(s) + Len(u) /\ v[Len(s) + i] = u[i]
      BY <1>1, <3>1
    <3>3. QED
      BY <1>3, <3>2 DEF Range
  <2>4. QED
    BY <1>3, <2>1, <2>2, <2>3 DEF Range
<1>4. ASSUME IsInjective(s), IsInjective(u), Range(s) \cap Range(u) = {} PROVE IsInjective(v)
  <2>1. \A a, b \in 1 .. Len(s) : s[a] = s[b] => a = b
    BY <1>3, <1>4 DEF IsInjective
  <2>2. \A a, b \in 1 .. Len(u) : u[a] = u[b] => a = b
    BY <1>3, <1>4 DEF IsInjective
  <2>3. \A a \in 1 .. Len(s), b \in 1 .. Len(u) : s[a] # u[b]
    BY <1>3, <1>4, Zenon DEF Range
  <2>4. ASSUME NEW a \in 1 .. Len(s) + Len(u), NEW b \in 1 .. Len(s) + Len(u), v[a] = v[b] PROVE a = b
    <3>1. CASE a <= Len(s) /\ b <= Len(s)
      BY <1>1, <2>1, <2>4, <3>1
    <3>2. CASE a <= Len(s) /\ b > Len(s)
      <4>1. a \in 1 .. Len(s) /\ b - Len(s) \in 1 .. Len(u)
        BY <1>1, <3>2
      <4>2. s[a] = u[b - Len(s)]
        BY <1>1, <2>4, <3>2
      <4>3. QED
        BY <2>3, <4>1, <4>2
    <3>3. CASE a > Len(s) /\ b <= Len(s)
      <4>1. b \in 1 .. Len(s) /\ a - Len(s) \in 1 .. Len(u)
        BY <1>1, <3>3
      <4>2. s[b] = u[a - Len(s)]
        BY <1>1, <2>4, <3>3
      <4>3. QED
        BY <2>3, <4>1, <4>2
    <3>4. CASE a > Len(s) /\ b > Len(s)
      <4>1. a - Len(s) \in 1 .. Len(u) /\ b - Len(s) \in 1 .. Len(u)
        BY <1>1, <3>4
      <4>2. u[a - Len(s)] = u[b - Len(s)]
        BY <1>1, <2>4, <3>4
      <4>3. a - Len(s) = b - Len(s)
        BY <2>2, <4>1, <4>2
      <4>4. QED
        BY <1>1, <4>3
    <3>5. QED
      BY <1>1, <3>1, <3>2, <3>3, <3>4
  <2>5. QED
    BY <1>3, <2>4 DEF IsInjective
<1>5. QED
  BY <1>1, <1>2, <1>4 DEF v

\* A list cut in two after its first k elements.
LEMMA SplitFacts ==
  ASSUME NEW S, NEW s \in Seq(S), NEW k \in 0 .. Len(s)
  PROVE  /\ SubSeq(s, 1, k) \in Seq(S) /\ Len(SubSeq(s, 1, k)) = k
         /\ SubSeq(s, k + 1, Len(s)) \in Seq(S) /\ Len(SubSeq(s, k + 1, Len(s))) = Len(s) - k
         /\ Range(s) = Range(SubSeq(s, 1, k)) \cup Range(SubSeq(s, k + 1, Len(s)))
         /\ IsInjective(s) => /\ IsInjective(SubSeq(s, 1, k)) /\ IsInjective(SubSeq(s, k + 1, Len(s)))
                              /\ Range(SubSeq(s, 1, k)) \cap Range(SubSeq(s, k + 1, Len(s))) = {}
<1> DEFINE a == SubSeq(s, 1, k)
           b == SubSeq(s, k + 1, Len(s))
           n == Len(s)
<1>1. n \in Nat /\ k \in 0 .. n
  OBVIOUS
<1>2. a \in Seq(S) /\ Len(a) = k /\ \A i \in 1 .. k : a[i] = s[i]
  BY <1>1
<1>3. b \in Seq(S) /\ Len(b) = n - k /\ \A i \in 1 .. n - k : b[i] = s[k + i]
  BY <1>1
<1>4. DOMAIN a = 1 .. k /\ DOMAIN b = 1 .. n - k /\ DOMAIN s = 1 .. n
  BY <1>1, <1>2, <1>3
<1> HIDE DEF a, b, n
<1>5. Range(a) \subseteq Range(s)
  BY <1>1, <1>2, <1>4 DEF Range
<1>6. Range(b) \subseteq Range(s)
  BY SMTT(30), <1>1, <1>3, <1>4 DEF Range
<1>7. ASSUME NEW i \in 1 .. n PROVE s[i] \in Range(a) \cup Range(b)
  <2>1. CASE i <= k
    BY <1>1, <1>2, <1>4, <2>1 DEF Range
  <2>2. CASE i > k
    <3>1. i - k \in 1 .. n - k /\ k + (i - k) = i
      BY <1>1, <2>2
    <3>2. QED
      BY <1>3, <1>4, <3>1 DEF Range
  <2>3. QED
    BY <1>1, <2>1, <2>2
<1>8. Range(s) = Range(a) \cup Range(b)
  <2>1. Range(s) \subseteq Range(a) \cup Range(b)
    BY <1>4, <1>7 DEF Range
  <2>2. QED
    BY <1>5, <1>6, <2>1
<1>9. ASSUME IsInjective(s) PROVE IsInjective(a) /\ IsInjective(b) /\ Range(a) \cap Range(b) = {}
  <2>1. \A i, j \in 1 .. n : s[i] = s[j] => i = j
    BY <1>4, <1>9 DEF IsInjective
  <2>2. \A i \in 1 .. k : i \in 1 .. n
    BY <1>1
  <2>3. \A i \in 1 .. n - k : k + i \in 1 .. n
    BY <1>1
  <2>4. IsInjective(a)
    BY <1>2, <1>4, <2>1, <2>2 DEF IsInjective
  <2>5. IsInjective(b)
    <3>1. \A i, j \in 1 .. n - k : b[i] = b[j] => k + i = k + j
      BY <1>3, <2>1, <2>3, Zenon
    <3>2. QED
      BY <1>1, <1>4, <3>1 DEF IsInjective
  <2>6. \A i \in 1 .. k, j \in 1 .. n - k : a[i] # b[j]
    <3>1. \A i \in 1 .. k, j \in 1 .. n - k : i # k + j
      BY <1>1
    <3>2. QED
      BY SMTT(30), <1>2, <1>3, <2>1, <2>2, <2>3, <3>1
  <2>7. QED
    BY <1>4, <2>4, <2>5, <2>6 DEF Range
<1>10. QED
  BY <1>2, <1>3, <1>8, <1>9 DEF a, b, n

\* A list without the element at position i, which was in it once.
LEMMA CutFacts ==
  ASSUME NEW S, NEW s \in Seq(S), IsInjective(s), NEW i \in 1 .. Len(s)
  PROVE  /\ SubSeq(s, 1, i - 1) \o SubSeq(s, i + 1, Len(s)) \in Seq(S)
         /\ Range(SubSeq(s, 1, i - 1) \o SubSeq(s, i + 1, Len(s))) = Range(s) \ {s[i]}
         /\ IsInjective(SubSeq(s, 1, i - 1) \o SubSeq(s, i + 1, Len(s)))
<1> DEFINE n == Len(s)
           a == SubSeq(s, 1, i - 1)
           b == SubSeq(s, i + 1, Len(s))
<1>1. n \in Nat /\ i \in 1 .. n /\ i - 1 \in 0 .. n /\ i \in 0 .. n
  OBVIOUS
<1>2. a \in Seq(S) /\ IsInjective(a)
  BY <1>1, SplitFacts
<1>3. b \in Seq(S) /\ IsInjective(b)
  BY <1>1, SplitFacts
<1>4. Len(a) = i - 1 /\ \A j \in 1 .. i - 1 : a[j] = s[j]
  BY <1>1
<1>5. Len(b) = n - i /\ \A j \in 1 .. n - i : b[j] = s[i + j]
  BY <1>1
<1>6. DOMAIN a = 1 .. i - 1 /\ DOMAIN b = 1 .. n - i /\ DOMAIN s = 1 .. n
  BY SMTT(30), <1>1, <1>2, <1>3, <1>4, <1>5
<1>7. \A j, k \in 1 .. n : s[j] = s[k] => j = k
  BY <1>6 DEF IsInjective
<1> HIDE DEF n, a, b
<1>8. \A j \in 1 .. n - i : i + j \in 1 .. n /\ i + j > i
  BY <1>1
<1>9. \A j \in 1 .. i - 1 : j \in 1 .. n /\ j < i
  BY <1>1
<1>10. Range(a) \cap Range(b) = {}
  <2>1. \A j \in 1 .. i - 1, k \in 1 .. n - i : j # i + k
    BY <1>1
  <2>2. \A j \in 1 .. i - 1, k \in 1 .. n - i : a[j] # b[k]
    BY <1>4, <1>5, <1>7, <1>8, <1>9, <2>1
  <2>3. QED
    BY <1>6, <2>2 DEF Range
<1>11. Range(a) \subseteq Range(s) \ {s[i]}
  <2>1. \A j \in 1 .. i - 1 : a[j] = s[j] /\ s[j] # s[i] /\ j \in 1 .. n
    BY <1>1, <1>4, <1>7, <1>9
  <2>2. QED
    BY <1>6, <2>1 DEF Range
<1>12. Range(b) \subseteq Range(s) \ {s[i]}
  <2>1. \A j \in 1 .. n - i : b[j] = s[i + j] /\ s[i + j] # s[i] /\ i + j \in 1 .. n
    BY <1>1, <1>5, <1>7, <1>8
  <2>2. QED
    BY <1>6, <2>1 DEF Range
<1>13. ASSUME NEW j \in 1 .. n, j # i PROVE s[j] \in Range(a) \cup Range(b)
  <2>1. CASE j < i
    BY <1>1, <1>4, <1>6, <2>1 DEF Range
  <2>2. CASE j > i
    <3>1. j - i \in 1 .. n - i /\ i + (j - i) = j
      BY <1>1, <2>2
    <3>2. QED
      BY <1>5, <1>6, <3>1 DEF Range
  <2>3. QED
    BY <1>1, <1>13, <2>1, <2>2
<1>14. Range(a) \cup Range(b) = Range(s) \ {s[i]}
  <2>1. Range(s) \ {s[i]} \subseteq Range(a) \cup Range(b)
    BY <1>6, <1>13 DEF Range
  <2>2. QED
    BY <1>11, <1>12, <2>1
<1>15. a \o b \in Seq(S) /\ Range(a \o b) = Range(a) \cup Range(b) /\ IsInjective(a \o b)
  BY <1>2, <1>3, <1>10, ConcatFacts
<1>16. QED
  BY <1>14, <1>15 DEF a, b
=============================================================================
