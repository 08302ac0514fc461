-------------------------- MODULE PsxEvents_proofs --------------------------
(***************************************************************************)
(* Proofs about PsxEvents and PsxEventsHLE: the delta list always encodes  *)
(* the deadlines, in order unless something is scheduled late, and the     *)
(* scheduler implements EventTimeline.                                     *)
(***************************************************************************)
EXTENDS PsxEventsHLE, SequenceTheorems, WellFoundedInduction, TLAPS

(* What the loop of Schedule has added up when it reaches a node: the      *)
(* deadline of the node's predecessor, seen from the emulated present.     *)
Offset(list, d, p) ==
  [i \in 1..Len(list) + 1 |-> (IF i = 1 THEN 0 ELSE d[list[i-1].evt]) - p]

LEMMA LeastElement ==
  ASSUME NEW S, S \subseteq Nat, S # {}
  PROVE  \E i \in S : \A j \in S : i <= j
<1>1. PICK i \in S : \A j \in S : ~(<<j, i>> \in OpToRel(<, Nat))
  BY NatLessThanWellFounded, WFMin
<1>2. \A j \in S : ~(j < i)
  BY <1>1 DEF OpToRel
<1> QED  BY <1>2

(* Induction over an interval, with a set for the predicate.               *)
LEMMA IntervalInduction ==
  ASSUME NEW m \in Nat, NEW S,
         1 \in S,
         \A i \in 1..m : i \in S => i + 1 \in S
  PROVE  1..m+1 \subseteq S
<1> DEFINE Bad == (1..m+1) \ S
<1>1. SUFFICES ASSUME Bad # {} PROVE FALSE
  OBVIOUS
<1>2. PICK i \in Bad : \A j \in Bad : i <= j
  <2>1. Bad \subseteq Nat
    OBVIOUS
  <2> HIDE DEF Bad
  <2> QED  BY <1>1, <2>1, LeastElement
<1>3. i \in 1..m+1 /\ i \notin S /\ i # 1
  OBVIOUS
<1>4. i - 1 \in 1..m /\ i - 1 \in 1..m+1 /\ ~(i <= i - 1) /\ (i - 1) + 1 = i
  BY <1>3
<1>5. i - 1 \in S
  BY <1>2, <1>4
<1> QED  BY <1>3, <1>4, <1>5

LEMMA RunningIsOffset ==
  ASSUME NEW list \in Seq(Entry), NEW d \in [Events -> Int], NEW p \in Int,
         Encodes(list, d)
  PROVE  Running(list, p) = Offset(list, d, p)
<1> DEFINE n      == Len(list)
           Sum(f) == [i \in 1..n + 1 |->
                        IF i = 1 THEN -p ELSE f[i-1] + list[i-1].delta]
           g      == Offset(list, d, p)
<1>1. n \in Nat /\ \A i \in 1..n : list[i].evt \in Events /\ list[i].delta \in Int
  <2>1. \A i \in 1..n : list[i] \in Entry
    BY ElementOfSeq
  <2>2. n \in Nat
    BY LenProperties
  <2> QED  BY <2>1, <2>2 DEF Entry
<1>2. g = Sum(g)
  <2>1. ASSUME NEW i \in 1..n+1 PROVE g[i] = Sum(g)[i]
    <3>1. CASE i = 1
      BY <1>1, <3>1 DEF Offset
    <3>2. CASE i # 1
      <4>1. i - 1 \in 1..n /\ i - 1 \in 1..n+1
        BY <1>1, <3>2
      <4>2. list[i-1].delta = d[list[i-1].evt]
                - (IF i - 1 = 1 THEN 0 ELSE d[list[(i-1)-1].evt])
        BY <4>1 DEF Encodes
      <4>3. g[i-1] = (IF i - 1 = 1 THEN 0 ELSE d[list[(i-1)-1].evt]) - p
        BY <4>1 DEF Offset
      <4>4. g[i] = d[list[i-1].evt] - p
        BY <3>2 DEF Offset
      <4>5. (IF i - 1 = 1 THEN 0 ELSE d[list[(i-1)-1].evt]) \in Int
        BY <1>1, <4>1
      <4>6. d[list[i-1].evt] \in Int
        BY <1>1, <4>1
      <4>7. Sum(g)[i] = g[i-1] + list[i-1].delta
        BY <3>2
      <4> HIDE DEF g, Sum
      <4> QED  BY <4>2, <4>3, <4>4, <4>5, <4>6, <4>7
    <3> QED  BY <3>1, <3>2
  <2> QED  BY <2>1 DEF Offset
<1>3. ASSUME NEW f, f = Sum(f) PROVE f = g
  <2> HIDE DEF g
  <2>1. f[1] = g[1]
    BY <1>1, <1>2, <1>3
  <2>2. ASSUME NEW i \in 1..n, f[i] = g[i] PROVE f[i+1] = g[i+1]
    <3>1. i + 1 \in 1..n+1 /\ i + 1 # 1 /\ (i + 1) - 1 = i
      BY <1>1
    <3>2. Sum(f)[i+1] = f[i] + list[i].delta /\ Sum(g)[i+1] = g[i] + list[i].delta
      BY <3>1
    <3>3. f[i+1] = Sum(f)[i+1] /\ g[i+1] = Sum(g)[i+1]
      <4> HIDE DEF Sum
      <4> QED  BY <1>2, <1>3
    <3> HIDE DEF Sum
    <3> QED  BY <2>2, <3>2, <3>3
  <2>3. \A i \in 1..n+1 : f[i] = g[i]
    <3>1. n \in Nat
      BY <1>1
    <3>2. \A i \in 1..n : f[i] = g[i] => f[i+1] = g[i+1]
      BY <2>2
    <3> DEFINE S == {i \in 1..n+1 : f[i] = g[i]}
    <3>3. 1 \in S /\ \A i \in 1..n : i \in S => i + 1 \in S
      <4> HIDE DEF n, Sum
      <4> QED  BY <2>1, <3>1, <3>2
    <3>4. 1..n+1 \subseteq S
      <4> HIDE DEF n, S, Sum
      <4> QED  BY <3>1, <3>3, IntervalInduction
    <3> QED  BY <3>4
  <2>4. f = [i \in 1..n+1 |-> f[i]] /\ g = [i \in 1..n+1 |-> g[i]]
    BY <1>2, <1>3
  <2> QED  BY <2>3, <2>4
<1>4. Running(list, p) = CHOOSE f : f = Sum(f)
  BY DEF Running
<1> DEFINE c == CHOOSE f : f = Sum(f)
<1>5. c = Sum(c)
  <2> HIDE DEF Sum, g
  <2> QED  BY <1>2, Zenon
<1>6. c = g
  <2> HIDE DEF Sum, g, c
  <2> QED  BY <1>3, <1>5, Zenon
<1> QED  BY <1>4, <1>6, Zenon

-----------------------------------------------------------------------------
(* What insertion and removal do to the list, position by position.        *)

LEMMA SplicedIn ==
  ASSUME NEW S, NEW s \in Seq(S), NEW k \in 1..Len(s)+1, NEW x \in S
  PROVE  /\ InsertAt(s, k, x) \in Seq(S)
         /\ Len(InsertAt(s, k, x)) = Len(s) + 1
         /\ \A j \in 1..k-1 : InsertAt(s, k, x)[j] = s[j]
         /\ InsertAt(s, k, x)[k] = x
         /\ \A j \in k+1..Len(s)+1 : InsertAt(s, k, x)[j] = s[j-1]
<1> DEFINE a == SubSeq(s, 1, k-1)
           b == SubSeq(s, k, Len(s))
           m == Len(s)
<1>1. m \in Nat /\ k \in Int /\ 1 <= k /\ k <= m + 1
  BY LenProperties
<1>2. \A i \in 1..m : s[i] \in S
  BY ElementOfSeq
<1>3. /\ a \in Seq(S) /\ Len(a) = k - 1
      /\ \A i \in 1..k-1 : a[i] = s[i]
  <2>1. \A i \in 1..k-1 : s[i] \in S
    BY <1>1, <1>2
  <2>2. /\ a \in Seq(S) /\ Len(a) = IF 1 <= k-1 THEN (k-1)-1+1 ELSE 0
        /\ \A i \in 1..(k-1)-1+1 : a[i] = s[1+i-1]
    BY <1>1, <2>1, SubSeqProperties
  <2> HIDE DEF a
  <2> QED  BY <1>1, <2>2
<1>4. /\ b \in Seq(S) /\ Len(b) = m - k + 1
      /\ \A i \in 1..m-k+1 : b[i] = s[k+i-1]
  <2>1. \A i \in k..m : s[i] \in S
    BY <1>1, <1>2
  <2>2. /\ b \in Seq(S) /\ Len(b) = IF k <= m THEN m-k+1 ELSE 0
        /\ \A i \in 1..m-k+1 : b[i] = s[k+i-1]
    BY <1>1, <2>1, SubSeqProperties
  <2> HIDE DEF b, m
  <2> QED  BY <1>1, <2>2
<1>5. <<x>> \in Seq(S) /\ Len(<<x>>) = 1 /\ <<x>>[1] = x
  OBVIOUS
<1> DEFINE ax == a \o <<x>>
<1>6. /\ ax \in Seq(S) /\ Len(ax) = k
      /\ \A i \in 1..k : ax[i] = IF i <= k-1 THEN s[i] ELSE x
  <2>1. /\ ax \in Seq(S) /\ Len(ax) = Len(a) + Len(<<x>>)
        /\ \A i \in 1..Len(a) + Len(<<x>>) :
             ax[i] = IF i <= Len(a) THEN a[i] ELSE <<x>>[i - Len(a)]
    <3> HIDE DEF a
    <3> QED  BY <1>3, <1>5, ConcatProperties
  <2>2. Len(ax) = k
    <3> HIDE DEF a, ax
    <3> QED  BY <1>1, <1>3, <1>5, <2>1
  <2>3. ASSUME NEW i \in 1..k PROVE ax[i] = IF i <= k-1 THEN s[i] ELSE x
    <3>1. ax[i] = IF i <= k-1 THEN a[i] ELSE <<x>>[i - (k-1)]
      <4> HIDE DEF a, ax
      <4> QED  BY <1>1, <1>3, <1>5, <2>1
    <3>2. i <= k - 1 => a[i] = s[i]
      <4> HIDE DEF a
      <4> QED  BY <1>1, <1>3
    <3>3. ~(i <= k - 1) => i - (k - 1) = 1
      BY <1>1
    <3> HIDE DEF a, ax
    <3> QED  BY <1>5, <3>1, <3>2, <3>3
  <2> QED  BY <2>1, <2>2, <2>3
<1>7. /\ ax \o b \in Seq(S) /\ Len(ax \o b) = m + 1
      /\ \A j \in 1..m+1 :
           (ax \o b)[j] = IF j <= k THEN ax[j] ELSE b[j - k]
  <2>1. /\ ax \o b \in Seq(S) /\ Len(ax \o b) = Len(ax) + Len(b)
        /\ \A i \in 1..Len(ax) + Len(b) :
             (ax \o b)[i] = IF i <= Len(ax) THEN ax[i] ELSE b[i - Len(ax)]
    <3> HIDE DEF ax, b
    <3> QED  BY <1>4, <1>6, ConcatProperties
  <2>2. Len(ax) + Len(b) = m + 1 /\ Len(ax) = k
    <3> HIDE DEF ax, b, m
    <3> QED  BY <1>1, <1>4, <1>6
  <2> QED  BY <2>1, <2>2
<1>8. ASSUME NEW j \in 1..m+1
      PROVE  (ax \o b)[j] = IF j < k THEN s[j] ELSE IF j = k THEN x ELSE s[j-1]
  <2>1. CASE j < k
    <3> HIDE DEF ax, b, m
    <3> QED  BY <1>1, <1>6, <1>7, <2>1
  <2>2. CASE j = k
    <3> HIDE DEF ax, b, m
    <3> QED  BY <1>1, <1>6, <1>7, <2>2
  <2>3. CASE j > k
    <3>1. j - k \in 1..m-k+1 /\ k + (j - k) - 1 = j - 1 /\ ~(j <= k)
      BY <1>1, <2>3
    <3>2. b[j-k] = s[j-1]
      <4> HIDE DEF b, m
      <4> QED  BY <1>4, <3>1
    <3> HIDE DEF ax, b, m
    <3> QED  BY <1>1, <1>7, <2>3, <3>1, <3>2
  <2>4. j < k \/ j = k \/ (j > k /\ ~(j < k) /\ j # k)
    BY <1>1
  <2> HIDE DEF ax, b, m
  <2> QED  BY <2>1, <2>2, <2>3, <2>4
<1>9. InsertAt(s, k, x) = ax \o b
  BY DEF InsertAt
<1>10. \A j \in 1..k-1 : j \in 1..m+1 /\ j < k
  BY <1>1
<1>11. \A j \in k+1..m+1 : j \in 1..m+1 /\ ~(j < k) /\ j # k
  BY <1>1
<1>12. k \in 1..m+1 /\ ~(k < k)
  BY <1>1
<1> HIDE DEF ax, b
<1> QED  BY <1>7, <1>8, <1>9, <1>10, <1>11, <1>12

LEMMA SplicedOut ==
  ASSUME NEW S, NEW s \in Seq(S), NEW k \in 1..Len(s)
  PROVE  /\ RemoveAt(s, k) \in Seq(S)
         /\ Len(RemoveAt(s, k)) = Len(s) - 1
         /\ \A j \in 1..Len(s)-1 :
              RemoveAt(s, k)[j] = IF j < k THEN s[j] ELSE s[j+1]
<1> DEFINE a == SubSeq(s, 1, k-1)
           b == SubSeq(s, k+1, Len(s))
           m == Len(s)
<1>1. m \in Nat /\ k \in Int /\ 1 <= k /\ k <= m
  BY LenProperties
<1>2. \A i \in 1..m : s[i] \in S
  BY ElementOfSeq
<1>3. /\ a \in Seq(S) /\ Len(a) = k - 1
      /\ \A i \in 1..k-1 : a[i] = s[i]
  <2>1. \A i \in 1..k-1 : s[i] \in S
    BY <1>1, <1>2
  <2>2. /\ a \in Seq(S) /\ Len(a) = IF 1 <= k-1 THEN (k-1)-1+1 ELSE 0
        /\ \A i \in 1..(k-1)-1+1 : a[i] = s[1+i-1]
    BY <1>1, <2>1, SubSeqProperties
  <2> HIDE DEF a
  <2> QED  BY <1>1, <2>2
<1>4. /\ b \in Seq(S) /\ Len(b) = m - k
      /\ \A i \in 1..m-k : b[i] = s[k+i]
  <2>1. \A i \in k+1..m : s[i] \in S
    BY <1>1, <1>2
  <2>2. /\ b \in Seq(S) /\ Len(b) = IF k+1 <= m THEN m-(k+1)+1 ELSE 0
        /\ \A i \in 1..m-(k+1)+1 : b[i] = s[(k+1)+i-1]
    BY <1>1, <2>1, SubSeqProperties
  <2> HIDE DEF b, m
  <2> QED  BY <1>1, <2>2
<1>5. /\ a \o b \in Seq(S) /\ Len(a \o b) = m - 1
      /\ \A j \in 1..m-1 : (a \o b)[j] = IF j <= k-1 THEN a[j] ELSE b[j-(k-1)]
  <2>1. /\ a \o b \in Seq(S) /\ Len(a \o b) = Len(a) + Len(b)
        /\ \A i \in 1..Len(a) + Len(b) :
             (a \o b)[i] = IF i <= Len(a) THEN a[i] ELSE b[i - Len(a)]
    <3> HIDE DEF a, b
    <3> QED  BY <1>3, <1>4, ConcatProperties
  <2>2. Len(a) + Len(b) = m - 1 /\ Len(a) = k - 1
    <3> HIDE DEF a, b, m
    <3> QED  BY <1>1, <1>3, <1>4
  <2> QED  BY <2>1, <2>2
<1>6. ASSUME NEW j \in 1..m-1
      PROVE  (a \o b)[j] = IF j < k THEN s[j] ELSE s[j+1]
  <2>1. CASE j < k
    <3> HIDE DEF a, b, m
    <3> QED  BY <1>1, <1>3, <1>5, <2>1
  <2>2. CASE ~(j < k)
    <3>1. j-(k-1) \in 1..m-k /\ k + (j-(k-1)) = j + 1 /\ ~(j <= k-1)
      BY <1>1, <2>2
    <3>2. b[j-(k-1)] = s[j+1]
      <4> HIDE DEF b, m
      <4> QED  BY <1>4, <3>1
    <3> HIDE DEF a, b, m
    <3> QED  BY <1>1, <1>5, <2>2, <3>1, <3>2
  <2> QED  BY <2>1, <2>2
<1> QED  BY <1>5, <1>6 DEF RemoveAt

-----------------------------------------------------------------------------
(* Insertion and removal keep the list free of duplicates and encoding the *)
(* deadlines.                                                              *)

LEMMA EntryParts ==
  ASSUME NEW list \in Seq(Entry)
  PROVE  /\ Len(list) \in Nat
         /\ \A i \in 1..Len(list) : /\ list[i] \in Entry
                                    /\ list[i].evt \in Events
                                    /\ list[i].delta \in Int
<1>1. \A i \in 1..Len(list) : list[i] \in Entry
  BY ElementOfSeq
<1>2. Len(list) \in Nat
  BY LenProperties
<1> QED  BY <1>1, <1>2 DEF Entry

LEMMA DelayedEntry ==
  ASSUME NEW node \in Entry, NEW by \in Int
  PROVE  /\ Delayed(node, by) \in Entry
         /\ Delayed(node, by).evt = node.evt
         /\ Delayed(node, by).delta = node.delta + by
BY DEF Entry, Delayed

EntryOfInserted(list, k, node, j) ==
  IF j < k THEN list[j]
  ELSE IF j = k THEN node
  ELSE IF j = k + 1 THEN Delayed(list[k], -node.delta)
  ELSE list[j-1]

LEMMA InsertedAt ==
  ASSUME NEW list \in Seq(Entry), NEW k \in 1..Len(list)+1, NEW node \in Entry
  PROVE  /\ Inserted(list, k, node) \in Seq(Entry)
         /\ Len(Inserted(list, k, node)) = Len(list) + 1
         /\ \A j \in 1..Len(list)+1 :
              Inserted(list, k, node)[j] = EntryOfInserted(list, k, node, j)
<1> DEFINE m == Len(list)
           s == [i \in 1..m |->
                   IF i = k THEN Delayed(list[i], -node.delta) ELSE list[i]]
<1>1. m \in Nat /\ k \in Int /\ \A i \in 1..m : list[i] \in Entry
  BY EntryParts
<1>2. \A i \in 1..m : s[i] \in Entry
  <2>1. -node.delta \in Int
    BY DEF Entry
  <2> QED  BY <1>1, <2>1, DelayedEntry
<1>3. s \in Seq(Entry) /\ Len(s) = m
  <2>1. s \in [1..m -> Entry]
    BY <1>2
  <2> HIDE DEF s, m
  <2> QED  BY <1>1, <2>1
<1>4. /\ InsertAt(s, k, node) \in Seq(Entry)
      /\ Len(InsertAt(s, k, node)) = m + 1
      /\ \A j \in 1..k-1 : InsertAt(s, k, node)[j] = s[j]
      /\ InsertAt(s, k, node)[k] = node
      /\ \A j \in k+1..m+1 : InsertAt(s, k, node)[j] = s[j-1]
  <2>0. s \in Seq(Entry)
    BY <1>3
  <2>1. k \in 1..Len(s)+1
    BY <1>3
  <2> HIDE DEF s, m
  <2>2. InsertAt(s, k, node) \in Seq(Entry)
    BY <2>0, <2>1, SplicedIn
  <2>3. Len(InsertAt(s, k, node)) = Len(s) + 1
    BY <2>0, <2>1, SplicedIn
  <2>4. \A j \in 1..k-1 : InsertAt(s, k, node)[j] = s[j]
    BY <2>0, <2>1, SplicedIn
  <2>5. InsertAt(s, k, node)[k] = node
    BY <2>0, <2>1, SplicedIn
  <2>6. \A j \in k+1..Len(s)+1 : InsertAt(s, k, node)[j] = s[j-1]
    BY <2>0, <2>1, SplicedIn
  <2> QED  BY <1>3, <2>2, <2>3, <2>4, <2>5, <2>6
<1>5. ASSUME NEW j \in 1..m+1
      PROVE  InsertAt(s, k, node)[j] =
               IF j < k THEN list[j]
               ELSE IF j = k THEN node
               ELSE IF j = k + 1 THEN Delayed(list[k], -node.delta)
               ELSE list[j-1]
  <2>1. \A i \in 1..m :
          s[i] = IF i = k THEN Delayed(list[i], -node.delta) ELSE list[i]
    OBVIOUS
  <2>2. InsertAt(s, k, node)[j] =
          IF j < k THEN s[j] ELSE IF j = k THEN node ELSE s[j-1]
    <3>1. j < k => j \in 1..k-1
      BY <1>1
    <3>2. ~(j < k) /\ j # k => j \in k+1..m+1
      BY <1>1
    <3> HIDE DEF s, m
    <3> QED  BY <1>4, <3>1, <3>2
  <2>3. j < k => j \in 1..m /\ j # k
    BY <1>1
  <2>4. ~(j < k) /\ j # k => j - 1 \in 1..m /\ (j - 1 = k <=> j = k + 1)
    BY <1>1
  <2> HIDE DEF s, m
  <2> QED  BY <2>1, <2>2, <2>3, <2>4
<1>6. Inserted(list, k, node) = InsertAt(s, k, node)
  BY DEF Inserted
<1> HIDE DEF s
<1> QED  BY <1>4, <1>5, <1>6 DEF EntryOfInserted

LEMMA RemovedAt ==
  ASSUME NEW list \in Seq(Entry), NEW k \in 1..Len(list)
  PROVE  /\ Removed(list, k) \in Seq(Entry)
         /\ Len(Removed(list, k)) = Len(list) - 1
         /\ \A j \in 1..Len(list)-1 :
              Removed(list, k)[j] =
                IF j < k THEN list[j]
                ELSE IF j = k THEN Delayed(list[k+1], list[k].delta)
                ELSE list[j+1]
<1> DEFINE m == Len(list)
           s == [i \in 1..m |->
                   IF i = k + 1 THEN Delayed(list[i], list[k].delta)
                                ELSE list[i]]
<1>1. m \in Nat /\ k \in Int /\ \A i \in 1..m : list[i] \in Entry
  BY EntryParts
<1>2. \A i \in 1..m : s[i] \in Entry
  <2>1. list[k].delta \in Int
    BY EntryParts
  <2> QED  BY <1>1, <2>1, DelayedEntry
<1>3. s \in Seq(Entry) /\ Len(s) = m
  <2>1. s \in [1..m -> Entry]
    BY <1>2
  <2> HIDE DEF s, m
  <2> QED  BY <1>1, <2>1
<1>4. /\ RemoveAt(s, k) \in Seq(Entry)
      /\ Len(RemoveAt(s, k)) = m - 1
      /\ \A j \in 1..m-1 :
           RemoveAt(s, k)[j] = IF j < k THEN s[j] ELSE s[j+1]
  <2>1. k \in 1..Len(s)
    BY <1>3
  <2> HIDE DEF s, m
  <2> QED  BY <1>3, <2>1, SplicedOut
<1>5. ASSUME NEW j \in 1..m-1
      PROVE  RemoveAt(s, k)[j] =
               IF j < k THEN list[j]
               ELSE IF j = k THEN Delayed(list[k+1], list[k].delta)
               ELSE list[j+1]
  <2>1. \A i \in 1..m :
          s[i] = IF i = k + 1 THEN Delayed(list[i], list[k].delta) ELSE list[i]
    OBVIOUS
  <2>2. RemoveAt(s, k)[j] = IF j < k THEN s[j] ELSE s[j+1]
    BY <1>4
  <2>3. j < k => j \in 1..m /\ j # k + 1
    BY <1>1
  <2>4. ~(j < k) => j + 1 \in 1..m /\ (j + 1 = k + 1 <=> j = k)
    BY <1>1
  <2> HIDE DEF s, m
  <2> QED  BY <2>1, <2>2, <2>3, <2>4
<1>6. Removed(list, k) = RemoveAt(s, k)
  BY DEF Removed
<1> HIDE DEF s
<1> QED  BY <1>4, <1>5, <1>6

Good(list, d) == list \in Seq(Entry) /\ Distinct(list) /\ Encodes(list, d)

(* Removal: what is left encodes the same deadlines.                       *)
LEMMA RemovedGood ==
  ASSUME NEW d \in [Events -> Int], NEW list, Good(list, d),
         NEW k \in 1..Len(list)
  PROVE  /\ Good(Removed(list, k), d)
         /\ \A i \in 1..Len(Removed(list, k)) :
              Removed(list, k)[i].evt # list[k].evt
<1> DEFINE l == Removed(list, k)
           m == Len(list)
<1>0. list \in Seq(Entry) /\ Distinct(list) /\ Encodes(list, d)
  BY DEF Good
<1>1. m \in Nat /\ k \in 1..m /\ \A i \in 1..m : /\ list[i] \in Entry
                                       /\ list[i].evt \in Events
                                       /\ list[i].delta \in Int
                                       /\ d[list[i].evt] \in Int
  BY <1>0, EntryParts
<1>2. l \in Seq(Entry) /\ Len(l) = m - 1
  BY <1>0, RemovedAt
<1>3. \A j \in 1..m-1 :
        l[j] = IF j < k THEN list[j]
               ELSE IF j = k THEN Delayed(list[k+1], list[k].delta)
               ELSE list[j+1]
  BY <1>0, RemovedAt
<1> HIDE DEF l, m
<1>4. ASSUME NEW j \in 1..m-1
      PROVE  l[j].evt = list[IF j < k THEN j ELSE j + 1].evt
  <2>1. CASE j = k
    <3>1. j + 1 \in 1..m /\ ~(j < k)
      BY <1>1, <2>1
    <3>2. l[j] = Delayed(list[j+1], list[k].delta)
      BY <1>3, <2>1, <3>1
    <3>3. list[j+1] \in Entry
      BY <1>1, <3>1
    <3>4. l[j].evt = list[j+1].evt
      BY <3>2, <3>3 DEF Delayed, Entry
    <3> QED  BY <3>1, <3>4
  <2>2. CASE j # k
    BY <1>3, <2>2
  <2> QED  BY <2>1, <2>2
<1>5. Distinct(l)
  <2>1. ASSUME NEW i \in 1..m-1, NEW j \in 1..m-1, l[i].evt = l[j].evt
        PROVE  i = j
    <3> DEFINE a == IF i < k THEN i ELSE i + 1
               b == IF j < k THEN j ELSE j + 1
    <3>1. a \in 1..m /\ b \in 1..m /\ (a = b => i = j)
      BY <1>1
    <3>2. list[a].evt = list[b].evt
      BY <1>4, <2>1
    <3>3. a = b
      <4> HIDE DEF a, b
      <4> QED  BY <1>0, <3>1, <3>2 DEF Distinct, m
    <3> QED  BY <3>1, <3>3
  <2> QED  BY <1>2, <2>1 DEF Distinct
<1>6. Encodes(l, d)
  <2>1. ASSUME NEW j \in 1..m-1
        PROVE  l[j].delta = d[l[j].evt] - (IF j = 1 THEN 0 ELSE d[l[j-1].evt])
    <3>0. \A i \in 1..m : list[i].delta =
            d[list[i].evt] - (IF i = 1 THEN 0 ELSE d[list[i-1].evt])
      BY <1>0 DEF Encodes, m
    <3>1. CASE j < k
      <4>1. j \in 1..m /\ (j # 1 => j - 1 \in 1..m-1 /\ j - 1 < k)
        BY <1>1, <3>1
      <4>2. l[j] = list[j]
        BY <1>3, <3>1
      <4>3. j # 1 => l[j-1] = list[j-1]
        BY <1>3, <4>1
      <4> QED  BY <3>0, <4>1, <4>2, <4>3
    <3>2. CASE j = k
      <4>1. /\ j + 1 \in 1..m /\ j \in 1..m /\ (j + 1) - 1 = j /\ j + 1 # 1
            /\ j # 1 => j - 1 \in 1..m-1 /\ j - 1 < k
        BY <1>1, <3>2
      <4>2. l[j] = Delayed(list[j+1], list[j].delta)
        <5>1. ~(j < k)
          BY <1>1, <3>2
        <5> QED  BY <1>3, <3>2, <5>1
      <4>8. list[j+1] \in Entry
        BY <1>1, <4>1
      <4>9. list[j].delta \in Int
        BY <1>1, <4>1
      <4>3. l[j].delta = list[j+1].delta + list[j].delta
        BY <4>2, <4>8, <4>9 DEF Delayed, Entry
      <4>4. l[j].evt = list[j+1].evt
        BY <4>2, <4>8, <4>9 DEF Delayed, Entry
      <4>5. list[j+1].delta = d[list[j+1].evt] - d[list[j].evt]
        BY <3>0, <4>1
      <4>6. CASE j = 1
        <5>1. list[j].delta = d[list[j].evt] - 0
          BY <3>0, <4>1, <4>6
        <5> QED  BY <1>1, <4>1, <4>3, <4>4, <4>5, <4>6, <5>1
      <4>7. CASE j # 1
        <5>1. list[j].delta = d[list[j].evt] - d[list[j-1].evt]
          BY <3>0, <4>1, <4>7
        <5>2. l[j-1] = list[j-1] /\ j - 1 \in 1..m
          BY <1>1, <1>3, <4>1, <4>7
        <5>3. /\ d[list[j-1].evt] \in Int /\ d[list[j].evt] \in Int
              /\ d[list[j+1].evt] \in Int
          BY <1>1, <4>1, <5>2
        <5>4. list[j+1].delta + list[j].delta
                = d[list[j+1].evt] - d[list[j-1].evt]
          BY <4>5, <5>1, <5>3
        <5>5. l[j].delta = d[l[j].evt] - d[l[j-1].evt]
          BY <4>3, <4>4, <5>2, <5>4
        <5> QED  BY <4>7, <5>5
      <4> QED  BY <4>6, <4>7
    <3>3. CASE j > k
      <4>1. /\ j + 1 \in 1..m /\ (j + 1) - 1 = j /\ j + 1 # 1 /\ j # 1
            /\ j - 1 \in 1..m-1 /\ ~(j - 1 < k) /\ (j - 1) + 1 = j
            /\ ~(j < k) /\ j # k
        BY <1>1, <3>3
      <4>2. l[j] = list[j+1]
        BY <1>3, <4>1
      <4>3. l[j-1].evt = list[j].evt
        BY <1>4, <4>1
      <4>4. list[j+1].delta = d[list[j+1].evt] - d[list[j].evt]
        BY <3>0, <4>1
      <4> QED  BY <4>1, <4>2, <4>3, <4>4
    <3>4. j < k \/ j = k \/ j > k
      BY <1>1
    <3> QED  BY <3>1, <3>2, <3>3, <3>4
  <2> QED  BY <1>2, <2>1 DEF Encodes
<1>7. ASSUME NEW i \in 1..m-1 PROVE l[i].evt # list[k].evt
  <2> DEFINE a == IF i < k THEN i ELSE i + 1
  <2>1. a \in 1..m /\ a # k
    BY <1>1
  <2>2. l[i].evt = list[a].evt
    BY <1>4
  <2> HIDE DEF a
  <2> QED  BY <1>0, <1>1, <2>1, <2>2 DEF Distinct, m
<1> QED  BY <1>2, <1>5, <1>6, <1>7 DEF Good, l

(* Insertion of an event that is not in the list, at any place.            *)
LEMMA InsertedGood ==
  ASSUME NEW d \in [Events -> Int], NEW list, Good(list, d),
         NEW n \in Events, \A i \in 1..Len(list) : list[i].evt # n,
         NEW k \in 1..Len(list)+1, NEW node \in Entry,
         node.evt = n,
         node.delta = d[n] - (IF k = 1 THEN 0 ELSE d[list[k-1].evt])
  PROVE  Good(Inserted(list, k, node), d)
<1> DEFINE l == Inserted(list, k, node)
           m == Len(list)
<1>0. list \in Seq(Entry) /\ Distinct(list) /\ Encodes(list, d)
  BY DEF Good
<1>1. m \in Nat /\ k \in 1..m+1 /\ \A i \in 1..m : /\ list[i] \in Entry
                                         /\ list[i].evt \in Events
                                         /\ list[i].delta \in Int
                                         /\ d[list[i].evt] \in Int
  BY <1>0, EntryParts
<1>2. l \in Seq(Entry) /\ Len(l) = m + 1
  BY <1>0, InsertedAt
<1>3. \A j \in 1..m+1 :
        l[j] = IF j < k THEN list[j]
               ELSE IF j = k THEN node
               ELSE IF j = k + 1 THEN Delayed(list[k], -node.delta)
               ELSE list[j-1]
  <2>1. list \in Seq(Entry)
    BY <1>0
  <2>2. \A j \in 1..m+1 : l[j] = EntryOfInserted(list, k, node, j)
    BY <2>1, InsertedAt, Zenon
  <2> HIDE DEF l
  <2> QED  BY <2>2 DEF EntryOfInserted
<1>a. \A i \in 1..m : list[i].evt # n
  OBVIOUS
<1>b. node.delta = d[n] - (IF k = 1 THEN 0 ELSE d[list[k-1].evt])
  OBVIOUS
<1>c. d[n] \in Int /\ node.delta \in Int
  BY DEF Entry
<1> HIDE DEF l, m
<1>4. ASSUME NEW j \in 1..m+1
      PROVE  /\ j = k => l[j].evt = n
             /\ j # k => l[j].evt = list[IF j < k THEN j ELSE j - 1].evt
  <2>1. CASE j = k
    BY <1>1, <1>3, <2>1
  <2>2. CASE j = k + 1
    <3>1. j - 1 \in 1..m /\ ~(j < k) /\ j # k /\ j - 1 = k
      BY <1>1, <2>2
    <3>2. l[j] = Delayed(list[j-1], -node.delta)
      BY <1>3, <2>2, <3>1
    <3>3. list[j-1] \in Entry
      BY <1>1, <3>1
    <3>4. l[j].evt = list[j-1].evt
      BY <3>2, <3>3 DEF Delayed, Entry
    <3> QED  BY <3>1, <3>4
  <2>3. CASE j # k /\ j # k + 1
    BY <1>3, <2>3
  <2> QED  BY <2>1, <2>2, <2>3
<1>5. Distinct(l)
  <2>1. ASSUME NEW i \in 1..m+1, NEW j \in 1..m+1, l[i].evt = l[j].evt
        PROVE  i = j
    <3> DEFINE a == IF i < k THEN i ELSE i - 1
               b == IF j < k THEN j ELSE j - 1
    <3>1. (i # k => a \in 1..m) /\ (j # k => b \in 1..m)
      BY <1>1
    <3>2. i # k /\ j # k /\ a = b => i = j
      BY <1>1
    <3>3. (i # k => l[i].evt = list[a].evt) /\ (j # k => l[j].evt = list[b].evt)
      BY <1>4
    <3>4. (i = k => l[i].evt = n) /\ (j = k => l[j].evt = n)
      BY <1>4
    <3> HIDE DEF a, b
    <3>5. i = k <=> j = k
      BY <1>a, <2>1, <3>1, <3>3, <3>4
    <3>6. i # k => a = b
      BY <1>0, <2>1, <3>1, <3>3, <3>5 DEF Distinct, m
    <3> QED  BY <3>2, <3>5, <3>6
  <2> QED  BY <1>2, <2>1 DEF Distinct
<1>6. Encodes(l, d)
  <2>1. ASSUME NEW j \in 1..m+1
        PROVE  l[j].delta = d[l[j].evt] - (IF j = 1 THEN 0 ELSE d[l[j-1].evt])
    <3>0. \A i \in 1..m : list[i].delta =
            d[list[i].evt] - (IF i = 1 THEN 0 ELSE d[list[i-1].evt])
      BY <1>0 DEF Encodes, m
    <3>1. CASE j < k
      <4>1. j \in 1..m /\ (j # 1 => j - 1 \in 1..m+1 /\ j - 1 < k)
        BY <1>1, <3>1
      <4>2. l[j] = list[j]
        BY <1>3, <3>1
      <4>3. j # 1 => l[j-1] = list[j-1]
        BY <1>3, <4>1
      <4> QED  BY <3>0, <4>1, <4>2, <4>3
    <3>2. CASE j = k
      <4>1. ~(j < k) /\ (j # 1 => j - 1 \in 1..m+1 /\ j - 1 < k)
        BY <1>1, <3>2
      <4>2. l[j] = node
        BY <1>3, <3>2, <4>1
      <4>3. j # 1 => l[j-1] = list[j-1]
        BY <1>3, <4>1
      <4>4. node.evt = n
        OBVIOUS
      <4> QED  BY <1>b, <3>2, <4>2, <4>3, <4>4
    <3>3. CASE j = k + 1
      <4>1. /\ k \in 1..m /\ j - 1 = k /\ k \in 1..m+1 /\ j # 1
            /\ ~(j < k) /\ j # k
        BY <1>1, <3>3
      <4>2. l[j] = Delayed(list[k], -node.delta)
        BY <1>3, <3>3, <4>1
      <4>3. list[k] \in Entry
        BY <1>1, <4>1
      <4>4. l[j].delta = list[k].delta - node.delta
        <5>1. l[j].delta = list[k].delta + (-node.delta)
          BY <4>2, <4>3, <1>c DEF Delayed, Entry
        <5>2. list[k].delta \in Int
          BY <1>1, <4>1
        <5> QED  BY <5>1, <5>2, <1>c
      <4>5. l[j].evt = list[k].evt
        BY <4>2, <4>3 DEF Delayed, Entry
      <4>6. l[j-1].evt = n
        BY <1>4, <4>1
      <4>7. d[list[k].evt] \in Int
        BY <1>1, <4>1
      <4>8. CASE k = 1
        <5>1. list[k].delta = d[list[k].evt] - 0
          BY <3>0, <4>1, <4>8
        <5>2. node.delta = d[n] - 0
          BY <1>b, <4>8
        <5> QED  BY <1>c, <4>1, <4>4, <4>5, <4>6, <4>7, <5>1, <5>2
      <4>9. CASE k # 1
        <5>1. list[k].delta = d[list[k].evt] - d[list[k-1].evt]
          BY <3>0, <4>1, <4>9
        <5>2. node.delta = d[n] - d[list[k-1].evt]
          BY <1>b, <4>9
        <5>3. k - 1 \in 1..m
          BY <1>1, <4>1, <4>9
        <5>4. d[list[k-1].evt] \in Int
          BY <1>1, <5>3
        <5> QED  BY <1>c, <4>1, <4>4, <4>5, <4>6, <4>7, <5>1, <5>2, <5>4
      <4> QED  BY <4>8, <4>9
    <3>4. CASE j > k + 1
      <4>1. /\ j - 1 \in 1..m /\ j - 1 # 1 /\ j # 1
            /\ j - 1 \in 1..m+1 /\ ~(j - 1 < k) /\ j - 1 # k
            /\ ~(j < k) /\ j # k /\ j # k + 1
        BY <1>1, <3>4
      <4>2. l[j] = list[j-1]
        BY <1>3, <4>1
      <4>3. l[j-1].evt = list[(j-1)-1].evt
        BY <1>4, <4>1
      <4>4. list[j-1].delta = d[list[j-1].evt] - d[list[(j-1)-1].evt]
        BY <3>0, <4>1
      <4> QED  BY <4>1, <4>2, <4>3, <4>4
    <3>5. j < k \/ j = k \/ j = k + 1 \/ j > k + 1
      BY <1>1
    <3> QED  BY <3>1, <3>2, <3>3, <3>4, <3>5
  <2> QED  BY <1>2, <2>1 DEF Encodes
<1> QED  BY <1>2, <1>5, <1>6 DEF Good, l

-----------------------------------------------------------------------------
(* Cancel and Schedule.                                                    *)

Timers == [list : Seq(Entry), dur : Int, cnt : Int]

(* The countdown was loaded from the head.                                 *)
HeadFirst(t) == t.list # <<>> => t.dur = t.list[1].delta

LEMMA GoodElsewhere ==
  ASSUME NEW d \in [Events -> Int], NEW list, Good(list, d),
         NEW n \in Events, \A i \in 1..Len(list) : list[i].evt # n,
         NEW x \in Int
  PROVE  Good(list, [d EXCEPT ![n] = x])
<1> DEFINE e == [d EXCEPT ![n] = x]
           m == Len(list)
<1>0. list \in Seq(Entry) /\ Distinct(list) /\ Encodes(list, d)
  BY DEF Good
<1>1. m \in Nat /\ \A i \in 1..m : list[i].evt \in Events /\ list[i].evt # n
  BY <1>0, EntryParts
<1>2. \A i \in 1..m : e[list[i].evt] = d[list[i].evt]
  BY <1>1
<1>3. \A i \in 1..m : i # 1 => i - 1 \in 1..m
  BY <1>1
<1>4. \A i \in 1..m : list[i].delta =
            d[list[i].evt] - (IF i = 1 THEN 0 ELSE d[list[i-1].evt])
  BY <1>0 DEF Encodes
<1> HIDE DEF e
<1>5. Encodes(list, e)
  BY <1>2, <1>3, <1>4 DEF Encodes
<1> QED  BY <1>0, <1>5 DEF Good, e

LEMMA FirstStop ==
  ASSUME NEW list \in Seq(Entry), NEW running, NEW time
  PROVE  FirstOf(StopsAt(list, running, time)) \in 1..Len(list)+1
<1> DEFINE S == StopsAt(list, running, time)
<1>1. Len(list) \in Nat
  BY LenProperties
<1>2. S \subseteq 1..Len(list)+1 /\ Len(list)+1 \in S
  BY <1>1 DEF StopsAt
<1>3. S \subseteq Nat /\ S # {}
  BY <1>1, <1>2
<1> HIDE DEF S
<1>4. \E i \in S : \A j \in S : i <= j
  BY <1>3, LeastElement
<1>5. FirstOf(S) \in S
  BY <1>4, Zenon DEF FirstOf
<1> QED  BY <1>2, <1>5 DEF S

LEMMA CancelAtGood ==
  ASSUME NEW d \in [Events -> Int], NEW t \in Timers, Good(t.list, d),
         NEW k \in 1..Len(t.list)
  PROVE  /\ CancelAt(t, k) \in Timers
         /\ Good(CancelAt(t, k).list, d)
         /\ \A i \in 1..Len(CancelAt(t, k).list) :
              CancelAt(t, k).list[i].evt # t.list[k].evt
         /\ PendingCycles(CancelAt(t, k)) = PendingCycles(t)
         /\ HeadFirst(t) => HeadFirst(CancelAt(t, k))
<1> DEFINE l == Removed(t.list, k)
           c == CancelAt(t, k)
<1>0. t.list \in Seq(Entry) /\ t.dur \in Int /\ t.cnt \in Int
  BY DEF Timers
<1>1. Good(l, d)
  BY RemovedGood
<1>2. \A i \in 1..Len(l) : l[i].evt # t.list[k].evt
  BY RemovedGood
<1>3. l \in Seq(Entry)
  BY <1>1 DEF Good
<1>4. c.list = l
  BY <1>0 DEF CancelAt, Timers
<1>5. CASE k = 1
  <2> DEFINE v == IF l = <<>> THEN IdleDelta + t.list[1].delta ELSE l[1].delta
  <2>1. c = [list |-> l, dur |-> v, cnt |-> v - PendingCycles(t)]
    BY <1>5 DEF CancelAt
  <2>2. v \in Int
    <3>1. t.list[1].delta \in Int
      BY <1>0, <1>5, EntryParts
    <3>2. l # <<>> => l[1].delta \in Int
      <4>1. l # <<>> => 1 \in 1..Len(l)
        BY <1>3, LenProperties, EmptySeq
      <4> HIDE DEF l
      <4> QED  BY <1>3, <4>1, EntryParts
    <3>3. IdleDelta \in Int
      BY RatesAssumption
    <3> QED  BY <3>1, <3>2, <3>3
  <2>3. PendingCycles(t) \in Int
    BY <1>0 DEF PendingCycles
  <2>4. l # <<>> => v = l[1].delta
    OBVIOUS
  <2> HIDE DEF l, v, c
  <2>5. c \in Timers
    BY <1>3, <2>1, <2>2, <2>3 DEF Timers
  <2>6. PendingCycles(c) = PendingCycles(t)
    <3>1. c.dur = v /\ c.cnt = v - PendingCycles(t)
      BY <2>1
    <3>2. PendingCycles(c) = v - (v - PendingCycles(t))
      BY <3>1 DEF PendingCycles
    <3> QED  BY <2>2, <2>3, <3>2
  <2>7. HeadFirst(c)
    BY <1>4, <2>1, <2>4 DEF HeadFirst
  <2> QED  BY <1>1, <1>2, <1>4, <2>5, <2>6, <2>7 DEF c
<1>6. CASE k # 1
  <2>1. c = [t EXCEPT !.list = l]
    BY <1>6 DEF CancelAt
  <2>2. HeadFirst(t) => HeadFirst(c)
    <3>1. Len(t.list) \in Nat
      BY <1>0, LenProperties
    <3>2. 1 \in 1..Len(t.list)-1 /\ 1 < k
      BY <1>6, <3>1
    <3>3. l[1] = t.list[1]
      BY <1>0, <3>2, RemovedAt
    <3>4. t.list # <<>>
      BY <1>0, <3>2, EmptySeq
    <3>5. c.dur = t.dur
      BY <2>1 DEF Timers
    <3> HIDE DEF l, c
    <3> QED  BY <1>4, <3>3, <3>4, <3>5 DEF HeadFirst
  <2> HIDE DEF l, c
  <2>3. c \in Timers
    BY <1>3, <2>1 DEF Timers
  <2>4. PendingCycles(c) = PendingCycles(t)
    BY <2>1 DEF PendingCycles, Timers
  <2> QED  BY <1>1, <1>2, <1>4, <2>2, <2>3, <2>4 DEF c
<1> QED  BY <1>5, <1>6

LEMMA CancelGood ==
  ASSUME NEW d \in [Events -> Int], NEW t \in Timers, Good(t.list, d),
         NEW n \in Events
  PROVE  /\ Cancel(t, n) \in Timers
         /\ Good(Cancel(t, n).list, d)
         /\ \A i \in 1..Len(Cancel(t, n).list) : Cancel(t, n).list[i].evt # n
         /\ PendingCycles(Cancel(t, n)) = PendingCycles(t)
         /\ HeadFirst(t) => HeadFirst(Cancel(t, n))
<1>1. CASE IsScheduled(t.list, n)
  <2> DEFINE k == CHOOSE i \in Position(t.list, n) : TRUE
  <2>1. k \in Position(t.list, n)
    BY <1>1 DEF IsScheduled
  <2> HIDE DEF k
  <2>2. k \in 1..Len(t.list) /\ t.list[k].evt = n
    BY <2>1 DEF Position
  <2>3. Cancel(t, n) = CancelAt(t, k)
    BY <1>1 DEF Cancel, k
  <2>4. CancelAt(t, k) \in Timers
    BY <2>2, CancelAtGood
  <2>5. Good(CancelAt(t, k).list, d)
    BY <2>2, CancelAtGood
  <2>6. \A i \in 1..Len(CancelAt(t, k).list) :
          CancelAt(t, k).list[i].evt # t.list[k].evt
    BY <2>2, CancelAtGood
  <2>7. PendingCycles(CancelAt(t, k)) = PendingCycles(t)
    BY <2>2, CancelAtGood
  <2>8. HeadFirst(t) => HeadFirst(CancelAt(t, k))
    BY <2>2, CancelAtGood
  <2> QED  BY <2>2, <2>3, <2>4, <2>5, <2>6, <2>7, <2>8
<1>2. CASE ~IsScheduled(t.list, n)
  BY <1>2 DEF Cancel, IsScheduled, Position
<1> QED  BY <1>1, <1>2

LEMMA ScheduleAtGood ==
  ASSUME NEW d \in [Events -> Int], NEW t \in Timers, Good(t.list, d),
         NEW n \in Events, \A i \in 1..Len(t.list) : t.list[i].evt # n,
         NEW time \in Int, NEW k \in 1..Len(t.list)+1
  PROVE  LET s == ScheduleAt(t, n, time, Running(t.list, PendingCycles(t)), k)
         IN  /\ s \in Timers
             /\ Good(s.list, [d EXCEPT ![n] = PendingCycles(t) + time])
             /\ PendingCycles(s) = PendingCycles(t)
             /\ HeadFirst(t) => HeadFirst(s)
<1> DEFINE p       == PendingCycles(t)
           e       == [d EXCEPT ![n] = p + time]
           running == Running(t.list, p)
           node    == [evt |-> n, delta |-> time - running[k]]
           l       == Inserted(t.list, k, node)
           s       == ScheduleAt(t, n, time, running, k)
<1>0. t.list \in Seq(Entry) /\ t.dur \in Int /\ t.cnt \in Int
  BY DEF Timers
<1>1. p \in Int /\ k \in Int
  BY <1>0, LenProperties DEF PendingCycles
<1>2. Len(t.list) \in Nat /\ \A i \in 1..Len(t.list) : t.list[i].evt \in Events
  BY <1>0, EntryParts
<1>3. p + time \in Int /\ e[n] = p + time /\ e \in [Events -> Int]
  BY <1>1
<1>4. Good(t.list, e)
  <2> HIDE DEF p
  <2> QED  BY <1>3, GoodElsewhere
<1>5. running[k] = (IF k = 1 THEN 0 ELSE e[t.list[k-1].evt]) - p
  <2>1. Encodes(t.list, e)
    BY <1>4 DEF Good
  <2> HIDE DEF p, e, running
  <2>2. Running(t.list, p) = Offset(t.list, e, p)
    BY <1>0, <1>1, <1>3, <2>1, RunningIsOffset
  <2> QED  BY <2>2 DEF Offset, running
<1>6. k # 1 => e[t.list[k-1].evt] \in Int
  <2>1. k # 1 => k - 1 \in 1..Len(t.list)
    BY <1>1, <1>2
  <2> HIDE DEF e
  <2> QED  BY <1>2, <1>3, <2>1
<1> HIDE DEF p, e, running
<1>7. /\ node \in Entry /\ node.evt = n
      /\ node.delta = e[n] - (IF k = 1 THEN 0 ELSE e[t.list[k-1].evt])
  <2>1. node.delta = time - running[k] /\ node.evt = n
    OBVIOUS
  <2>2. CASE k = 1
    <3>1. running[k] = 0 - p
      BY <1>5, <2>2
    <3>2. node.delta \in Int /\ node.delta = e[n] - 0
      BY <1>1, <1>3, <2>1, <3>1
    <3> QED  BY <2>2, <3>2 DEF Entry
  <2>3. CASE k # 1
    <3>1. running[k] = e[t.list[k-1].evt] - p
      BY <1>5, <2>3
    <3>2. node.delta \in Int /\ node.delta = e[n] - e[t.list[k-1].evt]
      BY <1>1, <1>3, <1>6, <2>1, <2>3, <3>1
    <3> QED  BY <2>3, <3>2 DEF Entry
  <2> QED  BY <2>2, <2>3
<1>8. k = 1 => node.delta = p + time
  BY <1>3, <1>7, <1>1
<1> HIDE DEF node
<1>9. Good(l, e)
  BY <1>3, <1>4, <1>7, InsertedGood
<1>10. l \in Seq(Entry)
  BY <1>9 DEF Good
<1>11. CASE k = 1
  <2>1. s = [list |-> l, dur |-> node.delta, cnt |-> time]
    BY <1>11 DEF ScheduleAt, node
  <2>2. l[1] = node
    <3>1. 1 \in 1..Len(t.list)+1 /\ ~(1 < k)
      BY <1>2, <1>11
    <3>2. l[1] = EntryOfInserted(t.list, k, node, 1)
      BY <1>0, <1>7, <3>1, InsertedAt
    <3> QED  BY <1>11, <3>1, <3>2 DEF EntryOfInserted
  <2> HIDE DEF l, s
  <2>3. s \in Timers
    BY <1>1, <1>8, <1>10, <1>11, <2>1 DEF Timers
  <2>4. PendingCycles(s) = p
    <3>1. PendingCycles(s) = (p + time) - time
      BY <1>8, <1>11, <2>1 DEF PendingCycles
    <3> QED  BY <1>1, <3>1
  <2>5. HeadFirst(s) /\ s.list = l
    BY <2>1, <2>2 DEF HeadFirst
  <2> QED  BY <1>9, <2>3, <2>4, <2>5 DEF s, p, e, running
<1>12. CASE k # 1
  <2>1. s = [t EXCEPT !.list = l]
    BY <1>12 DEF ScheduleAt, node
  <2>2. l[1] = t.list[1] /\ t.list # <<>>
    <3>1. 1 \in 1..Len(t.list)+1 /\ 1 < k /\ Len(t.list) # 0
      BY <1>2, <1>12
    <3>2. l[1] = EntryOfInserted(t.list, k, node, 1)
      BY <1>0, <1>7, <3>1, InsertedAt
    <3> QED  BY <3>1, <3>2, EmptySeq DEF EntryOfInserted
  <2> HIDE DEF l, s
  <2>3. s \in Timers /\ s.list = l /\ s.dur = t.dur /\ s.cnt = t.cnt
    BY <1>10, <2>1 DEF Timers
  <2>4. PendingCycles(s) = p
    BY <2>3 DEF PendingCycles, p
  <2>5. HeadFirst(t) => HeadFirst(s)
    BY <2>2, <2>3 DEF HeadFirst
  <2> QED  BY <1>9, <2>3, <2>4, <2>5 DEF s, p, e, running
<1> QED  BY <1>11, <1>12

(* The deadlines after Schedule.                                            *)
DueAfter(d, t, n, time) == [d EXCEPT ![n] = PendingCycles(t) + time]

(* Whatever was scheduled before, Schedule gives n its new deadline and    *)
(* leaves the others theirs.                                               *)
LEMMA ScheduleGood ==
  ASSUME NEW d \in [Events -> Int], NEW t \in Timers, Good(t.list, d),
         NEW n \in Events, NEW time \in Int
  PROVE  /\ Schedule(t, n, time) \in Timers
         /\ Good(Schedule(t, n, time).list, DueAfter(d, t, n, time))
         /\ PendingCycles(Schedule(t, n, time)) = PendingCycles(t)
         /\ HeadFirst(t) => HeadFirst(Schedule(t, n, time))
<1> DEFINE c == Cancel(t, n)
           running == Running(c.list, PendingCycles(c))
           k == FirstOf(StopsAt(c.list, running, time))
           s == ScheduleAt(c, n, time, running, k)
<1>1. c \in Timers
  BY CancelGood
<1>2. Good(c.list, d)
  BY CancelGood
<1>3. \A i \in 1..Len(c.list) : c.list[i].evt # n
  BY CancelGood
<1>4. PendingCycles(c) = PendingCycles(t)
  BY CancelGood
<1>5. HeadFirst(t) => HeadFirst(c)
  BY CancelGood
<1>6. Schedule(t, n, time) = s
  BY DEF Schedule
<1> HIDE DEF c
<1>7. k \in 1..Len(c.list)+1
  <2>1. c.list \in Seq(Entry)
    BY <1>1 DEF Timers
  <2> HIDE DEF running
  <2> QED  BY <2>1, FirstStop
<1> HIDE DEF k
<1>8. /\ s \in Timers
      /\ Good(s.list, [d EXCEPT ![n] = PendingCycles(c) + time])
      /\ PendingCycles(s) = PendingCycles(c)
      /\ HeadFirst(c) => HeadFirst(s)
  BY <1>1, <1>2, <1>3, <1>7, ScheduleAtGood
<1> HIDE DEF s
<1> QED  BY <1>4, <1>5, <1>6, <1>8 DEF DueAfter

-----------------------------------------------------------------------------
(* The inductive invariant.                                                *)

IInv == TypeOK /\ NoDuplicates /\ DeltasEncodeDeadlines /\ CountdownIsTheHeads

LEMMA IInvParts ==
  ASSUME IInv
  PROVE  /\ Timer \in Timers
         /\ Good(Timer.list, due)
         /\ Timer.list = List
         /\ PendingCycles(Timer) = evtCycleDuration - evtCycleCountdown
         /\ phase # "handler" => HeadFirst(Timer)
         /\ phase = "handler" => PendingCycles(Timer) = 0
<1>1. /\ List \in Seq(Entry)
      /\ evtCycleDuration \in Int /\ evtCycleCountdown \in Int
  BY DEF IInv, TypeOK
<1>2. /\ Timer.list = List /\ Timer.dur = evtCycleDuration
      /\ Timer.cnt = evtCycleCountdown /\ Timer \in Timers
  BY <1>1 DEF Timer, Timers
<1>3. Good(Timer.list, due)
  BY <1>1, <1>2 DEF IInv, NoDuplicates, DeltasEncodeDeadlines, Good
<1>4. PendingCycles(Timer) = evtCycleDuration - evtCycleCountdown
  BY <1>2 DEF PendingCycles
<1>5. phase # "handler" => HeadFirst(Timer)
  BY <1>2 DEF IInv, CountdownIsTheHeads, HeadFirst
<1>6. phase = "handler" => PendingCycles(Timer) = 0
  BY <1>1, <1>4 DEF IInv, CountdownIsTheHeads
<1> QED  BY <1>2, <1>3, <1>4, <1>5, <1>6

(* A step that installs the timer t and the deadlines d.                   *)
LEMMA TimerStep ==
  ASSUME IInv, UNCHANGED SpuAsync, NEW t \in Timers, NEW d \in [Events -> Int], Good(t.list, d),
         SetTimer(t), due' = d, UNCHANGED <<phase, exeEvt, oldtime>>,
         phase # "handler" => HeadFirst(t),
         phase = "handler" => PendingCycles(t) = 0
  PROVE  IInv'
<1>1. /\ List' = t.list /\ evtCycleDuration' = t.dur
      /\ evtCycleCountdown' = t.cnt /\ due' = d
      /\ phase' = phase /\ exeEvt' = exeEvt /\ oldtime' = oldtime
  BY DEF SetTimer
<1>2. t.list \in Seq(Entry) /\ t.dur \in Int /\ t.cnt \in Int
  BY DEF Timers
<1>3. TypeOK'
  BY <1>1, <1>2 DEF IInv, TypeOK
<1>4. NoDuplicates' /\ DeltasEncodeDeadlines'
  BY <1>1 DEF Good, NoDuplicates, DeltasEncodeDeadlines
<1>5. CountdownIsTheHeads'
  <2>1. CASE phase = "handler"
    <3>1. t.dur - t.cnt = 0
      BY <2>1 DEF PendingCycles
    <3> QED  BY <1>1, <1>2, <2>1, <3>1 DEF CountdownIsTheHeads
  <2>2. CASE phase # "handler"
    BY <1>1, <2>2 DEF CountdownIsTheHeads, HeadFirst
  <2> QED  BY <2>1, <2>2
<1> QED  BY <1>3, <1>4, <1>5 DEF IInv

(* AddCycles moves the present, not the deadlines.                         *)
LEMMA AddCyclesGood ==
  ASSUME NEW t \in Timers, NEW amount \in Int
  PROVE  /\ AddCycles(t, amount) \in Timers
         /\ AddCycles(t, amount).list = t.list
         /\ HeadFirst(t) => HeadFirst(AddCycles(t, amount))
<1>1. /\ AddCycles(t, amount) \in Timers
      /\ AddCycles(t, amount).list = t.list
      /\ AddCycles(t, amount).dur = t.dur
  BY DEF AddCycles, Timers
<1> QED  BY <1>1 DEF HeadFirst

LEMMA ScheduleStep ==
  ASSUME IInv, UNCHANGED SpuAsync, NEW t \in Timers, t.list = List,
         phase # "handler" => HeadFirst(t),
         phase = "handler" => PendingCycles(t) = 0,
         NEW n \in Events, NEW time \in Int,
         ScheduleEvt(t, n, time), UNCHANGED <<phase, exeEvt, oldtime>>
  PROVE  IInv'
<1> DEFINE s == Schedule(t, n, time)
           d == DueAfter(due, t, n, time)
<1>1. due \in [Events -> Int] /\ PendingCycles(t) \in Int
  BY DEF IInv, TypeOK, Timers, PendingCycles
<1>2. Good(t.list, due)
  BY IInvParts
<1>3. s \in Timers
  BY <1>1, <1>2, ScheduleGood
<1>4. Good(s.list, d)
  BY <1>1, <1>2, ScheduleGood
<1>5. PendingCycles(s) = PendingCycles(t)
  BY <1>1, <1>2, ScheduleGood
<1>6. HeadFirst(t) => HeadFirst(s)
  BY <1>1, <1>2, ScheduleGood
<1>7. d \in [Events -> Int]
  BY <1>1 DEF DueAfter
<1>8. SetTimer(s) /\ due' = d
  BY DEF ScheduleEvt, DueAfter
<1> HIDE DEF s, d
<1> QED  BY <1>3, <1>4, <1>5, <1>6, <1>7, <1>8, TimerStep

LEMMA CancelStep ==
  ASSUME IInv, UNCHANGED SpuAsync, NEW t \in Timers, t.list = List,
         phase # "handler" => HeadFirst(t),
         phase = "handler" => PendingCycles(t) = 0,
         NEW n \in Events,
         CancelEvt(t, n), UNCHANGED <<phase, exeEvt, oldtime>>
  PROVE  IInv'
<1> DEFINE s == Cancel(t, n)
           d == [due EXCEPT ![n] = 0]
<1>1. due \in [Events -> Int]
  BY DEF IInv, TypeOK
<1>2. Good(t.list, due)
  BY IInvParts
<1>3. s \in Timers
  BY <1>1, <1>2, CancelGood
<1>4. Good(s.list, due)
  BY <1>1, <1>2, CancelGood
<1>5. \A i \in 1..Len(s.list) : s.list[i].evt # n
  BY <1>1, <1>2, CancelGood
<1>6. PendingCycles(s) = PendingCycles(t)
  BY <1>1, <1>2, CancelGood
<1>7. HeadFirst(t) => HeadFirst(s)
  BY <1>1, <1>2, CancelGood
<1>8. SetTimer(s) /\ due' = d /\ d \in [Events -> Int]
  BY <1>1 DEF CancelEvt
<1> HIDE DEF s
<1>9. Good(s.list, d)
  BY <1>1, <1>4, <1>5, 0 \in Int, GoodElsewhere, Zenon
<1> HIDE DEF d
<1> QED  BY <1>3, <1>6, <1>7, <1>8, <1>9, TimerStep

(* The head goes, and psxRegs.cycle moves to its deadline.                 *)
LEMMA TailGood ==
  ASSUME NEW d \in [Events -> Int], NEW list, Good(list, d), list # <<>>,
         NEW dur \in Int, dur = list[1].delta, NEW e \in [Events -> Int],
         \A v \in Events : IsScheduled(Tail(list), v) => e[v] = d[v] - dur
  PROVE  Good(Tail(list), e)
<1> DEFINE l == Tail(list)
           m == Len(list)
<1>0. list \in Seq(Entry) /\ Distinct(list) /\ Encodes(list, d)
  BY DEF Good
<1>1. /\ m \in Nat
      /\ \A i \in 1..m : list[i].evt \in Events /\ d[list[i].evt] \in Int
  BY <1>0, EntryParts
<1>2. l \in Seq(Entry) /\ Len(l) = m - 1 /\ \A i \in 1..m-1 : l[i] = list[i+1]
  BY <1>0, HeadTailProperties
<1>3. \A i \in 1..m : list[i].delta =
            d[list[i].evt] - (IF i = 1 THEN 0 ELSE d[list[i-1].evt])
  BY <1>0 DEF Encodes
<1>4. \A i, j \in 1..m : list[i].evt = list[j].evt => i = j
  BY <1>0 DEF Distinct
<1>5. dur = d[list[1].evt]
  <2>1. 1 \in 1..m
    BY <1>0, <1>1, EmptySeq
  <2>2. dur = d[list[1].evt] - 0
    BY <1>3, <2>1
  <2> QED  BY <1>1, <2>1, <2>2
<1> HIDE DEF m
<1>6. \A i \in 1..m-1 : e[l[i].evt] = d[list[i+1].evt] - dur
  <2>1. TAKE i \in 1..m-1
  <2>2. i + 1 \in 1..m /\ l[i].evt = list[i+1].evt
    BY <1>1, <1>2
  <2>3. l[i].evt \in Events
    BY <1>1, <2>2
  <2>4. i \in 1..Len(l)
    BY <1>2
  <2> HIDE DEF l
  <2>5. IsScheduled(l, l[i].evt)
    BY <2>4 DEF IsScheduled, Position
  <2> QED  BY <2>2, <2>3, <2>5 DEF l
<1> HIDE DEF l
<1>7. Distinct(l)
  <2>1. ASSUME NEW i \in 1..m-1, NEW j \in 1..m-1, l[i].evt = l[j].evt
        PROVE  i = j
    <3>1. i + 1 \in 1..m /\ j + 1 \in 1..m /\ (i + 1 = j + 1 => i = j)
      BY <1>1
    <3>2. list[i+1].evt = list[j+1].evt
      BY <1>2, <2>1
    <3> QED  BY <1>4, <3>1, <3>2
  <2> QED  BY <1>2, <2>1 DEF Distinct
<1>8. Encodes(l, e)
  <2>1. ASSUME NEW i \in 1..m-1
        PROVE  l[i].delta = e[l[i].evt] - (IF i = 1 THEN 0 ELSE e[l[i-1].evt])
    <3>1. i + 1 \in 1..m /\ i \in 1..m /\ (i + 1) - 1 = i /\ i + 1 # 1
      BY <1>1
    <3>2. list[i+1].delta = d[list[i+1].evt] - d[list[i].evt]
      BY <1>3, <3>1
    <3>3. l[i].delta = list[i+1].delta
      BY <1>2
    <3>4. e[l[i].evt] = d[list[i+1].evt] - dur
      BY <1>6
    <3>5. d[list[i+1].evt] \in Int /\ d[list[i].evt] \in Int
      BY <1>1, <3>1
    <3>6. CASE i = 1
      BY <1>5, <3>2, <3>3, <3>4, <3>5, <3>6
    <3>7. CASE i # 1
      <4>1. i - 1 \in 1..m-1 /\ (i - 1) + 1 = i
        BY <1>1, <3>7
      <4>2. e[l[i-1].evt] = d[list[i].evt] - dur
        BY <1>6, <4>1
      <4> QED  BY <3>2, <3>3, <3>4, <3>5, <3>7, <4>2
    <3> QED  BY <3>6, <3>7
  <2> QED  BY <1>2, <2>1 DEF Encodes
<1> QED  BY <1>2, <1>7, <1>8 DEF Good, l

LEMMA ExecuteHeadStep == IInv /\ UNCHANGED SpuAsync /\ ExecuteHead => IInv'
<1> SUFFICES ASSUME IInv, UNCHANGED SpuAsync, ExecuteHead PROVE IInv'
  OBVIOUS
<1>1. /\ List \in Seq(Entry) /\ List # <<>> /\ phase = "drain"
      /\ evtCycleDuration \in Int /\ evtCycleCountdown \in Int
      /\ due \in [Events -> Int] /\ SpuAsync \in BOOLEAN
  BY DEF IInv, TypeOK, ExecuteHead
<1>2. Good(List, due)
  BY IInvParts
<1>3. evtCycleDuration = List[1].delta
  BY <1>1 DEF IInv, CountdownIsTheHeads
<1>4. Head(List) = List[1] /\ 1 \in 1..Len(List)
  BY <1>1, EmptySeq
<1>5. Head(List).evt \in Events
  BY <1>1, <1>4, EntryParts
<1>6. due' \in [Events -> Int]
  BY <1>1 DEF ExecuteHead
<1>7. \A v \in Events :
        IsScheduled(Tail(List), v) => due'[v] = due[v] - evtCycleDuration
  BY DEF ExecuteHead
<1>8. Good(Tail(List), due')
  BY <1>1, <1>2, <1>3, <1>6, <1>7, TailGood
<1>9. List' = Tail(List)
  BY DEF ExecuteHead
<1>10. List' \in Seq(Entry) /\ NoDuplicates' /\ DeltasEncodeDeadlines'
  BY <1>8, <1>9 DEF Good, NoDuplicates, DeltasEncodeDeadlines
<1>11. TypeOK'
  <2>1. Head(List).evt # Idle
    BY <1>5, EventsAssumption
  <2>2. /\ oldtime' = evtCycleCountdown
        /\ evtCycleCountdown' = 0 /\ evtCycleDuration' = 0
        /\ exeEvt' = Head(List).evt /\ phase' = "handler"
    BY DEF ExecuteHead
  <2> QED  BY <1>1, <1>5, <1>6, <1>10, <2>1, <2>2 DEF TypeOK
<1>12. CountdownIsTheHeads'
  BY DEF ExecuteHead, CountdownIsTheHeads
<1> QED  BY <1>10, <1>11, <1>12 DEF IInv

(* The counters are reloaded from the head; the list stays as it is.       *)
LEMMA ReloadStep ==
  ASSUME IInv, UNCHANGED SpuAsync, NEW late \in Int, Reload(List, late),
         UNCHANGED <<List, due>>, exeEvt' = Idle, oldtime' \in Int
  PROVE  IInv'
<1>1. /\ List \in Seq(Entry) /\ List' = List /\ due' = due
      /\ due \in [Events -> Int] /\ SpuAsync \in BOOLEAN
  BY DEF IInv, TypeOK
<1>2. HeadDelta(List) \in Int
  <2>1. IdleDelta \in Int
    BY RatesAssumption
  <2>2. List # <<>> => 1 \in 1..Len(List)
    BY <1>1, EmptySeq
  <2>3. List # <<>> => List[1].delta \in Int
    BY <1>1, <2>2, EntryParts
  <2> QED  BY <2>1, <2>3 DEF HeadDelta
<1>3. /\ evtCycleDuration' = HeadDelta(List)
      /\ evtCycleCountdown' = late + HeadDelta(List)
      /\ phase' \in {"cpu", "drain"}
  BY DEF Reload
<1>4. TypeOK'
  BY <1>1, <1>2, <1>3 DEF TypeOK
<1>5. NoDuplicates' /\ DeltasEncodeDeadlines'
  BY <1>1 DEF IInv, NoDuplicates, DeltasEncodeDeadlines
<1>6. CountdownIsTheHeads'
  BY <1>1, <1>3 DEF HeadDelta, CountdownIsTheHeads
<1> QED  BY <1>4, <1>5, <1>6 DEF IInv

LEMMA InitInv == Init => IInv
<1> SUFFICES ASSUME Init PROVE IInv
  OBVIOUS
<1> DEFINE t0 == [list |-> <<>>, dur |-> 32, cnt |-> 32]
           d0 == [v \in Events |-> 0]
           t  == Schedule(t0, SPU, 0)
<1>1. /\ List = t.list /\ evtCycleDuration = t.dur /\ evtCycleCountdown = t.cnt
      /\ phase = "cpu" /\ exeEvt = Idle /\ oldtime = 0
      /\ due = d0 /\ d0 \in [Events -> Int] /\ SpuAsync \in BOOLEAN
  BY DEF Init
<1>2. t0 \in Timers /\ HeadFirst(t0) /\ Good(t0.list, d0)
  <2>1. <<>> \in Seq(Entry) /\ Len(<<>>) = 0
    BY EmptySeq
  <2>2. t0 \in Timers /\ HeadFirst(t0)
    BY <2>1 DEF Timers, HeadFirst
  <2>3. Distinct(<<>>) /\ Encodes(<<>>, d0)
    BY <2>1 DEF Distinct, Encodes
  <2> QED  BY <2>1, <2>2, <2>3 DEF Good
<1>3. SPU \in Events /\ 0 \in Int
  BY EventsAssumption
<1>4. PendingCycles(t0) = 0
  BY DEF PendingCycles
<1> HIDE DEF t0, d0
<1>5. t \in Timers
  BY <1>1, <1>2, <1>3, ScheduleGood
<1>6. Good(t.list, DueAfter(d0, t0, SPU, 0))
  BY <1>1, <1>2, <1>3, ScheduleGood
<1>7. HeadFirst(t)
  BY <1>1, <1>2, <1>3, ScheduleGood
<1>8. DueAfter(d0, t0, SPU, 0) = d0
  BY <1>3, <1>4 DEF DueAfter, d0
<1> HIDE DEF t
<1>9. TypeOK
  <2>1. t.list \in Seq(Entry) /\ t.dur \in Int /\ t.cnt \in Int
    BY <1>5 DEF Timers
  <2> QED  BY <1>1, <2>1 DEF TypeOK
<1>10. NoDuplicates /\ DeltasEncodeDeadlines
  BY <1>1, <1>6, <1>8 DEF Good, NoDuplicates, DeltasEncodeDeadlines
<1>11. CountdownIsTheHeads
  BY <1>1, <1>7 DEF HeadFirst, CountdownIsTheHeads
<1> QED  BY <1>9, <1>10, <1>11 DEF IInv

LEMMA NextInv == IInv /\ [Next]_<<vars, SpuAsync>> => IInv'
<1> SUFFICES ASSUME IInv, [Next]_<<vars, SpuAsync>> PROVE IInv'
  OBVIOUS
<1>1. /\ List \in Seq(Entry) /\ due \in [Events -> Int] /\ oldtime \in Int
      /\ evtCycleDuration \in Int /\ evtCycleCountdown \in Int
      /\ exeEvt \in Events \union {Idle}
      /\ phase = "handler" <=> exeEvt # Idle
  BY DEF IInv, TypeOK
<1>2. /\ Timer \in Timers /\ Timer.list = List
      /\ phase # "handler" => HeadFirst(Timer)
      /\ phase = "handler" => PendingCycles(Timer) = 0
  BY IInvParts
<1>3. Good(List, due)
  BY IInvParts
<1>4. Times \in [Events -> SUBSET Nat] /\ SpuRate \in Int /\ SPU \in Events
  BY EventsAssumption, RatesAssumption
<1>5. /\ AddCycles(Timer, 1) \in Timers
      /\ AddCycles(Timer, 1).list = List
      /\ HeadFirst(Timer) => HeadFirst(AddCycles(Timer, 1))
  BY <1>2, 1 \in Int, AddCyclesGood
<1>u. UNCHANGED SpuAsync
  BY DEF Next
<1>6. CASE Instruction
  <2> DEFINE t == AddCycles(Timer, 1)
  <2>1. phase = "cpu" /\ SetTimer(t) /\ UNCHANGED <<phase, exeEvt, oldtime>>
        /\ due' = due
    BY <1>6 DEF Instruction, Runs
  <2>2. t \in Timers /\ Good(t.list, due) /\ HeadFirst(t)
    BY <1>2, <1>3, <1>5, <2>1
  <2> HIDE DEF t
  <2> QED  BY <1>u, <1>1, <2>1, <2>2, TimerStep
<1>7. CASE BranchTest
  BY <1>u, <1>7 DEF BranchTest, IInv, TypeOK, NoDuplicates, DeltasEncodeDeadlines,
              CountdownIsTheHeads
<1>8. CASE ExecuteHead
  BY <1>u, <1>8, ExecuteHeadStep
<1>9. CASE ExecuteIdle
  <2>1. /\ Reload(List, evtCycleCountdown) /\ UNCHANGED <<List, due>>
        /\ exeEvt' = Idle /\ oldtime' \in Int
    BY <1>1, <1>9 DEF ExecuteIdle
  <2> QED  BY <1>u, <1>1, <2>1, ReloadStep
<1>10. CASE HandleSPU
  <2>1. /\ ScheduleEvt(Timer, SPU, SpuRate)
        /\ UNCHANGED <<phase, exeEvt, oldtime>>
    BY <1>10 DEF HandleSPU
  <2> QED  BY <1>u, <1>2, <1>4, <2>1, ScheduleStep
<1>11. CASE Return
  <2>1. /\ Reload(List, oldtime) /\ UNCHANGED <<List, due>>
        /\ exeEvt' = Idle /\ oldtime' \in Int
    BY <1>11 DEF Return
  <2> QED  BY <1>u, <1>1, <2>1, ReloadStep
<1>12. ASSUME NEW n \in Events, NEW time \in Times[n], GuestSchedule(n, time)
       PROVE  IInv'
  <2>1. /\ ScheduleEvt(AddCycles(Timer, 1), n, time) /\ phase = "cpu"
        /\ UNCHANGED <<phase, exeEvt, oldtime>>
    BY <1>12 DEF GuestSchedule, MayAccess, Runs
  <2>2. time \in Int
    BY <1>4
  <2> QED  BY <1>u, <1>2, <1>5, <2>1, <2>2, ScheduleStep
<1>13. ASSUME NEW n \in Events, NEW time \in Times[n], HandlerSchedule(n, time)
       PROVE  IInv'
  <2>1. ScheduleEvt(Timer, n, time) /\ UNCHANGED <<phase, exeEvt, oldtime>>
    BY <1>13 DEF HandlerSchedule
  <2>2. time \in Int
    BY <1>4
  <2> QED  BY <1>u, <1>2, <2>1, <2>2, ScheduleStep
<1>14. ASSUME NEW n \in Events, GuestCancel(n) PROVE IInv'
  <2>1. /\ CancelEvt(AddCycles(Timer, 1), n) /\ phase = "cpu"
        /\ UNCHANGED <<phase, exeEvt, oldtime>>
    BY <1>14 DEF GuestCancel, MayAccess, Runs
  <2> QED  BY <1>u, <1>2, <1>5, <2>1, CancelStep
<1>15. ASSUME NEW n \in Events, HandlerCancel(n) PROVE IInv'
  <2>1. CancelEvt(Timer, n) /\ UNCHANGED <<phase, exeEvt, oldtime>>
    BY <1>15 DEF HandlerCancel
  <2> QED  BY <1>u, <1>2, <2>1, CancelStep
<1>16. CASE UNCHANGED vars
  BY <1>u, <1>16 DEF vars, IInv, TypeOK, NoDuplicates, DeltasEncodeDeadlines,
               CountdownIsTheHeads
<1> QED  BY <1>6, <1>7, <1>8, <1>9, <1>10, <1>11, <1>12, <1>13, <1>14, <1>15,
            <1>16 DEF Next, Step

(* In every behaviour of the scheduler, for any set of events, any delays  *)
(* and any order of guest stores, handlers and branch tests, the variables *)
(* keep their types.                                                       *)
THEOREM TypeInvariance == Spec => []TypeOK
<1>1. IInv => TypeOK
  BY DEF IInv
<1> QED  BY InitInv, NextInv, <1>1, PTL DEF Spec

(* No event is ever in the list twice.                                     *)
THEOREM NeverTwice == Spec => []NoDuplicates
<1>1. IInv => NoDuplicates
  BY DEF IInv
<1> QED  BY InitInv, NextInv, <1>1, PTL DEF Spec

(* The deltas of the list always encode the deadlines the events were      *)
(* scheduled with: the sums that Schedule and Cancel adjust never drift.   *)
THEOREM ListEncodesDeadlines == Spec => []DeltasEncodeDeadlines
<1>1. IInv => DeltasEncodeDeadlines
  BY DEF IInv
<1> QED  BY InitInv, NextInv, <1>1, PTL DEF Spec

(* The countdown always runs to the head's deadline.                       *)
THEOREM CountdownFollowsHead == Spec => []CountdownIsTheHeads
<1>1. IInv => CountdownIsTheHeads
  BY DEF IInv
<1> QED  BY InitInv, NextInv, <1>1, PTL DEF Spec

(* ExecutePendingEvents runs an event with psxRegs.cycle at the event's    *)
(* deadline, to the cycle.                                                 *)
THEOREM PunctualToTheCycle == Spec => RunsAtItsDeadline
<1>1. ASSUME IInv, [Next]_<<vars, SpuAsync>>, NEW e \in Events, exeEvt' = e, exeEvt = Idle
      PROVE  due[e] = evtCycleDuration
  <2>1. e # Idle
    BY EventsAssumption
  <2>2. ExecuteHead
    BY <1>1, <2>1 DEF Next, Step, vars, Instruction, BranchTest, ExecuteIdle,
       HandleSPU, Return, GuestSchedule, HandlerSchedule, GuestCancel,
       HandlerCancel
  <2>3. /\ List \in Seq(Entry) /\ List # <<>> /\ phase = "drain"
        /\ due \in [Events -> Int] /\ e = Head(List).evt
    BY <1>1, <2>2 DEF IInv, TypeOK, ExecuteHead
  <2>4. e = List[1].evt /\ 1 \in 1..Len(List)
    BY <2>3, EmptySeq
  <2>5. evtCycleDuration = List[1].delta
    BY <1>1, <2>3 DEF IInv, CountdownIsTheHeads
  <2>6. List[1].delta = due[List[1].evt] - 0
    BY <1>1, <2>4 DEF IInv, DeltasEncodeDeadlines, Encodes
  <2> QED  BY <2>3, <2>4, <2>5, <2>6
<1>2. IInv /\ [Next]_<<vars, SpuAsync>> =>
        [\A e \in Events : exeEvt' = e /\ exeEvt = Idle => due[e] = evtCycleDuration]_vars
  BY <1>1
<1> QED  BY InitInv, NextInv, <1>2, PTL DEF Spec, RunsAtItsDeadline

-----------------------------------------------------------------------------
(* What insertion and removal do to the events of the list, and to the     *)
(* order of their deadlines.                                               *)

(* The deadlines of the list do not decrease.                              *)
Ordered(list, d) ==
  \A i, j \in 1..Len(list) : i <= j => d[list[i].evt] <= d[list[j].evt]

(* None of them is before the instant p.                                   *)
NoneBefore(list, d, p) == \A i \in 1..Len(list) : p <= d[list[i].evt]

LEMMA RemovedEvents ==
  ASSUME NEW list \in Seq(Entry), NEW k \in 1..Len(list)
  PROVE  /\ Len(Removed(list, k)) = Len(list) - 1
         /\ \A j \in 1..Len(list)-1 :
              Removed(list, k)[j].evt = list[IF j < k THEN j ELSE j + 1].evt
<1>1. Len(list) \in Nat /\ k \in Int /\ \A i \in 1..Len(list) : list[i] \in Entry
  BY EntryParts
<1>2. ASSUME NEW j \in 1..Len(list)-1
      PROVE  Removed(list, k)[j].evt = list[IF j < k THEN j ELSE j + 1].evt
  <2>1. Removed(list, k)[j] = IF j < k THEN list[j]
                              ELSE IF j = k THEN Delayed(list[k+1], list[k].delta)
                              ELSE list[j+1]
    BY RemovedAt
  <2>2. j = k => k + 1 \in 1..Len(list)
    BY <1>1
  <2>3. j = k => Delayed(list[k+1], list[k].delta).evt = list[k+1].evt
    BY <1>1, <2>2 DEF Delayed, Entry
  <2>4. j = k => ~(j < k)
    BY <1>1
  <2> QED  BY <2>1, <2>3, <2>4
<1> QED  BY <1>2, RemovedAt

LEMMA InsertedEvents ==
  ASSUME NEW list \in Seq(Entry), NEW k \in 1..Len(list)+1, NEW node \in Entry
  PROVE  /\ Len(Inserted(list, k, node)) = Len(list) + 1
         /\ Inserted(list, k, node)[k].evt = node.evt
         /\ \A j \in 1..Len(list)+1 :
              j # k => Inserted(list, k, node)[j].evt
                         = list[IF j < k THEN j ELSE j - 1].evt
<1>1. Len(list) \in Nat /\ k \in Int /\ \A i \in 1..Len(list) : list[i] \in Entry
  BY EntryParts
<1>2. ASSUME NEW j \in 1..Len(list)+1
      PROVE  Inserted(list, k, node)[j] =
               IF j < k THEN list[j]
               ELSE IF j = k THEN node
               ELSE IF j = k + 1 THEN Delayed(list[k], -node.delta)
               ELSE list[j-1]
  <2>1. Inserted(list, k, node)[j] = EntryOfInserted(list, k, node, j)
    BY InsertedAt, Zenon
  <2> QED  BY <2>1 DEF EntryOfInserted
<1>3. Inserted(list, k, node)[k].evt = node.evt
  <2>1. ~(k < k) /\ k \in 1..Len(list)+1
    BY <1>1
  <2> QED  BY <1>2, <2>1
<1>4. ASSUME NEW j \in 1..Len(list)+1, j # k
      PROVE  Inserted(list, k, node)[j].evt = list[IF j < k THEN j ELSE j - 1].evt
  <2>1. j = k + 1 => ~(j < k) /\ j - 1 = k /\ k \in 1..Len(list)
    BY <1>1
  <2>2. j = k + 1 => Delayed(list[k], -node.delta).evt = list[k].evt
    BY <1>1, <2>1 DEF Delayed, Entry
  <2> QED  BY <1>2, <1>4, <2>1, <2>2
<1>5. Len(Inserted(list, k, node)) = Len(list) + 1
  BY InsertedAt
<1> QED  BY <1>3, <1>4, <1>5

LEMMA RemovedKeepsOthers ==
  ASSUME NEW list \in Seq(Entry), NEW k \in 1..Len(list), Distinct(list),
         NEW e \in Events
  PROVE  IsScheduled(Removed(list, k), e)
           <=> IsScheduled(list, e) /\ e # list[k].evt
<1> DEFINE l == Removed(list, k)
           m == Len(list)
<1>1. m \in Nat /\ k \in 1..m /\ k \in Int
  BY EntryParts
<1>2. Len(l) = m - 1
  BY RemovedEvents
<1>3. \A j \in 1..m-1 : l[j].evt = list[IF j < k THEN j ELSE j + 1].evt
  BY RemovedEvents
<1>4. \A i, j \in 1..m : list[i].evt = list[j].evt => i = j
  BY DEF Distinct
<1>5. IsScheduled(l, e) <=> \E j \in 1..m-1 : l[j].evt = e
  BY <1>2 DEF IsScheduled, Position
<1>6. IsScheduled(list, e) <=> \E i \in 1..m : list[i].evt = e
  BY DEF IsScheduled, Position
<1> HIDE DEF l, m
<1>7. ASSUME NEW j \in 1..m-1, l[j].evt = e
      PROVE  (\E i \in 1..m : list[i].evt = e) /\ e # list[k].evt
  <2> DEFINE a == IF j < k THEN j ELSE j + 1
  <2>1. a \in 1..m /\ a # k
    BY <1>1
  <2>2. list[a].evt = e
    BY <1>3, <1>7
  <2> HIDE DEF a
  <2> QED  BY <1>1, <1>4, <2>1, <2>2
<1>8. ASSUME NEW i \in 1..m, list[i].evt = e, e # list[k].evt
      PROVE  \E j \in 1..m-1 : l[j].evt = e
  <2>1. i # k
    BY <1>8
  <2>2. CASE i < k
    <3>1. i \in 1..m-1
      BY <1>1, <2>2
    <3> QED  BY <1>3, <1>8, <2>2, <3>1
  <2>3. CASE i > k
    <3>1. i - 1 \in 1..m-1 /\ ~(i - 1 < k) /\ (i - 1) + 1 = i
      BY <1>1, <2>3
    <3> QED  BY <1>3, <1>8, <3>1
  <2> QED  BY <1>1, <2>1, <2>2, <2>3
<1> QED  BY <1>5, <1>6, <1>7, <1>8 DEF l

LEMMA InsertedAddsOne ==
  ASSUME NEW list \in Seq(Entry), NEW k \in 1..Len(list)+1, NEW node \in Entry,
         NEW e \in Events
  PROVE  IsScheduled(Inserted(list, k, node), e)
           <=> IsScheduled(list, e) \/ e = node.evt
<1> DEFINE l == Inserted(list, k, node)
           m == Len(list)
<1>1. m \in Nat /\ k \in 1..m+1 /\ k \in Int
  BY EntryParts
<1>2. Len(l) = m + 1
  BY InsertedEvents
<1>3. l[k].evt = node.evt
  BY InsertedEvents
<1>4. \A j \in 1..m+1 : j # k => l[j].evt = list[IF j < k THEN j ELSE j - 1].evt
  BY InsertedEvents
<1>5. IsScheduled(l, e) <=> \E j \in 1..m+1 : l[j].evt = e
  BY <1>2 DEF IsScheduled, Position
<1>6. IsScheduled(list, e) <=> \E i \in 1..m : list[i].evt = e
  BY DEF IsScheduled, Position
<1> HIDE DEF l, m
<1>7. ASSUME NEW j \in 1..m+1, l[j].evt = e
      PROVE  (\E i \in 1..m : list[i].evt = e) \/ e = node.evt
  <2> DEFINE a == IF j < k THEN j ELSE j - 1
  <2>1. j # k => a \in 1..m
    BY <1>1
  <2>2. j # k => list[a].evt = e
    BY <1>4, <1>7
  <2> HIDE DEF a
  <2> QED  BY <1>3, <1>7, <2>1, <2>2
<1>8. ASSUME NEW i \in 1..m, list[i].evt = e
      PROVE  \E j \in 1..m+1 : l[j].evt = e
  <2>1. CASE i < k
    <3>1. i \in 1..m+1 /\ i # k
      BY <1>1, <2>1
    <3> QED  BY <1>4, <1>8, <2>1, <3>1
  <2>2. CASE ~(i < k)
    <3>1. i + 1 \in 1..m+1 /\ ~(i + 1 < k) /\ (i + 1) - 1 = i /\ i + 1 # k
      BY <1>1, <2>2
    <3> QED  BY <1>4, <1>8, <3>1
  <2> QED  BY <2>1, <2>2
<1> QED  BY <1>1, <1>3, <1>5, <1>6, <1>7, <1>8 DEF l

(* Removal keeps the order.                                                *)
LEMMA RemovedOrdered ==
  ASSUME NEW list \in Seq(Entry), NEW k \in 1..Len(list),
         NEW d \in [Events -> Int], NEW p \in Int,
         Ordered(list, d), NoneBefore(list, d, p)
  PROVE  Ordered(Removed(list, k), d) /\ NoneBefore(Removed(list, k), d, p)
<1> DEFINE l == Removed(list, k)
           m == Len(list)
           at(j) == IF j < k THEN j ELSE j + 1
<1>1. m \in Nat /\ k \in 1..m /\ k \in Int
  BY EntryParts
<1>2. Len(l) = m - 1
  BY RemovedEvents
<1>3. \A j \in 1..m-1 : l[j].evt = list[at(j)].evt
  BY RemovedEvents
<1>4. /\ \A i, j \in 1..m : i <= j => d[list[i].evt] <= d[list[j].evt]
      /\ \A i \in 1..m : p <= d[list[i].evt]
  BY DEF Ordered, NoneBefore
<1> HIDE DEF l, m
<1>5. \A j \in 1..m-1 : at(j) \in 1..m
  BY <1>1
<1>6. \A i, j \in 1..m-1 : i <= j => at(i) <= at(j)
  BY <1>1
<1> HIDE DEF at
<1>7. \A i, j \in 1..m-1 : i <= j => d[l[i].evt] <= d[l[j].evt]
  BY <1>3, <1>4, <1>5, <1>6
<1>8. \A j \in 1..m-1 : p <= d[l[j].evt]
  BY <1>3, <1>4, <1>5
<1> QED  BY <1>2, <1>7, <1>8 DEF Ordered, NoneBefore, l

(* Insertion in front of the first later deadline keeps it.                *)
LEMMA InsertedOrdered ==
  ASSUME NEW list \in Seq(Entry), NEW k \in 1..Len(list)+1, NEW node \in Entry,
         NEW d \in [Events -> Int], NEW p \in Int,
         Ordered(list, d), NoneBefore(list, d, p), p <= d[node.evt],
         \A i \in 1..Len(list) : i < k => d[list[i].evt] <= d[node.evt],
         k \in 1..Len(list) => d[node.evt] <= d[list[k].evt]
  PROVE  /\ Ordered(Inserted(list, k, node), d)
         /\ NoneBefore(Inserted(list, k, node), d, p)
<1> DEFINE l == Inserted(list, k, node)
           m == Len(list)
           at(j) == IF j < k THEN j ELSE j - 1
<1>1. m \in Nat /\ k \in 1..m+1 /\ k \in Int
  BY EntryParts
<1>2. Len(l) = m + 1
  BY InsertedEvents
<1>3. l[k].evt = node.evt
  BY InsertedEvents
<1>4. \A j \in 1..m+1 : j # k => l[j].evt = list[at(j)].evt
  BY InsertedEvents
<1>5. /\ \A i, j \in 1..m : i <= j => d[list[i].evt] <= d[list[j].evt]
      /\ \A i \in 1..m : p <= d[list[i].evt]
  BY DEF Ordered, NoneBefore
<1>6. \A i \in 1..m : d[list[i].evt] \in Int
  BY EntryParts
<1>7. d[node.evt] \in Int
  BY DEF Entry
<1>8. \A i \in 1..m : i < k => d[list[i].evt] <= d[node.evt]
  OBVIOUS
<1>9. \A i \in 1..m : ~(i < k) => d[node.evt] <= d[list[i].evt]
  <2>1. TAKE i \in 1..m
  <2>2. HAVE ~(i < k)
  <2>3. k \in 1..m /\ k <= i
    BY <1>1, <2>2
  <2>4. d[node.evt] <= d[list[k].evt] /\ d[list[k].evt] <= d[list[i].evt]
    BY <1>5, <2>3
  <2> HIDE DEF m
  <2> QED  BY <1>6, <1>7, <2>3, <2>4
<1> HIDE DEF l, m
<1>10. \A j \in 1..m+1 : j # k => at(j) \in 1..m /\ (at(j) < k <=> j < k)
  BY <1>1
<1>11. \A i, j \in 1..m+1 : i # k /\ j # k /\ i <= j => at(i) <= at(j)
  BY <1>1
<1> HIDE DEF at
<1>12. ASSUME NEW i \in 1..m+1, NEW j \in 1..m+1, i <= j
       PROVE  d[l[i].evt] <= d[l[j].evt]
  <2>1. CASE i # k /\ j # k
    BY <1>4, <1>5, <1>10, <1>11, <1>12, <2>1
  <2>2. CASE i = k /\ j # k
    <3>1. ~(j < k)
      BY <1>1, <1>12, <2>2
    <3> QED  BY <1>3, <1>4, <1>9, <1>10, <2>2, <3>1
  <2>3. CASE i # k /\ j = k
    <3>1. i < k
      BY <1>1, <1>12, <2>3
    <3> QED  BY <1>3, <1>4, <1>8, <1>10, <2>3, <3>1
  <2>4. CASE i = k /\ j = k
    BY <1>3, <1>7, <2>4
  <2> QED  BY <2>1, <2>2, <2>3, <2>4
<1>13. \A j \in 1..m+1 : p <= d[l[j].evt]
  BY <1>3, <1>4, <1>5, <1>10
<1> QED  BY <1>2, <1>12, <1>13 DEF Ordered, NoneBefore, l

(* Cancel takes exactly n out of the list and keeps the others in order.   *)
LEMMA CancelTakesOut ==
  ASSUME NEW d \in [Events -> Int], NEW t \in Timers, Good(t.list, d),
         NEW n \in Events, NEW p \in Int
  PROVE  /\ \A e \in Events : IsScheduled(Cancel(t, n).list, e)
                                <=> IsScheduled(t.list, e) /\ e # n
         /\ Ordered(t.list, d) /\ NoneBefore(t.list, d, p) =>
              Ordered(Cancel(t, n).list, d) /\ NoneBefore(Cancel(t, n).list, d, p)
<1>0. t.list \in Seq(Entry) /\ Distinct(t.list)
  BY DEF Good
<1>1. CASE IsScheduled(t.list, n)
  <2> DEFINE k == CHOOSE i \in Position(t.list, n) : TRUE
  <2>1. k \in Position(t.list, n)
    BY <1>1 DEF IsScheduled
  <2> HIDE DEF k
  <2>2. k \in 1..Len(t.list) /\ t.list[k].evt = n
    BY <2>1 DEF Position
  <2>3. Cancel(t, n).list = Removed(t.list, k)
    <3>1. Cancel(t, n) = CancelAt(t, k)
      BY <1>1 DEF Cancel, k
    <3> QED  BY <3>1 DEF CancelAt, Timers
  <2>4. \A e \in Events : IsScheduled(Removed(t.list, k), e)
                            <=> IsScheduled(t.list, e) /\ e # n
    BY <1>0, <2>2, RemovedKeepsOthers
  <2>5. Ordered(t.list, d) /\ NoneBefore(t.list, d, p) =>
          Ordered(Removed(t.list, k), d) /\ NoneBefore(Removed(t.list, k), d, p)
    BY <1>0, <2>2, RemovedOrdered
  <2> QED  BY <2>3, <2>4, <2>5
<1>2. CASE ~IsScheduled(t.list, n)
  <2>1. Cancel(t, n) = t
    BY <1>2 DEF Cancel
  <2> QED  BY <1>2, <2>1
<1> QED  BY <1>1, <1>2

(* Where the loop of Schedule stops when no deadline has passed: every     *)
(* node before is due no later than the new one, the node itself later.    *)
LEMMA StopsInOrder ==
  ASSUME NEW d \in [Events -> Int], NEW list, Good(list, d),
         NEW p \in Int, NEW time \in Nat, NoneBefore(list, d, p), NEW k,
         k = FirstOf(StopsAt(list, Running(list, p), time))
  PROVE  /\ k \in 1..Len(list)+1
         /\ \A i \in 1..Len(list) : i < k => d[list[i].evt] <= p + time
         /\ k \in 1..Len(list) => p + time <= d[list[k].evt]
<1> DEFINE running == Running(list, p)
           S == StopsAt(list, running, time)
<1>1. /\ list \in Seq(Entry) /\ Encodes(list, d)
      /\ Len(list) \in Nat
      /\ \A i \in 1..Len(list) : list[i].delta \in Int /\ d[list[i].evt] \in Int
  BY EntryParts DEF Good
<1>2. running = Offset(list, d, p)
  BY <1>1, RunningIsOffset
<1> HIDE DEF running
<1>3. ASSUME NEW i \in 1..Len(list)
      PROVE  running[i] + list[i].delta = d[list[i].evt] - p
  <2>1. list[i].delta = d[list[i].evt]
                          - (IF i = 1 THEN 0 ELSE d[list[i-1].evt])
    BY <1>1 DEF Encodes
  <2>2. running[i] = (IF i = 1 THEN 0 ELSE d[list[i-1].evt]) - p
    <3>1. i \in 1..Len(list)+1
      BY <1>1
    <3> QED  BY <1>2, <3>1 DEF Offset
  <2>3. i # 1 => i - 1 \in 1..Len(list)
    BY <1>1
  <2>4. (IF i = 1 THEN 0 ELSE d[list[i-1].evt]) \in Int
    BY <1>1, <2>3
  <2> DEFINE q == IF i = 1 THEN 0 ELSE d[list[i-1].evt]
  <2>5. list[i].delta = d[list[i].evt] - q /\ running[i] = q - p /\ q \in Int
    BY <2>1, <2>2, <2>4
  <2> HIDE DEF q
  <2> QED  BY <1>1, <2>5
<1>4. \A i \in 1..Len(list) : p <= d[list[i].evt]
  BY DEF NoneBefore
<1>5. \A i \in 1..Len(list) :
        UGreater(running[i] + list[i].delta, time) <=> d[list[i].evt] > p + time
  <2>1. TAKE i \in 1..Len(list)
  <2>2. ~(running[i] + list[i].delta < 0) /\ ~(time < 0)
    BY <1>1, <1>3, <1>4
  <2>3. UGreater(running[i] + list[i].delta, time)
          <=> running[i] + list[i].delta > time
    BY <2>2 DEF UGreater
  <2> QED  BY <1>1, <1>3, <2>3
<1>6. S = {i \in 1..Len(list) : d[list[i].evt] > p + time} \union {Len(list) + 1}
  BY <1>5 DEF StopsAt
<1>7. k \in S /\ \A j \in S : k <= j
  <2>1. S \subseteq Nat /\ S # {}
    BY <1>1, <1>6
  <2> HIDE DEF S
  <2>2. \E i \in S : \A j \in S : i <= j
    BY <2>1, LeastElement
  <2>3. k = FirstOf(S)
    BY DEF S, running
  <2> QED  BY <2>2, <2>3, Zenon DEF FirstOf
<1>8. k \in 1..Len(list)+1
  BY <1>1, <1>6, <1>7
<1>9. \A i \in 1..Len(list) : i < k => d[list[i].evt] <= p + time
  <2>1. TAKE i \in 1..Len(list)
  <2>2. HAVE i < k
  <2>3. ~(k <= i)
    BY <1>1, <1>8, <2>2
  <2>4. i \notin S
    BY <1>7, <2>3
  <2>5. ~(d[list[i].evt] > p + time)
    BY <1>6, <2>4
  <2> QED  BY <1>1, <2>5
<1>10. k \in 1..Len(list) => p + time <= d[list[k].evt]
  <2>1. HAVE k \in 1..Len(list)
  <2>2. k # Len(list) + 1
    BY <1>1, <2>1
  <2>3. d[list[k].evt] > p + time
    BY <1>6, <1>7, <2>2
  <2> QED  BY <1>1, <2>1, <2>3
<1> QED  BY <1>8, <1>9, <1>10

(* Schedule puts exactly n in; and in order, when no deadline has passed.  *)
LEMMA SchedulePutsIn ==
  ASSUME NEW d \in [Events -> Int], NEW t \in Timers, Good(t.list, d),
         NEW n \in Events, NEW time \in Nat
  PROVE  /\ \A e \in Events : IsScheduled(Schedule(t, n, time).list, e)
                                <=> IsScheduled(t.list, e) \/ e = n
         /\ /\ Ordered(t.list, d)
            /\ NoneBefore(t.list, d, PendingCycles(t))
            => /\ Ordered(Schedule(t, n, time).list, DueAfter(d, t, n, time))
               /\ NoneBefore(Schedule(t, n, time).list, DueAfter(d, t, n, time),
                             PendingCycles(t))
<1> DEFINE c == Cancel(t, n)
           p == PendingCycles(t)
           running == Running(c.list, p)
           k == FirstOf(StopsAt(c.list, running, time))
           node == [evt |-> n, delta |-> time - running[k]]
           e == DueAfter(d, t, n, time)
<1>1. c \in Timers /\ Good(c.list, d)
  BY CancelGood
<1>2. \A i \in 1..Len(c.list) : c.list[i].evt # n
  BY CancelGood
<1>3. PendingCycles(c) = p /\ p \in Int
  BY CancelGood DEF PendingCycles, Timers
<1>4. /\ c.list \in Seq(Entry) /\ Encodes(c.list, d) /\ Len(c.list) \in Nat
      /\ \A i \in 1..Len(c.list) : /\ c.list[i].evt \in Events
                                   /\ d[c.list[i].evt] \in Int
  BY <1>1, EntryParts DEF Good
<1>5. Schedule(t, n, time).list = Inserted(c.list, k, node)
  <2>1. Schedule(t, n, time) = ScheduleAt(c, n, time, running, k)
    BY <1>3 DEF Schedule
  <2> HIDE DEF c, running, k
  <2> QED  BY <1>1, <2>1 DEF ScheduleAt, Timers
<1>6. k \in 1..Len(c.list)+1
  <2> HIDE DEF c, running
  <2> QED  BY <1>4, FirstStop
<1>7. running[k] \in Int
  <2>1. running = Offset(c.list, d, p)
    <3> HIDE DEF c, p
    <3> QED  BY <1>3, <1>4, RunningIsOffset
  <2>2. running[k] = (IF k = 1 THEN 0 ELSE d[c.list[k-1].evt]) - p
    <3> HIDE DEF c, p, running, k
    <3> QED  BY <1>6, <2>1 DEF Offset
  <2>3. k # 1 => k - 1 \in 1..Len(c.list)
    <3> HIDE DEF c, p, running, k
    <3> QED  BY <1>4, <1>6
  <2> HIDE DEF c, p, running, k
  <2> QED  BY <1>3, <1>4, <2>2, <2>3
<1>8. node \in Entry /\ node.evt = n
  <2> HIDE DEF running, k
  <2> QED  BY <1>7 DEF Entry
<1>9. \A v \in Events : IsScheduled(c.list, v) <=> IsScheduled(t.list, v) /\ v # n
  BY CancelTakesOut, 0 \in Int
<1>10. \A v \in Events : IsScheduled(Schedule(t, n, time).list, v)
                           <=> IsScheduled(t.list, v) \/ v = n
  <2> HIDE DEF c, k, node
  <2> QED  BY <1>4, <1>5, <1>6, <1>8, <1>9, InsertedAddsOne
<1>11. ASSUME Ordered(t.list, d), NoneBefore(t.list, d, p)
       PROVE  /\ Ordered(Schedule(t, n, time).list, e)
              /\ NoneBefore(Schedule(t, n, time).list, e, p)
  <2>1. Ordered(c.list, d) /\ NoneBefore(c.list, d, p)
    <3> HIDE DEF p
    <3> QED  BY <1>3, <1>11, CancelTakesOut
  <2>2. e \in [Events -> Int] /\ e[n] = p + time
    BY <1>3 DEF DueAfter
  <2>3. \A i \in 1..Len(c.list) : e[c.list[i].evt] = d[c.list[i].evt]
    <3> HIDE DEF c
    <3> QED  BY <1>2, <1>4 DEF DueAfter
  <2>4. /\ \A i \in 1..Len(c.list) : i < k => d[c.list[i].evt] <= p + time
        /\ k \in 1..Len(c.list) => p + time <= d[c.list[k].evt]
    <3> HIDE DEF c, p
    <3> QED  BY <1>1, <1>3, <2>1, StopsInOrder
  <2> HIDE DEF c, e, k, node, p
  <2>5. Ordered(c.list, e) /\ NoneBefore(c.list, e, p)
    BY <2>1, <2>3 DEF Ordered, NoneBefore
  <2>6. p <= e[node.evt]
    BY <1>3, <1>8, <2>2
  <2>7. \A i \in 1..Len(c.list) : i < k => e[c.list[i].evt] <= e[node.evt]
    BY <1>8, <2>2, <2>3, <2>4
  <2>8. k \in 1..Len(c.list) => e[node.evt] <= e[c.list[k].evt]
    BY <1>8, <2>2, <2>3, <2>4
  <2> QED  BY <1>3, <1>4, <1>5, <1>6, <1>8, <2>2, <2>5, <2>6, <2>7, <2>8,
              InsertedOrdered
<1> QED  BY <1>10, <1>11

(* What ScheduleEvt and CancelEvt do to the program's state.               *)
LEMMA ScheduleEffect ==
  ASSUME IInv, NEW t \in Timers, t.list = List, NEW n \in Events,
         NEW time \in Nat, ScheduleEvt(t, n, time)
  PROVE  /\ evtCycleDuration' - evtCycleCountdown' = PendingCycles(t)
         /\ due' = DueAfter(due, t, n, time)
         /\ \A e \in Events : IsScheduled(List', e) <=> IsScheduled(List, e) \/ e = n
         /\ Ordered(List, due) /\ NoneBefore(List, due, PendingCycles(t)) =>
              /\ Ordered(List', due')
              /\ NoneBefore(List', due', PendingCycles(t))
<1> DEFINE s == Schedule(t, n, time)
<1>1. due \in [Events -> Int] /\ Good(t.list, due) /\ time \in Int
  BY IInvParts DEF IInv, TypeOK
<1>2. PendingCycles(s) = PendingCycles(t)
  BY <1>1, ScheduleGood
<1>3. due' = DueAfter(due, t, n, time)
  BY DEF ScheduleEvt, DueAfter
<1>4. /\ List' = s.list /\ evtCycleDuration' = s.dur /\ evtCycleCountdown' = s.cnt
  BY DEF ScheduleEvt, SetTimer
<1>5. /\ \A e \in Events : IsScheduled(s.list, e) <=> IsScheduled(t.list, e) \/ e = n
      /\ Ordered(t.list, due) /\ NoneBefore(t.list, due, PendingCycles(t)) =>
           /\ Ordered(s.list, DueAfter(due, t, n, time))
           /\ NoneBefore(s.list, DueAfter(due, t, n, time), PendingCycles(t))
  BY <1>1, SchedulePutsIn
<1> HIDE DEF s
<1> QED  BY <1>2, <1>3, <1>4, <1>5 DEF PendingCycles

LEMMA CancelEffect ==
  ASSUME IInv, NEW t \in Timers, t.list = List, NEW n \in Events,
         CancelEvt(t, n)
  PROVE  /\ evtCycleDuration' - evtCycleCountdown' = PendingCycles(t)
         /\ due' = [due EXCEPT ![n] = 0]
         /\ \A e \in Events : IsScheduled(List', e) <=> IsScheduled(List, e) /\ e # n
         /\ Ordered(List, due) /\ NoneBefore(List, due, 0) =>
              Ordered(List', due') /\ NoneBefore(List', due', 0)
<1> DEFINE s == Cancel(t, n)
<1>1. due \in [Events -> Int] /\ Good(t.list, due) /\ 0 \in Int
  BY IInvParts DEF IInv, TypeOK
<1>2. PendingCycles(s) = PendingCycles(t) /\ s \in Timers
  BY <1>1, CancelGood
<1>3. \A i \in 1..Len(s.list) : s.list[i].evt # n
  BY <1>1, CancelGood
<1>4. due' = [due EXCEPT ![n] = 0]
  BY DEF CancelEvt
<1>5. /\ List' = s.list /\ evtCycleDuration' = s.dur /\ evtCycleCountdown' = s.cnt
  BY DEF CancelEvt, SetTimer
<1>6. /\ \A e \in Events : IsScheduled(s.list, e) <=> IsScheduled(t.list, e) /\ e # n
      /\ Ordered(t.list, due) /\ NoneBefore(t.list, due, 0) =>
           Ordered(s.list, due) /\ NoneBefore(s.list, due, 0)
  BY <1>1, CancelTakesOut
<1> HIDE DEF s
<1>7. \A i \in 1..Len(List') : due'[List'[i].evt] = due[List'[i].evt]
  <2>1. \A i \in 1..Len(s.list) : s.list[i].evt \in Events
    BY <1>2, EntryParts DEF Timers
  <2> QED  BY <1>1, <1>3, <1>4, <1>5, <2>1
<1>8. Ordered(List', due) /\ NoneBefore(List', due, 0) =>
        Ordered(List', due') /\ NoneBefore(List', due', 0)
  BY <1>7 DEF Ordered, NoneBefore
<1> QED  BY <1>2, <1>4, <1>5, <1>6, <1>8 DEF PendingCycles

-----------------------------------------------------------------------------
(* The CPU's present is never before psxRegs.cycle, and the list is only   *)
(* worked off when the countdown has run out.                              *)
PresentIsLate ==
  /\ evtCycleDuration - evtCycleCountdown >= 0
  /\ oldtime <= 0
  /\ phase = "drain" => evtCycleCountdown <= 0

OInv == IInv /\ PresentIsLate

LEMMA InitPresent == Init => OInv
<1> SUFFICES ASSUME Init PROVE PresentIsLate
  BY InitInv DEF OInv
<1> DEFINE t0 == [list |-> <<>>, dur |-> 32, cnt |-> 32]
           d0 == [v \in Events |-> 0]
           t  == Schedule(t0, SPU, 0)
<1>1. /\ evtCycleDuration = t.dur /\ evtCycleCountdown = t.cnt
      /\ phase = "cpu" /\ oldtime = 0
  BY DEF Init
<1>2. t0 \in Timers /\ Good(t0.list, d0) /\ PendingCycles(t0) = 0
      /\ d0 \in [Events -> Int]
  <2>1. <<>> \in Seq(Entry) /\ Len(<<>>) = 0
    BY EmptySeq
  <2>2. Distinct(<<>>) /\ Encodes(<<>>, d0)
    BY <2>1 DEF Distinct, Encodes
  <2> QED  BY <2>1, <2>2 DEF Timers, Good, PendingCycles
<1>3. SPU \in Events /\ 0 \in Int
  BY EventsAssumption
<1> HIDE DEF t0, d0
<1>4. PendingCycles(t) = 0
  BY <1>2, <1>3, ScheduleGood
<1> QED  BY <1>1, <1>4 DEF PendingCycles, PresentIsLate

(* What the steps of the machine other than the list operations do to it.  *)
LEMMA ReloadPresent ==
  ASSUME IInv, NEW late \in Int, late <= 0, Reload(List, late), oldtime' <= 0
  PROVE  PresentIsLate'
<1>1. HeadDelta(List) \in Int
  <2>1. IdleDelta \in Int /\ List \in Seq(Entry)
    BY RatesAssumption DEF IInv, TypeOK
  <2>2. List # <<>> => 1 \in 1..Len(List)
    BY <2>1, EmptySeq
  <2>3. List # <<>> => List[1].delta \in Int
    BY <2>1, <2>2, EntryParts
  <2> QED  BY <2>1, <2>3 DEF HeadDelta
<1>2. /\ evtCycleDuration' = HeadDelta(List)
      /\ evtCycleCountdown' = late + HeadDelta(List)
      /\ phase' = IF evtCycleCountdown' > 0 THEN "cpu" ELSE "drain"
  BY DEF Reload
<1>3. phase' = "drain" => ~(evtCycleCountdown' > 0)
  BY <1>2
<1> QED  BY <1>1, <1>2, <1>3 DEF PresentIsLate

LEMMA NextPresent == OInv /\ [Next]_<<vars, SpuAsync>> => OInv'
<1> SUFFICES ASSUME OInv, [Next]_<<vars, SpuAsync>> PROVE PresentIsLate'
  BY NextInv DEF OInv
<1>1. /\ IInv /\ PresentIsLate
      /\ evtCycleDuration \in Int /\ evtCycleCountdown \in Int /\ oldtime \in Int
  BY DEF OInv, IInv, TypeOK
<1>2. /\ Timer \in Timers /\ Timer.list = List
      /\ PendingCycles(Timer) = evtCycleDuration - evtCycleCountdown
      /\ phase = "handler" => PendingCycles(Timer) = 0
  BY <1>1, IInvParts
<1>3. /\ AddCycles(Timer, 1) \in Timers
      /\ AddCycles(Timer, 1).list = List
  BY <1>2, 1 \in Int, AddCyclesGood
<1>4. PendingCycles(AddCycles(Timer, 1)) = PendingCycles(Timer) + 1
  BY <1>2 DEF AddCycles, PendingCycles, Timers
<1>5. Times \in [Events -> SUBSET Nat] /\ SpuRate \in Nat /\ SPU \in Events
  BY EventsAssumption, RatesAssumption
<1>6. ASSUME NEW t \in {Timer, AddCycles(Timer, 1)},
             evtCycleDuration' - evtCycleCountdown' = PendingCycles(t),
             phase' = phase, phase # "drain", oldtime' = oldtime
      PROVE  PresentIsLate'
  <2>1. PendingCycles(t) >= 0
    BY <1>1, <1>2, <1>4 DEF PresentIsLate
  <2> QED  BY <1>1, <1>6, <2>1 DEF PresentIsLate
<1>7. CASE Instruction
  <2>1. /\ phase = "cpu" /\ phase' = phase /\ oldtime' = oldtime
        /\ evtCycleDuration' = AddCycles(Timer, 1).dur
        /\ evtCycleCountdown' = AddCycles(Timer, 1).cnt
    BY <1>7 DEF Instruction, Runs, SetTimer
  <2> QED  BY <1>6, <2>1 DEF PendingCycles
<1>8. CASE BranchTest
  BY <1>1, <1>8 DEF BranchTest, PresentIsLate
<1>9. CASE ExecuteHead
  BY <1>1, <1>9 DEF ExecuteHead, PresentIsLate
<1>10. CASE ExecuteIdle
  <2>1. /\ Reload(List, evtCycleCountdown) /\ oldtime' = oldtime /\ phase = "drain"
    BY <1>10 DEF ExecuteIdle
  <2> QED  BY <1>1, <2>1, ReloadPresent DEF PresentIsLate
<1>11. CASE Return
  <2>1. Reload(List, oldtime) /\ oldtime' = 0
    BY <1>11 DEF Return
  <2> QED  BY <1>1, <2>1, ReloadPresent DEF PresentIsLate
<1>12. CASE HandleSPU
  <2>1. /\ phase = "handler" /\ ScheduleEvt(Timer, SPU, SpuRate)
        /\ UNCHANGED <<phase, oldtime>>
    BY <1>12 DEF HandleSPU
  <2> QED  BY <1>1, <1>2, <1>5, <1>6, <2>1, ScheduleEffect
<1>13. ASSUME NEW n \in Events, NEW time \in Times[n], GuestSchedule(n, time)
       PROVE  PresentIsLate'
  <2>1. /\ ScheduleEvt(AddCycles(Timer, 1), n, time) /\ phase = "cpu"
        /\ UNCHANGED <<phase, oldtime>> /\ time \in Nat
    BY <1>5, <1>13 DEF GuestSchedule, MayAccess, Runs
  <2> QED  BY <1>1, <1>3, <1>6, <2>1, ScheduleEffect
<1>14. ASSUME NEW n \in Events, NEW time \in Times[n], HandlerSchedule(n, time)
       PROVE  PresentIsLate'
  <2>1. /\ ScheduleEvt(Timer, n, time) /\ phase = "handler"
        /\ UNCHANGED <<phase, oldtime>> /\ time \in Nat
    BY <1>5, <1>14 DEF HandlerSchedule, InDeviceHandler
  <2> QED  BY <1>1, <1>2, <1>6, <2>1, ScheduleEffect
<1>15. ASSUME NEW n \in Events, GuestCancel(n) PROVE PresentIsLate'
  <2>1. /\ CancelEvt(AddCycles(Timer, 1), n) /\ phase = "cpu"
        /\ UNCHANGED <<phase, oldtime>>
    BY <1>15 DEF GuestCancel, MayAccess, Runs
  <2> QED  BY <1>1, <1>3, <1>6, <2>1, CancelEffect
<1>16. ASSUME NEW n \in Events, HandlerCancel(n) PROVE PresentIsLate'
  <2>1. /\ CancelEvt(Timer, n) /\ phase = "handler" /\ UNCHANGED <<phase, oldtime>>
    BY <1>16 DEF HandlerCancel, InDeviceHandler
  <2> QED  BY <1>1, <1>2, <1>6, <2>1, CancelEffect
<1>17. CASE UNCHANGED vars
  BY <1>1, <1>17 DEF vars, PresentIsLate
<1> QED  BY <1>7, <1>8, <1>9, <1>10, <1>11, <1>12, <1>13, <1>14, <1>15, <1>16,
            <1>17 DEF Next, Step, vars

(* No handler runs before its event's deadline has passed on the CPU; with *)
(* an emulated BIOS (PsxEventsHLE) one does.                               *)
THEOREM NoEventEarly == Spec => NeverEarly
<1>1. ASSUME OInv, [Next]_<<vars, SpuAsync>>, NEW e \in Events,
             exeEvt' = e, exeEvt = Idle
      PROVE  due[e] <= evtCycleDuration - evtCycleCountdown
  <2>1. e # Idle
    BY EventsAssumption
  <2>2. ExecuteHead
    BY <1>1, <2>1 DEF Next, Step, vars, Instruction, BranchTest, ExecuteIdle,
       HandleSPU, Return, GuestSchedule, HandlerSchedule, GuestCancel,
       HandlerCancel
  <2>3. /\ List \in Seq(Entry) /\ List # <<>> /\ phase = "drain"
        /\ due \in [Events -> Int] /\ e = Head(List).evt
        /\ evtCycleDuration \in Int /\ evtCycleCountdown \in Int
    BY <1>1, <2>2 DEF OInv, IInv, TypeOK, ExecuteHead
  <2>4. e = List[1].evt /\ 1 \in 1..Len(List)
    BY <2>3, EmptySeq
  <2>5. evtCycleDuration = List[1].delta /\ evtCycleCountdown <= 0
    BY <1>1, <2>3 DEF OInv, IInv, CountdownIsTheHeads, PresentIsLate
  <2>6. List[1].delta = due[List[1].evt] - 0
    BY <1>1, <2>4 DEF OInv, IInv, DeltasEncodeDeadlines, Encodes
  <2> QED  BY <2>3, <2>4, <2>5, <2>6
<1>2. OInv /\ [Next]_<<vars, SpuAsync>> =>
        [\A e \in Events : exeEvt' = e /\ exeEvt = Idle =>
            due[e] <= evtCycleDuration - evtCycleCountdown]_vars
  BY <1>1
<1> QED  BY InitPresent, NextPresent, <1>2, PTL DEF Spec, NeverEarly

(* Sorted, in terms of the list operations' lemmas.                        *)
LEMMA SortedParts == Sorted <=> Ordered(List, due) /\ NoneBefore(List, due, 0)
BY DEF Sorted, DueAt, Ordered, NoneBefore

LEMMA SortedPartsPrime ==
  Sorted' <=> Ordered(List', due') /\ NoneBefore(List', due', 0)
BY DEF Sorted, DueAt, Ordered, NoneBefore

LEMMA HeadIsDue ==
  ASSUME IInv, List # <<>>
  PROVE  /\ 1 \in 1..Len(List) /\ List[1].evt \in Events
         /\ Head(List) = List[1]
         /\ List[1].delta = due[List[1].evt]
         /\ phase # "handler" => evtCycleDuration = due[List[1].evt]
<1>1. List \in Seq(Entry) /\ due \in [Events -> Int]
  BY DEF IInv, TypeOK
<1>2. 1 \in 1..Len(List) /\ Head(List) = List[1]
  BY <1>1, EmptySeq
<1>3. List[1].evt \in Events
  BY <1>1, <1>2, EntryParts
<1>4. List[1].delta = due[List[1].evt] - 0
  BY <1>2 DEF IInv, DeltasEncodeDeadlines, Encodes
<1>5. phase # "handler" => evtCycleDuration = List[1].delta
  BY DEF IInv, CountdownIsTheHeads
<1> QED  BY <1>1, <1>2, <1>3, <1>4, <1>5

(* The events left when the head has gone.                                 *)
LEMMA TailEvents ==
  ASSUME IInv, List # <<>>
  PROVE  /\ Len(Tail(List)) = Len(List) - 1
         /\ \A i \in 1..Len(List)-1 : Tail(List)[i] = List[i+1]
         /\ \A e \in Events : IsScheduled(Tail(List), e)
                                <=> IsScheduled(List, e) /\ e # List[1].evt
<1> DEFINE l == Tail(List)
           m == Len(List)
<1>1. List \in Seq(Entry) /\ m \in Nat /\ m # 0
  BY LenProperties, EmptySeq DEF IInv, TypeOK
<1>2. Len(l) = m - 1 /\ \A i \in 1..m-1 : l[i] = List[i+1]
  BY <1>1, HeadTailProperties
<1>3. \A i, j \in 1..m : List[i].evt = List[j].evt => i = j
  BY DEF IInv, NoDuplicates, Distinct
<1> HIDE DEF l, m
<1>4. ASSUME NEW e \in Events
      PROVE  IsScheduled(l, e) <=> IsScheduled(List, e) /\ e # List[1].evt
  <2>1. IsScheduled(l, e) <=> \E j \in 1..m-1 : l[j].evt = e
    BY <1>2 DEF IsScheduled, Position
  <2>2. IsScheduled(List, e) <=> \E j \in 1..m : List[j].evt = e
    BY DEF IsScheduled, Position, m
  <2>3. ASSUME NEW j \in 1..m-1, l[j].evt = e
        PROVE  (\E i \in 1..m : List[i].evt = e) /\ e # List[1].evt
    <3>1. j + 1 \in 1..m /\ j + 1 # 1 /\ 1 \in 1..m
      BY <1>1
    <3>2. List[j+1].evt = e
      BY <1>2, <2>3
    <3> QED  BY <1>3, <3>1, <3>2
  <2>4. ASSUME NEW i \in 1..m, List[i].evt = e, e # List[1].evt
        PROVE  \E j \in 1..m-1 : l[j].evt = e
    <3>1. i # 1
      BY <2>4
    <3>2. i - 1 \in 1..m-1 /\ (i - 1) + 1 = i
      BY <1>1, <3>1
    <3> QED  BY <1>2, <2>4, <3>2
  <2> QED  BY <2>1, <2>2, <2>3, <2>4
<1> QED  BY <1>2, <1>4 DEF l, m

LEMMA ExecuteHeadSorted ==
  ASSUME IInv, Sorted, ExecuteHead
  PROVE  Ordered(List', due') /\ NoneBefore(List', due', 0)
<1> DEFINE m == Len(List)
<1>1. /\ List # <<>> /\ List' = Tail(List) /\ phase = "drain"
      /\ due' = [e \in Events |-> IF IsScheduled(List', e)
                                  THEN due[e] - evtCycleDuration ELSE 0]
      /\ List \in Seq(Entry) /\ m \in Nat /\ due \in [Events -> Int]
      /\ \A i \in 1..m : List[i].evt \in Events
  BY EntryParts DEF ExecuteHead, IInv, TypeOK
<1>2. evtCycleDuration = due[List[1].evt] /\ 1 \in 1..m
  BY <1>1, HeadIsDue
<1>3. Len(List') = m - 1 /\ \A i \in 1..m-1 : List'[i] = List[i+1]
  BY <1>1, TailEvents
<1>4. /\ \A i, j \in 1..m : i <= j => due[List[i].evt] <= due[List[j].evt]
      /\ \A i \in 1..m : 0 <= due[List[i].evt]
  BY SortedParts DEF Ordered, NoneBefore
<1> HIDE DEF m
<1>5. ASSUME NEW i \in 1..m-1
      PROVE  /\ i + 1 \in 1..m
             /\ due'[List'[i].evt] = due[List[i+1].evt] - evtCycleDuration
  <2>1. i + 1 \in 1..m /\ i \in 1..Len(List')
    BY <1>1, <1>3
  <2>2. List'[i].evt = List[i+1].evt /\ List'[i].evt \in Events
    BY <1>1, <1>3, <2>1
  <2>3. IsScheduled(List', List'[i].evt)
    BY <2>1 DEF IsScheduled, Position
  <2>4. due'[List'[i].evt] = due[List'[i].evt] - evtCycleDuration
    BY <1>1, <2>2, <2>3
  <2> QED  BY <2>1, <2>2, <2>4
<1>6. \A i \in 1..m : due[List[i].evt] \in Int
  BY <1>1
<1>7. ASSUME NEW i \in 1..m-1, NEW j \in 1..m-1, i <= j
      PROVE  due'[List'[i].evt] <= due'[List'[j].evt]
  <2>1. i + 1 <= j + 1
    BY <1>7
  <2>2. due[List[i+1].evt] <= due[List[j+1].evt]
    BY <1>4, <1>5, <2>1
  <2> QED  BY <1>2, <1>5, <1>6, <2>2
<1>8. ASSUME NEW i \in 1..m-1 PROVE 0 <= due'[List'[i].evt]
  <2>1. 1 <= i + 1
    BY <1>8
  <2>2. due[List[1].evt] <= due[List[i+1].evt]
    BY <1>2, <1>4, <1>5, <2>1
  <2> QED  BY <1>2, <1>5, <1>6, <2>2
<1> QED  BY <1>3, <1>7, <1>8 DEF Ordered, NoneBefore

(* A step from an ordered list with the head's deadline not passed, or     *)
(* from a handler, leaves the list in order.                               *)
LEMMA OrderKept ==
  ASSUME OInv, [Next]_<<vars, SpuAsync>>, Sorted,
         phase = "cpu" => evtCycleCountdown > 0
  PROVE  Sorted'
<1>1. /\ IInv /\ PresentIsLate /\ due \in [Events -> Int]
      /\ evtCycleDuration \in Int /\ evtCycleCountdown \in Int
      /\ List \in Seq(Entry) /\ Len(List) \in Nat
      /\ \A i \in 1..Len(List) : due[List[i].evt] \in Int
  BY EntryParts DEF OInv, IInv, TypeOK
<1>2. /\ Timer \in Timers /\ Timer.list = List
      /\ PendingCycles(Timer) = evtCycleDuration - evtCycleCountdown
      /\ phase = "handler" => PendingCycles(Timer) = 0
  BY <1>1, IInvParts
<1>3. /\ AddCycles(Timer, 1) \in Timers
      /\ AddCycles(Timer, 1).list = List
  BY <1>2, 1 \in Int, AddCyclesGood
<1>4. PendingCycles(AddCycles(Timer, 1)) = PendingCycles(Timer) + 1
  BY <1>2 DEF AddCycles, PendingCycles, Timers
<1>5. Times \in [Events -> SUBSET Nat] /\ SpuRate \in Nat /\ SPU \in Events
  BY EventsAssumption, RatesAssumption
<1>6. Ordered(List, due) /\ NoneBefore(List, due, 0)
  BY SortedParts
<1>7. SUFFICES Ordered(List', due') /\ NoneBefore(List', due', 0)
  BY SortedPartsPrime
<1>8. CASE UNCHANGED <<List, due>>
  BY <1>6, <1>8
<1>9. CASE ExecuteHead
  BY <1>1, <1>9, ExecuteHeadSorted
<1>10. CASE HandleSPU
  <2>1. phase = "handler" /\ ScheduleEvt(Timer, SPU, SpuRate)
    BY <1>10 DEF HandleSPU
  <2>2. PendingCycles(Timer) = 0
    BY <1>2, <2>1
  <2> QED  BY <1>1, <1>2, <1>5, <1>6, <2>1, <2>2, ScheduleEffect
<1>11. ASSUME NEW n \in Events, NEW time \in Times[n], HandlerSchedule(n, time)
       PROVE  Ordered(List', due') /\ NoneBefore(List', due', 0)
  <2>1. phase = "handler" /\ ScheduleEvt(Timer, n, time) /\ time \in Nat
    BY <1>5, <1>11 DEF HandlerSchedule, InDeviceHandler
  <2>2. PendingCycles(Timer) = 0
    BY <1>2, <2>1
  <2> QED  BY <1>1, <1>2, <1>6, <2>1, <2>2, ScheduleEffect
<1>12. ASSUME NEW n \in Events, NEW time \in Times[n], GuestSchedule(n, time)
       PROVE  Ordered(List', due') /\ NoneBefore(List', due', 0)
  <2> DEFINE t == AddCycles(Timer, 1)
             p == PendingCycles(t)
  <2>1. phase = "cpu" /\ ScheduleEvt(t, n, time) /\ time \in Nat
    BY <1>5, <1>12 DEF GuestSchedule, MayAccess, Runs
  <2>2. evtCycleCountdown > 0
    BY <2>1
  <2>3. p = evtCycleDuration - evtCycleCountdown + 1 /\ p \in Int /\ 0 <= p
    BY <1>1, <1>2, <1>4 DEF PresentIsLate
  <2>4. NoneBefore(List, due, p)
    <3>1. SUFFICES ASSUME NEW i \in 1..Len(List) PROVE p <= due[List[i].evt]
      BY DEF NoneBefore
    <3>2. List # <<>> /\ 1 \in 1..Len(List) /\ 1 <= i
      BY <1>1, EmptySeq
    <3>3. evtCycleDuration = due[List[1].evt]
      BY <1>1, <2>1, <3>2, HeadIsDue
    <3>4. due[List[1].evt] <= due[List[i].evt]
      BY <1>6, <3>2 DEF Ordered
    <3> HIDE DEF p
    <3> QED  BY <1>1, <2>2, <2>3, <3>2, <3>3, <3>4
  <2> HIDE DEF p
  <2>5. Ordered(List', due') /\ NoneBefore(List', due', p)
    <3> HIDE DEF t
    <3> QED  BY <1>1, <1>3, <1>6, <2>1, <2>4, ScheduleEffect DEF p, t
  <2>6. \A i \in 1..Len(List') : due'[List'[i].evt] \in Int
    <3>1. List' \in Seq(Entry) /\ due' \in [Events -> Int]
      BY NextInv DEF OInv, IInv, TypeOK
    <3> QED  BY <3>1, EntryParts
  <2>7. NoneBefore(List', due', 0)
    BY <2>3, <2>5, <2>6 DEF NoneBefore
  <2> QED  BY <2>5, <2>7
<1>13. ASSUME NEW n \in Events, GuestCancel(n)
       PROVE  Ordered(List', due') /\ NoneBefore(List', due', 0)
  <2>1. CancelEvt(AddCycles(Timer, 1), n)
    BY <1>13 DEF GuestCancel
  <2> QED  BY <1>1, <1>3, <1>6, <2>1, CancelEffect
<1>14. ASSUME NEW n \in Events, HandlerCancel(n)
       PROVE  Ordered(List', due') /\ NoneBefore(List', due', 0)
  <2>1. CancelEvt(Timer, n)
    BY <1>14 DEF HandlerCancel
  <2> QED  BY <1>1, <1>2, <1>6, <2>1, CancelEffect
<1>15. Instruction => UNCHANGED <<List, due>>
  BY DEF Instruction, SetTimer, AddCycles, Timer
<1>16. BranchTest \/ ExecuteIdle \/ Return \/ UNCHANGED vars => UNCHANGED <<List, due>>
  BY DEF BranchTest, ExecuteIdle, Return, vars
<1> QED  BY <1>8, <1>9, <1>10, <1>11, <1>12, <1>13, <1>14, <1>15, <1>16
         DEF Next, Step, vars

(* Only a schedule by guest code that runs on past the countdown's zero    *)
(* can put the list out of order: the comparison of Schedule is unsigned,  *)
(* and a deadline that has passed looks like one far away.                 *)
THEOREM OrderLostOnlyLate == Spec => DisorderNeedsLateSchedule
<1>1. OInv /\ [Next]_<<vars, SpuAsync>> =>
        [Sorted /\ ~Sorted' => phase = "cpu" /\ evtCycleCountdown <= 0]_vars
  <2>1. SUFFICES ASSUME OInv, [Next]_<<vars, SpuAsync>>, Sorted, ~Sorted'
                 PROVE  phase = "cpu" /\ evtCycleCountdown <= 0
    OBVIOUS
  <2>2. ~(phase = "cpu" => evtCycleCountdown > 0)
    BY <2>1, OrderKept
  <2>3. evtCycleCountdown \in Int
    BY <2>1 DEF OInv, IInv, TypeOK
  <2> QED  BY <2>2, <2>3
<1> QED  BY InitPresent, NextPresent, <1>1, PTL DEF Spec, DisorderNeedsLateSchedule

-----------------------------------------------------------------------------
(* The refinement: the timeline's variables, and its actions in terms of   *)
(* them.                                                                   *)
Armed == {e \in Events : IsScheduled(List, e)}

DueIn == [e \in Events |-> IF IsScheduled(List, e)
                           THEN due[e] - PendingCycles(Timer) ELSE 0]

PhaseSeen == IF phase = "drain" /\ List = <<>> THEN "cpu" ELSE phase

Lag == IF phase = "handler" THEN -oldtime ELSE 0

seen == <<Armed, DueIn, PhaseSeen, exeEvt, Lag>>

LEMMA SeenVars == UNCHANGED seen => UNCHANGED Timeline!vars
BY DEF seen, Timeline!vars, Armed, DueIn, PhaseSeen, Lag

LEMMA TickIs ==
  ASSUME PhaseSeen = "cpu",
         DueIn' = [e \in Events |-> IF e \in Armed THEN DueIn[e] - 1 ELSE 0],
         UNCHANGED <<Armed, PhaseSeen, exeEvt, Lag>>
  PROVE  Timeline!Tick
BY DEF Timeline!Tick, Timeline!Shifted, Armed, DueIn, PhaseSeen, Lag

LEMMA ArmIs ==
  ASSUME NEW n \in Events, NEW time, PhaseSeen # "drain",
         Armed' = Armed \union {n},
         DueIn' = [[e \in Events |->
                      IF e \in Armed
                      THEN DueIn[e] - (IF PhaseSeen = "cpu" THEN 1 ELSE 0)
                      ELSE 0] EXCEPT ![n] = time],
         UNCHANGED <<PhaseSeen, exeEvt, Lag>>
  PROVE  Timeline!Arm(n, time)
BY DEF Timeline!Arm, Timeline!Shifted, Timeline!Spent, Armed, DueIn, PhaseSeen, Lag

LEMMA DisarmIs ==
  ASSUME NEW n \in Events, PhaseSeen # "drain",
         Armed' = Armed \ {n},
         DueIn' = [[e \in Events |->
                      IF e \in Armed
                      THEN DueIn[e] - (IF PhaseSeen = "cpu" THEN 1 ELSE 0)
                      ELSE 0] EXCEPT ![n] = 0],
         UNCHANGED <<PhaseSeen, exeEvt, Lag>>
  PROVE  Timeline!Disarm(n)
BY DEF Timeline!Disarm, Timeline!Shifted, Timeline!Spent, Armed, DueIn, PhaseSeen, Lag

LEMMA BranchIs ==
  ASSUME PhaseSeen = "cpu", NEW e \in Events, e \in Armed, DueIn[e] <= 0,
         PhaseSeen' = "drain", UNCHANGED <<Armed, DueIn, exeEvt, Lag>>
  PROVE  Timeline!Branch
BY DEF Timeline!Branch, Timeline!DueNow, Armed, DueIn, PhaseSeen, Lag

LEMMA FireIs ==
  ASSUME NEW n \in Events, PhaseSeen # "handler", n \in Armed, DueIn[n] <= 0,
         \A f \in Armed : DueIn[n] <= DueIn[f],
         Armed' = Armed \ {n},
         DueIn' = [e \in Events |->
                     IF e \in Armed \ {n} THEN DueIn[e] - DueIn[n] ELSE 0],
         Lag' = -DueIn[n], PhaseSeen' = "handler", exeEvt' = n
  PROVE  Timeline!Fire(n)
BY DEF Timeline!Fire, Timeline!Shifted, Timeline!DueNow, Armed, DueIn, PhaseSeen, Lag

LEMMA ReturnIs ==
  ASSUME PhaseSeen = "handler",
         DueIn' = [e \in Events |-> IF e \in Armed THEN DueIn[e] - Lag ELSE 0],
         PhaseSeen' = IF \E e \in Armed : DueIn'[e] <= 0 THEN "drain" ELSE "cpu",
         exeEvt' = Idle, Lag' = 0, UNCHANGED Armed
  PROVE  Timeline!Return
BY DEF Timeline!Return, Timeline!Shifted, Armed, DueIn, PhaseSeen, Lag

LEMMA DueInAfter ==
  ASSUME NEW q, evtCycleDuration' - evtCycleCountdown' = q
  PROVE  DueIn' = [e \in Events |-> IF IsScheduled(List', e)
                                    THEN due'[e] - q ELSE 0]
BY DEF DueIn, PendingCycles, Timer

LEMMA DueInNow ==
  /\ DueIn = [e \in Events |->
                IF IsScheduled(List, e)
                THEN due[e] - (evtCycleDuration - evtCycleCountdown) ELSE 0]
  /\ \A e \in Events : e \in Armed <=> IsScheduled(List, e)
BY DEF DueIn, PendingCycles, Timer, Armed

(* Scheduling and cancelling arm and disarm.                               *)
LEMMA ScheduleArms ==
  ASSUME IInv, NEW t \in Timers, t.list = List, NEW n \in Events,
         NEW time \in Nat, ScheduleEvt(t, n, time), phase # "drain",
         UNCHANGED <<phase, exeEvt, oldtime>>,
         PendingCycles(t) = evtCycleDuration - evtCycleCountdown
                              + (IF phase = "cpu" THEN 1 ELSE 0)
  PROVE  Timeline!Arm(n, time)
<1> DEFINE p == evtCycleDuration - evtCycleCountdown
           q == PendingCycles(t)
           spent == IF phase = "cpu" THEN 1 ELSE 0
<1>1. /\ due \in [Events -> Int]
      /\ evtCycleDuration \in Int /\ evtCycleCountdown \in Int
  BY DEF IInv, TypeOK
<1>2. /\ evtCycleDuration' - evtCycleCountdown' = q
      /\ due' = [due EXCEPT ![n] = q + time]
      /\ \A e \in Events : IsScheduled(List', e) <=> IsScheduled(List, e) \/ e = n
  BY ScheduleEffect DEF DueAfter
<1>3. p \in Int /\ q = p + spent /\ spent \in Int
  BY <1>1
<1>4. DueIn' = [e \in Events |-> IF IsScheduled(List', e) THEN due'[e] - q ELSE 0]
  <2> HIDE DEF q
  <2> QED  BY <1>2, DueInAfter
<1>5. PhaseSeen = phase /\ UNCHANGED <<PhaseSeen, exeEvt, Lag>>
  BY DEF PhaseSeen, Lag
<1>6. Armed' = Armed \union {n}
  BY <1>2 DEF Armed
<1> HIDE DEF p, q
<1>7. ASSUME NEW e \in Events
      PROVE  DueIn'[e] = IF e = n THEN time
                         ELSE IF e \in Armed THEN DueIn[e] - spent ELSE 0
  <2>1. CASE e = n
    <3>1. DueIn'[e] = (q + time) - q
      BY <1>1, <1>2, <1>4, <2>1
    <3> QED  BY <1>3, <2>1, <3>1
  <2>2. CASE e # n /\ IsScheduled(List, e)
    <3>1. DueIn'[e] = due[e] - q /\ DueIn[e] = due[e] - p /\ e \in Armed
      BY <1>1, <1>2, <1>4, <2>2, DueInNow DEF p
    <3>2. due[e] \in Int
      BY <1>1
    <3>3. DueIn'[e] = DueIn[e] - spent
      <4> HIDE DEF spent
      <4> QED  BY <1>3, <3>1, <3>2
    <3> QED  BY <2>2, <3>1, <3>3
  <2>3. CASE e # n /\ ~IsScheduled(List, e)
    BY <1>2, <1>4, <2>3, DueInNow
  <2> QED  BY <2>1, <2>2, <2>3
<1>8. DueIn' = [[e \in Events |-> IF e \in Armed THEN DueIn[e] - spent ELSE 0]
                  EXCEPT ![n] = time]
  <2> DEFINE f == [e \in Events |-> IF e = n THEN time
                         ELSE IF e \in Armed THEN DueIn[e] - spent ELSE 0]
  <2> HIDE DEF spent
  <2>1. DueIn' = [e \in Events |-> DueIn'[e]]
    BY <1>4
  <2>2. DueIn' = f
    BY <1>7, <2>1
  <2> QED  BY <2>2
<1>9. spent = IF PhaseSeen = "cpu" THEN 1 ELSE 0
  BY <1>5
<1> HIDE DEF spent
<1>10. DueIn' = [[e \in Events |->
                    IF e \in Armed
                    THEN DueIn[e] - (IF PhaseSeen = "cpu" THEN 1 ELSE 0)
                    ELSE 0] EXCEPT ![n] = time]
  BY <1>8, <1>9
<1> QED  BY <1>5, <1>6, <1>10, ArmIs

LEMMA CancelDisarms ==
  ASSUME IInv, NEW t \in Timers, t.list = List, NEW n \in Events,
         CancelEvt(t, n), phase # "drain",
         UNCHANGED <<phase, exeEvt, oldtime>>,
         PendingCycles(t) = evtCycleDuration - evtCycleCountdown
                              + (IF phase = "cpu" THEN 1 ELSE 0)
  PROVE  Timeline!Disarm(n)
<1> DEFINE p == evtCycleDuration - evtCycleCountdown
           q == PendingCycles(t)
           spent == IF phase = "cpu" THEN 1 ELSE 0
<1>1. /\ due \in [Events -> Int]
      /\ evtCycleDuration \in Int /\ evtCycleCountdown \in Int
  BY DEF IInv, TypeOK
<1>2. /\ evtCycleDuration' - evtCycleCountdown' = q
      /\ due' = [due EXCEPT ![n] = 0]
      /\ \A e \in Events : IsScheduled(List', e) <=> IsScheduled(List, e) /\ e # n
  BY CancelEffect
<1>3. p \in Int /\ q = p + spent /\ spent \in Int
  BY <1>1
<1>4. DueIn' = [e \in Events |-> IF IsScheduled(List', e) THEN due'[e] - q ELSE 0]
  <2> HIDE DEF q
  <2> QED  BY <1>2, DueInAfter
<1>5. PhaseSeen = phase /\ UNCHANGED <<PhaseSeen, exeEvt, Lag>>
  BY DEF PhaseSeen, Lag
<1>6. Armed' = Armed \ {n}
  BY <1>2 DEF Armed
<1> HIDE DEF p, q
<1>7. ASSUME NEW e \in Events
      PROVE  DueIn'[e] = IF e = n THEN 0
                         ELSE IF e \in Armed THEN DueIn[e] - spent ELSE 0
  <2>1. CASE e = n
    BY <1>2, <1>4, <2>1
  <2>2. CASE e # n /\ IsScheduled(List, e)
    <3>1. DueIn'[e] = due[e] - q /\ DueIn[e] = due[e] - p /\ e \in Armed
      BY <1>1, <1>2, <1>4, <2>2, DueInNow DEF p
    <3>2. due[e] \in Int
      BY <1>1
    <3>3. DueIn'[e] = DueIn[e] - spent
      <4> HIDE DEF spent
      <4> QED  BY <1>3, <3>1, <3>2
    <3> QED  BY <2>2, <3>1, <3>3
  <2>3. CASE e # n /\ ~IsScheduled(List, e)
    BY <1>2, <1>4, <2>3, DueInNow
  <2> QED  BY <2>1, <2>2, <2>3
<1>8. DueIn' = [[e \in Events |-> IF e \in Armed THEN DueIn[e] - spent ELSE 0]
                  EXCEPT ![n] = 0]
  <2> DEFINE f == [e \in Events |-> IF e = n THEN 0
                         ELSE IF e \in Armed THEN DueIn[e] - spent ELSE 0]
  <2> HIDE DEF spent
  <2>1. DueIn' = [e \in Events |-> DueIn'[e]]
    BY <1>4
  <2>2. DueIn' = f
    BY <1>7, <2>1
  <2> QED  BY <2>2
<1>9. spent = IF PhaseSeen = "cpu" THEN 1 ELSE 0
  BY <1>5
<1> HIDE DEF spent
<1>10. DueIn' = [[e \in Events |->
                    IF e \in Armed
                    THEN DueIn[e] - (IF PhaseSeen = "cpu" THEN 1 ELSE 0)
                    ELSE 0] EXCEPT ![n] = 0]
  BY <1>8, <1>9
<1> QED  BY <1>5, <1>6, <1>10, DisarmIs

LEMMA InstructionTicks == IInv /\ Instruction => Timeline!Tick
<1> SUFFICES ASSUME IInv, Instruction PROVE Timeline!Tick
  OBVIOUS
<1> DEFINE p == evtCycleDuration - evtCycleCountdown
<1>1. /\ due \in [Events -> Int]
      /\ evtCycleDuration \in Int /\ evtCycleCountdown \in Int
  BY DEF IInv, TypeOK
<1>2. /\ phase = "cpu" /\ UNCHANGED <<phase, exeEvt, oldtime, due, List>>
      /\ evtCycleDuration' = evtCycleDuration
      /\ evtCycleCountdown' = evtCycleCountdown - 1
  BY DEF Instruction, Runs, SetTimer, AddCycles, Timer
<1>3. p \in Int /\ evtCycleDuration' - evtCycleCountdown' = p + 1
  BY <1>1, <1>2
<1>4. DueIn' = [e \in Events |-> IF IsScheduled(List', e)
                                 THEN due'[e] - (p + 1) ELSE 0]
  BY <1>3, DueInAfter
<1> HIDE DEF p
<1>5. DueIn' = [e \in Events |-> IF e \in Armed THEN DueIn[e] - 1 ELSE 0]
  <2>1. \A e \in Events : IsScheduled(List, e) =>
                             DueIn[e] = due[e] - p /\ due[e] \in Int
    BY <1>1, DueInNow DEF p
  <2> QED  BY <1>2, <1>3, <1>4, <2>1, DueInNow
<1>6. PhaseSeen = "cpu" /\ UNCHANGED <<Armed, PhaseSeen, exeEvt, Lag>>
  BY <1>2 DEF PhaseSeen, Armed, Lag
<1> QED  BY <1>5, <1>6, TickIs

LEMMA BranchTestBranches ==
  ASSUME IInv, BranchTest PROVE Timeline!Branch \/ UNCHANGED seen
<1>1. /\ phase = "cpu" /\ phase' = "drain" /\ evtCycleCountdown <= 0
      /\ UNCHANGED <<List, evtCycleDuration, evtCycleCountdown, exeEvt, oldtime, due>>
      /\ evtCycleDuration \in Int /\ evtCycleCountdown \in Int
  BY DEF BranchTest, IInv, TypeOK
<1>2. UNCHANGED <<Armed, DueIn, exeEvt, Lag>>
  BY <1>1 DEF Armed, DueIn, Lag, PendingCycles, Timer
<1>3. CASE List = <<>>
  BY <1>1, <1>2, <1>3 DEF PhaseSeen, seen
<1>4. CASE List # <<>>
  <2> DEFINE h == List[1].evt
  <2>1. h \in Events /\ evtCycleDuration = due[h] /\ 1 \in 1..Len(List)
    BY <1>1, <1>4, HeadIsDue
  <2>2. h \in Armed
    BY <2>1 DEF Armed, IsScheduled, Position
  <2>3. DueIn[h] = due[h] - (evtCycleDuration - evtCycleCountdown)
    BY <2>1, <2>2, DueInNow
  <2>4. DueIn[h] <= 0
    BY <1>1, <2>1, <2>3
  <2>5. PhaseSeen = "cpu" /\ PhaseSeen' = "drain"
    BY <1>1, <1>4 DEF PhaseSeen
  <2> QED  BY <1>2, <2>1, <2>2, <2>4, <2>5, BranchIs
<1> QED  BY <1>3, <1>4

LEMMA ExecuteHeadFires ==
  ASSUME OInv, Sorted, ExecuteHead, NEW h \in Events, h = List[1].evt
  PROVE  Timeline!Fire(h)
<1> DEFINE p == evtCycleDuration - evtCycleCountdown
<1>1. /\ IInv /\ phase = "drain" /\ List # <<>> /\ evtCycleCountdown <= 0
      /\ evtCycleDuration \in Int /\ evtCycleCountdown \in Int
      /\ due \in [Events -> Int]
      /\ \A i \in 1..Len(List) : List[i].evt \in Events
  BY EntryParts DEF OInv, IInv, TypeOK, PresentIsLate, ExecuteHead
<1>2. /\ List' = Tail(List) /\ oldtime' = evtCycleCountdown
      /\ evtCycleCountdown' = 0 /\ evtCycleDuration' = 0
      /\ due' = [e \in Events |-> IF IsScheduled(List', e)
                                  THEN due[e] - evtCycleDuration ELSE 0]
      /\ phase' = "handler" /\ exeEvt' = Head(List).evt
  BY DEF ExecuteHead
<1>3. h \in Events /\ evtCycleDuration = due[h] /\ 1 \in 1..Len(List)
      /\ Head(List) = List[1]
  BY <1>1, HeadIsDue
<1>4. h \in Armed
  BY <1>3 DEF Armed, IsScheduled, Position
<1>5. /\ \A e \in Armed : DueIn[e] = due[e] - p /\ due[e] \in Int /\ e \in Events
      /\ p \in Int
  BY <1>1, DueInNow DEF Armed
<1>6. DueIn[h] = evtCycleCountdown
  <2>1. DueIn[h] = due[h] - (evtCycleDuration - evtCycleCountdown)
    BY <1>4, <1>5
  <2> QED  BY <1>1, <1>3, <2>1
<1>7. \A f \in Armed : DueIn[h] <= DueIn[f]
  <2>1. TAKE f \in Armed
  <2>2. PICK i \in 1..Len(List) : List[i].evt = f
    BY DEF Armed, IsScheduled, Position
  <2>3. 1 <= i
    OBVIOUS
  <2>4. due[h] <= due[f]
    BY <1>3, <2>2, <2>3, SortedParts DEF Ordered
  <2> HIDE DEF p
  <2> QED  BY <1>4, <1>5, <2>4
<1>8. \A e \in Events : IsScheduled(List', e) <=> e \in Armed \ {h}
  BY <1>1, <1>2, TailEvents, DueInNow
<1>9. Armed' = Armed \ {h}
  BY <1>8 DEF Armed
<1>10. DueIn' = [e \in Events |->
                   IF e \in Armed \ {h} THEN DueIn[e] - DueIn[h] ELSE 0]
  <2>1. evtCycleDuration' - evtCycleCountdown' = 0
    BY <1>2
  <2>2. DueIn' = [e \in Events |-> IF IsScheduled(List', e) THEN due'[e] - 0 ELSE 0]
    BY <2>1, DueInAfter
  <2>3. ASSUME NEW e \in Events, e \in Armed \ {h}
        PROVE  due'[e] - 0 = DueIn[e] - DueIn[h]
    <3>1. due'[e] = due[e] - evtCycleDuration
      BY <1>2, <1>8, <2>3
    <3>2. DueIn[e] = due[e] - (evtCycleDuration - evtCycleCountdown)
      BY <1>5, <2>3
    <3> QED  BY <1>1, <1>6, <3>1, <3>2
  <2> QED  BY <1>8, <2>2, <2>3
<1>11. PhaseSeen # "handler" /\ PhaseSeen' = "handler"
  BY <1>1, <1>2 DEF PhaseSeen
<1>12. Lag' = -DueIn[h] /\ exeEvt' = h
  BY <1>2, <1>3, <1>6 DEF Lag
<1>13. DueIn[h] <= 0
  BY <1>1, <1>6
<1> QED  BY <1>4, <1>7, <1>9, <1>10, <1>11, <1>12, <1>13, FireIs

(* The Idle node's turn is no step of the timeline's.                      *)
LEMMA ExecuteIdleStutters == IInv /\ ExecuteIdle => UNCHANGED seen
<1> SUFFICES ASSUME IInv, ExecuteIdle PROVE UNCHANGED seen
  OBVIOUS
<1>1. /\ phase = "drain" /\ phase' \in {"cpu", "drain"} /\ List = <<>>
      /\ UNCHANGED <<List, exeEvt, oldtime, due>>
  BY DEF ExecuteIdle, Reload
<1>2. PhaseSeen = "cpu" /\ PhaseSeen' = "cpu" /\ UNCHANGED <<Armed, Lag, exeEvt>>
  BY <1>1 DEF PhaseSeen, Armed, Lag
<1>3. \A e \in Events : ~IsScheduled(List, e)
  <2>1. Len(List) = 0
    BY <1>1, EmptySeq
  <2> QED  BY <2>1 DEF IsScheduled, Position
<1>4. DueIn = [e \in Events |-> 0] /\ DueIn' = [e \in Events |-> 0]
  BY <1>1, <1>3 DEF DueIn
<1> QED  BY <1>2, <1>4 DEF seen

LEMMA ReturnReturns ==
  ASSUME OInv, Sorted, Return PROVE Timeline!Return
<1>1. /\ IInv /\ phase = "handler" /\ evtCycleDuration = evtCycleCountdown
      /\ evtCycleDuration \in Int /\ oldtime \in Int
      /\ due \in [Events -> Int] /\ List \in Seq(Entry)
      /\ \A i \in 1..Len(List) : /\ List[i].evt \in Events
                                 /\ List[i].delta \in Int
  BY EntryParts DEF OInv, IInv, TypeOK, CountdownIsTheHeads, Return
<1>2. /\ evtCycleDuration' = HeadDelta(List)
      /\ evtCycleCountdown' = oldtime + HeadDelta(List)
      /\ phase' = IF evtCycleCountdown' > 0 THEN "cpu" ELSE "drain"
      /\ UNCHANGED <<List, due>> /\ exeEvt' = Idle /\ oldtime' = 0
  BY DEF Return, Reload
<1>3. HeadDelta(List) \in Int
  <2>1. IdleDelta \in Int
    BY RatesAssumption
  <2>2. List # <<>> => 1 \in 1..Len(List)
    BY <1>1, EmptySeq
  <2> QED  BY <1>1, <2>1, <2>2 DEF HeadDelta
<1>4. evtCycleDuration' - evtCycleCountdown' = -oldtime
  BY <1>1, <1>2, <1>3
<1>5. Lag = -oldtime /\ Lag \in Int /\ Lag' = 0 /\ PhaseSeen = "handler"
  BY <1>1, <1>2 DEF Lag, PhaseSeen
<1>6. DueIn' = [e \in Events |-> IF IsScheduled(List', e) THEN due'[e] - Lag ELSE 0]
  BY <1>4, <1>5, DueInAfter
<1>7. \A e \in Armed : e \in Events /\ DueIn[e] = due[e] /\ due[e] \in Int
  <2>1. \A e \in Events : e \in Armed =>
                            DueIn[e] = due[e] - (evtCycleDuration - evtCycleCountdown)
    BY DueInNow
  <2>2. evtCycleDuration - evtCycleCountdown = 0
    BY <1>1
  <2>3. \A e \in Armed : e \in Events
    BY DEF Armed
  <2> QED  BY <1>1, <2>1, <2>2, <2>3
<1>8. DueIn' = [e \in Events |-> IF e \in Armed THEN DueIn[e] - Lag ELSE 0]
  BY <1>2, <1>6, <1>7, DueInNow
<1>9. UNCHANGED Armed
  BY <1>2 DEF Armed
<1>10. PhaseSeen' = IF \E e \in Armed : DueIn'[e] <= 0 THEN "drain" ELSE "cpu"
  <2>1. CASE List = <<>>
    <3>1. Len(List) = 0
      BY <2>1, EmptySeq
    <3>2. Armed = {}
      BY <3>1 DEF Armed, IsScheduled, Position
    <3>3. phase' \in {"cpu", "drain"} /\ List' = <<>>
      BY <1>2, <2>1
    <3> QED  BY <3>2, <3>3 DEF PhaseSeen
  <2>2. CASE List # <<>>
    <3> DEFINE h == List[1].evt
    <3>1. h \in Events /\ List[1].delta = due[h] /\ 1 \in 1..Len(List)
      BY <1>1, <2>2, HeadIsDue
    <3>2. h \in Armed
      BY <3>1 DEF Armed, IsScheduled, Position
    <3>3. HeadDelta(List) = due[h]
      BY <2>2, <3>1 DEF HeadDelta
    <3>4. \A e \in Armed : DueIn'[e] = due[e] + oldtime
      BY <1>1, <1>5, <1>7, <1>8
    <3>5. \A e \in Armed : due[h] <= due[e]
      <4>1. TAKE e \in Armed
      <4>2. PICK i \in 1..Len(List) : List[i].evt = e
        BY DEF Armed, IsScheduled, Position
      <4>3. 1 <= i
        OBVIOUS
      <4> QED  BY <3>1, <4>2, <4>3, SortedParts DEF Ordered
    <3> HIDE DEF h
    <3>6. evtCycleCountdown' = DueIn'[h] /\ DueIn'[h] \in Int
      BY <1>1, <1>2, <1>7, <3>2, <3>3, <3>4
    <3>7. (\E e \in Armed : DueIn'[e] <= 0) <=> DueIn'[h] <= 0
      BY <1>1, <1>7, <3>2, <3>4, <3>5
    <3>8. PhaseSeen' = phase'
      BY <1>2, <2>2 DEF PhaseSeen
    <3>9. DueIn'[h] <= 0 <=> ~(evtCycleCountdown' > 0)
      BY <3>6
    <3> QED  BY <1>2, <3>7, <3>8, <3>9
  <2> QED  BY <2>1, <2>2
<1> QED  BY <1>2, <1>5, <1>8, <1>9, <1>10, ReturnIs

LEMMA InitTimeline == Init => Timeline!Init
<1> SUFFICES ASSUME Init PROVE Timeline!Init
  OBVIOUS
<1> DEFINE t0 == [list |-> <<>>, dur |-> 32, cnt |-> 32]
           d0 == [v \in Events |-> 0]
           t  == Schedule(t0, SPU, 0)
<1>1. /\ List = t.list /\ evtCycleDuration = t.dur /\ evtCycleCountdown = t.cnt
      /\ phase = "cpu" /\ exeEvt = Idle /\ oldtime = 0 /\ due = d0
  BY DEF Init
<1>2. /\ t0 \in Timers /\ Good(t0.list, d0) /\ PendingCycles(t0) = 0
      /\ d0 \in [Events -> Int] /\ \A e \in Events : ~IsScheduled(t0.list, e)
  <2>1. <<>> \in Seq(Entry) /\ Len(<<>>) = 0
    BY EmptySeq
  <2>2. Distinct(<<>>) /\ Encodes(<<>>, d0)
    BY <2>1 DEF Distinct, Encodes
  <2> QED  BY <2>1, <2>2 DEF Timers, Good, PendingCycles, IsScheduled, Position
<1>3. SPU \in Events /\ 0 \in Int /\ 0 \in Nat
  BY EventsAssumption
<1> HIDE DEF t0
<1>4. PendingCycles(t) = 0
  <2> HIDE DEF d0
  <2> QED  BY <1>2, <1>3, ScheduleGood
<1>5. \A e \in Events : IsScheduled(t.list, e) <=> e = SPU
  <2> HIDE DEF d0
  <2> QED  BY <1>2, <1>3, SchedulePutsIn
<1>6. PendingCycles(Timer) = 0
  BY <1>1, <1>4 DEF PendingCycles, Timer
<1> HIDE DEF t
<1>7. Armed = {SPU}
  BY <1>1, <1>3, <1>5 DEF Armed
<1>8. DueIn = [e \in Events |-> 0]
  BY <1>1, <1>6 DEF DueIn
<1>9. PhaseSeen = "cpu" /\ Lag = 0
  BY <1>1 DEF PhaseSeen, Lag
<1> QED  BY <1>1, <1>3, <1>7, <1>8, <1>9
         DEF Timeline!Init, Armed, DueIn, PhaseSeen, Lag

(* Every step from an ordered list is a step of the timeline.              *)
LEMMA StepsOnTimeline ==
  ASSUME OInv, [Next]_<<vars, SpuAsync>>, Sorted
  PROVE  Timeline!Next \/ UNCHANGED Timeline!vars
<1>1. IInv /\ PresentIsLate /\ List \in Seq(Entry)
  BY DEF OInv, IInv, TypeOK
<1>2. /\ Timer \in Timers /\ Timer.list = List
      /\ PendingCycles(Timer) = evtCycleDuration - evtCycleCountdown
  BY <1>1, IInvParts
<1>3. /\ AddCycles(Timer, 1) \in Timers
      /\ AddCycles(Timer, 1).list = List
  BY <1>2, 1 \in Int, AddCyclesGood
<1>4. PendingCycles(AddCycles(Timer, 1)) = PendingCycles(Timer) + 1
  BY <1>2 DEF AddCycles, PendingCycles, Timers
<1>5. Times \in [Events -> SUBSET Nat] /\ SpuRate \in Nat /\ SPU \in Events
  BY EventsAssumption, RatesAssumption
<1>6. PendingCycles(Timer) = PendingCycles(Timer) + 0
  BY <1>2 DEF PendingCycles, Timers
<1>7. ASSUME NEW n \in Events, Timeline!Fire(n) PROVE Timeline!Next
  BY <1>7 DEF Timeline!Next
<1>8. ASSUME NEW n \in Events, Timeline!Disarm(n) PROVE Timeline!Next
  BY <1>8 DEF Timeline!Next
<1>9. ASSUME NEW n \in Events, Timeline!Arm(n, SpuRate) PROVE Timeline!Next
  BY <1>9 DEF Timeline!Next
<1>10. ASSUME NEW n \in Events, NEW time \in Times[n], Timeline!Arm(n, time)
       PROVE  Timeline!Next
  BY <1>10 DEF Timeline!Next
<1>11. CASE Instruction
  BY <1>1, <1>11, InstructionTicks DEF Timeline!Next
<1>12. CASE BranchTest
  <2>1. Timeline!Branch \/ UNCHANGED seen
    BY <1>1, <1>12, BranchTestBranches
  <2> QED  BY <2>1, SeenVars DEF Timeline!Next
<1>13. CASE ExecuteHead
  <2>1. List # <<>>
    BY <1>13 DEF ExecuteHead
  <2>2. List[1].evt \in Events
    BY <1>1, <2>1, HeadIsDue
  <2>3. PICK h \in Events : h = List[1].evt
    BY <2>2
  <2>4. Timeline!Fire(h)
    BY <1>13, <2>3, ExecuteHeadFires
  <2> QED  BY <1>7, <2>4
<1>14. CASE ExecuteIdle
  BY <1>1, <1>14, ExecuteIdleStutters, SeenVars
<1>15. CASE HandleSPU
  <2>1. /\ phase = "handler" /\ ScheduleEvt(Timer, SPU, SpuRate)
        /\ UNCHANGED <<phase, exeEvt, oldtime>>
    BY <1>15 DEF HandleSPU
  <2>2. Timeline!Arm(SPU, SpuRate)
    BY <1>1, <1>2, <1>5, <1>6, <2>1, ScheduleArms
  <2> QED  BY <1>5, <1>9, <2>2
<1>16. CASE Return
  BY <1>16, ReturnReturns DEF Timeline!Next
<1>17. ASSUME NEW n \in Events, NEW time \in Times[n], GuestSchedule(n, time)
       PROVE  Timeline!Next
  <2>1. /\ phase = "cpu" /\ ScheduleEvt(AddCycles(Timer, 1), n, time)
        /\ UNCHANGED <<phase, exeEvt, oldtime>> /\ time \in Nat
    BY <1>5, <1>17 DEF GuestSchedule, MayAccess, Runs
  <2>2. Timeline!Arm(n, time)
    BY <1>1, <1>2, <1>3, <1>4, <2>1, ScheduleArms
  <2> QED  BY <1>10, <2>2
<1>18. ASSUME NEW n \in Events, NEW time \in Times[n], HandlerSchedule(n, time)
       PROVE  Timeline!Next
  <2>1. /\ phase = "handler" /\ ScheduleEvt(Timer, n, time)
        /\ UNCHANGED <<phase, exeEvt, oldtime>> /\ time \in Nat
    BY <1>5, <1>18 DEF HandlerSchedule, InDeviceHandler
  <2>2. Timeline!Arm(n, time)
    BY <1>1, <1>2, <1>6, <2>1, ScheduleArms
  <2> QED  BY <1>10, <2>2
<1>19. ASSUME NEW n \in Events, GuestCancel(n) PROVE Timeline!Next
  <2>1. /\ phase = "cpu" /\ CancelEvt(AddCycles(Timer, 1), n)
        /\ UNCHANGED <<phase, exeEvt, oldtime>>
    BY <1>19 DEF GuestCancel, MayAccess, Runs
  <2>2. Timeline!Disarm(n)
    BY <1>1, <1>2, <1>3, <1>4, <2>1, CancelDisarms
  <2> QED  BY <1>8, <2>2
<1>20. ASSUME NEW n \in Events, HandlerCancel(n) PROVE Timeline!Next
  <2>1. /\ phase = "handler" /\ CancelEvt(Timer, n)
        /\ UNCHANGED <<phase, exeEvt, oldtime>>
    BY <1>20 DEF HandlerCancel, InDeviceHandler
  <2>2. Timeline!Disarm(n)
    BY <1>1, <1>2, <1>6, <2>1, CancelDisarms
  <2> QED  BY <1>8, <2>2
<1>21. CASE UNCHANGED vars
  <2>1. UNCHANGED seen
    BY <1>21 DEF vars, seen, Armed, DueIn, PhaseSeen, Lag, Timer, PendingCycles
  <2> QED  BY <2>1, SeenVars
<1> QED  BY <1>11, <1>12, <1>13, <1>14, <1>15, <1>16, <1>17, <1>18, <1>19,
            <1>20, <1>21 DEF Next, Step, vars

(* From a state whose list is in order, whatever the program does next is  *)
(* what the timeline lets happen: the right event, at the instant of its   *)
(* deadline, and the CPU does not run on while one is due.                 *)
THEOREM SchedulerRefinesTimeline == Spec => RefinesTimeline
<1>1. OInv /\ [Next]_<<vars, SpuAsync>> => [Sorted => Timeline!Next]_Timeline!vars
  BY StepsOnTimeline
<1> QED  BY InitPresent, NextPresent, InitTimeline, <1>1, PTL
         DEF Spec, RefinesTimeline

(* The guest makes none of its stores to device registers in the cycles    *)
(* between the countdown's zero and the branch.                            *)
StoresInTime ==
  [][phase = "cpu" /\ evtCycleCountdown <= 0 => UNCHANGED <<List, due>>]_vars

LEMMA AlwaysSorted ==
  ASSUME OInv, Sorted, [Next]_<<vars, SpuAsync>>,
         [phase = "cpu" /\ evtCycleCountdown <= 0 => UNCHANGED <<List, due>>]_vars
  PROVE  Sorted'
<1>1. CASE phase = "cpu" => evtCycleCountdown > 0
  BY <1>1, OrderKept
<1>2. CASE phase = "cpu" /\ ~(evtCycleCountdown > 0)
  <2>1. evtCycleCountdown <= 0
    BY <1>2 DEF OInv, IInv, TypeOK
  <2>2. UNCHANGED <<List, due>>
    BY <1>2, <2>1 DEF vars
  <2> QED  BY <2>2, SortedParts, SortedPartsPrime
<1> QED  BY <1>1, <1>2

LEMMA InitSorted == Init => Sorted
<1>1. ASSUME Init PROVE Sorted
  <2>1. IInv /\ due = [e \in Events |-> 0]
    BY <1>1, InitInv DEF Init
  <2>2. \A i \in 1..Len(List) : due[List[i].evt] = 0
    BY <2>1, EntryParts DEF IInv, TypeOK
  <2> QED  BY <2>2 DEF Sorted, DueAt
<1> QED  BY <1>1

(* In a behaviour in which the guest never stores late the list is always  *)
(* in order, and the scheduler implements the timeline outright.           *)
THEOREM SchedulerIsTimeline ==
  Spec /\ StoresInTime => []Sorted /\ Timeline!Spec
<1>1. /\ OInv /\ Sorted /\ [Next]_<<vars, SpuAsync>>
      /\ [phase = "cpu" /\ evtCycleCountdown <= 0 => UNCHANGED <<List, due>>]_vars
      => Sorted'
  BY AlwaysSorted
<1>2. OInv /\ Sorted /\ [Next]_<<vars, SpuAsync>> => [Timeline!Next]_Timeline!vars
  BY StepsOnTimeline
<1> QED  BY InitPresent, NextPresent, InitTimeline, InitSorted, <1>1, <1>2, PTL
         DEF Spec, StoresInTime, Timeline!Spec

-----------------------------------------------------------------------------
(* With an emulated BIOS the deltas need not encode the deadlines: guest   *)
(* code inside a handler has both counters reset under it.  What is left   *)
(* is that a negative duration is that of a head put out of order.         *)

(* Running, node by node, whatever the deltas are.                         *)
LEMMA RunningAdds ==
  ASSUME NEW list \in Seq(Entry), NEW p \in Int
  PROVE  /\ \A i \in 1..Len(list)+1 : Running(list, p)[i] \in Int
         /\ Running(list, p)[1] = -p
         /\ \A i \in 1..Len(list) :
              Running(list, p)[i+1] = Running(list, p)[i] + list[i].delta
<1> DEFINE n == Len(list)
           Sum(f) == [i \in 1..n + 1 |->
                        IF i = 1 THEN -p ELSE f[i-1] + list[i-1].delta]
           Upto(m, f) == /\ f \in [1..n+1 -> Int] /\ f[1] = -p
                         /\ \A i \in 1..n : i < m => f[i+1] = f[i] + list[i].delta
           S == {m \in 1..n+1 : \E f : Upto(m, f)}
<1>1. n \in Nat /\ \A i \in 1..n : list[i].delta \in Int
  BY EntryParts
<1> HIDE DEF n
<1>2. 1 \in S
  <2> DEFINE f == [i \in 1..n+1 |-> -p]
  <2>1. f \in [1..n+1 -> Int] /\ f[1] = -p
    BY <1>1
  <2>2. Upto(1, f)
    BY <1>1, <2>1
  <2> QED  BY <1>1, <2>2
<1>3. ASSUME NEW m \in 1..n, m \in S PROVE m + 1 \in S
  <2>1. PICK f : Upto(m, f)
    BY <1>3
  <2> DEFINE g == [f EXCEPT ![m+1] = f[m] + list[m].delta]
  <2>2. m \in 1..n+1 /\ m + 1 \in 1..n+1 /\ m + 1 # 1
    BY <1>1
  <2>3. f[m] + list[m].delta \in Int
    BY <1>1, <2>1, <2>2
  <2>4. g \in [1..n+1 -> Int] /\ g[1] = -p
    BY <1>1, <2>1, <2>2, <2>3
  <2>5. ASSUME NEW i \in 1..n, i < m + 1 PROVE g[i+1] = g[i] + list[i].delta
    <3>1. i \in 1..n+1 /\ i + 1 \in 1..n+1 /\ i # m + 1
      BY <1>1, <2>5
    <3>2. CASE i = m
      BY <2>1, <2>2, <3>1, <3>2
    <3>3. CASE i # m
      <4>1. i < m /\ i + 1 # m + 1
        BY <2>5, <3>3
      <4> QED  BY <2>1, <3>1, <4>1
    <3> QED  BY <3>2, <3>3
  <2> HIDE DEF g
  <2>6. Upto(m + 1, g)
    BY <2>4, <2>5
  <2> HIDE DEF Upto
  <2> QED  BY <2>2, <2>6
<1>4. n + 1 \in S
  <2>1. 1..n+1 \subseteq S
    <3> HIDE DEF S
    <3> QED  BY <1>1, <1>2, <1>3, IntervalInduction
  <2>2. n + 1 \in 1..n+1
    BY <1>1
  <2> HIDE DEF S
  <2> QED  BY <2>1, <2>2
<1>5. PICK g : Upto(n + 1, g)
  BY <1>4
<1>6. g = Sum(g)
  <2>1. ASSUME NEW i \in 1..n+1 PROVE g[i] = Sum(g)[i]
    <3>1. CASE i = 1
      BY <1>1, <1>5, <3>1
    <3>2. CASE i # 1
      <4>1. i - 1 \in 1..n /\ i - 1 < n + 1 /\ (i - 1) + 1 = i
        BY <1>1, <3>2
      <4>2. g[(i-1)+1] = g[i-1] + list[i-1].delta
        BY <1>5, <4>1
      <4> QED  BY <3>2, <4>1, <4>2
    <3> QED  BY <3>1, <3>2
  <2>2. g = [i \in 1..n+1 |-> g[i]]
    BY <1>5
  <2>3. Sum(g) = [i \in 1..n+1 |-> Sum(g)[i]]
    OBVIOUS
  <2> HIDE DEF Sum, Upto
  <2> QED  BY <2>1, <2>2, <2>3
<1> DEFINE c == CHOOSE f : f = Sum(f)
<1>7. Running(list, p) = c
  BY DEF Running, n
<1>8. c = Sum(c)
  <2> HIDE DEF Sum, Upto
  <2> QED  BY <1>6, Zenon
<1> HIDE DEF c
<1>9. c[1] = -p
  <2>1. 1 \in 1..n+1
    BY <1>1
  <2>2. Sum(c)[1] = -p
    BY <2>1
  <2> HIDE DEF Sum
  <2> QED  BY <1>8, <2>2
<1>10. ASSUME NEW i \in 1..n PROVE c[i+1] = c[i] + list[i].delta
  <2>1. i + 1 \in 1..n+1 /\ i + 1 # 1 /\ (i + 1) - 1 = i
    BY <1>1
  <2>2. Sum(c)[i+1] = c[i] + list[i].delta
    BY <2>1
  <2> HIDE DEF Sum
  <2> QED  BY <1>8, <2>2
<1>11. \A i \in 1..n+1 : c[i] \in Int
  <2> DEFINE T == {i \in 1..n+1 : c[i] \in Int}
  <2>1. 1 \in T
    BY <1>1, <1>9
  <2>2. \A i \in 1..n : i \in T => i + 1 \in T
    BY <1>1, <1>10
  <2>3. 1..n+1 \subseteq T
    <3> HIDE DEF T
    <3> QED  BY <1>1, <2>1, <2>2, IntervalInduction
  <2> QED  BY <2>3
<1> QED  BY <1>7, <1>9, <1>10, <1>11 DEF n

(* A negative duration was loaded from the head.                           *)
Anchored(t) == t.list # <<>> /\ ~(t.dur >= 0) => t.dur = t.list[1].delta

(* No delta of t is negative, and no deadline has passed.                  *)
Ahead(t) ==
  /\ \A i \in 1..Len(t.list) : t.list[i].delta >= 0
  /\ t.list = <<>> => t.dur >= 0
  /\ t.list # <<>> => t.list[1].delta >= PendingCycles(t)

LEMMA CancelAhead ==
  ASSUME NEW t \in Timers, PendingCycles(t) >= 0, NEW n
  PROVE  /\ Cancel(t, n) \in Timers
         /\ PendingCycles(Cancel(t, n)) = PendingCycles(t)
         /\ Anchored(t) => Anchored(Cancel(t, n))
         /\ Ahead(t) => Ahead(Cancel(t, n))
<1>1. CASE ~IsScheduled(t.list, n)
  BY <1>1 DEF Cancel
<1>2. CASE IsScheduled(t.list, n)
  <2> DEFINE k == CHOOSE i \in Position(t.list, n) : TRUE
             m == Len(t.list)
             l == Removed(t.list, k)
             p == PendingCycles(t)
             v == IF l = <<>> THEN IdleDelta + t.list[1].delta ELSE l[1].delta
             c == CancelAt(t, k)
  <2>1. k \in 1..m
    <3>1. k \in Position(t.list, n)
      BY <1>2 DEF IsScheduled
    <3> HIDE DEF k
    <3> QED  BY <3>1 DEF Position
  <2>2. Cancel(t, n) = c
    BY <1>2 DEF Cancel
  <2> HIDE DEF k
  <2>3. /\ t.list \in Seq(Entry) /\ t.dur \in Int /\ t.cnt \in Int /\ p \in Int
        /\ m \in Nat
        /\ \A i \in 1..m : t.list[i] \in Entry /\ t.list[i].delta \in Int
    BY EntryParts DEF Timers, PendingCycles
  <2>0. p >= 0 /\ 1 \in 1..m /\ t.list # <<>>
    BY <2>1, <2>3, EmptySeq
  <2>4. Ahead(t) => /\ \A i \in 1..m : t.list[i].delta >= 0
                    /\ t.list[1].delta >= p
    BY <2>0 DEF Ahead
  <2>5. /\ l \in Seq(Entry) /\ Len(l) = m - 1
        /\ \A j \in 1..m-1 :
             l[j] = IF j < k THEN t.list[j]
                    ELSE IF j = k THEN Delayed(t.list[k+1], t.list[k].delta)
                    ELSE t.list[j+1]
    BY <2>1, <2>3, RemovedAt
  <2> HIDE DEF l, m
  <2>6. ASSUME NEW j \in 1..m-1
        PROVE  /\ l[j].delta = IF j < k THEN t.list[j].delta
                               ELSE IF j = k THEN t.list[k+1].delta + t.list[k].delta
                               ELSE t.list[j+1].delta
               /\ j \in 1..m /\ j + 1 \in 1..m /\ l[j].delta \in Int
    <3>1. j \in 1..m /\ j + 1 \in 1..m
      BY <2>3
    <3>2. j = k => Delayed(t.list[k+1], t.list[k].delta).delta
                     = t.list[k+1].delta + t.list[k].delta
      BY <2>3, <3>1 DEF Delayed, Entry
    <3>3. l[j].delta = IF j < k THEN t.list[j].delta
                       ELSE IF j = k THEN t.list[k+1].delta + t.list[k].delta
                       ELSE t.list[j+1].delta
      BY <2>5, <3>2
    <3>4. /\ t.list[k].delta \in Int /\ t.list[j].delta \in Int
          /\ t.list[j+1].delta \in Int
      BY <2>1, <2>3, <3>1
    <3>5. j = k => k + 1 = j + 1 /\ t.list[k+1].delta + t.list[k].delta \in Int
      BY <3>4
    <3>6. l[j].delta \in Int
      BY <3>3, <3>4, <3>5
    <3> QED  BY <3>1, <3>3, <3>6
  <2>7. Ahead(t) => \A j \in 1..m-1 : l[j].delta >= 0
    <3>0. HAVE Ahead(t)
    <3>1. TAKE j \in 1..m-1
    <3>2. j \in 1..m /\ j + 1 \in 1..m
      BY <2>6
    <3>3. t.list[j].delta >= 0 /\ t.list[j+1].delta >= 0
      BY <2>4, <3>0, <3>2
    <3>4. t.list[j].delta \in Int /\ t.list[j+1].delta \in Int
      BY <2>3, <3>2
    <3>5. CASE j = k
      BY <2>6, <3>3, <3>4, <3>5
    <3>6. CASE j # k
      BY <2>6, <3>3, <3>6
    <3> QED  BY <3>5, <3>6
  <2>8. l # <<>> => 1 \in 1..m-1
    BY <2>3, <2>5, EmptySeq
  <2>9. Ahead(t) /\ l # <<>> => l[1].delta >= p
    <3>1. HAVE Ahead(t) /\ l # <<>>
    <3>2. 1 \in 1..m-1 /\ 1 + 1 \in 1..m
      BY <2>6, <2>8, <3>1
    <3>3. CASE 1 < k
      BY <2>4, <2>6, <3>1, <3>2, <3>3
    <3>4. CASE k = 1
      <4>1. l[1].delta = t.list[1+1].delta + t.list[1].delta
        BY <2>6, <3>2, <3>4
      <4> QED  BY <2>0, <2>3, <2>4, <3>1, <3>2, <4>1
    <3> QED  BY <2>1, <2>3, <3>3, <3>4
  <2>10. CASE k = 1
    <3>1. c = [list |-> l, dur |-> v, cnt |-> v - p]
      BY <2>10 DEF CancelAt, l
    <3>2. IdleDelta \in Int /\ IdleDelta >= 0
      BY RatesAssumption
    <3>3. v \in Int /\ (Ahead(t) => v >= 0)
      BY <2>0, <2>3, <2>4, <2>6, <2>7, <2>8, <3>2
    <3>4. l # <<>> => v = l[1].delta
      OBVIOUS
    <3> HIDE DEF v, c, p
    <3>5. c \in Timers /\ c.list = l /\ c.dur = v /\ c.cnt = v - p
      BY <2>3, <2>5, <3>1, <3>3 DEF Timers
    <3>6. PendingCycles(c) = p
      BY <2>3, <3>3, <3>5 DEF PendingCycles
    <3>7. Ahead(t) => Ahead(c)
      BY <2>5, <2>7, <2>9, <3>3, <3>5, <3>6 DEF Ahead
    <3> QED  BY <2>2, <3>4, <3>5, <3>6, <3>7 DEF p, Anchored
  <2>11. CASE k # 1
    <3>1. c = [t EXCEPT !.list = l]
      BY <2>11 DEF CancelAt, l
    <3> HIDE DEF c
    <3>2. c \in Timers /\ c.list = l /\ c.dur = t.dur /\ c.cnt = t.cnt
      BY <2>3, <2>5, <3>1 DEF Timers
    <3>3. PendingCycles(c) = p
      BY <3>2 DEF PendingCycles
    <3>4. l # <<>> /\ l[1].delta = t.list[1].delta
      <4>1. 1 \in 1..m-1 /\ 1 < k
        BY <2>1, <2>3, <2>11
      <4>2. l # <<>>
        BY <2>5, <4>1, EmptySeq
      <4> QED  BY <2>6, <4>1, <4>2
    <3>5. Ahead(t) => Ahead(c)
      <4> HIDE DEF p
      <4> QED  BY <2>5, <2>7, <2>9, <3>2, <3>3, <3>4 DEF Ahead
    <3>6. Anchored(t) => Anchored(c)
      BY <2>0, <3>2, <3>4 DEF Anchored
    <3> QED  BY <2>2, <3>2, <3>3, <3>5, <3>6
  <2> QED  BY <2>10, <2>11
<1> QED  BY <1>1, <1>2

LEMMA ScheduleAhead ==
  ASSUME NEW t \in Timers, PendingCycles(t) >= 0,
         NEW n \in Events, NEW time \in Nat
  PROVE  /\ Schedule(t, n, time) \in Timers
         /\ PendingCycles(Schedule(t, n, time)) = PendingCycles(t)
         /\ Anchored(t) => Anchored(Schedule(t, n, time))
         /\ Ahead(t) => Ahead(Schedule(t, n, time))
<1> DEFINE c == Cancel(t, n)
           p == PendingCycles(c)
           m == Len(c.list)
           running == Running(c.list, p)
           S == StopsAt(c.list, running, time)
           k == FirstOf(S)
           node == [evt |-> n, delta |-> time - running[k]]
           l == Inserted(c.list, k, node)
           s == ScheduleAt(c, n, time, running, k)
<1>1. /\ c \in Timers /\ p = PendingCycles(t)
      /\ Anchored(t) => Anchored(c)
      /\ Ahead(t) => Ahead(c)
  BY CancelAhead
<1>2. Schedule(t, n, time) = s
  BY DEF Schedule
<1> HIDE DEF c
<1>3. /\ c.list \in Seq(Entry) /\ c.dur \in Int /\ c.cnt \in Int /\ p \in Int
      /\ m \in Nat
      /\ \A i \in 1..m : c.list[i] \in Entry /\ c.list[i].delta \in Int
  BY <1>1, EntryParts DEF Timers, PendingCycles
<1>0. p >= 0
  BY <1>1
<1>4. Ahead(c) => /\ \A i \in 1..m : c.list[i].delta >= 0
                  /\ m # 0 => c.list[1].delta >= p
  <2>1. m # 0 => c.list # <<>>
    BY EmptySeq
  <2> QED  BY <2>1 DEF Ahead
<1> HIDE DEF p
<1>5. /\ \A i \in 1..m+1 : running[i] \in Int
      /\ running[1] = -p
      /\ \A i \in 1..m : running[i+1] = running[i] + c.list[i].delta
  BY <1>3, RunningAdds
<1> HIDE DEF running, m
<1>6. Ahead(c) => \A i \in 1..m : running[i+1] >= 0
  <2>0. HAVE Ahead(c)
  <2> DEFINE T == {i \in 1..m+1 : i # 1 => running[i] >= 0}
  <2>1. 1 \in T
    BY <1>3
  <2>2. ASSUME NEW i \in 1..m, i \in T PROVE i + 1 \in T
    <3>1. i \in 1..m+1 /\ i + 1 \in 1..m+1 /\ running[i] \in Int
      BY <1>3, <1>5
    <3>2. running[i+1] = running[i] + c.list[i].delta
      BY <1>5
    <3>3. CASE i = 1
      BY <1>3, <1>4, <1>5, <2>0, <3>1, <3>2, <3>3
    <3>4. CASE i # 1
      BY <1>3, <1>4, <2>0, <2>2, <3>1, <3>2, <3>4
    <3> QED  BY <3>3, <3>4
  <2>3. 1..m+1 \subseteq T
    <3> HIDE DEF T
    <3> QED  BY <1>3, <2>1, <2>2, IntervalInduction
  <2>4. TAKE i \in 1..m
  <2>5. i + 1 \in 1..m+1 /\ i + 1 # 1
    BY <1>3
  <2> QED  BY <2>3, <2>5
<1>7. /\ S \subseteq 1..m+1 /\ m + 1 \in S
      /\ Ahead(c) => S = {i \in 1..m : running[i+1] > time} \union {m + 1}
  <2>1. ASSUME Ahead(c), NEW i \in 1..m
        PROVE  UGreater(running[i] + c.list[i].delta, time) <=> running[i+1] > time
    <3>1. running[i+1] = running[i] + c.list[i].delta /\ running[i+1] \in Int
      BY <1>3, <1>5
    <3>2. ~(running[i+1] < 0) /\ ~(time < 0)
      BY <1>6, <2>1, <3>1
    <3> QED  BY <3>1, <3>2 DEF UGreater
  <2>2. S \subseteq 1..m+1 /\ m + 1 \in S
    BY <1>3 DEF StopsAt, m
  <2> QED  BY <2>1, <2>2 DEF StopsAt, m
<1>8. k \in S /\ \A j \in S : k <= j
  <2>1. S \subseteq Nat /\ S # {}
    BY <1>3, <1>7
  <2> HIDE DEF S
  <2>2. \E i \in S : \A j \in S : i <= j
    BY <2>1, LeastElement
  <2> QED  BY <2>2, Zenon DEF FirstOf
<1> HIDE DEF k
<1>9. k \in 1..m+1
  BY <1>3, <1>7, <1>8
<1>10. node \in Entry /\ node.delta = time - running[k] /\ running[k] \in Int
  <2>1. running[k] \in Int
    BY <1>5, <1>9
  <2> QED  BY <2>1 DEF Entry
<1>11. Ahead(c) => time - running[k] >= 0
  <2>0. HAVE Ahead(c)
  <2>1. CASE k = 1
    BY <1>0, <1>3, <1>5, <2>1
  <2>2. CASE k # 1
    <3>1. k - 1 \in 1..m /\ ~(k <= k - 1) /\ (k - 1) + 1 = k
      BY <1>3, <1>9, <2>2
    <3>2. k - 1 \notin S
      BY <1>8, <3>1
    <3>3. ~(running[(k-1)+1] > time)
      BY <1>7, <2>0, <3>1, <3>2
    <3> QED  BY <1>10, <3>1, <3>3
  <2> QED  BY <2>1, <2>2
<1>12. Ahead(c) /\ k \in 1..m => c.list[k].delta - node.delta >= 0
  <2>1. HAVE Ahead(c) /\ k \in 1..m
  <2>2. k # m + 1
    BY <1>3, <2>1
  <2>3. running[k+1] > time
    BY <1>7, <1>8, <2>1, <2>2
  <2>4. running[k+1] = running[k] + c.list[k].delta
    BY <1>5, <2>1
  <2> QED  BY <1>3, <1>10, <2>1, <2>3, <2>4
<1>13. /\ l \in Seq(Entry) /\ Len(l) = m + 1
       /\ \A j \in 1..m+1 : l[j] = EntryOfInserted(c.list, k, node, j)
  <2> HIDE DEF node
  <2> QED  BY <1>3, <1>9, <1>10, InsertedAt DEF m
<1>14. ASSUME NEW j \in 1..m+1
       PROVE  /\ j < k => l[j].delta = c.list[j].delta /\ j \in 1..m
              /\ j = k => l[j].delta = node.delta
              /\ j = k + 1 => /\ l[j].delta = c.list[k].delta - node.delta
                              /\ k \in 1..m
              /\ j > k + 1 => l[j].delta = c.list[j-1].delta /\ j - 1 \in 1..m
  <2> HIDE DEF node, l
  <2>1. l[j] = EntryOfInserted(c.list, k, node, j)
    BY <1>13
  <2>2. /\ j < k => j \in 1..m
        /\ j = k => ~(j < k)
        /\ j = k + 1 => k \in 1..m /\ ~(j < k) /\ j # k
        /\ j > k + 1 => j - 1 \in 1..m /\ ~(j < k) /\ j # k /\ j # k + 1
    BY <1>3, <1>9
  <2>3. j = k + 1 => Delayed(c.list[k], -node.delta).delta
                       = c.list[k].delta - node.delta
    <3>1. HAVE j = k + 1
    <3>2. c.list[k] \in Entry /\ c.list[k].delta \in Int /\ node.delta \in Int
      BY <1>3, <1>10, <2>2, <3>1
    <3>3. Delayed(c.list[k], -node.delta).delta = c.list[k].delta + (-node.delta)
      BY <3>2 DEF Delayed, Entry
    <3> QED  BY <3>2, <3>3
  <2> QED  BY <2>1, <2>2, <2>3 DEF EntryOfInserted
<1>15. Ahead(c) => \A j \in 1..m+1 : l[j].delta >= 0
  <2>0. HAVE Ahead(c)
  <2>1. TAKE j \in 1..m+1
  <2>2. node.delta >= 0
    BY <1>10, <1>11, <2>0
  <2>3. j < k \/ j = k \/ j = k + 1 \/ j > k + 1
    BY <1>3, <1>9
  <2> HIDE DEF node, l
  <2> QED  BY <1>4, <1>12, <1>14, <2>0, <2>2, <2>3
<1>16. 1 \in 1..m+1 /\ l # <<>>
  <2> HIDE DEF l
  <2> QED  BY <1>3, <1>13, EmptySeq
<1>17. CASE k = 1
  <2>1. s = [list |-> l, dur |-> node.delta, cnt |-> time]
    BY <1>17 DEF ScheduleAt
  <2>2. l[1].delta = node.delta /\ node.delta = time + p
    BY <1>3, <1>5, <1>10, <1>14, <1>16, <1>17
  <2> HIDE DEF l, node, s
  <2>3. s \in Timers /\ s.list = l /\ s.dur = time + p /\ s.cnt = time
    BY <1>3, <1>13, <2>1, <2>2 DEF Timers
  <2>4. PendingCycles(s) = p
    BY <1>3, <2>3 DEF PendingCycles
  <2>5. Ahead(c) => Ahead(s)
    BY <1>3, <1>13, <1>15, <1>16, <2>2, <2>3, <2>4 DEF Ahead
  <2>6. Anchored(s)
    BY <2>2, <2>3 DEF Anchored
  <2> QED  BY <1>1, <1>2, <2>3, <2>4, <2>5, <2>6
<1>18. CASE k # 1
  <2>1. s = [c EXCEPT !.list = l]
    BY <1>18 DEF ScheduleAt
  <2>2. 1 < k /\ m # 0
    BY <1>3, <1>9, <1>18
  <2>3. l[1].delta = c.list[1].delta /\ c.list # <<>>
    <3>1. c.list # <<>>
      BY <2>2, EmptySeq DEF m
    <3> HIDE DEF l
    <3> QED  BY <1>14, <1>16, <2>2, <3>1
  <2> HIDE DEF l, node, s
  <2>4. s \in Timers /\ s.list = l /\ s.dur = c.dur /\ s.cnt = c.cnt
    BY <1>1, <1>3, <1>13, <2>1 DEF Timers
  <2>5. PendingCycles(s) = p
    BY <2>4 DEF PendingCycles, p
  <2>6. Ahead(c) => Ahead(s)
    BY <1>4, <1>13, <1>15, <1>16, <2>2, <2>3, <2>4, <2>5 DEF Ahead
  <2>7. Anchored(c) => Anchored(s)
    BY <2>3, <2>4 DEF Anchored
  <2> QED  BY <1>1, <1>2, <2>4, <2>5, <2>6, <2>7
<1> QED  BY <1>17, <1>18

(* The inductive invariant with an emulated BIOS.                          *)
HLEInv ==
  /\ Timer \in Timers /\ Anchored(Timer) /\ PendingCycles(Timer) >= 0
  /\ oldtime \in Int /\ outerOldtime \in Int
  /\ oldtime <= 0 /\ outerOldtime <= 0
  /\ phase = "drain" => evtCycleCountdown <= 0
  /\ phase = "handler" /\ exeEvt # Exception => PendingCycles(Timer) = 0

(* A step that keeps the order of a list in order, or could not.           *)
OrderStep ==
  InOrder /\ ~InOrder' => phase = "cpu" /\ HeadIsOverdue

LEMMA TimerParts ==
  /\ Timer.list = List /\ Timer.dur = evtCycleDuration
  /\ Timer.cnt = evtCycleCountdown
  /\ PendingCycles(Timer) = evtCycleDuration - evtCycleCountdown
BY DEF Timer, PendingCycles

LEMMA TimerSet ==
  ASSUME NEW t \in Timers, SetTimer(t)
  PROVE  Timer' = t
<1>1. t = [list |-> t.list, dur |-> t.dur, cnt |-> t.cnt]
  BY DEF Timers
<1> QED  BY <1>1 DEF SetTimer, Timer

LEMMA HLEInvParts ==
  ASSUME HLEInv
  PROVE  /\ List \in Seq(Entry) /\ Len(List) \in Nat
         /\ evtCycleDuration \in Int /\ evtCycleCountdown \in Int
         /\ \A i \in 1..Len(List) : List[i].delta \in Int
         /\ List # <<>> => 1 \in 1..Len(List)
         /\ AddCycles(Timer, 1) \in Timers
         /\ AddCycles(Timer, 1).list = List
         /\ AddCycles(Timer, 1).dur = evtCycleDuration
         /\ AddCycles(Timer, 1).cnt = evtCycleCountdown - 1
         /\ PendingCycles(AddCycles(Timer, 1)) = PendingCycles(Timer) + 1
<1>1. /\ List \in Seq(Entry) /\ evtCycleDuration \in Int
      /\ evtCycleCountdown \in Int
  BY TimerParts DEF HLEInv, Timers
<1>2. /\ Len(List) \in Nat /\ \A i \in 1..Len(List) : List[i].delta \in Int
      /\ List # <<>> => 1 \in 1..Len(List)
  BY <1>1, EntryParts, EmptySeq
<1>3. /\ AddCycles(Timer, 1) \in Timers
      /\ AddCycles(Timer, 1).list = List
      /\ AddCycles(Timer, 1).dur = evtCycleDuration
      /\ AddCycles(Timer, 1).cnt = evtCycleCountdown - 1
  BY <1>1, TimerParts DEF AddCycles, HLEInv, Timers
<1>4. PendingCycles(AddCycles(Timer, 1)) = PendingCycles(Timer) + 1
  BY <1>1, <1>3, TimerParts DEF PendingCycles
<1> QED  BY <1>1, <1>2, <1>3, <1>4

LEMMA InitHLE == HLEInit => HLEInv
<1> SUFFICES ASSUME HLEInit PROVE HLEInv
  OBVIOUS
<1> DEFINE t0 == [list |-> <<>>, dur |-> 32, cnt |-> 32]
           t  == Schedule(t0, SPU, 0)
<1>1. /\ List = t.list /\ evtCycleDuration = t.dur /\ evtCycleCountdown = t.cnt
      /\ phase = "cpu" /\ oldtime = 0 /\ outerOldtime = 0
  BY DEF HLEInit, Init
<1>2. t0 \in Timers /\ PendingCycles(t0) = 0 /\ Anchored(t0)
  BY EmptySeq DEF Timers, Anchored, PendingCycles
<1>3. SPU \in Events /\ 0 \in Nat
  BY EventsAssumption
<1> HIDE DEF t0
<1>4. t \in Timers /\ Anchored(t) /\ PendingCycles(t) = 0
  BY <1>2, <1>3, ScheduleAhead
<1> HIDE DEF t
<1>5. Timer = t
  <2>1. t = [list |-> t.list, dur |-> t.dur, cnt |-> t.cnt]
    BY <1>4 DEF Timers
  <2> QED  BY <1>1, <2>1 DEF Timer
<1> QED  BY <1>1, <1>4, <1>5 DEF HLEInv

(* A step that installs the timer t.                                       *)
LEMMA HLETimerStep ==
  ASSUME HLEInv, NEW t \in Timers, SetTimer(t), phase # "drain",
         Anchored(t), PendingCycles(t) >= 0,
         UNCHANGED <<phase, exeEvt, oldtime, outerOldtime>>,
         phase = "handler" /\ exeEvt # Exception => PendingCycles(t) = 0
  PROVE  HLEInv' /\ (Ahead(t) => InOrder')
<1>1. Timer' = t
  BY TimerSet
<1>2. Ahead(t) => InOrder'
  BY DEF Ahead, InOrder, SetTimer
<1>3. Anchored(Timer)' /\ (Timer \in Timers)' /\ (PendingCycles(Timer) >= 0)'
      /\ PendingCycles(Timer)' = PendingCycles(t)
  BY <1>1 DEF Anchored, PendingCycles
<1> QED  BY <1>2, <1>3 DEF HLEInv

LEMMA HLEReload ==
  ASSUME HLEInv, NEW late \in Int, late <= 0, Reload(List, late),
         UNCHANGED <<List, outerOldtime>>, oldtime' \in Int, oldtime' <= 0
  PROVE  HLEInv' /\ (InOrder => InOrder')
<1>1. /\ List \in Seq(Entry) /\ outerOldtime \in Int /\ outerOldtime <= 0
      /\ \A i \in 1..Len(List) : List[i].delta \in Int
      /\ List # <<>> => 1 \in 1..Len(List)
  BY HLEInvParts DEF HLEInv
<1>2. HeadDelta(List) \in Int /\ (List = <<>> => HeadDelta(List) >= 0)
  BY <1>1, RatesAssumption DEF HeadDelta
<1>3. /\ evtCycleDuration' = HeadDelta(List)
      /\ evtCycleCountdown' = late + HeadDelta(List)
      /\ phase' = IF evtCycleCountdown' > 0 THEN "cpu" ELSE "drain"
      /\ List' = List /\ outerOldtime' = outerOldtime
  BY DEF Reload
<1>4. phase' # "handler" /\ (phase' = "drain" => evtCycleCountdown' <= 0)
  BY <1>2, <1>3
<1>5. /\ Timer'.list = List /\ Timer'.dur = HeadDelta(List)
      /\ Timer'.cnt = late + HeadDelta(List) /\ Timer' \in Timers
  BY <1>1, <1>2, <1>3 DEF Timer, Timers
<1>6. PendingCycles(Timer)' >= 0
  BY <1>2, <1>5 DEF PendingCycles
<1>7. Anchored(Timer)'
  BY <1>5 DEF Anchored, HeadDelta
<1>8. InOrder => InOrder'
  BY <1>2, <1>3 DEF InOrder
<1> QED  BY <1>1, <1>3, <1>4, <1>5, <1>6, <1>7, <1>8 DEF HLEInv

(* What the CPU or a device's handler does to the list.                    *)
LEMMA GuestStores ==
  ASSUME HLEInv, phase = "cpu", UNCHANGED outerOldtime,
         \/ \E n \in Events : \E time \in Times[n] : GuestSchedule(n, time)
         \/ \E n \in Events : GuestCancel(n)
  PROVE  HLEInv' /\ OrderStep
<1> DEFINE t == AddCycles(Timer, 1)
<1>1. /\ t \in Timers /\ PendingCycles(t) >= 0 /\ Anchored(t)
      /\ t.list = List /\ t.dur = evtCycleDuration
      /\ PendingCycles(t) = PendingCycles(Timer) + 1
      /\ PendingCycles(Timer) \in Int
      /\ \A i \in 1..Len(List) : List[i].delta \in Int
      /\ List # <<>> => 1 \in 1..Len(List)
  <2>1. PendingCycles(Timer) \in Int /\ PendingCycles(Timer) >= 0
    BY HLEInvParts, TimerParts DEF HLEInv
  <2>2. Anchored(t)
    BY HLEInvParts, TimerParts DEF HLEInv, Anchored
  <2> HIDE DEF t
  <2> QED  BY <2>1, <2>2, HLEInvParts DEF t
<1> HIDE DEF t
<1>2. InOrder /\ ~HeadIsOverdue => Ahead(t)
  BY <1>1 DEF InOrder, HeadIsOverdue, Ahead
<1>3. ASSUME NEW n \in Events, NEW time \in Times[n], GuestSchedule(n, time)
      PROVE  HLEInv' /\ OrderStep
  <2>1. /\ SetTimer(Schedule(t, n, time)) /\ time \in Nat
        /\ UNCHANGED <<phase, exeEvt, oldtime>>
    BY <1>3, EventsAssumption DEF GuestSchedule, ScheduleEvt, t
  <2>2. /\ Schedule(t, n, time) \in Timers /\ Anchored(Schedule(t, n, time))
        /\ PendingCycles(Schedule(t, n, time)) >= 0
        /\ Ahead(t) => Ahead(Schedule(t, n, time))
    BY <1>1, <2>1, ScheduleAhead
  <2>3. HLEInv' /\ (Ahead(Schedule(t, n, time)) => InOrder')
    BY <2>1, <2>2, HLETimerStep
  <2> QED  BY <1>2, <2>2, <2>3 DEF OrderStep
<1>4. ASSUME NEW n \in Events, GuestCancel(n)
      PROVE  HLEInv' /\ OrderStep
  <2>1. SetTimer(Cancel(t, n)) /\ UNCHANGED <<phase, exeEvt, oldtime>>
    BY <1>4 DEF GuestCancel, CancelEvt, t
  <2>2. /\ Cancel(t, n) \in Timers /\ Anchored(Cancel(t, n))
        /\ PendingCycles(Cancel(t, n)) >= 0
        /\ Ahead(t) => Ahead(Cancel(t, n))
    BY <1>1, CancelAhead
  <2>3. HLEInv' /\ (Ahead(Cancel(t, n)) => InOrder')
    BY <2>1, <2>2, HLETimerStep
  <2> QED  BY <1>2, <2>2, <2>3 DEF OrderStep
<1> QED  BY <1>3, <1>4

LEMMA HandlerStores ==
  ASSUME HLEInv, phase = "handler", exeEvt # Exception, UNCHANGED outerOldtime,
         \/ HandleSPU
         \/ \E n \in Events : \E time \in Times[n] : HandlerSchedule(n, time)
         \/ \E n \in Events : HandlerCancel(n)
  PROVE  HLEInv' /\ OrderStep
<1>1. /\ Timer \in Timers /\ Anchored(Timer) /\ PendingCycles(Timer) = 0
      /\ Timer.list = List /\ Timer.dur = evtCycleDuration
      /\ List # <<>> => 1 \in 1..Len(List)
  BY TimerParts, HLEInvParts DEF HLEInv
<1>2. InOrder => Ahead(Timer)
  BY <1>1 DEF InOrder, Ahead
<1>3. ASSUME NEW n \in Events, NEW time \in Nat,
             SetTimer(Schedule(Timer, n, time)),
             UNCHANGED <<phase, exeEvt, oldtime>>
      PROVE  HLEInv' /\ OrderStep
  <2>1. /\ Schedule(Timer, n, time) \in Timers
        /\ Anchored(Schedule(Timer, n, time))
        /\ PendingCycles(Schedule(Timer, n, time)) = 0
        /\ Ahead(Timer) => Ahead(Schedule(Timer, n, time))
    BY <1>1, ScheduleAhead
  <2>2. HLEInv' /\ (Ahead(Schedule(Timer, n, time)) => InOrder')
    BY <1>3, <2>1, HLETimerStep
  <2> QED  BY <1>2, <2>1, <2>2 DEF OrderStep
<1>4. ASSUME NEW n \in Events, HandlerCancel(n)
      PROVE  HLEInv' /\ OrderStep
  <2>1. SetTimer(Cancel(Timer, n)) /\ UNCHANGED <<phase, exeEvt, oldtime>>
    BY <1>4 DEF HandlerCancel, CancelEvt
  <2>2. /\ Cancel(Timer, n) \in Timers /\ Anchored(Cancel(Timer, n))
        /\ PendingCycles(Cancel(Timer, n)) = 0
        /\ Ahead(Timer) => Ahead(Cancel(Timer, n))
    BY <1>1, CancelAhead
  <2>3. HLEInv' /\ (Ahead(Cancel(Timer, n)) => InOrder')
    BY <2>1, <2>2, HLETimerStep
  <2> QED  BY <1>2, <2>2, <2>3 DEF OrderStep
<1>5. CASE HandleSPU
  <2>1. /\ SPU \in Events /\ SpuRate \in Nat
        /\ SetTimer(Schedule(Timer, SPU, SpuRate))
        /\ UNCHANGED <<phase, exeEvt, oldtime>>
    BY <1>5, EventsAssumption, RatesAssumption DEF HandleSPU, ScheduleEvt
  <2> QED  BY <1>3, <2>1
<1>6. ASSUME NEW n \in Events, NEW time \in Times[n], HandlerSchedule(n, time)
      PROVE  HLEInv' /\ OrderStep
  <2>1. /\ time \in Nat /\ SetTimer(Schedule(Timer, n, time))
        /\ UNCHANGED <<phase, exeEvt, oldtime>>
    BY <1>6, EventsAssumption DEF HandlerSchedule, ScheduleEvt
  <2> QED  BY <1>3, <2>1
<1> QED  BY <1>4, <1>5, <1>6

LEMMA HLEExecuteHead ==
  ASSUME HLEInv, ExecuteHead, UNCHANGED outerOldtime
  PROVE  HLEInv' /\ OrderStep
<1>1. /\ phase = "drain" /\ List # <<>> /\ List' = Tail(List)
      /\ oldtime' = evtCycleCountdown /\ evtCycleCountdown' = 0
      /\ evtCycleDuration' = 0 /\ phase' = "handler"
  BY DEF ExecuteHead
<1>2. /\ List \in Seq(Entry) /\ Len(List) \in Nat /\ evtCycleCountdown \in Int
      /\ evtCycleCountdown <= 0
  BY <1>1, HLEInvParts DEF HLEInv
<1>3. /\ List' \in Seq(Entry) /\ Len(List') = Len(List) - 1
      /\ \A i \in 1..Len(List)-1 : List'[i] = List[i+1]
  BY <1>1, <1>2, HeadTailProperties
<1>4. InOrder => InOrder'
  <2>1. HAVE InOrder
  <2>2. \A i \in 1..Len(List') : List'[i].delta >= 0
    <3>1. TAKE i \in 1..Len(List')
    <3>2. i \in 1..Len(List)-1 /\ i + 1 \in 1..Len(List)
      BY <1>2, <1>3
    <3> QED  BY <1>3, <2>1, <3>2 DEF InOrder
  <2> QED  BY <1>1, <2>2 DEF InOrder
<1>5. /\ Timer'.list = List' /\ Timer'.dur = 0 /\ Timer'.cnt = 0
      /\ Timer' \in Timers
  BY <1>1, <1>3 DEF Timer, Timers
<1>6. PendingCycles(Timer)' = 0 /\ Anchored(Timer)'
  BY <1>5 DEF PendingCycles, Anchored
<1> QED  BY <1>1, <1>2, <1>4, <1>5, <1>6 DEF HLEInv, OrderStep

LEMMA NextHLE ==
  ASSUME HLEInv, [HLENext]_hleVars PROVE HLEInv' /\ OrderStep
<1>1. /\ oldtime \in Int /\ outerOldtime \in Int
      /\ oldtime <= 0 /\ outerOldtime <= 0
      /\ evtCycleDuration \in Int /\ evtCycleCountdown \in Int
  BY HLEInvParts DEF HLEInv
<1>2. ASSUME Next, UNCHANGED <<inSoftCall, outerOldtime>>
      PROVE  HLEInv' /\ OrderStep
  <2>1. CASE Instruction
    <3>1. /\ phase = "cpu" /\ UNCHANGED <<phase, exeEvt, oldtime>>
          /\ SetTimer(AddCycles(Timer, 1))
      BY <2>1 DEF Instruction, Runs
    <3>2. /\ AddCycles(Timer, 1) \in Timers /\ Anchored(AddCycles(Timer, 1))
          /\ PendingCycles(AddCycles(Timer, 1)) >= 0
      <4>1. PendingCycles(Timer) \in Int /\ PendingCycles(Timer) >= 0
        BY <1>1, TimerParts DEF HLEInv
      <4> QED  BY <4>1, HLEInvParts, TimerParts DEF HLEInv, Anchored
    <3>3. List' = List /\ evtCycleDuration' = evtCycleDuration
      BY <3>1, HLEInvParts DEF SetTimer
    <3>4. HLEInv'
      BY <1>2, <3>1, <3>2, HLETimerStep
    <3> QED  BY <3>3, <3>4 DEF OrderStep, InOrder
  <2>2. CASE BranchTest
    <3>1. /\ phase = "cpu" /\ phase' = "drain" /\ evtCycleCountdown <= 0
          /\ UNCHANGED <<List, evtCycleDuration, evtCycleCountdown, exeEvt, oldtime>>
      BY <2>2 DEF BranchTest
    <3>2. Timer' = Timer
      BY <3>1 DEF Timer
    <3>3. /\ (Timer \in Timers)' /\ Anchored(Timer)'
          /\ (PendingCycles(Timer) >= 0)'
      BY <3>2 DEF HLEInv, Anchored, PendingCycles
    <3> QED  BY <1>1, <1>2, <3>1, <3>3 DEF HLEInv, OrderStep, InOrder
  <2>3. CASE ExecuteHead
    BY <1>2, <2>3, HLEExecuteHead
  <2>4. CASE ExecuteIdle
    <3>1. /\ Reload(List, evtCycleCountdown) /\ phase = "drain"
          /\ UNCHANGED <<List, oldtime>>
      BY <2>4 DEF ExecuteIdle
    <3>2. evtCycleCountdown <= 0
      BY <3>1 DEF HLEInv
    <3>3. HLEInv' /\ (InOrder => InOrder')
      BY <1>1, <1>2, <3>1, <3>2, HLEReload
    <3> QED  BY <3>3 DEF OrderStep
  <2>5. CASE Return
    <3>1. Reload(List, oldtime) /\ UNCHANGED List /\ oldtime' = 0
      BY <2>5 DEF Return
    <3>2. HLEInv' /\ (InOrder => InOrder')
      BY <1>1, <1>2, <3>1, HLEReload
    <3> QED  BY <3>2 DEF OrderStep
  <2>6. CASE \/ \E n \in Events : \E time \in Times[n] : GuestSchedule(n, time)
             \/ \E n \in Events : GuestCancel(n)
    <3>1. phase = "cpu"
      BY <2>6 DEF GuestSchedule, GuestCancel, MayAccess, Runs
    <3> QED  BY <1>2, <2>6, <3>1, GuestStores
  <2>7. CASE \/ HandleSPU
             \/ \E n \in Events : \E time \in Times[n] : HandlerSchedule(n, time)
             \/ \E n \in Events : HandlerCancel(n)
    <3>1. phase = "handler" /\ exeEvt # Exception
      BY <2>7, EventsAssumption
         DEF HandleSPU, HandlerSchedule, HandlerCancel, InDeviceHandler
    <3> QED  BY <1>2, <2>7, <3>1, HandlerStores
  <2> QED  BY <1>2, <2>1, <2>2, <2>3, <2>4, <2>5, <2>6, <2>7 DEF Next, Step
<1>3. CASE SoftCall
  <2>1. /\ phase = "handler" /\ exeEvt = Exception /\ outerOldtime' = oldtime
        /\ phase' = "cpu" /\ exeEvt' = Idle /\ oldtime' = 0
        /\ UNCHANGED <<List, evtCycleDuration, evtCycleCountdown>>
    BY <1>3 DEF SoftCall, timers
  <2>2. Timer' = Timer
    BY <2>1 DEF Timer
  <2>3. /\ (Timer \in Timers)' /\ Anchored(Timer)'
        /\ (PendingCycles(Timer) >= 0)'
    BY <2>2 DEF HLEInv, Anchored, PendingCycles
  <2> QED  BY <1>1, <2>1, <2>3 DEF HLEInv, OrderStep, InOrder
<1>4. CASE SoftReturn
  <2>1. /\ phase = "cpu" /\ outerOldtime' = 0
        /\ phase' = "handler" /\ exeEvt' = Exception /\ oldtime' = outerOldtime
        /\ UNCHANGED <<List, evtCycleDuration, evtCycleCountdown>>
    BY <1>4 DEF SoftReturn, timers
  <2>2. Timer' = Timer
    BY <2>1 DEF Timer
  <2>3. /\ (Timer \in Timers)' /\ Anchored(Timer)'
        /\ (PendingCycles(Timer) >= 0)'
    BY <2>2 DEF HLEInv, Anchored, PendingCycles
  <2> QED  BY <1>1, <2>1, <2>3 DEF HLEInv, OrderStep, InOrder
<1>5. CASE UNCHANGED hleVars
  <2>1. UNCHANGED <<List, evtCycleDuration, evtCycleCountdown, phase, exeEvt,
                    oldtime, outerOldtime>> /\ Timer' = Timer
    BY <1>5 DEF hleVars, vars, Timer
  <2>2. /\ (Timer \in Timers)' /\ Anchored(Timer)'
        /\ (PendingCycles(Timer) >= 0)' /\ PendingCycles(Timer)' = PendingCycles(Timer)
    BY <2>1 DEF HLEInv, Anchored, PendingCycles
  <2> QED  BY <2>1, <2>2 DEF HLEInv, OrderStep, InOrder
<1> QED  BY <1>2, <1>3, <1>4, <1>5 DEF HLENext

(* With an emulated BIOS or not, late stores included: psxRegs.cycle goes  *)
(* back only while the list is out of order, and only a store made past    *)
(* the head's deadline puts it out of order.                               *)
THEOREM CycleBackOnlyAfterLateStore == HLESpec => BackOnlyAfterLateStore
<1>1. HLEInv /\ [HLENext]_hleVars => HLEInv'
  BY NextHLE
<1>2. HLEInv => (phase = "drain" /\ InOrder => evtCycleDuration >= 0)
  <2>1. ASSUME HLEInv, InOrder PROVE evtCycleDuration >= 0
    <3>1. List # <<>> => 1 \in 1..Len(List)
      BY <2>1, HLEInvParts
    <3>2. List # <<>> /\ ~(evtCycleDuration >= 0)
            => evtCycleDuration = List[1].delta
      BY <2>1, TimerParts DEF HLEInv, Anchored
    <3> QED  BY <2>1, <3>1, <3>2 DEF InOrder
  <2> QED  BY <2>1
<1>3. HLEInv /\ [HLENext]_hleVars =>
        [/\ phase = "drain" /\ InOrder => evtCycleDuration >= 0
         /\ InOrder /\ ~InOrder' => phase = "cpu" /\ HeadIsOverdue]_vars
  BY <1>2, NextHLE DEF OrderStep
<1> QED  BY InitHLE, <1>1, <1>3, PTL DEF HLESpec, BackOnlyAfterLateStore

=============================================================================
