-------------------------- MODULE TimerQueueProofs --------------------------
(***************************************************************************)
(* Proofs about the timer queues: the types of their state, that the       *)
(* memory of a node is not given away while some thread may follow its     *)
(* links, and that the timer's share of an ALT's count is taken off once;  *)
(* that the queues stay in order across the wrap of the clock, and that    *)
(* no process is woken early.                                              *)
(*                                                                         *)
(* The inductive invariants are TimerQueue!TInv and, for the order of the  *)
(* queues, OInv.  Their parts are proved one at a time, each from the      *)
(* whole before the step; the lemmas before them say what the operations   *)
(* on a queue, on a node and on a time do.                                 *)
(***************************************************************************)
EXTENDS TimerQueue, FiniteSetTheorems, SequenceTheorems, TLAPS

(* A queue with a node put in, place by place.                              *)
LEMMA InsertedAt ==
  ASSUME NEW s \in Seq(Nodes), NEW k \in 0..Len(s), NEW n \in Nodes
  PROVE  /\ InsertAt(s, k + 1, n) \in Seq(Nodes) /\ Len(InsertAt(s, k + 1, n)) = Len(s) + 1
         /\ \A i \in 1..k : InsertAt(s, k + 1, n)[i] = s[i]
         /\ InsertAt(s, k + 1, n)[k + 1] = n
         /\ \A i \in (k + 2)..(Len(s) + 1) : InsertAt(s, k + 1, n)[i] = s[i - 1]
<1> DEFINE r == InsertAt(s, k + 1, n)
           a == SubSeq(s, 1, k)
           b == SubSeq(s, k + 1, Len(s))
<1>1. k \in Int /\ Len(s) \in Nat /\ k + 1 \in Int /\ \A i \in 1..Len(s) : s[i] \in Nodes
  OBVIOUS
<1>2. a \in Seq(Nodes) /\ Len(a) = k /\ \A i \in 1..k : a[i] = s[i]
  BY <1>1
<1>3. b \in Seq(Nodes) /\ Len(b) = Len(s) - k /\ \A i \in 1..(Len(s) - k) : b[i] = s[k + i]
  BY <1>1
<1>4. r = (a \o <<n>>) \o b
  <2>1. (k + 1) - 1 = k
    BY <1>1
  <2>2. r = (SubSeq(s, 1, (k + 1) - 1) \o <<n>>) \o b
    BY DEF InsertAt
  <2> QED
    BY ONLY <2>1, <2>2 DEF a
<1> HIDE DEF a, b, r
<1>5. /\ r \in Seq(Nodes) /\ Len(r) = Len(s) + 1
      /\ \A i \in 1..k : r[i] = s[i]
      /\ r[k + 1] = n
      /\ \A i \in (k + 2)..(Len(s) + 1) : r[i] = s[i - 1]
  <2>1. a \o <<n>> \in Seq(Nodes) /\ Len(a \o <<n>>) = k + 1
        /\ (\A i \in 1..k : (a \o <<n>>)[i] = s[i]) /\ (a \o <<n>>)[k + 1] = n
    BY <1>1, <1>2
  <2>2. PICK c : c = a \o <<n>>
    OBVIOUS
  <2>3. /\ c \in Seq(Nodes) /\ Len(c) = k + 1 /\ r = c \o b
        /\ (\A i \in 1..k : c[i] = s[i]) /\ c[k + 1] = n
    BY ONLY <1>4, <2>1, <2>2
  <2>4. /\ r \in Seq(Nodes) /\ Len(r) = Len(c) + Len(b)
        /\ \A i \in 1..(Len(c) + Len(b)) : r[i] = IF i <= Len(c) THEN c[i] ELSE b[i - Len(c)]
    <3>1. c \in Seq(Nodes) /\ b \in Seq(Nodes) /\ r = c \o b
      BY ONLY <1>3, <2>3
    <3> QED
      BY ONLY <3>1, ConcatProperties
  <2>5. Len(r) = Len(s) + 1 /\ Len(c) = k + 1 /\ Len(b) = Len(s) - k
    <3>1. Len(r) = Len(c) + Len(b) /\ Len(c) = k + 1 /\ Len(b) = Len(s) - k
      BY ONLY <1>3, <2>3, <2>4
    <3> QED
      BY ONLY <1>1, <3>1
  <2>6. \A i \in 1..(k + 1) : r[i] = c[i]
    BY ONLY <1>1, <2>4, <2>5
  <2>7. ASSUME NEW i \in (k + 2)..(Len(s) + 1) PROVE r[i] = s[i - 1]
    <3>1. i \in 1..(Len(c) + Len(b)) /\ ~(i <= Len(c)) /\ i - (k + 1) \in 1..(Len(s) - k)
          /\ k + (i - (k + 1)) = i - 1
      BY ONLY <1>1, <2>7, <2>5
    <3>2. r[i] = b[i - (k + 1)]
      BY ONLY <2>4, <2>5, <3>1
    <3> QED
      BY ONLY <1>3, <3>1, <3>2
  <2> QED
    <3>1. \A i \in 1..k : r[i] = c[i] /\ i \in 1..k
      BY ONLY <1>1, <2>6
    <3>2. r[k + 1] = n
      BY ONLY <1>1, <2>3, <2>6
    <3> QED
      BY ONLY <2>3, <2>4, <2>7, <2>5, <3>1, <3>2
<1> QED
  BY <1>5 DEF r

(* A queue with a node put in.                                              *)
LEMMA Inserted ==
  ASSUME NEW s \in Seq(Nodes), IsInjective(s), NEW k \in 0..Len(s),
         NEW n \in Nodes, n \notin ToSet(s)
  PROVE  /\ InsertAt(s, k + 1, n) \in Seq(Nodes)
         /\ IsInjective(InsertAt(s, k + 1, n))
         /\ ToSet(InsertAt(s, k + 1, n)) = ToSet(s) \cup {n}
<1> DEFINE r == InsertAt(s, k + 1, n)
<1>1. k \in Int /\ Len(s) \in Nat /\ \A i \in 1..Len(s) : s[i] \in Nodes
  OBVIOUS
<1>5. /\ r \in Seq(Nodes) /\ Len(r) = Len(s) + 1
      /\ \A i \in 1..k : r[i] = s[i]
      /\ r[k + 1] = n
      /\ \A i \in (k + 2)..(Len(s) + 1) : r[i] = s[i - 1]
  BY InsertedAt
<1> HIDE DEF r
<1>6. DOMAIN r = 1..(Len(s) + 1) /\ DOMAIN s = 1..Len(s)
  BY <1>5
<1>7. \A i \in DOMAIN s : s[i] # n
  BY DEF ToSet
<1>8. IsInjective(r)
  <2>1. ASSUME NEW i \in DOMAIN r, NEW j \in DOMAIN r, r[i] = r[j] PROVE i = j
    <3>1. \A x \in DOMAIN r : x # k + 1 => /\ (IF x <= k THEN x ELSE x - 1) \in DOMAIN s
                                           /\ r[x] = s[IF x <= k THEN x ELSE x - 1]
      BY ONLY <1>1, <1>5, <1>6
    <3>2. CASE i = k + 1 \/ j = k + 1
      BY ONLY <1>5, <1>7, <2>1, <3>1, <3>2
    <3>3. CASE i # k + 1 /\ j # k + 1
      <4>1. (IF i <= k THEN i ELSE i - 1) = (IF j <= k THEN j ELSE j - 1)
        BY ONLY <2>1, <3>1, <3>3, IsInjective(s) DEF IsInjective
      <4> QED
        BY ONLY <1>1, <1>6, <2>1, <3>3, <4>1
    <3> QED
      BY <3>2, <3>3
  <2> QED
    BY ONLY <2>1 DEF IsInjective
<1>9. ToSet(r) = ToSet(s) \cup {n}
  <2>1. ASSUME NEW i \in DOMAIN r PROVE r[i] \in ToSet(s) \cup {n}
    <3>1. CASE i = k + 1
      BY ONLY <1>5, <3>1
    <3>2. CASE i # k + 1
      <4>1. (IF i <= k THEN i ELSE i - 1) \in DOMAIN s /\ r[i] = s[IF i <= k THEN i ELSE i - 1]
        BY ONLY <1>1, <1>5, <1>6, <3>2, i \in DOMAIN r
      <4> QED
        BY ONLY <4>1 DEF ToSet
    <3> QED
      BY <3>1, <3>2
  <2>2. n \in ToSet(r)
    <3>1. k + 1 \in DOMAIN r /\ r[k + 1] = n
      BY <1>1, <1>5, <1>6
    <3> QED
      BY ONLY <3>1 DEF ToSet
  <2>3. ASSUME NEW i \in DOMAIN s PROVE s[i] \in ToSet(r)
    <3>1. CASE i <= k
      BY <1>1, <1>5, <1>6, <3>1 DEF ToSet
    <3>2. CASE i > k
      <4>1. i + 1 \in DOMAIN r /\ r[i + 1] = s[i]
        BY <1>1, <1>5, <1>6, <3>2
      <4> QED
        BY <4>1 DEF ToSet
    <3> QED
      BY <1>1, <1>6, <3>1, <3>2
  <2> QED
    BY <2>1, <2>2, <2>3 DEF ToSet
<1> QED
  BY <1>5, <1>8, <1>9 DEF r

(* A queue without one of its nodes, place by place.                        *)
LEMMA RemovedAt ==
  ASSUME NEW s \in Seq(Nodes), NEW k \in DOMAIN s
  PROVE  /\ RemoveAt(s, k) \in Seq(Nodes) /\ Len(RemoveAt(s, k)) = Len(s) - 1
         /\ \A i \in 1..(k - 1) : RemoveAt(s, k)[i] = s[i]
         /\ \A i \in k..(Len(s) - 1) : RemoveAt(s, k)[i] = s[i + 1]
<1> DEFINE r == RemoveAt(s, k)
           a == SubSeq(s, 1, k - 1)
           b == SubSeq(s, k + 1, Len(s))
<1>1. k \in 1..Len(s) /\ Len(s) \in Nat /\ \A i \in 1..Len(s) : s[i] \in Nodes
  OBVIOUS
<1>2. a \in Seq(Nodes) /\ Len(a) = k - 1 /\ \A i \in 1..(k - 1) : a[i] = s[i]
  BY <1>1
<1>3. b \in Seq(Nodes) /\ Len(b) = Len(s) - k /\ \A i \in 1..(Len(s) - k) : b[i] = s[k + i]
  BY <1>1
<1>4. r = a \o b
  BY DEF RemoveAt
<1> HIDE DEF a, b, r
<1>5. /\ r \in Seq(Nodes) /\ Len(r) = Len(s) - 1
      /\ \A i \in 1..(k - 1) : r[i] = s[i]
      /\ \A i \in k..(Len(s) - 1) : r[i] = s[i + 1]
  <2>1. r \in Seq(Nodes) /\ Len(r) = Len(a) + Len(b)
    BY ONLY <1>2, <1>3, <1>4, ConcatProperties
  <2>2. /\ \A i \in 1..Len(a) : r[i] = a[i]
        /\ \A i \in (Len(a) + 1)..(Len(a) + Len(b)) : r[i] = b[i - Len(a)]
    <3>1. Len(a) \in Nat /\ Len(b) \in Nat
      BY <1>2, <1>3
    <3>2. \A i \in 1..(Len(a) + Len(b)) : r[i] = IF i <= Len(a) THEN a[i] ELSE b[i - Len(a)]
      BY ONLY <1>2, <1>3, <1>4, ConcatProperties
    <3> QED
      BY ONLY <3>1, <3>2
  <2>3. Len(r) = Len(s) - 1 /\ \A i \in 1..(k - 1) : r[i] = s[i]
    <3>1. Len(r) = (k - 1) + (Len(s) - k) /\ Len(a) = k - 1
      BY ONLY <1>2, <1>3, <2>1
    <3>2. \A i \in 1..(k - 1) : r[i] = s[i]
      BY ONLY <1>2, <2>2
    <3> QED
      BY ONLY <1>1, <3>1, <3>2
  <2>4. ASSUME NEW i \in k..(Len(s) - 1) PROVE r[i] = s[i + 1]
    <3>1. i - (k - 1) \in 1..(Len(s) - k) /\ i \in k..(k - 1 + (Len(s) - k))
      BY ONLY <1>1, <2>4
    <3>2. i \in (Len(a) + 1)..(Len(a) + Len(b)) /\ Len(a) = k - 1
      BY ONLY <1>1, <1>2, <1>3, <3>1
    <3>3. r[i] = b[i - (k - 1)]
      BY ONLY <2>2, <3>2
    <3>4. b[i - (k - 1)] = s[k + (i - (k - 1))]
      BY ONLY <1>3, <3>1
    <3>5. k + (i - (k - 1)) = i + 1
      BY ONLY <1>1, <2>4
    <3> QED
      BY ONLY <3>3, <3>4, <3>5
  <2> QED
    BY <2>1, <2>3, <2>4
<1> QED
  BY <1>5 DEF r

(* A queue without one of its nodes.                                        *)
LEMMA Removed ==
  ASSUME NEW s \in Seq(Nodes), IsInjective(s), NEW k \in DOMAIN s
  PROVE  /\ RemoveAt(s, k) \in Seq(Nodes)
         /\ IsInjective(RemoveAt(s, k))
         /\ ToSet(RemoveAt(s, k)) = ToSet(s) \ {s[k]}
<1> DEFINE r == RemoveAt(s, k)
<1>1. k \in 1..Len(s) /\ Len(s) \in Nat /\ \A i \in 1..Len(s) : s[i] \in Nodes
  OBVIOUS
<1>5. /\ r \in Seq(Nodes) /\ Len(r) = Len(s) - 1
      /\ \A i \in 1..(k - 1) : r[i] = s[i]
      /\ \A i \in k..(Len(s) - 1) : r[i] = s[i + 1]
  BY RemovedAt
<1> HIDE DEF r
<1>6. DOMAIN r = 1..(Len(s) - 1) /\ DOMAIN s = 1..Len(s)
  BY <1>1, <1>5
<1>7. \A i, j \in DOMAIN s : s[i] = s[j] => i = j
  BY DEF IsInjective
<1>8. IsInjective(r)
  <2>1. ASSUME NEW i \in DOMAIN r, NEW j \in DOMAIN r, r[i] = r[j] PROVE i = j
    <3>1. \A x \in DOMAIN r : r[x] = s[IF x < k THEN x ELSE x + 1]
      BY ONLY <1>1, <1>5, <1>6
    <3>2. (IF i < k THEN i ELSE i + 1) \in DOMAIN s /\ (IF j < k THEN j ELSE j + 1) \in DOMAIN s
      BY ONLY <1>1, <1>6, <2>1
    <3>3. (IF i < k THEN i ELSE i + 1) = (IF j < k THEN j ELSE j + 1)
      BY ONLY <1>7, <2>1, <3>1, <3>2
    <3> QED
      BY ONLY <1>1, <1>6, <2>1, <3>3
  <2> QED
    BY ONLY <2>1 DEF IsInjective
<1>9. ToSet(r) = ToSet(s) \ {s[k]}
  <2>1. ASSUME NEW i \in DOMAIN r PROVE r[i] \in ToSet(s) \ {s[k]}
    <3>1. PICK x \in DOMAIN s : r[i] = s[x] /\ x # k
      <4>1. (IF i < k THEN i ELSE i + 1) \in DOMAIN s /\ r[i] = s[IF i < k THEN i ELSE i + 1]
        BY ONLY <1>1, <1>5, <1>6, <2>1
      <4>2. (IF i < k THEN i ELSE i + 1) # k
        BY ONLY <1>1, <1>6, <2>1
      <4> QED
        BY <4>1, <4>2
    <3> QED
      BY <1>7, <3>1 DEF ToSet
  <2>2. ASSUME NEW i \in DOMAIN s, i # k PROVE s[i] \in ToSet(r)
    <3>1. PICK x \in DOMAIN r : r[x] = s[i]
      <4>1. CASE i < k
        BY <1>1, <1>5, <1>6, <4>1
      <4>2. CASE i > k
        <5>1. i - 1 \in DOMAIN r /\ r[i - 1] = s[i]
          BY <1>1, <1>5, <1>6, <4>2
        <5> QED
          BY <5>1
      <4> QED
        BY <1>1, <1>6, <2>2, <4>1, <4>2
    <3> QED
      BY <3>1 DEF ToSet
  <2> QED
    BY <2>1, <2>2 DEF ToSet
<1> QED
  BY <1>5, <1>8, <1>9 DEF r

(* A queue without its first node.                                          *)
LEMMA TakenFromFront ==
  ASSUME NEW s \in Seq(Nodes), IsInjective(s), s # <<>>
  PROVE  /\ Tail(s) \in Seq(Nodes) /\ IsInjective(Tail(s))
         /\ Head(s) \in ToSet(s) /\ ToSet(Tail(s)) = ToSet(s) \ {Head(s)}
<1>1. Len(s) \in Nat \ {0} /\ DOMAIN s = 1..Len(s) /\ Head(s) = s[1]
  OBVIOUS
<1>2. Tail(s) \in Seq(Nodes) /\ Len(Tail(s)) = Len(s) - 1
      /\ \A i \in 1..(Len(s) - 1) : Tail(s)[i] = s[i + 1]
  OBVIOUS
<1>3. RemoveAt(s, 1) \in Seq(Nodes) /\ Len(RemoveAt(s, 1)) = Len(s) - 1
      /\ \A i \in 1..(Len(s) - 1) : RemoveAt(s, 1)[i] = s[i + 1]
  <2>1. SubSeq(s, 1, 1 - 1) = <<>>
    BY SubSeqEmpty
  <2>2. RemoveAt(s, 1) = <<>> \o SubSeq(s, 2, Len(s))
    BY <1>1, <2>1 DEF RemoveAt
  <2>3. SubSeq(s, 2, Len(s)) \in Seq(Nodes) /\ Len(SubSeq(s, 2, Len(s))) = Len(s) - 1
        /\ \A i \in 1..(Len(s) - 1) : SubSeq(s, 2, Len(s))[i] = s[i + 1]
    BY <1>1
  <2> QED
    BY ONLY <2>2, <2>3, ConcatEmptySeq
<1>4. Tail(s) = RemoveAt(s, 1)
  BY ONLY <1>1, <1>2, <1>3
<1>5. 1 \in DOMAIN s
  BY <1>1
<1>6. Head(s) \in ToSet(s)
  BY <1>1, <1>5 DEF ToSet
<1> QED
  BY ONLY <1>1, <1>4, <1>5, <1>6, Removed, s \in Seq(Nodes), IsInjective(s)

(* The least of some numbers.                                               *)
LEMMA Least ==
  ASSUME NEW n \in Nat, NEW S \in SUBSET (1..n), S # {}
  PROVE  \E x \in S : \A y \in S : x <= y
<1> DEFINE R == {ss \in Nat \X Nat : ss[1] < ss[2]}
<1>1. IsWellFoundedOn(R, Nat)
  BY NatLessThanWellFounded DEF OpToRel
<1>2. \A x, y \in Nat : <<y, x>> \in R <=> y < x
  OBVIOUS
<1> HIDE DEF R
<1>3. S \subseteq Nat
  OBVIOUS
<1>4. PICK x \in S : \A y \in S : ~(<<y, x>> \in R)
  BY ONLY <1>1, <1>3, WFMin, S # {}
<1>5. \A y \in S : ~(y < x)
  BY ONLY <1>2, <1>3, <1>4
<1>6. \A y \in S : x <= y
  BY ONLY <1>3, <1>5
<1> QED
  BY <1>6

(* Where insert_tqnode finds a place is in the queue, or at one of its ends. *)
LEMMA PlaceInQueue ==
  ASSUME NEW q \in Seq(Nodes), NEW time
  PROVE  Place(q, time) \in 0..Len(q)
<1>1. CASE q = <<>>
  BY <1>1 DEF Place
<1>2. CASE q # <<>>
  <2> DEFINE front(k) == After(node[q[k]].time, time)
             back(k)  == ~After(node[q[Len(q) + 1 - k]].time, time)
             S == {i \in DOMAIN q : front(i) \/ back(i)}
             k == Min(S)
  <2>1. Len(q) \in Nat /\ Len(q) > 0 /\ DOMAIN q = 1..Len(q)
    BY <1>2
  <2>2. front(Len(q)) \/ back(1)
    <3>1. Len(q) + 1 - 1 = Len(q)
      BY <2>1
    <3> QED
      BY <3>1
  <2> HIDE DEF front, back
  <2>3. S # {} /\ S \subseteq 1..Len(q)
    <3>1. Len(q) \in DOMAIN q /\ 1 \in DOMAIN q
      BY <2>1
    <3>2. Len(q) \in S \/ 1 \in S
      BY <2>2, <3>1
    <3> QED
      BY <2>1, <3>2
  <2> HIDE DEF S
  <2>4. \E x \in S : \A y \in S : x <= y
    BY ONLY <2>1, <2>3, Least
  <2>5. k \in S
    BY <2>4 DEF Min
  <2>6. k \in 1..Len(q)
    BY <2>3, <2>5
  <2>7. Place(q, time) = IF front(k) THEN k - 1 ELSE Len(q) + 1 - k
    BY <1>2 DEF Place, S, front, back
  <2> HIDE DEF k, front
  <2> QED
    BY <2>1, <2>6, <2>7
<1> QED
  BY <1>1, <1>2

(* Times that processes ask for are clock values.                           *)
LEMMA Delays ==
  /\ TimeRange \in Nat /\ MaxDelay \in Nat /\ MaxDelay + 1 < TimeRange
  /\ Clock \in Times /\ Clock + 1 \in Times
  /\ \A d \in 0..MaxDelay : Clock + d \in Times /\ Clock + d + 1 \in Times
  /\ \A x \in Times : Older(x) \in Times
<1>1. Cardinality(Nodes) \in Nat
  BY NodesAssumption, FS_CardinalityType
<1>2. TimeRange \in Nat /\ MaxDelay \in Nat /\ MaxLate \in Nat /\ MaxDelay + 1 < TimeRange
  <2>1. TimeRange \in Nat /\ MaxDelay \in Nat /\ MaxLate \in Nat
    BY TimeAssumption
  <2>2. MaxDelay + 1 < TimeRange \div 2
    BY <1>1, <2>1, TimeAssumption
  <2>3. TimeRange \div 2 <= TimeRange
    BY <2>1
  <2>4. TimeRange \div 2 \in Int
    BY <2>1
  <2> QED
    BY <2>1, <2>2, <2>3, <2>4
<1>3. \A x \in Times : Older(x) \in Times
  BY <1>2 DEF Times, Older
<1> QED
  BY <1>2, <1>3 DEF Times, Clock

(* A node that leaves a queue.                                              *)
Gone(t, n) ==
    /\ n \in ToSet(tq[t]) /\ n \in Nodes
    /\ ToSet(tq'[t]) = ToSet(tq[t]) \ {n} /\ IsInjective(tq'[t])
    /\ \A u \in Threads : u # t => tq'[u] = tq[u]
    /\ tq' \in [Threads -> Seq(Nodes)]

(* delete_tqnode takes the node, and only it, out of its queue.             *)
LEMMA DeleteFacts ==
  ASSUME TInv, NEW t \in Threads, NEW n \in ToSet(tq[t]), Delete(t, n)
  PROVE  Gone(t, n) /\ timeout' \in [Threads -> Times]
<1>1. /\ tq \in [Threads -> Seq(Nodes)] /\ timeout \in [Threads -> Times]
      /\ IsInjective(tq[t]) /\ tq[t] \in Seq(Nodes)
      /\ \A m \in Nodes : node[m].time \in Times
  BY DEF TInv, TypeOK, Lists
<1>2. Index(t, n) \in DOMAIN tq[t] /\ tq[t][Index(t, n)] = n
  <2>1. \E i \in DOMAIN tq[t] : tq[t][i] = n
    BY DEF ToSet
  <2> QED
    BY <2>1 DEF Index
<1>3. tq' = [tq EXCEPT ![t] = RemoveAt(tq[t], Index(t, n))]
  BY DEF Delete
<1>4. /\ RemoveAt(tq[t], Index(t, n)) \in Seq(Nodes)
      /\ IsInjective(RemoveAt(tq[t], Index(t, n)))
      /\ ToSet(RemoveAt(tq[t], Index(t, n))) = ToSet(tq[t]) \ {n}
  BY ONLY <1>1, <1>2, Removed
<1>5. n \in Nodes
  BY <1>1, <1>2
<1>6. Gone(t, n)
  BY ONLY <1>1, <1>3, <1>4, <1>5, t \in Threads, n \in ToSet(tq[t]) DEF Gone
<1>7. timeout' \in [Threads -> Times]
  <2>1. \A x \in Times : SetTimeout(t, x) => timeout' \in [Threads -> Times]
    BY <1>1, Delays DEF SetTimeout
  <2>2. NoTimeout(t) => timeout' \in [Threads -> Times]
    BY <1>1, Delays DEF NoTimeout, Clock
  <2>3. CASE tq[t] = <<n>>
    BY <2>2, <2>3 DEF Delete
  <2>4. CASE tq[t] # <<n>> /\ Head(tq[t]) = n
    <3>1. SetTimeout(t, node[tq[t][2]].time)
      BY <2>4 DEF Delete
    <3>2. Len(tq[t]) > 1
      BY <1>1, <1>2, <2>4
    <3>3. tq[t][2] \in Nodes
      BY <1>1, <3>2
    <3> QED
      BY <1>1, <2>1, <3>1, <3>3
  <2>5. CASE tq[t] # <<n>> /\ Head(tq[t]) # n
    BY <1>1, <2>5 DEF Delete
  <2> QED
    BY <2>3, <2>4, <2>5
<1> QED
  BY <1>6, <1>7

(* A walk takes the first node out of its queue.                            *)
LEMMA BehindFacts ==
  ASSUME TInv, NEW t \in Threads, tq[t] # <<>>, Behind(t)
  PROVE  Gone(t, First(t))
<1>1. tq \in [Threads -> Seq(Nodes)] /\ IsInjective(tq[t]) /\ tq[t] \in Seq(Nodes)
  BY DEF TInv, TypeOK, Lists
<1>2. /\ Tail(tq[t]) \in Seq(Nodes) /\ IsInjective(Tail(tq[t]))
      /\ Head(tq[t]) \in ToSet(tq[t]) /\ ToSet(Tail(tq[t])) = ToSet(tq[t]) \ {Head(tq[t])}
  BY ONLY <1>1, TakenFromFront, tq[t] # <<>>
<1>3. tq' = [tq EXCEPT ![t] = Tail(tq[t])]
  BY DEF Behind
<1>4. Head(tq[t]) \in Nodes
  BY <1>1
<1> QED
  BY ONLY <1>1, <1>2, <1>3, <1>4, t \in Threads DEF Gone, First

NodeType ==
    node \in [Nodes -> [wptr : Procs \cup {NULL}, alt : BOOLEAN, time : Times,
                       dirty : BOOLEAN, scheduler : Threads \cup {NULL}]]

(* A node that enters a queue, and what becomes of those that were washed   *)
(* to find it.                                                              *)
Entered(t, n, p, time, alt) ==
    /\ n \in Nodes /\ node[n].wptr = NULL /\ ~node[n].dirty
    /\ \A u \in Threads : n \notin Held(u)
    /\ \A q \in Procs : link[q] # n
    /\ ToSet(tq'[t]) = ToSet(tq[t]) \cup {n} /\ IsInjective(tq'[t])
    /\ \A u \in Threads : u # t => tq'[u] = tq[u]
    /\ tq' \in [Threads -> Seq(Nodes)]
    /\ node'[n] = [wptr |-> p, alt |-> alt, time |-> time, dirty |-> alt, scheduler |-> t]
    /\ n \notin free' \cup laundry' /\ free' \subseteq Nodes /\ laundry' \subseteq Nodes
    /\ free' \cap laundry' = {}
    /\ \A m \in Nodes : m # n =>
          \/ /\ node'[m] = node[m]
             /\ m \in free' <=> m \in free
             /\ m \in laundry' <=> m \in laundry
          \/ /\ m \in free \cup laundry /\ node'[m] = Blank /\ m \in free'
             /\ ~node[m].dirty /\ node[m].wptr = NULL
             /\ \A u \in Threads : m \notin Held(u)

(* The memory that add_to_timer_queue may take: no thread has it, no ALT.   *)
LEMMA Unheld ==
  ASSUME TInv, NEW m \in Supply \cup Washed
  PROVE  /\ m \in Nodes /\ m \in free \cup laundry
         /\ ~node[m].dirty /\ node[m].wptr = NULL
         /\ \A u \in Threads : m \notin Held(u)
         /\ \A q \in Procs : link[q] # m
<1>1. m \in free \/ (m \in laundry /\ ~node[m].dirty)
  BY DEF Supply, Washed
<1>2. m \in Nodes
  BY <1>1 DEF TInv, TypeOK
<1>3. \A q \in Procs : link[q] # m
  BY <1>1, <1>2, NamesAssumption DEF TInv, Memory
<1>4. CASE m \in free
  <2>1. node[m] = Blank
    BY <1>4 DEF TInv, Memory
  <2>2. \A u \in Threads : m \notin Held(u)
    BY <1>4 DEF TInv, Holding
  <2> QED
    BY <1>2, <1>3, <1>4, <2>1, <2>2 DEF Blank
<1>5. CASE m \in laundry /\ ~node[m].dirty
  <2>1. node[m].alt /\ node[m].wptr = NULL
    BY <1>5 DEF TInv, Memory
  <2>2. \A u \in Threads : m \notin Held(u)
    BY <1>5, <2>1 DEF TInv, Holding
  <2> QED
    BY <1>2, <1>3, <1>5, <2>1, <2>2
<1> QED
  BY <1>1, <1>4, <1>5

(* insert_tqnode, on memory from the free list or the laundry.              *)
LEMMA InsertFacts ==
  ASSUME TInv, NEW t \in Threads, NEW p \in Procs, NEW time \in Times, NEW alt \in BOOLEAN,
         Insert(t, p, time, alt)
  PROVE  Entered(t, Spare, p, time, alt) /\ timeout' \in [Threads -> Times] /\ NodeType'
<1>1. /\ tq \in [Threads -> Seq(Nodes)] /\ timeout \in [Threads -> Times]
      /\ IsInjective(tq[t]) /\ tq[t] \in Seq(Nodes)
      /\ free \subseteq Nodes /\ laundry \subseteq Nodes /\ free \cap laundry = {}
  BY DEF TInv, TypeOK, Lists, Memory
<1>2. Supply # {} /\ free' = Supply \ {Spare} /\ laundry' = laundry \ Supply
  BY DEF Insert, Allocate
<1>3. Spare \in Supply
  BY <1>2 DEF Spare
<1> DEFINE n == Spare
           k == Place(tq[t], time)
<1>4. /\ n \in Nodes /\ node[n].wptr = NULL /\ ~node[n].dirty
      /\ \A u \in Threads : n \notin Held(u)
      /\ \A q \in Procs : link[q] # n
  BY ONLY <1>3, Unheld, TInv
<1>5. k \in 0..Len(tq[t])
  BY ONLY <1>1, PlaceInQueue
<1>6. tq' = [tq EXCEPT ![t] = InsertAt(tq[t], k + 1, n)]
  BY DEF Insert
<1>7. node' = [Blanked(node, Supply) EXCEPT ![n] =
                 [wptr |-> p, alt |-> alt, time |-> time, dirty |-> alt, scheduler |-> t]]
  BY DEF Insert
<1>8. timeout' \in [Threads -> Times]
  <2>1. timeout' = timeout \/ SetTimeout(t, time)
    BY DEF Insert
  <2> QED
    BY ONLY <1>1, <2>1, Delays, time \in Times DEF SetTimeout
<1> HIDE DEF n, k
<1>9. n \notin ToSet(tq[t])
  BY <1>4 DEF Held
<1>10. /\ ToSet(tq'[t]) = ToSet(tq[t]) \cup {n} /\ IsInjective(tq'[t])
       /\ \A u \in Threads : u # t => tq'[u] = tq[u]
       /\ tq' \in [Threads -> Seq(Nodes)]
  <2>1. /\ InsertAt(tq[t], k + 1, n) \in Seq(Nodes)
        /\ IsInjective(InsertAt(tq[t], k + 1, n))
        /\ ToSet(InsertAt(tq[t], k + 1, n)) = ToSet(tq[t]) \cup {n}
    BY ONLY <1>1, <1>4, <1>5, <1>9, Inserted
  <2> QED
    BY ONLY <1>1, <1>6, <2>1, t \in Threads
<1>11. \A m \in Supply : /\ m \in Nodes /\ m \in free \cup laundry
                         /\ ~node[m].dirty /\ node[m].wptr = NULL
                         /\ \A u \in Threads : m \notin Held(u)
  BY ONLY Unheld, TInv
<1>12. /\ node'[n] = [wptr |-> p, alt |-> alt, time |-> time, dirty |-> alt, scheduler |-> t]
       /\ \A m \in Nodes : m # n => node'[m] = IF m \in Supply THEN Blank ELSE node[m]
  BY ONLY <1>4, <1>7 DEF Blanked
<1>13. n \notin free' \cup laundry' /\ free' \subseteq Nodes /\ laundry' \subseteq Nodes
       /\ free' \cap laundry' = {}
  BY ONLY <1>1, <1>2, <1>3, <1>11 DEF n
<1>14. ASSUME NEW m \in Nodes, m # n, m \notin Supply
       PROVE  /\ m \in free' <=> m \in free
              /\ m \in laundry' <=> m \in laundry
  <2>1. free \subseteq Supply
    BY DEF Supply
  <2> QED
    BY ONLY <1>2, <1>14, <2>1
<1>15. ASSUME NEW m \in Nodes, m # n, m \in Supply
       PROVE  m \in free'
  BY ONLY <1>2, <1>15 DEF n
<1>16. \A m \in Nodes : m # n =>
          \/ /\ node'[m] = node[m]
             /\ m \in free' <=> m \in free
             /\ m \in laundry' <=> m \in laundry
          \/ /\ m \in free \cup laundry /\ node'[m] = Blank /\ m \in free'
             /\ ~node[m].dirty /\ node[m].wptr = NULL
             /\ \A u \in Threads : m \notin Held(u)
  BY ONLY <1>11, <1>12, <1>14, <1>15
<1>17. Entered(t, n, p, time, alt)
  BY ONLY <1>4, <1>10, <1>12, <1>13, <1>16 DEF Entered
<1>18. NodeType'
  <2>1. NodeType
    BY DEF TInv, TypeOK, NodeType
  <2>2. Blanked(node, Supply) \in [Nodes -> [wptr : Procs \cup {NULL}, alt : BOOLEAN, time : Times,
                       dirty : BOOLEAN, scheduler : Threads \cup {NULL}]]
    BY ONLY <2>1, Delays DEF Blanked, Blank, NodeType, Clock
  <2> QED
    BY ONLY <1>7, <2>2, t \in Threads, p \in Procs, time \in Times, alt \in BOOLEAN DEF NodeType
<1> QED
  BY <1>8, <1>17, <1>18 DEF n

(* The nodes a thread holds, and the one its walk looks at.                 *)
LEMMA HeldNodes ==
  ASSUME TInv, NEW t \in Threads
  PROVE  /\ ToSet(tq[t]) \subseteq Nodes /\ Held(t) \subseteq Nodes
         /\ ToSet(tq[t]) \subseteq Held(t) /\ NULL \notin Held(t)
         /\ at[t] # NULL => at[t] \in Held(t)
         /\ tq[t] # <<>> => First(t) \in ToSet(tq[t])
<1>1. tq[t] \in Seq(Nodes) /\ at[t] \in Nodes \cup {NULL} /\ IsInjective(tq[t])
      /\ NULL \notin Nodes
  BY NamesAssumption DEF TInv, TypeOK, Lists
<1>2. ToSet(tq[t]) \subseteq Nodes
  BY <1>1 DEF ToSet
<1>3. tq[t] # <<>> => First(t) \in ToSet(tq[t])
  BY ONLY <1>1, TakenFromFront DEF First
<1> QED
  BY <1>1, <1>2, <1>3 DEF Held

(* The node of an ALT whose timer is still set, on its own thread.          *)
LEMMA OwnNode ==
  ASSUME TInv, NEW t \in Threads, NEW p \in Procs, pc[t] = "run", link[p] # NULL,
         node[link[p]].wptr # NULL, node[link[p]].scheduler = t,
         phase[p] \in {"cas", "disable"}
  PROVE  link[p] \in ToSet(tq[t]) /\ link[p] \in Nodes /\ node[link[p]].alt
         /\ node[link[p]].wptr = p /\ node[link[p]].dirty
<1>1. link[p] \in Nodes
  BY DEF TInv, TypeOK
<1>2. node[link[p]].alt /\ node[link[p]].wptr = p
  BY DEF TInv, Memory
<1>3. node[link[p]].dirty
  BY <1>1, <1>2 DEF TInv, Pointers
<1>4. link[p] \in Held(t)
  BY <1>1, <1>3 DEF TInv, Holding
<1>5. at[t] = NULL
  BY DEF TInv, Lists
<1> QED
  BY <1>1, <1>2, <1>3, <1>4, <1>5 DEF Held

(* The same for a process that has yet to see whether it waits.             *)
LEMMA OwnNodeOfWaiter ==
  ASSUME TInv, NEW t \in Threads, NEW p \in Procs, Runs(t, p, "cas")
  PROVE  link[p] \in ToSet(tq[t]) /\ link[p] \in Nodes /\ node[link[p]].alt
         /\ node[link[p]].wptr = p /\ node[link[p]].dirty /\ node[link[p]].scheduler = t
<1>1. pc[t] = "run" /\ phase[p] = "cas" /\ place[p] = t
  BY DEF Runs
<1>2. link[p] # NULL
  BY <1>1 DEF TInv, Tasks, InAlt
<1>3. node[link[p]].wptr = p /\ node[link[p]].scheduler = t /\ p # NULL
  BY <1>1, NamesAssumption DEF TInv, Pointers
<1> QED
  BY <1>1, <1>2, <1>3, OwnNode

(* The node after the one that clean_timer_queue is at.                     *)
LEMMA NextNodeFacts ==
  ASSUME TInv, NEW t \in Threads, NEW n \in ToSet(tq[t]), NextNode(t, n) # NULL
  PROVE  NextNode(t, n) \in ToSet(tq[t]) \ {n}
<1>1. tq[t] \in Seq(Nodes) /\ IsInjective(tq[t])
  BY DEF TInv, TypeOK, Lists
<1>2. Index(t, n) \in DOMAIN tq[t] /\ tq[t][Index(t, n)] = n
  <2>1. \E i \in DOMAIN tq[t] : tq[t][i] = n
    BY DEF ToSet
  <2> QED
    BY <2>1 DEF Index
<1>3. Index(t, n) + 1 \in DOMAIN tq[t] /\ NextNode(t, n) = tq[t][Index(t, n) + 1]
  BY <1>1, <1>2 DEF NextNode
<1>4. NextNode(t, n) # n
  <2>1. Index(t, n) + 1 # Index(t, n)
    BY <1>1, <1>2
  <2> QED
    BY <1>1, <1>2, <1>3, <2>1 DEF IsInjective
<1> QED
  BY <1>3, <1>4 DEF ToSet

(* Whom a walk is about to trigger: an ALT whose timer still counts.        *)
LEMMA Triggered ==
  ASSUME TInv, NEW t \in Threads, pc[t] = "trigger"
  PROVE  /\ ptr[t] \in Procs /\ count[ptr[t]] = 1 /\ Triggering(ptr[t])
         /\ phase[ptr[t]] \in {"wait", "disable", "swap", "release", "altend", "join"}
         /\ phase[ptr[t]] = "release" => fired[ptr[t]]
         /\ \A n \in Nodes : node[n].wptr # ptr[t]
         /\ \A u \in Threads : u # t => ptr[u] # ptr[t]
<1>1. ptr[t] # NULL /\ ptr[t] \in Procs
  BY DEF TInv, TypeOK, Lists
<1>2. Triggering(ptr[t])
  BY DEF Triggering
<1>3. phase[ptr[t]] \in Phases
  BY <1>1 DEF TInv, TypeOK
<1>4. /\ \A n \in Nodes : node[n].wptr # ptr[t]
      /\ \A u \in Threads : u # t => ptr[u] # ptr[t]
  BY <1>1 DEF TInv, Shares
<1>5. /\ phase[ptr[t]] \in {"wait", "disable", "swap", "release", "altend", "join"}
      /\ phase[ptr[t]] = "release" => fired[ptr[t]]
  BY <1>1, <1>2, <1>3 DEF TInv, Shares, Share, InAlt, Phases
<1>6. count[ptr[t]] = 1
  BY <1>1, <1>2, <1>5 DEF TInv, Shares, Share, Owed
<1> QED
  BY <1>1, <1>2, <1>4, <1>5, <1>6

(* A tick makes times older and changes nothing else.                       *)
LEMMA TickFacts ==
  ASSUME TInv, Tick
  PROVE  /\ \A n \in Nodes : /\ node'[n].wptr = node[n].wptr /\ node'[n].alt = node[n].alt
                             /\ node'[n].dirty = node[n].dirty
                             /\ node'[n].scheduler = node[n].scheduler
                             /\ n \in free => node'[n] = node[n]
         /\ UNCHANGED <<tq, syncTq, free, laundry, phase, place, link, fired, count, pc, at, ptr>>
         /\ NodeType'
<1>1. NodeType
  BY DEF TInv, TypeOK, NodeType
<1>2. node' = [n \in Nodes |-> IF n \in Linked THEN [node[n] EXCEPT !.time = Older(node[n].time)]
                                               ELSE node[n]]
  BY DEF Tick
<1>3. UNCHANGED <<tq, syncTq, free, laundry, phase, place, link, fired, count, pc, at, ptr>>
  BY DEF Tick
<1>4. NodeType'
  BY ONLY <1>1, <1>2, Delays DEF NodeType
<1>5. \A n \in Nodes : /\ node'[n].wptr = node[n].wptr /\ node'[n].alt = node[n].alt
                       /\ node'[n].dirty = node[n].dirty
                       /\ node'[n].scheduler = node[n].scheduler
  BY ONLY <1>1, <1>2 DEF NodeType
<1>6. ASSUME NEW n \in free PROVE node'[n] = node[n]
  <2>1. n \in Nodes /\ \A t \in Threads : n \notin Held(t)
    BY DEF TInv, TypeOK, Holding
  <2>2. \A p \in Procs : link[p] # n
    BY <2>1, NamesAssumption DEF TInv, Memory
  <2>3. n \notin Linked
    BY <2>1, <2>2, HeldNodes DEF Linked, Queued, Waiting, Held
  <2> QED
    BY <1>2, <2>1, <2>3
<1> QED
  BY <1>3, <1>4, <1>5, <1>6

(* One node with other fields; the list it is in and its kind are the same. *)
Changed(n, w, d) ==
    /\ \A m \in Nodes : m # n => node'[m] = node[m]
    /\ node'[n].wptr = w /\ node'[n].dirty = d
    /\ node'[n].alt = node[n].alt /\ node'[n].scheduler = node[n].scheduler

LEMMA NodeChanges ==
  ASSUME TInv, NEW n \in Nodes
  PROVE  /\ node' = [node EXCEPT ![n].dirty = FALSE] => Changed(n, node[n].wptr, FALSE) /\ NodeType'
         /\ node' = [node EXCEPT ![n].wptr = NULL] => Changed(n, NULL, node[n].dirty) /\ NodeType'
         /\ \A x \in Times : node' = [node EXCEPT ![n].time = x] =>
               Changed(n, node[n].wptr, node[n].dirty) /\ NodeType'
<1>1. NodeType
  BY DEF TInv, TypeOK, NodeType
<1>2. node' = [node EXCEPT ![n].dirty = FALSE] => Changed(n, node[n].wptr, FALSE) /\ NodeType'
  BY ONLY <1>1, n \in Nodes DEF NodeType, Changed
<1>3. node' = [node EXCEPT ![n].wptr = NULL] => Changed(n, NULL, node[n].dirty) /\ NodeType'
  BY ONLY <1>1, n \in Nodes DEF NodeType, Changed
<1>4. ASSUME NEW x \in Times, node' = [node EXCEPT ![n].time = x]
      PROVE  Changed(n, node[n].wptr, node[n].dirty) /\ NodeType'
  BY ONLY <1>1, <1>4, n \in Nodes DEF NodeType, Changed
<1> QED
  BY <1>2, <1>3, <1>4

(* Nodes whose memory is free again.                                        *)
LEMMA NodesFreed ==
  ASSUME TInv, NEW S \in SUBSET Nodes, node' = Blanked(node, S)
  PROVE  /\ \A m \in S : node'[m] = Blank
         /\ \A m \in Nodes \ S : node'[m] = node[m]
         /\ NodeType'
<1>1. NodeType
  BY DEF TInv, TypeOK, NodeType
<1>2. Blank \in [wptr : Procs \cup {NULL}, alt : BOOLEAN, time : Times,
                 dirty : BOOLEAN, scheduler : Threads \cup {NULL}]
  BY Delays DEF Blank, Clock
<1>3. NodeType'
  BY ONLY <1>1, <1>2, node' = Blanked(node, S) DEF NodeType, Blanked
<1> QED
  BY <1>3 DEF Blanked

(* Every step keeps the types.                                              *)
LEMMA TypeOKStep == TInv /\ [Next]_vars => TypeOK'
<1> SUFFICES ASSUME TInv, [Next]_vars PROVE TypeOK'
  OBVIOUS
<1>1. TypeOK /\ NULL \notin Nodes \cup Procs
  BY NamesAssumption DEF TInv
<1> USE DEF queues, memory, procs, walker, TypeOK, Phases
<1>2. CASE UNCHANGED vars
  BY <1>1, <1>2 DEF vars
<1>3. ASSUME NEW t \in Threads, NEW p \in Procs, Dispatch(t, p) PROVE TypeOK'
  BY <1>3, <1>1 DEF Dispatch, Runs, Phase, Put
<1>4. ASSUME NEW t \in Threads, NEW p \in Procs, Yield(t, p) PROVE TypeOK'
  BY <1>4, <1>1 DEF Yield, Runs, Phase, Put
<1>5. ASSUME NEW t \in Threads, NEW p \in Procs, AltWaits(t, p) PROVE TypeOK'
  <2>1. count[p] = 0
    BY <1>5 DEF AltWaits, Runs, TInv, Shares, Share
  <2> QED
    BY <1>1, <1>5, <2>1 DEF AltWaits, Phase, Put
<1>6. ASSUME NEW t \in Threads, NEW p \in Procs, AltGoesOn(t, p) PROVE TypeOK'
  <2>1. link[p] \in ToSet(tq[t]) /\ link[p] \in Nodes
    BY <1>6, OwnNodeOfWaiter DEF AltGoesOn
  <2>2. Gone(t, link[p]) /\ timeout' \in [Threads -> Times]
    BY <1>6, <2>1, DeleteFacts DEF AltGoesOn
  <2> QED
    BY <1>1, <1>6, <2>1, <2>2, Delays DEF AltGoesOn, Phase, Gone, Blanked, Blank, Clock
<1>7. ASSUME NEW t \in Threads, NEW p \in Procs, RemoveLocal(t, p) PROVE TypeOK'
  <2>1. CASE node[link[p]].wptr = NULL
    BY <1>1, <1>7, <2>1 DEF RemoveLocal, Settle, Phase
  <2>2. CASE node[link[p]].wptr # NULL
    <3>1. link[p] # NULL
      BY <1>7 DEF RemoveLocal, Runs, TInv, Tasks, InAlt
    <3>2. link[p] \in ToSet(tq[t]) /\ link[p] \in Nodes
      BY <1>7, <2>2, <3>1, OwnNode DEF RemoveLocal, Runs
    <3>3. Gone(t, link[p]) /\ timeout' \in [Threads -> Times]
      BY <1>7, <2>2, <3>2, DeleteFacts DEF RemoveLocal
    <3>4. NodeType'
      BY <1>7, <2>2, <3>2, NodeChanges DEF RemoveLocal
    <3> QED
      BY <1>1, <1>7, <2>2, <3>2, <3>3, <3>4 DEF RemoveLocal, Settle, Phase, Gone, NodeType
  <2> QED
    BY <2>1, <2>2
<1>8. ASSUME NEW t \in Threads, NEW p \in Procs, LookRemote(t, p) PROVE TypeOK'
  BY <1>8, <1>1 DEF LookRemote, Runs, Phase, Put, Settle
<1>9. ASSUME NEW t \in Threads, NEW p \in Procs, SwapRemote(t, p) PROVE TypeOK'
  <2>1. link[p] \in Nodes
    BY <1>1, <1>9 DEF SwapRemote, Runs, TInv, Tasks, InAlt
  <2>2. NodeType'
    BY <1>9, <2>1, NodeChanges DEF SwapRemote
  <2>3. phase' \in [Procs -> Phases] /\ fired' \in [Procs -> BOOLEAN]
    BY <1>1, <1>9 DEF SwapRemote, Phase, Settle
  <2>4. UNCHANGED <<queues, free, laundry, place, link, asked, count, walker>>
    BY <1>9 DEF SwapRemote
  <2> QED
    BY <1>1, <2>2, <2>3, <2>4 DEF NodeType
<1>10. ASSUME NEW t \in Threads, NEW p \in Procs, TellOwner(t, p) PROVE TypeOK'
  BY <1>10, <1>1 DEF TellOwner, Runs, Phase, Put, Settle
<1>11. ASSUME NEW t \in Threads, NEW p \in Procs, Release(t, p) PROVE TypeOK'
  <2>1. ~fired[p] => count[p] = 1
    BY <1>11 DEF Release, Runs, TInv, Shares, Share
  <2>2. link[p] \in Nodes
    BY <1>1, <1>11 DEF Release, Runs, TInv, Tasks, InAlt
  <2>3. NodeType'
    BY <1>1, <1>11, <2>2, NodesFreed DEF Release, NodeType
  <2>4. /\ free' \subseteq Nodes /\ laundry' \subseteq Nodes
        /\ count' \in [Procs -> 0..1]
    BY <1>1, <1>11, <2>1, <2>2 DEF Release
  <2>5. /\ phase' \in [Procs -> Phases] /\ link' \in [Procs -> Nodes \cup {NULL}]
        /\ fired' \in [Procs -> BOOLEAN] /\ asked' \in [Procs -> Times]
    BY <1>1, <1>11, Delays DEF Release, Phase, Clock
  <2>6. UNCHANGED <<queues, place, walker>>
    BY <1>11 DEF Release
  <2> QED
    BY <1>1, <2>3, <2>4, <2>5, <2>6 DEF NodeType
<1>12. ASSUME NEW t \in Threads, NEW p \in Procs, AltEnd(t, p) PROVE TypeOK'
  <2>1. phase' \in [Procs -> Phases] /\ place' \in [Procs -> Threads \cup {"queue", "blocked"}]
    BY <1>1, <1>12 DEF AltEnd, Phase, Put
  <2> QED
    BY <1>1, <1>12, <2>1 DEF AltEnd
<1>13. ASSUME NEW t \in Threads, NEW p \in Procs, NEW d \in 0..MaxDelay,
             Tin(t, p, d)
      PROVE  TypeOK'
  <2>1. Clock + d + 1 \in Times
    BY Delays
  <2>2. Insert(t, p, Clock + d + 1, FALSE) /\ UNCHANGED <<syncTq, link, fired, count, walker>>
    BY <1>13 DEF Tin, Sleep
  <2>3. Entered(t, Spare, p, Clock + d + 1, FALSE) /\ timeout' \in [Threads -> Times]
        /\ NodeType'
    BY <2>1, <2>2, InsertFacts
  <2> QED
    BY <1>1, <1>13, <2>1, <2>2, <2>3 DEF Tin, Sleep, Phase, Put, Entered, NodeType
<1>14. ASSUME NEW t \in Threads, NEW p \in Procs, NEW d \in 0..MaxDelay,
             FastTin(t, p, d)
      PROVE  TypeOK'
  <2>1. Clock + d \in Times
    BY Delays
  <2>2. Insert(t, p, Clock + d, FALSE) /\ UNCHANGED <<syncTq, link, fired, count, walker>>
    BY <1>14 DEF FastTin, Sleep
  <2>3. Entered(t, Spare, p, Clock + d, FALSE) /\ timeout' \in [Threads -> Times] /\ NodeType'
    BY <2>1, <2>2, InsertFacts
  <2> QED
    BY <1>1, <1>14, <2>1, <2>2, <2>3 DEF FastTin, Sleep, Phase, Put, Entered, NodeType
<1>15. ASSUME NEW t \in Threads, NEW p \in Procs, NEW d \in 0..MaxDelay,
             AltWait(t, p, d)
      PROVE  TypeOK'
  <2>1. Clock + d \in Times
    BY Delays
  <2>2. Insert(t, p, Clock + d, TRUE)
    BY <1>15 DEF AltWait
  <2>3. Entered(t, Spare, p, Clock + d, TRUE) /\ timeout' \in [Threads -> Times] /\ NodeType'
    BY <2>1, <2>2, InsertFacts
  <2> QED
    BY <1>1, <1>15, <2>1, <2>3 DEF AltWait, Phase, Entered, NodeType
<1>16. ASSUME NEW p \in Procs, ChannelReady(p) PROVE TypeOK'
  BY <1>16, <1>1 DEF ChannelReady, Runs, Phase, Put
<1>17. ASSUME NEW t \in Threads, StartClean(t) PROVE TypeOK'
  <2>1. First(t) \in Nodes
    BY <1>17, HeldNodes DEF StartClean
  <2> QED
    BY <1>1, <1>17, <2>1 DEF StartClean, First
<1>18. ASSUME NEW t \in Threads, CleanNode(t) PROVE TypeOK'
  <2>1. at[t] \in ToSet(tq[t]) /\ at[t] \in Nodes
    BY <1>18, HeldNodes DEF CleanNode, TInv, Lists
  <2>2. NextNode(t, at[t]) \in Nodes \cup {NULL}
    BY <2>1, NextNodeFacts, HeldNodes
  <2>3. CASE node[at[t]].wptr = NULL
    <3>1. Gone(t, at[t]) /\ timeout' \in [Threads -> Times]
      BY <1>18, <2>1, <2>3, DeleteFacts DEF CleanNode
    <3>2. NodeType'
      BY <1>18, <2>1, <2>3, NodeChanges DEF CleanNode
    <3> QED
      BY <1>1, <1>18, <2>2, <2>3, <3>1, <3>2 DEF CleanNode, Gone, NodeType
  <2>4. CASE node[at[t]].wptr # NULL
    BY <1>1, <1>18, <2>2, <2>4 DEF CleanNode
  <2> QED
    BY <2>3, <2>4
<1>19. ASSUME NEW t \in Threads, Launder(t) PROVE TypeOK'
  <2>1. Washed \subseteq Nodes
    BY <1>1 DEF Washed
  <2> QED
    BY <1>1, <1>19, <2>1, Delays DEF Launder, Blanked, Blank, Clock
<1>20. ASSUME NEW t \in Threads, StartWalk(t) PROVE TypeOK'
  BY <1>1, <1>20, Delays DEF StartWalk
<1>21. ASSUME NEW t \in Threads, WalkEnds(t) PROVE TypeOK'
  <2>1. tq[t] # <<>> => First(t) \in Nodes
    BY HeldNodes
  <2>2. timeout' \in [Threads -> Times]
    BY <1>1, <1>21, <2>1, Delays DEF WalkEnds, NoTimeout, Clock
  <2>3. now' \in [Threads -> Times]
    BY <1>1, <1>21, Delays DEF WalkEnds, Leave, Clock
  <2> QED
    BY <1>1, <1>21, <2>2, <2>3 DEF WalkEnds, Leave
<1>22. ASSUME NEW t \in Threads, WalkWakes(t) PROVE TypeOK'
  <2>1. Gone(t, First(t))
    BY <1>22, BehindFacts DEF WalkWakes
  <2>2. First(t) \in Nodes /\ node[First(t)].wptr \in Procs
    BY <1>1, <1>22, <2>1 DEF WalkWakes, Gone
  <2> QED
    BY <1>1, <1>22, <2>1, <2>2, Delays DEF WalkWakes, Gone, Phase, Put, Blanked, Blank, Clock
<1>23. ASSUME NEW t \in Threads, WalkChallenges(t) PROVE TypeOK'
  <2>1. Gone(t, First(t))
    BY <1>23, BehindFacts DEF WalkChallenges
  <2>2. NodeType'
    BY <1>1, <1>23, <2>1, NodeChanges DEF WalkChallenges, Gone
  <2> QED
    BY <1>1, <1>23, <2>1, <2>2 DEF WalkChallenges, Gone, On, NodeType
<1>24. ASSUME NEW t \in Threads, WalkSwaps(t) PROVE TypeOK'
  <2>1. at[t] \in Nodes
    BY <1>1, <1>24 DEF WalkSwaps, TInv, Lists
  <2>2. NodeType'
    BY <1>24, <2>1, NodeChanges DEF WalkSwaps
  <2> QED
    BY <1>1, <1>24, <2>1, <2>2 DEF WalkSwaps, On, NodeType
<1>25. ASSUME NEW t \in Threads, WalkTriggers(t) PROVE TypeOK'
  <2>1. ptr[t] \in Procs /\ count[ptr[t]] = 1
    BY <1>25, Triggered DEF WalkTriggers
  <2>2. count' \in [Procs -> 0..1]
    BY <1>1, <1>25, <2>1 DEF WalkTriggers
  <2>3. phase' \in [Procs -> Phases] /\ place' \in [Procs -> Threads \cup {"queue", "blocked"}]
    BY <1>1, <1>25, <2>1 DEF WalkTriggers, Phase, Put
  <2> QED
    BY <1>1, <1>25, <2>2, <2>3 DEF WalkTriggers, On
<1>26. ASSUME NEW t \in Threads, WalkPassesDead(t) PROVE TypeOK'
  <2>1. Gone(t, First(t))
    BY <1>26, BehindFacts DEF WalkPassesDead
  <2> QED
    BY <1>1, <1>26, <2>1 DEF WalkPassesDead, Gone, On
<1>27. ASSUME NEW t \in Threads, WalkCleans(t) PROVE TypeOK'
  <2>1. at[t] \in Nodes
    BY <1>1, <1>27 DEF WalkCleans, TInv, Lists
  <2>2. NodeType'
    BY <1>27, <2>1, NodeChanges DEF WalkCleans
  <2> QED
    BY <1>1, <1>27, <2>2 DEF WalkCleans, On, NodeType
<1>28. CASE Tick
  <2>1. /\ UNCHANGED <<tq, syncTq, free, laundry, phase, place, link, fired, count, pc, at, ptr>>
        /\ NodeType'
    BY <1>28, TickFacts
  <2>2. asked' \in [Procs -> Times] /\ now' \in [Threads -> Times]
        /\ timeout' \in [Threads -> Times]
    BY <1>1, <1>28, Delays DEF Tick
  <2> QED
    BY <1>1, <2>1, <2>2 DEF NodeType
<1> QED
  BY <1>2, <1>3, <1>4, <1>5, <1>6, <1>7, <1>8, <1>9, <1>10, <1>11, <1>12, <1>13, <1>14,
     <1>15, <1>16, <1>17, <1>18, <1>19, <1>20, <1>21, <1>22, <1>23, <1>24, <1>25,
     <1>26, <1>27, <1>28
     DEF Next, Call, Walk

(* A step leaves or enters the ALT with the node, and no thread that runs a *)
(* process starts to walk.                                                  *)
LEMMA TasksStep == TInv /\ [Next]_vars => Tasks'
<1> SUFFICES ASSUME TInv, [Next]_vars PROVE Tasks'
  OBVIOUS
<1>1. /\ Tasks /\ NULL \notin Threads \cup Procs \cup Nodes
         /\ {"queue", "blocked"} \cap Threads = {}
      /\ phase \in [Procs -> Phases] /\ place \in [Procs -> Threads \cup {"queue", "blocked"}]
      /\ link \in [Procs -> Nodes \cup {NULL}]
      /\ pc \in [Threads -> {"run", "tidy", "look", "swap", "trigger", "clean"}]
  BY NamesAssumption DEF TInv, TypeOK
<1> USE DEF queues, memory, procs, walker, Tasks, InAlt, Phases
<1>2. CASE UNCHANGED vars
  BY <1>1, <1>2 DEF vars
<1>3. ASSUME NEW t \in Threads, NEW p \in Procs, Dispatch(t, p) PROVE Tasks'
  BY <1>3, <1>1 DEF Dispatch, Runs, Phase, Put
<1>4. ASSUME NEW t \in Threads, NEW p \in Procs, Yield(t, p) PROVE Tasks'
  BY <1>4, <1>1 DEF Yield, Runs, Phase, Put
<1>5. ASSUME NEW t \in Threads, NEW p \in Procs, AltWaits(t, p) PROVE Tasks'
  BY <1>5, <1>1 DEF AltWaits, Runs, Phase, Put
<1>6. ASSUME NEW t \in Threads, NEW p \in Procs, AltGoesOn(t, p) PROVE Tasks'
  BY <1>6, <1>1 DEF AltGoesOn, Runs, Phase, Put
<1>7. ASSUME NEW t \in Threads, NEW p \in Procs, RemoveLocal(t, p) PROVE Tasks'
  BY <1>7, <1>1 DEF RemoveLocal, Runs, Phase, Put, Settle
<1>8. ASSUME NEW t \in Threads, NEW p \in Procs, LookRemote(t, p) PROVE Tasks'
  BY <1>8, <1>1 DEF LookRemote, Runs, Phase, Put, Settle
<1>9. ASSUME NEW t \in Threads, NEW p \in Procs, SwapRemote(t, p) PROVE Tasks'
  BY <1>9, <1>1 DEF SwapRemote, Runs, Phase, Put, Settle
<1>10. ASSUME NEW t \in Threads, NEW p \in Procs, TellOwner(t, p) PROVE Tasks'
  BY <1>10, <1>1 DEF TellOwner, Runs, Phase, Put, Settle
<1>11. ASSUME NEW t \in Threads, NEW p \in Procs, Release(t, p) PROVE Tasks'
  BY <1>11, <1>1 DEF Release, Runs, Phase, Put
<1>12. ASSUME NEW t \in Threads, NEW p \in Procs, AltEnd(t, p) PROVE Tasks'
  BY <1>12, <1>1 DEF AltEnd, Runs, Phase, Put
<1>13. ASSUME NEW t \in Threads, NEW p \in Procs, NEW d \in 0..MaxDelay,
             Tin(t, p, d)
      PROVE  Tasks'
  BY <1>13, <1>1 DEF Tin, Runs, Phase, Put, Sleep
<1>14. ASSUME NEW t \in Threads, NEW p \in Procs, NEW d \in 0..MaxDelay,
             FastTin(t, p, d)
      PROVE  Tasks'
  BY <1>14, <1>1 DEF FastTin, Runs, Phase, Put, Sleep
<1>15. ASSUME NEW t \in Threads, NEW p \in Procs, NEW d \in 0..MaxDelay,
             AltWait(t, p, d)
      PROVE  Tasks'
  <2>1. Clock + d \in Times
    BY Delays
  <2>2. Insert(t, p, Clock + d, TRUE)
    BY <1>15 DEF AltWait
  <2>3. Spare \in Nodes
    BY <2>1, <2>2, InsertFacts DEF Entered
  <2> QED
    BY <1>1, <1>15, <2>3 DEF AltWait, Phase
<1>16. ASSUME NEW p \in Procs, ChannelReady(p) PROVE Tasks'
  BY <1>16, <1>1 DEF ChannelReady, Runs, Phase, Put
<1>17. ASSUME NEW t \in Threads, StartClean(t) PROVE Tasks'
  BY <1>17, <1>1 DEF StartClean, Runs, Phase, Put, Busy
<1>18. ASSUME NEW t \in Threads, CleanNode(t) PROVE Tasks'
  BY <1>18, <1>1 DEF CleanNode, Runs, Phase, Put
<1>19. ASSUME NEW t \in Threads, Launder(t) PROVE Tasks'
  BY <1>19, <1>1 DEF Launder, Runs, Phase, Put
<1>20. ASSUME NEW t \in Threads, StartWalk(t) PROVE Tasks'
  BY <1>20, <1>1 DEF StartWalk, Runs, Phase, Put, Busy
<1>21. ASSUME NEW t \in Threads, WalkEnds(t) PROVE Tasks'
  BY <1>21, <1>1 DEF WalkEnds, Runs, Phase, Put, Leave, NoTimeout
<1>22. ASSUME NEW t \in Threads, WalkWakes(t) PROVE Tasks'
  <2>1. First(t) \in Nodes /\ node[First(t)].wptr \in Procs
    BY <1>22, HeldNodes DEF WalkWakes, TInv, TypeOK
  <2>2. phase[node[First(t)].wptr] = "sleep"
    BY <1>22, <2>1 DEF WalkWakes, TInv, Pointers
  <2> QED
    BY <1>1, <1>22, <2>1, <2>2 DEF WalkWakes, Phase, Put
<1>23. ASSUME NEW t \in Threads, WalkChallenges(t) PROVE Tasks'
  BY <1>23, <1>1 DEF WalkChallenges, Runs, Phase, Put, On, First
<1>24. ASSUME NEW t \in Threads, WalkSwaps(t) PROVE Tasks'
  BY <1>24, <1>1 DEF WalkSwaps, Runs, Phase, Put, On
<1>25. ASSUME NEW t \in Threads, WalkTriggers(t) PROVE Tasks'
  <2>1. ptr[t] \in Procs
    BY <1>25, Triggered DEF WalkTriggers
  <2> QED
    BY <1>1, <1>25, <2>1 DEF WalkTriggers, On, Phase, Put
<1>26. ASSUME NEW t \in Threads, WalkPassesDead(t) PROVE Tasks'
  BY <1>26, <1>1 DEF WalkPassesDead, Runs, Phase, Put, On, First
<1>27. ASSUME NEW t \in Threads, WalkCleans(t) PROVE Tasks'
  BY <1>27, <1>1 DEF WalkCleans, Runs, Phase, Put, On
<1>28. CASE Tick
  BY <1>1, <1>28 DEF Tick
<1> QED
  BY <1>2, <1>3, <1>4, <1>5, <1>6, <1>7, <1>8, <1>9, <1>10, <1>11, <1>12, <1>13, <1>14,
     <1>15, <1>16, <1>17, <1>18, <1>19, <1>20, <1>21, <1>22, <1>23, <1>24, <1>25,
     <1>26, <1>27, <1>28
     DEF Next, Call, Walk

(* What a walk has taken out of its queue stays out of it.                  *)
LEMMA ListsStep == TInv /\ [Next]_vars => Lists'
<1> SUFFICES ASSUME TInv, [Next]_vars PROVE Lists'
  OBVIOUS
<1>1. /\ Lists /\ NULL \notin Threads \cup Procs \cup Nodes
      /\ at \in [Threads -> Nodes \cup {NULL}] /\ ptr \in [Threads -> Procs \cup {NULL}]
      /\ pc \in [Threads -> {"run", "tidy", "look", "swap", "trigger", "clean"}]
  BY NamesAssumption DEF TInv, TypeOK
<1>2. \A p \in Procs : link[p] \in Nodes \cup {NULL}
  BY DEF TInv, TypeOK
<1> USE DEF queues, memory, procs, walker, Lists
<1>3. CASE UNCHANGED vars
  BY <1>1, <1>3 DEF vars
<1>4. ASSUME NEW t \in Threads, NEW p \in Procs, Dispatch(t, p) PROVE Lists'
  BY <1>4, <1>1 DEF Dispatch, Runs, Phase, Put
<1>5. ASSUME NEW t \in Threads, NEW p \in Procs, Yield(t, p) PROVE Lists'
  BY <1>5, <1>1 DEF Yield, Runs, Phase, Put
<1>6. ASSUME NEW t \in Threads, NEW p \in Procs, AltWaits(t, p) PROVE Lists'
  BY <1>6, <1>1 DEF AltWaits, Runs, Phase, Put
<1>7. ASSUME NEW t \in Threads, NEW p \in Procs, AltGoesOn(t, p) PROVE Lists'
  <2>1. link[p] \in ToSet(tq[t]) /\ link[p] \in Nodes
    BY <1>7, OwnNodeOfWaiter DEF AltGoesOn
  <2>2. Gone(t, link[p])
    BY <1>7, <2>1, DeleteFacts DEF AltGoesOn
  <2>3. \A m \in Nodes : node'[m].wptr \in {node[m].wptr, NULL}
    BY <1>7, <2>1, NodesFreed DEF AltGoesOn, Blank
  <2>4. UNCHANGED <<pc, at, ptr>> /\ pc[t] = "run"
    BY <1>7 DEF AltGoesOn, Runs
  <2> QED
    BY <1>1, <2>2, <2>3, <2>4 DEF Gone
<1>8. ASSUME NEW t \in Threads, NEW p \in Procs, RemoveLocal(t, p) PROVE Lists'
  <2>1. CASE node[link[p]].wptr = NULL
    BY <1>1, <1>8, <2>1 DEF RemoveLocal
  <2>2. CASE node[link[p]].wptr # NULL
    <3>1. link[p] # NULL
      BY <1>8 DEF RemoveLocal, Runs, TInv, Tasks, InAlt
    <3>2. link[p] \in ToSet(tq[t]) /\ link[p] \in Nodes
      BY <1>8, <2>2, <3>1, OwnNode DEF RemoveLocal, Runs
    <3>3. Gone(t, link[p])
      BY <1>8, <2>2, <3>2, DeleteFacts DEF RemoveLocal
    <3>4. \A m \in Nodes : node'[m].wptr \in {node[m].wptr, NULL}
      BY <1>8, <2>2, <3>2, NodeChanges DEF RemoveLocal, Changed
    <3>5. UNCHANGED <<pc, at, ptr>> /\ pc[t] = "run"
      BY <1>8 DEF RemoveLocal, Runs
    <3> QED
      BY <1>1, <3>3, <3>4, <3>5 DEF Gone
  <2> QED
    BY <2>1, <2>2
<1>9. ASSUME NEW t \in Threads, NEW p \in Procs, LookRemote(t, p) PROVE Lists'
  BY <1>9, <1>1 DEF LookRemote, Runs, Phase, Put, Settle
<1>10. ASSUME NEW t \in Threads, NEW p \in Procs, SwapRemote(t, p) PROVE Lists'
  <2>1. link[p] \in Nodes
    BY <1>1, <1>2, <1>10 DEF SwapRemote, Runs, TInv, Tasks, InAlt
  <2>2. \A m \in Nodes : node'[m].wptr \in {node[m].wptr, NULL}
    BY <1>10, <2>1, NodeChanges DEF SwapRemote, Changed
  <2>3. UNCHANGED <<tq, pc, at, ptr>>
    BY <1>10 DEF SwapRemote
  <2> QED
    BY <1>1, <2>2, <2>3
<1>11. ASSUME NEW t \in Threads, NEW p \in Procs, TellOwner(t, p) PROVE Lists'
  BY <1>11, <1>1 DEF TellOwner, Runs, Phase, Put, Settle
<1>12. ASSUME NEW t \in Threads, NEW p \in Procs, Release(t, p) PROVE Lists'
  <2>1. link[p] \in Nodes
    BY <1>1, <1>2, <1>12 DEF Release, Runs, TInv, Tasks, InAlt
  <2>2. \A m \in Nodes : node'[m].wptr \in {node[m].wptr, NULL}
    BY <1>12, <2>1, NodesFreed DEF Release, Blank
  <2>3. UNCHANGED <<tq, pc, at, ptr>>
    BY <1>12 DEF Release
  <2> QED
    BY <1>1, <2>2, <2>3
<1>13. ASSUME NEW t \in Threads, NEW p \in Procs, AltEnd(t, p) PROVE Lists'
  BY <1>13, <1>1 DEF AltEnd, Runs, Phase, Put
<1>14. ASSUME NEW t \in Threads, NEW p \in Procs, NEW d \in 0..MaxDelay,
             Tin(t, p, d)
      PROVE  Lists'
  <2>1. Clock + d + 1 \in Times
    BY Delays
  <2>2. Insert(t, p, Clock + d + 1, FALSE)
    BY <1>14 DEF Tin, Sleep
  <2>3. Entered(t, Spare, p, Clock + d + 1, FALSE)
    BY <2>1, <2>2, InsertFacts
  <2>4. UNCHANGED <<pc, at, ptr>> /\ pc[t] = "run"
    BY <1>14 DEF Tin, Sleep, Runs
  <2>5. \A u \in Threads : at[u] # NULL => at[u] # Spare
    BY <2>3, HeldNodes DEF Entered
  <2>6. \A m \in Nodes : m # Spare => node'[m].wptr \in {node[m].wptr, NULL}
    BY <2>3 DEF Entered, Blank
  <2>7. \A u \in Threads : IsInjective(tq'[u])
    BY <1>1, <2>3 DEF Entered
  <2>8. \A u \in Threads : ToSet(tq[u]) \subseteq ToSet(tq'[u])
    BY <2>3 DEF Entered
  <2>9. \A u \in Threads : pc[u] # "run" => tq'[u] = tq[u]
    BY <2>3, <2>4 DEF Entered
  <2> QED
    BY <1>1, <2>4, <2>5, <2>6, <2>7, <2>8, <2>9
<1>15. ASSUME NEW t \in Threads, NEW p \in Procs, NEW d \in 0..MaxDelay,
             FastTin(t, p, d)
      PROVE  Lists'
  <2>1. Clock + d \in Times
    BY Delays
  <2>2. Insert(t, p, Clock + d, FALSE)
    BY <1>15 DEF FastTin, Sleep
  <2>3. Entered(t, Spare, p, Clock + d, FALSE)
    BY <2>1, <2>2, InsertFacts
  <2>4. UNCHANGED <<pc, at, ptr>> /\ pc[t] = "run"
    BY <1>15 DEF FastTin, Sleep, Runs
  <2>5. \A u \in Threads : at[u] # NULL => at[u] # Spare
    BY <2>3, HeldNodes DEF Entered
  <2>6. \A m \in Nodes : m # Spare => node'[m].wptr \in {node[m].wptr, NULL}
    BY <2>3 DEF Entered, Blank
  <2>7. \A u \in Threads : IsInjective(tq'[u])
    BY <1>1, <2>3 DEF Entered
  <2>8. \A u \in Threads : ToSet(tq[u]) \subseteq ToSet(tq'[u])
    BY <2>3 DEF Entered
  <2>9. \A u \in Threads : pc[u] # "run" => tq'[u] = tq[u]
    BY <2>3, <2>4 DEF Entered
  <2> QED
    BY <1>1, <2>4, <2>5, <2>6, <2>7, <2>8, <2>9
<1>16. ASSUME NEW t \in Threads, NEW p \in Procs, NEW d \in 0..MaxDelay,
             AltWait(t, p, d)
      PROVE  Lists'
  <2>1. Clock + d \in Times
    BY Delays
  <2>2. Insert(t, p, Clock + d, TRUE)
    BY <1>16 DEF AltWait, Sleep
  <2>3. Entered(t, Spare, p, Clock + d, TRUE)
    BY <2>1, <2>2, InsertFacts
  <2>4. UNCHANGED <<pc, at, ptr>> /\ pc[t] = "run"
    BY <1>16 DEF AltWait, Sleep, Runs
  <2>5. \A u \in Threads : at[u] # NULL => at[u] # Spare
    BY <2>3, HeldNodes DEF Entered
  <2>6. \A m \in Nodes : m # Spare => node'[m].wptr \in {node[m].wptr, NULL}
    BY <2>3 DEF Entered, Blank
  <2>7. \A u \in Threads : IsInjective(tq'[u])
    BY <1>1, <2>3 DEF Entered
  <2>8. \A u \in Threads : ToSet(tq[u]) \subseteq ToSet(tq'[u])
    BY <2>3 DEF Entered
  <2>9. \A u \in Threads : pc[u] # "run" => tq'[u] = tq[u]
    BY <2>3, <2>4 DEF Entered
  <2> QED
    BY <1>1, <2>4, <2>5, <2>6, <2>7, <2>8, <2>9
<1>17. ASSUME NEW p \in Procs, ChannelReady(p) PROVE Lists'
  BY <1>17, <1>1 DEF ChannelReady, Runs, Phase, Put
<1>18. ASSUME NEW t \in Threads, StartClean(t) PROVE Lists'
  <2>1. First(t) \in ToSet(tq[t]) /\ First(t) \in Nodes
    BY <1>18, HeldNodes DEF StartClean
  <2> QED
    BY <1>1, <1>18, <2>1 DEF StartClean, First
<1>19. ASSUME NEW t \in Threads, CleanNode(t) PROVE Lists'
  <2>1. at[t] \in ToSet(tq[t]) /\ at[t] \in Nodes
    BY <1>19, HeldNodes DEF CleanNode, TInv
  <2>2. NextNode(t, at[t]) # NULL => NextNode(t, at[t]) \in ToSet(tq[t]) \ {at[t]}
    BY <2>1, NextNodeFacts
  <2>3. CASE node[at[t]].wptr = NULL
    <3>1. Gone(t, at[t])
      BY <1>19, <2>1, <2>3, DeleteFacts DEF CleanNode
    <3>2. \A m \in Nodes : node'[m].wptr \in {node[m].wptr, NULL}
      BY <1>19, <2>1, <2>3, NodeChanges DEF CleanNode, Changed
    <3> QED
      BY <1>1, <1>19, <2>2, <3>1, <3>2 DEF CleanNode, Gone
  <2>4. CASE node[at[t]].wptr # NULL
    BY <1>1, <1>19, <2>2, <2>4 DEF CleanNode
  <2> QED
    BY <2>3, <2>4
<1>20. ASSUME NEW t \in Threads, Launder(t) PROVE Lists'
  <2>1. \A m \in Nodes : node'[m].wptr \in {node[m].wptr, NULL}
    <3>1. Washed \subseteq Nodes
      BY DEF Washed, TInv, TypeOK
    <3> QED
      BY <1>20, <3>1, NodesFreed DEF Launder, Blank
  <2>2. UNCHANGED <<tq, pc, at, ptr>>
    BY <1>20 DEF Launder
  <2> QED
    BY <1>1, <2>1, <2>2
<1>21. ASSUME NEW t \in Threads, StartWalk(t) PROVE Lists'
  BY <1>21, <1>1 DEF StartWalk, Runs, Phase, Put
<1>22. ASSUME NEW t \in Threads, WalkEnds(t) PROVE Lists'
  BY <1>22, <1>1 DEF WalkEnds, Runs, Phase, Put, Leave, NoTimeout
<1>23. ASSUME NEW t \in Threads, WalkWakes(t) PROVE Lists'
  <2>1. Gone(t, First(t))
    BY <1>23, BehindFacts DEF WalkWakes
  <2>2. \A m \in Nodes : node'[m].wptr \in {node[m].wptr, NULL}
    <3>1. node' = Blanked(node, {First(t)}) /\ {First(t)} \in SUBSET Nodes
      BY <1>23, <2>1 DEF WalkWakes, Gone
    <3> QED
      BY <3>1, NodesFreed DEF Blank
  <2>3. UNCHANGED <<pc, at, ptr>> /\ pc[t] = "look"
    BY <1>23 DEF WalkWakes
  <2> QED
    BY <1>1, <2>1, <2>2, <2>3 DEF Gone
<1>24. ASSUME NEW t \in Threads, WalkChallenges(t) PROVE Lists'
  <2>1. Gone(t, First(t))
    BY <1>24, BehindFacts DEF WalkChallenges
  <2>2. now[t] \in Times
    BY DEF TInv, TypeOK
  <2>3. \A m \in Nodes : node'[m].wptr \in {node[m].wptr, NULL}
    BY <1>24, <2>1, <2>2, NodeChanges DEF WalkChallenges, Gone, Changed
  <2>4. /\ pc' = [pc EXCEPT ![t] = "swap"] /\ at' = [at EXCEPT ![t] = First(t)] /\ UNCHANGED ptr
        /\ pc[t] = "look"
    BY <1>24 DEF WalkChallenges, On
  <2> QED
    BY <1>1, <2>1, <2>3, <2>4 DEF Gone
<1>25. ASSUME NEW t \in Threads, WalkSwaps(t) PROVE Lists'
  <2>1. at[t] \in Nodes
    BY <1>1, <1>25 DEF WalkSwaps
  <2>2. (\A m \in Nodes : node'[m].wptr \in {node[m].wptr, NULL}) /\ node'[at[t]].wptr = NULL
    BY <1>25, <2>1, NodeChanges DEF WalkSwaps, Changed
  <2>3. UNCHANGED <<tq, at>>
    BY <1>25 DEF WalkSwaps
  <2> QED
    BY <1>1, <1>25, <2>1, <2>2, <2>3 DEF WalkSwaps, On
<1>26. ASSUME NEW t \in Threads, WalkTriggers(t) PROVE Lists'
  BY <1>26, <1>1 DEF WalkTriggers, Runs, Phase, Put, On
<1>27. ASSUME NEW t \in Threads, WalkPassesDead(t) PROVE Lists'
  <2>1. Gone(t, First(t))
    BY <1>27, BehindFacts DEF WalkPassesDead
  <2> QED
    BY <1>1, <1>27, <2>1 DEF WalkPassesDead, Gone, On
<1>28. ASSUME NEW t \in Threads, WalkCleans(t) PROVE Lists'
  <2>1. at[t] \in Nodes
    BY <1>1, <1>28 DEF WalkCleans
  <2>2. \A m \in Nodes : node'[m].wptr \in {node[m].wptr, NULL}
    BY <1>28, <2>1, NodeChanges DEF WalkCleans, Changed
  <2>3. UNCHANGED <<tq, ptr>>
    BY <1>28 DEF WalkCleans
  <2> QED
    BY <1>1, <1>28, <2>1, <2>2, <2>3 DEF WalkCleans, On
<1>29. CASE Tick
  <2>1. /\ UNCHANGED <<tq, pc, at, ptr>>
        /\ \A m \in Nodes : node'[m].wptr = node[m].wptr
    BY <1>29, TickFacts
  <2> QED
    BY <1>1, <2>1
<1> QED
  BY <1>3, <1>4, <1>5, <1>6, <1>7, <1>8, <1>9, <1>10, <1>11, <1>12, <1>13, <1>14,
     <1>15, <1>16, <1>17, <1>18, <1>19, <1>20, <1>21, <1>22, <1>23, <1>24, <1>25,
     <1>26, <1>27, <1>28, <1>29
     DEF Next, Call, Walk

(* A node in a queue belongs to its thread, and no dirty node is lost from  *)
(* it.                                                                      *)
LEMMA HoldingStep == TInv /\ [Next]_vars => Holding'
<1> SUFFICES ASSUME TInv, [Next]_vars PROVE Holding'
  OBVIOUS
<1>1. /\ Holding /\ Lists /\ NULL \notin Threads \cup Procs \cup Nodes
      /\ at \in [Threads -> Nodes \cup {NULL}]
      /\ pc \in [Threads -> {"run", "tidy", "look", "swap", "trigger", "clean"}]
  BY NamesAssumption DEF TInv, TypeOK
<1>2. /\ \A p \in Procs : link[p] \in Nodes \cup {NULL}
      /\ \A t \in Threads : Held(t) \subseteq Nodes /\ ToSet(tq[t]) \subseteq Held(t)
      /\ \A n \in Nodes : node[n].dirty \in BOOLEAN /\ node[n].alt \in BOOLEAN
  BY HeldNodes DEF TInv, TypeOK
<1> USE DEF queues, memory, procs, walker
<1>3. CASE UNCHANGED vars
  BY <1>1, <1>3 DEF vars, Holding, Held
<1>4. ASSUME NEW t \in Threads, NEW p \in Procs, Dispatch(t, p) PROVE Holding'
  BY <1>4, <1>1 DEF Dispatch, Runs, Phase, Put, Holding, Held
<1>5. ASSUME NEW t \in Threads, NEW p \in Procs, Yield(t, p) PROVE Holding'
  BY <1>5, <1>1 DEF Yield, Runs, Phase, Put, Holding, Held
<1>6. ASSUME NEW t \in Threads, NEW p \in Procs, AltWaits(t, p) PROVE Holding'
  BY <1>6, <1>1 DEF AltWaits, Runs, Phase, Put, Holding, Held
<1>7. ASSUME NEW t \in Threads, NEW p \in Procs, AltGoesOn(t, p) PROVE Holding'
  <2>1. /\ link[p] \in ToSet(tq[t]) /\ link[p] \in Nodes
        /\ node[link[p]].scheduler = t
    BY <1>7, OwnNodeOfWaiter DEF AltGoesOn
  <2>2. Gone(t, link[p])
    BY <1>7, <2>1, DeleteFacts DEF AltGoesOn
  <2>3. /\ node'[link[p]] = Blank /\ \A m \in Nodes \ {link[p]} : node'[m] = node[m]
    BY <1>7, <2>1, NodesFreed DEF AltGoesOn
  <2>4. UNCHANGED <<pc, at>> /\ at[t] = NULL /\ free' = free \cup {link[p]}
    BY <1>1, <1>7 DEF AltGoesOn, Runs, Lists
  <2>5. Held(t)' = Held(t) \ {link[p]} /\ \A u \in Threads : u # t => Held(u)' = Held(u)
    BY <2>2, <2>4 DEF Gone, Held
  <2> QED
    BY <1>1, <1>2, <2>1, <2>3, <2>4, <2>5 DEF Holding, Blank
<1>8. ASSUME NEW t \in Threads, NEW p \in Procs, RemoveLocal(t, p) PROVE Holding'
  <2>1. CASE node[link[p]].wptr = NULL
    BY <1>1, <1>8, <2>1 DEF RemoveLocal, Holding, Held
  <2>2. CASE node[link[p]].wptr # NULL
    <3>1. link[p] # NULL
      BY <1>8 DEF RemoveLocal, Runs, TInv, Tasks, InAlt
    <3>2. link[p] \in ToSet(tq[t]) /\ link[p] \in Nodes
      BY <1>8, <2>2, <3>1, OwnNode DEF RemoveLocal, Runs
    <3>3. Gone(t, link[p])
      BY <1>8, <2>2, <3>2, DeleteFacts DEF RemoveLocal
    <3>4. Changed(link[p], node[link[p]].wptr, FALSE)
      BY <1>8, <2>2, <3>2, NodeChanges DEF RemoveLocal
    <3>5. UNCHANGED <<pc, at, free>> /\ at[t] = NULL /\ node[link[p]].scheduler = t
      BY <1>1, <1>8 DEF RemoveLocal, Runs, Lists
    <3>6. Held(t)' = Held(t) \ {link[p]} /\ \A u \in Threads : u # t => Held(u)' = Held(u)
      BY <3>3, <3>5 DEF Gone, Held
    <3> QED
      BY <1>1, <1>2, <3>2, <3>4, <3>5, <3>6 DEF Holding, Changed
  <2> QED
    BY <2>1, <2>2
<1>9. ASSUME NEW t \in Threads, NEW p \in Procs, LookRemote(t, p) PROVE Holding'
  BY <1>9, <1>1 DEF LookRemote, Runs, Phase, Put, Settle, Holding, Held
<1>10. ASSUME NEW t \in Threads, NEW p \in Procs, SwapRemote(t, p) PROVE Holding'
  <2>1. link[p] \in Nodes /\ node[link[p]].alt
    BY <1>1, <1>2, <1>10 DEF SwapRemote, Runs, TInv, Tasks, InAlt, Memory
  <2>2. Changed(link[p], NULL, node[link[p]].dirty)
    BY <1>10, <2>1, NodeChanges DEF SwapRemote
  <2>3. UNCHANGED <<tq, pc, at, free>>
    BY <1>10 DEF SwapRemote
  <2>4. \A u \in Threads : Held(u)' = Held(u)
    BY <2>3 DEF Held
  <2>8. ASSUME NEW u \in Threads, NEW m \in Held(u)'
        PROVE  (/\ node[m].scheduler = u /\ m \notin free
                /\ node[m].alt <=> node[m].dirty
                /\ node[m].alt \/ (node[m].wptr # NULL /\ (m = at[u] => pc[u] = "tidy")))'
    <3>1. /\ m \in Nodes /\ node[m].scheduler = u /\ m \notin free
             /\ (node[m].alt <=> node[m].dirty)
          /\ node[m].alt \/ (node[m].wptr # NULL /\ (m = at[u] => pc[u] = "tidy"))
      BY <1>1, <1>2, <2>4, <2>8 DEF Holding
    <3>2. CASE m = link[p]
      BY <2>1, <2>2, <2>3, <3>1, <3>2 DEF Changed
    <3>3. CASE m # link[p]
      BY <1>1, <2>1, <2>2, <2>3, <2>8, <3>1, <3>3 DEF Changed
    <3> QED
      BY <3>2, <3>3
  <2>9. ASSUME NEW m \in Nodes, node'[m].dirty
        PROVE  (node[m].scheduler \in Threads /\ m \in Held(node[m].scheduler))'
    <3>1. node[m].dirty /\ node'[m].scheduler = node[m].scheduler
      BY <2>1, <2>2, <2>3, <2>9 DEF Changed
    <3> QED
      BY <1>1, <2>4, <3>1 DEF Holding, Held
  <2> QED
    BY <2>8, <2>9 DEF Holding
<1>11. ASSUME NEW t \in Threads, NEW p \in Procs, TellOwner(t, p) PROVE Holding'
  BY <1>11, <1>1 DEF TellOwner, Runs, Phase, Put, Settle, Holding, Held
<1>12. ASSUME NEW t \in Threads, NEW p \in Procs, Release(t, p) PROVE Holding'
  <2>1. link[p] \in Nodes /\ node[link[p]].alt
    BY <1>1, <1>2, <1>12 DEF Release, Runs, TInv, Tasks, InAlt, Memory
  <2>2. UNCHANGED <<tq, pc, at>>
    BY <1>12 DEF Release
  <2>3. \A u \in Threads : Held(u)' = Held(u)
    BY <2>2 DEF Held
  <2>4. CASE node[link[p]].dirty
    BY <1>1, <1>12, <2>2, <2>3, <2>4 DEF Release, Holding
  <2>5. CASE ~node[link[p]].dirty
    <3>1. \A u \in Threads : link[p] \notin Held(u)
      BY <1>1, <1>2, <2>1, <2>5 DEF Holding
    <3>2. /\ node'[link[p]] = Blank /\ \A m \in Nodes \ {link[p]} : node'[m] = node[m]
          /\ free' = free \cup {link[p]}
      BY <1>12, <2>1, <2>5, NodesFreed DEF Release
    <3> QED
      BY <1>1, <1>2, <2>1, <2>2, <2>3, <3>1, <3>2 DEF Holding, Blank
  <2> QED
    BY <2>4, <2>5
<1>13. ASSUME NEW t \in Threads, NEW p \in Procs, AltEnd(t, p) PROVE Holding'
  BY <1>13, <1>1 DEF AltEnd, Runs, Phase, Put, Holding, Held
<1>14. ASSUME NEW t \in Threads, NEW p \in Procs, NEW d \in 0..MaxDelay,
             Tin(t, p, d)
      PROVE  Holding'
  <2>1. Clock + d + 1 \in Times
    BY Delays
  <2>2. Insert(t, p, Clock + d + 1, FALSE)
    BY <1>14 DEF Tin, Sleep
  <2>3. Entered(t, Spare, p, Clock + d + 1, FALSE)
    BY <2>1, <2>2, InsertFacts
  <2>4. UNCHANGED <<pc, at>> /\ pc[t] = "run"
    BY <1>14 DEF Tin, Sleep, Runs
  <2>5. Held(t)' = Held(t) \cup {Spare} /\ \A u \in Threads : u # t => Held(u)' = Held(u)
    BY <2>3, <2>4 DEF Entered, Held
  <2>6. at[t] = NULL /\ Spare \in Nodes /\ Spare \notin free'
    BY <1>1, <2>3, <2>4 DEF Lists, Entered
  <2>7. ASSUME NEW u \in Threads, NEW m \in Held(u)
        PROVE m \in Nodes /\ m # Spare /\ node'[m] = node[m] /\ m \notin free'
    BY <1>1, <1>2, <2>3, <2>7 DEF Entered, Holding
  <2>8. node'[Spare].scheduler = t /\ node'[Spare].alt = FALSE /\ node'[Spare].dirty = FALSE
        /\ node'[Spare].wptr = p
    BY <2>3 DEF Entered
  <2>9. \A m \in Nodes : m # Spare => node'[m] = node[m] \/ ~node'[m].dirty
    BY <2>3 DEF Entered, Blank
  <2> QED
    BY <1>1, <1>2, <2>4, <2>5, <2>6, <2>7, <2>8, <2>9 DEF Holding
<1>15. ASSUME NEW t \in Threads, NEW p \in Procs, NEW d \in 0..MaxDelay,
             FastTin(t, p, d)
      PROVE  Holding'
  <2>1. Clock + d \in Times
    BY Delays
  <2>2. Insert(t, p, Clock + d, FALSE)
    BY <1>15 DEF FastTin, Sleep
  <2>3. Entered(t, Spare, p, Clock + d, FALSE)
    BY <2>1, <2>2, InsertFacts
  <2>4. UNCHANGED <<pc, at>> /\ pc[t] = "run"
    BY <1>15 DEF FastTin, Sleep, Runs
  <2>5. Held(t)' = Held(t) \cup {Spare} /\ \A u \in Threads : u # t => Held(u)' = Held(u)
    BY <2>3, <2>4 DEF Entered, Held
  <2>6. at[t] = NULL /\ Spare \in Nodes /\ Spare \notin free'
    BY <1>1, <2>3, <2>4 DEF Lists, Entered
  <2>7. ASSUME NEW u \in Threads, NEW m \in Held(u)
        PROVE m \in Nodes /\ m # Spare /\ node'[m] = node[m] /\ m \notin free'
    BY <1>1, <1>2, <2>3, <2>7 DEF Entered, Holding
  <2>8. node'[Spare].scheduler = t /\ node'[Spare].alt = FALSE /\ node'[Spare].dirty = FALSE
        /\ node'[Spare].wptr = p
    BY <2>3 DEF Entered
  <2>9. \A m \in Nodes : m # Spare => node'[m] = node[m] \/ ~node'[m].dirty
    BY <2>3 DEF Entered, Blank
  <2> QED
    BY <1>1, <1>2, <2>4, <2>5, <2>6, <2>7, <2>8, <2>9 DEF Holding
<1>16. ASSUME NEW t \in Threads, NEW p \in Procs, NEW d \in 0..MaxDelay,
             AltWait(t, p, d)
      PROVE  Holding'
  <2>1. Clock + d \in Times
    BY Delays
  <2>2. Insert(t, p, Clock + d, TRUE)
    BY <1>16 DEF AltWait, Sleep
  <2>3. Entered(t, Spare, p, Clock + d, TRUE)
    BY <2>1, <2>2, InsertFacts
  <2>4. UNCHANGED <<pc, at>> /\ pc[t] = "run"
    BY <1>16 DEF AltWait, Sleep, Runs
  <2>5. Held(t)' = Held(t) \cup {Spare} /\ \A u \in Threads : u # t => Held(u)' = Held(u)
    BY <2>3, <2>4 DEF Entered, Held
  <2>6. at[t] = NULL /\ Spare \in Nodes /\ Spare \notin free'
    BY <1>1, <2>3, <2>4 DEF Lists, Entered
  <2>7. ASSUME NEW u \in Threads, NEW m \in Held(u)
        PROVE m \in Nodes /\ m # Spare /\ node'[m] = node[m] /\ m \notin free'
    BY <1>1, <1>2, <2>3, <2>7 DEF Entered, Holding
  <2>8. node'[Spare].scheduler = t /\ node'[Spare].alt = TRUE /\ node'[Spare].dirty = TRUE
        /\ node'[Spare].wptr = p
    BY <2>3 DEF Entered
  <2>9. \A m \in Nodes : m # Spare => node'[m] = node[m] \/ ~node'[m].dirty
    BY <2>3 DEF Entered, Blank
  <2> QED
    BY <1>1, <1>2, <2>4, <2>5, <2>6, <2>7, <2>8, <2>9 DEF Holding
<1>17. ASSUME NEW p \in Procs, ChannelReady(p) PROVE Holding'
  BY <1>17, <1>1 DEF ChannelReady, Runs, Phase, Put, Holding, Held
<1>18. ASSUME NEW t \in Threads, StartClean(t) PROVE Holding'
  <2>1. First(t) \in ToSet(tq[t]) /\ First(t) \in Nodes
    BY <1>18, HeldNodes DEF StartClean
  <2>2. at[t] = NULL
    BY <1>1, <1>18 DEF StartClean, Lists
  <2>3. at' = [at EXCEPT ![t] = First(t)] /\ UNCHANGED <<tq, node, free>>
        /\ pc' = [pc EXCEPT ![t] = "tidy"]
    BY <1>18 DEF StartClean, First
  <2>4. \A u \in Threads : Held(u)' = Held(u)
    BY <1>1, <2>1, <2>2, <2>3 DEF Held
  <2> QED
    BY <1>1, <2>3, <2>4 DEF Holding
<1>19. ASSUME NEW t \in Threads, CleanNode(t) PROVE Holding'
  <2>1. /\ at[t] \in ToSet(tq[t]) /\ at[t] \in Nodes /\ at[t] \in Held(t)
        /\ node[at[t]].scheduler = t
    BY <1>19, <1>1, HeldNodes DEF CleanNode, Lists, Holding
  <2> DEFINE x == NextNode(t, at[t])
  <2>2. x # NULL => x \in ToSet(tq[t]) \ {at[t]}
    BY <2>1, NextNodeFacts
  <2>3. /\ at' = [at EXCEPT ![t] = x] /\ UNCHANGED free
        /\ pc' = [pc EXCEPT ![t] = IF x = NULL THEN "run" ELSE "tidy"]
    BY <1>19 DEF CleanNode
  <2>3a. pc[t] = "tidy"
    BY <1>19 DEF CleanNode
  <2> HIDE DEF x
  <2>4. CASE node[at[t]].wptr = NULL
    <3>1. Gone(t, at[t])
      BY <1>19, <2>1, <2>4, DeleteFacts DEF CleanNode
    <3>2. Changed(at[t], NULL, FALSE)
      BY <1>19, <2>1, <2>4, NodeChanges DEF CleanNode
    <3>3. Held(t)' = Held(t) \ {at[t]} /\ \A u \in Threads : u # t => Held(u)' = Held(u)
      BY <1>1, <2>1, <2>2, <2>3, <3>1 DEF Gone, Held
    <3> QED
      BY <1>1, <1>2, <2>1, <2>3, <2>3a, <3>2, <3>3 DEF Holding, Changed
  <2>5. CASE node[at[t]].wptr # NULL
    <3>1. UNCHANGED <<tq, node>>
      BY <1>19, <2>5 DEF CleanNode
    <3>2. \A u \in Threads : Held(u)' = Held(u)
      BY <1>1, <2>1, <2>2, <2>3, <3>1 DEF Held
    <3> QED
      BY <1>1, <1>2, <2>3, <2>3a, <3>1, <3>2 DEF Holding
  <2> QED
    BY <2>4, <2>5
<1>20. ASSUME NEW t \in Threads, Launder(t) PROVE Holding'
  <2>1. \A m \in Washed : m \in Nodes /\ \A u \in Threads : m \notin Held(u)
    BY Unheld
  <2>2. /\ \A m \in Washed : node'[m] = Blank
        /\ \A m \in Nodes \ Washed : node'[m] = node[m]
    <3>1. Washed \in SUBSET Nodes
      BY <2>1
    <3> QED
      BY <1>20, <3>1, NodesFreed DEF Launder
  <2>3. UNCHANGED <<tq, pc, at>> /\ free' = free \cup Washed
    BY <1>20 DEF Launder
  <2>4. \A u \in Threads : Held(u)' = Held(u)
    BY <2>3 DEF Held
  <2> QED
    BY <1>1, <1>2, <2>1, <2>2, <2>3, <2>4 DEF Holding, Blank
<1>21. ASSUME NEW t \in Threads, StartWalk(t) PROVE Holding'
  <2>1. UNCHANGED <<tq, at, free, node>> /\ pc' = [pc EXCEPT ![t] = "look"] /\ pc[t] = "run"
        /\ at[t] = NULL
    BY <1>1, <1>21 DEF StartWalk, Lists
  <2>2. \A u \in Threads : Held(u)' = Held(u)
    BY <2>1 DEF Held
  <2> QED
    BY <1>1, <1>2, <2>1, <2>2 DEF Holding
<1>22. ASSUME NEW t \in Threads, WalkEnds(t) PROVE Holding'
  <2>1. UNCHANGED <<tq, at, free, node>> /\ pc' = [pc EXCEPT ![t] = "run"] /\ at[t] = NULL
    BY <1>1, <1>22 DEF WalkEnds, Leave, Lists
  <2>2. \A u \in Threads : Held(u)' = Held(u)
    BY <2>1 DEF Held
  <2> QED
    BY <1>1, <1>2, <2>1, <2>2 DEF Holding
<1>23. ASSUME NEW t \in Threads, WalkWakes(t) PROVE Holding'
  <2>1. Gone(t, First(t))
    BY <1>23, BehindFacts DEF WalkWakes
  <2>2. /\ node'[First(t)] = Blank /\ \A m \in Nodes \ {First(t)} : node'[m] = node[m]
    <3>1. node' = Blanked(node, {First(t)}) /\ {First(t)} \in SUBSET Nodes
      BY <1>23, <2>1 DEF WalkWakes, Gone
    <3> QED
      BY <3>1, NodesFreed
  <2>3. UNCHANGED <<pc, at>> /\ at[t] = NULL /\ free' = free \cup {First(t)}
    BY <1>23, <1>1 DEF WalkWakes, Lists
  <2>4. Held(t)' = Held(t) \ {First(t)} /\ \A u \in Threads : u # t => Held(u)' = Held(u)
    BY <2>1, <2>3 DEF Gone, Held
  <2>5. First(t) \in Nodes /\ node[First(t)].scheduler = t
    BY <1>1, <1>2, <2>1 DEF Gone, Holding
  <2> QED
    BY <1>1, <1>2, <2>2, <2>3, <2>4, <2>5 DEF Holding, Blank
<1>24. ASSUME NEW t \in Threads, WalkChallenges(t) PROVE Holding'
  <2>1. Gone(t, First(t))
    BY <1>24, BehindFacts DEF WalkChallenges
  <2>2. now[t] \in Times
    BY DEF TInv, TypeOK
  <2>3. Changed(First(t), node[First(t)].wptr, node[First(t)].dirty)
    BY <1>24, <2>1, <2>2, NodeChanges DEF WalkChallenges, Gone
  <2>4. /\ pc' = [pc EXCEPT ![t] = "swap"] /\ at' = [at EXCEPT ![t] = First(t)]
        /\ pc[t] = "look" /\ UNCHANGED free /\ at[t] = NULL /\ node[First(t)].alt
    BY <1>24, <1>1 DEF WalkChallenges, On, Lists
  <2>5. \A u \in Threads : Held(u)' = Held(u)
    BY <1>1, <2>1, <2>4 DEF Held, Gone
  <2>6. First(t) \in Nodes
    BY <2>1 DEF Gone
  <2>8. ASSUME NEW u \in Threads, NEW m \in Held(u)'
        PROVE  (/\ node[m].scheduler = u /\ m \notin free
                /\ node[m].alt <=> node[m].dirty
                /\ node[m].alt \/ (node[m].wptr # NULL /\ (m = at[u] => pc[u] = "tidy")))'
    <3>1. /\ m \in Nodes /\ node[m].scheduler = u /\ m \notin free
             /\ (node[m].alt <=> node[m].dirty)
          /\ node[m].alt \/ (node[m].wptr # NULL /\ (m = at[u] => pc[u] = "tidy"))
      BY <1>1, <1>2, <2>5, <2>8 DEF Holding
    <3>2. CASE m = First(t)
      BY <2>3, <2>4, <2>6, <3>1, <3>2 DEF Changed
    <3>3. CASE m # First(t)
      BY <1>1, <2>3, <2>4, <2>6, <2>8, <3>1, <3>3 DEF Changed
    <3> QED
      BY <3>2, <3>3
  <2>9. ASSUME NEW m \in Nodes, node'[m].dirty
        PROVE  (node[m].scheduler \in Threads /\ m \in Held(node[m].scheduler))'
    <3>1. node[m].dirty /\ node'[m].scheduler = node[m].scheduler
      BY <2>3, <2>4, <2>6, <2>9 DEF Changed
    <3> QED
      BY <1>1, <2>5, <3>1 DEF Holding, Held
  <2> QED
    BY <2>8, <2>9 DEF Holding
<1>25. ASSUME NEW t \in Threads, WalkSwaps(t) PROVE Holding'
  <2>1. at[t] \in Nodes /\ at[t] \in Held(t) /\ pc[t] = "swap"
    BY <1>1, <1>25 DEF WalkSwaps, Lists, Held
  <2>2. Changed(at[t], NULL, node[at[t]].dirty)
    BY <1>25, <2>1, NodeChanges DEF WalkSwaps
  <2>3. UNCHANGED <<tq, at, free>> /\ pc'[t] # "tidy"
        /\ \A u \in Threads : u # t => pc'[u] = pc[u]
    BY <1>1, <1>25 DEF WalkSwaps, On
  <2>4. node[at[t]].alt
    BY <1>1, <2>1 DEF Holding
  <2>5. \A u \in Threads : Held(u)' = Held(u)
    BY <2>3 DEF Held
  <2>8. ASSUME NEW u \in Threads, NEW m \in Held(u)'
        PROVE  (/\ node[m].scheduler = u /\ m \notin free
                /\ node[m].alt <=> node[m].dirty
                /\ node[m].alt \/ (node[m].wptr # NULL /\ (m = at[u] => pc[u] = "tidy")))'
    <3>1. /\ m \in Nodes /\ node[m].scheduler = u /\ m \notin free
             /\ (node[m].alt <=> node[m].dirty)
          /\ node[m].alt \/ (node[m].wptr # NULL /\ (m = at[u] => pc[u] = "tidy"))
      BY <1>1, <1>2, <2>5, <2>8 DEF Holding
    <3>2. CASE m = at[t]
      BY <2>1, <2>2, <2>3, <2>4, <3>1, <3>2 DEF Changed
    <3>3. CASE m # at[t]
      BY <1>1, <2>1, <2>2, <2>3, <2>4, <2>8, <3>1, <3>3 DEF Changed
    <3> QED
      BY <3>2, <3>3
  <2>9. ASSUME NEW m \in Nodes, node'[m].dirty
        PROVE  (node[m].scheduler \in Threads /\ m \in Held(node[m].scheduler))'
    <3>1. node[m].dirty /\ node'[m].scheduler = node[m].scheduler
      BY <2>1, <2>2, <2>3, <2>4, <2>9 DEF Changed
    <3> QED
      BY <1>1, <2>5, <3>1 DEF Holding, Held
  <2> QED
    BY <2>8, <2>9 DEF Holding
<1>26. ASSUME NEW t \in Threads, WalkTriggers(t) PROVE Holding'
  <2>1. UNCHANGED <<tq, at, free, node>> /\ pc' = [pc EXCEPT ![t] = "clean"]
        /\ pc[t] = "trigger"
    BY <1>26 DEF WalkTriggers, On
  <2>2. \A u \in Threads : Held(u)' = Held(u)
    BY <2>1 DEF Held
  <2> QED
    BY <1>1, <2>1, <2>2 DEF Holding
<1>27. ASSUME NEW t \in Threads, WalkPassesDead(t) PROVE Holding'
  <2>1. Gone(t, First(t))
    BY <1>27, BehindFacts DEF WalkPassesDead
  <2>2. /\ pc' = [pc EXCEPT ![t] = "clean"] /\ at' = [at EXCEPT ![t] = First(t)]
        /\ pc[t] = "look" /\ UNCHANGED <<node, free>> /\ at[t] = NULL /\ node[First(t)].wptr = NULL
    BY <1>27, <1>1 DEF WalkPassesDead, On, Lists
  <2>3. \A u \in Threads : Held(u)' = Held(u)
    BY <1>1, <2>1, <2>2 DEF Held, Gone
  <2>4. node[First(t)].alt
    BY <1>1, <1>2, <2>1, <2>2 DEF Holding, Gone
  <2> QED
    BY <1>1, <1>2, <2>2, <2>3, <2>4 DEF Holding
<1>28. ASSUME NEW t \in Threads, WalkCleans(t) PROVE Holding'
  <2>1. at[t] \in Nodes /\ at[t] \in Held(t) /\ at[t] \notin ToSet(tq[t])
        /\ node[at[t]].scheduler = t
    BY <1>1, <1>28 DEF WalkCleans, Lists, Held, Holding
  <2>2. Changed(at[t], node[at[t]].wptr, FALSE)
    BY <1>28, <2>1, NodeChanges DEF WalkCleans
  <2>3. /\ UNCHANGED <<tq, free>> /\ pc' = [pc EXCEPT ![t] = "look"]
           /\ at' = [at EXCEPT ![t] = NULL]
    BY <1>28 DEF WalkCleans, On
  <2>4. Held(t)' = Held(t) \ {at[t]} /\ \A u \in Threads : u # t => Held(u)' = Held(u)
    BY <1>1, <2>1, <2>3 DEF Held
  <2> QED
    BY <1>1, <1>2, <2>1, <2>2, <2>3, <2>4 DEF Holding, Changed
<1>29. CASE Tick
  <2>1. /\ UNCHANGED <<tq, pc, at, free>>
        /\ \A m \in Nodes : /\ node'[m].wptr = node[m].wptr /\ node'[m].alt = node[m].alt
                            /\ node'[m].dirty = node[m].dirty
                            /\ node'[m].scheduler = node[m].scheduler
    BY <1>29, TickFacts
  <2>2. \A u \in Threads : Held(u)' = Held(u)
    BY <2>1 DEF Held
  <2> QED
    BY <1>1, <1>2, <2>1, <2>2 DEF Holding
<1> QED
  BY <1>3, <1>4, <1>5, <1>6, <1>7, <1>8, <1>9, <1>10, <1>11, <1>12, <1>13, <1>14,
     <1>15, <1>16, <1>17, <1>18, <1>19, <1>20, <1>21, <1>22, <1>23, <1>24, <1>25,
     <1>26, <1>27, <1>28, <1>29
     DEF Next, Call, Walk

(* A node that loses its process or its mark keeps its place in memory.     *)
LEMMA MemoryKept ==
  ASSUME TInv, NEW n \in Nodes, n \notin free, NEW w \in {node[n].wptr, NULL}, NEW d,
         Changed(n, w, d), UNCHANGED <<free, laundry, link>>
  PROVE  Memory'
<1>1. Memory /\ free \subseteq Nodes /\ laundry \subseteq Nodes
      /\ link \in [Procs -> Nodes \cup {NULL}]
  BY DEF TInv, TypeOK
<1>2. \A m \in Nodes : /\ m \in free => node'[m] = node[m]
                       /\ node'[m].alt = node[m].alt
                       /\ node'[m].scheduler = node[m].scheduler
                       /\ node'[m].wptr \in {node[m].wptr, NULL}
  BY DEF Changed
<1> QED
  BY ONLY <1>1, <1>2, UNCHANGED <<free, laundry, link>> DEF Memory

(* The memory of a node is free, in the laundry, in a queue, or some ALT's. *)
LEMMA MemoryStep == TInv /\ [Next]_vars => Memory'
<1> SUFFICES ASSUME TInv, [Next]_vars PROVE Memory'
  OBVIOUS
<1>1. /\ Memory /\ NULL \notin Threads \cup Procs \cup Nodes
      /\ free \subseteq Nodes /\ laundry \subseteq Nodes /\ link \in [Procs -> Nodes \cup {NULL}]
      /\ phase \in [Procs -> Phases]
  BY NamesAssumption DEF TInv, TypeOK
<1> USE DEF queues, memory, procs, walker
<1>2. CASE UNCHANGED vars
  BY <1>1, <1>2 DEF vars, Memory
<1>3. ASSUME NEW t \in Threads, NEW p \in Procs, Dispatch(t, p) PROVE Memory'
  BY <1>3, <1>1 DEF Dispatch, Runs, Phase, Put, Memory
<1>4. ASSUME NEW t \in Threads, NEW p \in Procs, Yield(t, p) PROVE Memory'
  BY <1>4, <1>1 DEF Yield, Runs, Phase, Put, Memory
<1>5. ASSUME NEW t \in Threads, NEW p \in Procs, AltWaits(t, p) PROVE Memory'
  BY <1>5, <1>1 DEF AltWaits, Runs, Phase, Put, Memory
<1>6. ASSUME NEW t \in Threads, NEW p \in Procs, AltGoesOn(t, p) PROVE Memory'
  <2>1. link[p] \in Nodes
    BY <1>6, OwnNodeOfWaiter DEF AltGoesOn
  <2>2. /\ node'[link[p]] = Blank /\ \A m \in Nodes \ {link[p]} : node'[m] = node[m]
    BY <1>6, <2>1, NodesFreed DEF AltGoesOn
  <2>3. /\ link' = [link EXCEPT ![p] = NULL] /\ free' = free \cup {link[p]} /\ UNCHANGED laundry
    BY <1>6 DEF AltGoesOn
  <2> QED
    BY <1>1, <2>1, <2>2, <2>3 DEF Memory
<1>7. ASSUME NEW t \in Threads, NEW p \in Procs, RemoveLocal(t, p) PROVE Memory'
  <2>1. CASE node[link[p]].wptr = NULL
    BY <1>1, <1>7, <2>1 DEF RemoveLocal, Memory
  <2>2. CASE node[link[p]].wptr # NULL
    <3>1. link[p] \in Nodes \ free
      BY <1>1, <1>7 DEF RemoveLocal, Runs, TInv, Tasks, InAlt, Memory
    <3>2. Changed(link[p], node[link[p]].wptr, FALSE)
      BY <1>7, <2>2, <3>1, NodeChanges DEF RemoveLocal
    <3>3. UNCHANGED <<free, laundry, link>>
      BY <1>7 DEF RemoveLocal
    <3> QED
      BY <3>1, <3>2, <3>3, MemoryKept
  <2> QED
    BY <2>1, <2>2
<1>8. ASSUME NEW t \in Threads, NEW p \in Procs, LookRemote(t, p) PROVE Memory'
  BY <1>8, <1>1 DEF LookRemote, Runs, Phase, Put, Settle, Memory
<1>9. ASSUME NEW t \in Threads, NEW p \in Procs, SwapRemote(t, p) PROVE Memory'
  <2>1. link[p] \in Nodes \ free
    BY <1>1, <1>9 DEF SwapRemote, Runs, TInv, Tasks, InAlt, Memory
  <2>2. Changed(link[p], NULL, node[link[p]].dirty)
    BY <1>9, <2>1, NodeChanges DEF SwapRemote
  <2>3. UNCHANGED <<free, laundry, link>>
    BY <1>9 DEF SwapRemote
  <2> QED
    BY <2>1, <2>2, <2>3, MemoryKept
<1>10. ASSUME NEW t \in Threads, NEW p \in Procs, TellOwner(t, p) PROVE Memory'
  BY <1>10, <1>1 DEF TellOwner, Runs, Phase, Put, Settle, Memory
<1>11. ASSUME NEW t \in Threads, NEW p \in Procs, Release(t, p) PROVE Memory'
  <2>1. /\ phase[p] = "release" /\ link[p] \in Nodes /\ link[p] \notin free \cup laundry
        /\ node[link[p]].alt
    BY <1>1, <1>11 DEF Release, Runs, TInv, Tasks, InAlt, Memory
  <2>2. link' = [link EXCEPT ![p] = NULL]
    BY <1>11 DEF Release
  <2>3. CASE node[link[p]].dirty
    <3>1. node[link[p]].wptr = NULL
      <4>1. node[link[p]].wptr \in {p, NULL}
        BY <1>1, <2>1 DEF Memory
      <4> QED
        BY <1>1, <2>1, <2>3, <4>1 DEF TInv, Pointers
    <3>2. laundry' = laundry \cup {link[p]} /\ UNCHANGED <<free, node>>
      BY <1>11, <2>3 DEF Release
    <3> QED
      BY <1>1, <2>1, <2>2, <3>1, <3>2 DEF Memory
  <2>4. CASE ~node[link[p]].dirty
    <3>1. /\ node'[link[p]] = Blank /\ \A m \in Nodes \ {link[p]} : node'[m] = node[m]
          /\ free' = free \cup {link[p]} /\ UNCHANGED laundry
      BY <1>11, <2>1, <2>4, NodesFreed DEF Release
    <3> QED
      BY <1>1, <2>1, <2>2, <3>1 DEF Memory
  <2> QED
    BY <2>3, <2>4
<1>12. ASSUME NEW t \in Threads, NEW p \in Procs, AltEnd(t, p) PROVE Memory'
  BY <1>12, <1>1 DEF AltEnd, Runs, Phase, Put, Memory
<1>13. ASSUME NEW t \in Threads, NEW p \in Procs, NEW d \in 0..MaxDelay,
             Tin(t, p, d)
      PROVE  Memory'
  <2>1. Clock + d + 1 \in Times
    BY Delays
  <2>2. Insert(t, p, Clock + d + 1, FALSE)
    BY <1>13 DEF Tin, Sleep
  <2>3. Entered(t, Spare, p, Clock + d + 1, FALSE)
    BY <2>1, <2>2, InsertFacts
  <2>4. UNCHANGED link
    BY <1>13 DEF Tin, Sleep
  <2>5. \A m \in free' : node'[m] = Blank
    BY <1>1, <2>3 DEF Entered, Memory
  <2>6. \A m \in laundry' : node'[m].alt /\ node'[m].wptr = NULL
    BY <1>1, <2>3 DEF Entered, Memory
  <2>7. \A q \in Procs : link[q] # NULL =>
          link[q] # Spare /\ link[q] \notin free' \cup laundry' /\ node'[link[q]] = node[link[q]]
    BY <1>1, <2>3 DEF Entered, Memory
  <2> QED
    BY <1>1, <2>3, <2>4, <2>5, <2>6, <2>7 DEF Entered, Memory
<1>14. ASSUME NEW t \in Threads, NEW p \in Procs, NEW d \in 0..MaxDelay,
             FastTin(t, p, d)
      PROVE  Memory'
  <2>1. Clock + d \in Times
    BY Delays
  <2>2. Insert(t, p, Clock + d, FALSE)
    BY <1>14 DEF FastTin, Sleep
  <2>3. Entered(t, Spare, p, Clock + d, FALSE)
    BY <2>1, <2>2, InsertFacts
  <2>4. UNCHANGED link
    BY <1>14 DEF FastTin, Sleep
  <2>5. \A m \in free' : node'[m] = Blank
    BY <1>1, <2>3 DEF Entered, Memory
  <2>6. \A m \in laundry' : node'[m].alt /\ node'[m].wptr = NULL
    BY <1>1, <2>3 DEF Entered, Memory
  <2>7. \A q \in Procs : link[q] # NULL =>
          link[q] # Spare /\ link[q] \notin free' \cup laundry' /\ node'[link[q]] = node[link[q]]
    BY <1>1, <2>3 DEF Entered, Memory
  <2> QED
    BY <1>1, <2>3, <2>4, <2>5, <2>6, <2>7 DEF Entered, Memory
<1>15. ASSUME NEW t \in Threads, NEW p \in Procs, NEW d \in 0..MaxDelay,
             AltWait(t, p, d)
      PROVE  Memory'
  <2>1. Clock + d \in Times
    BY Delays
  <2>2. Insert(t, p, Clock + d, TRUE)
    BY <1>15 DEF AltWait, Sleep
  <2>3. Entered(t, Spare, p, Clock + d, TRUE)
    BY <2>1, <2>2, InsertFacts
  <2>4. link' = [link EXCEPT ![p] = Spare]
    BY <1>15 DEF AltWait, Sleep
  <2>5. \A m \in free' : node'[m] = Blank
    BY <1>1, <2>3 DEF Entered, Memory
  <2>6. \A m \in laundry' : node'[m].alt /\ node'[m].wptr = NULL
    BY <1>1, <2>3 DEF Entered, Memory
  <2>7. \A q \in Procs : link[q] # NULL =>
          link[q] # Spare /\ link[q] \notin free' \cup laundry' /\ node'[link[q]] = node[link[q]]
    BY <1>1, <2>3 DEF Entered, Memory
  <2> QED
    BY <1>1, <2>3, <2>4, <2>5, <2>6, <2>7 DEF Entered, Memory
<1>16. ASSUME NEW p \in Procs, ChannelReady(p) PROVE Memory'
  BY <1>16, <1>1 DEF ChannelReady, Runs, Phase, Put, Memory
<1>17. ASSUME NEW t \in Threads, StartClean(t) PROVE Memory'
  BY <1>17, <1>1 DEF StartClean, Runs, Phase, Put, Memory
<1>18. ASSUME NEW t \in Threads, CleanNode(t) PROVE Memory'
  <2>1. at[t] \in ToSet(tq[t]) /\ at[t] \in Nodes \ free
    BY <1>18, HeldNodes DEF CleanNode, TInv, Lists, Holding
  <2>2. UNCHANGED <<free, laundry, link>>
    BY <1>18 DEF CleanNode
  <2>3. CASE node[at[t]].wptr = NULL
    <3>1. Changed(at[t], node[at[t]].wptr, FALSE)
      BY <1>18, <2>1, <2>3, NodeChanges DEF CleanNode
    <3> QED
      BY <2>1, <2>2, <3>1, MemoryKept
  <2>4. CASE node[at[t]].wptr # NULL
    BY <1>1, <1>18, <2>2, <2>4 DEF CleanNode, Memory
  <2> QED
    BY <2>3, <2>4
<1>19. ASSUME NEW t \in Threads, Launder(t) PROVE Memory'
  <2>1. \A m \in Washed : m \in laundry /\ m \in Nodes /\ \A q \in Procs : link[q] # m
    BY <1>1, Unheld DEF Washed
  <2>2. /\ \A m \in Washed : node'[m] = Blank
        /\ \A m \in Nodes \ Washed : node'[m] = node[m]
    <3>1. Washed \in SUBSET Nodes
      BY <2>1
    <3> QED
      BY <1>19, <3>1, NodesFreed DEF Launder
  <2>3. free' = free \cup Washed /\ laundry' = laundry \ Washed /\ UNCHANGED link
    BY <1>19 DEF Launder
  <2> QED
    BY <1>1, <2>1, <2>2, <2>3 DEF Memory
<1>20. ASSUME NEW t \in Threads, StartWalk(t) PROVE Memory'
  BY <1>20, <1>1 DEF StartWalk, Runs, Phase, Put, Memory
<1>21. ASSUME NEW t \in Threads, WalkEnds(t) PROVE Memory'
  BY <1>21, <1>1 DEF WalkEnds, Runs, Phase, Put, Leave, NoTimeout, Memory
<1>22. ASSUME NEW t \in Threads, WalkWakes(t) PROVE Memory'
  <2>1. First(t) \in Nodes
    BY <1>22, HeldNodes DEF WalkWakes
  <2>2. /\ node'[First(t)] = Blank /\ \A m \in Nodes \ {First(t)} : node'[m] = node[m]
    <3>1. node' = Blanked(node, {First(t)}) /\ {First(t)} \in SUBSET Nodes
      BY <1>22, <2>1 DEF WalkWakes
    <3> QED
      BY <3>1, NodesFreed
  <2>3. /\ free' = free \cup {First(t)} /\ UNCHANGED <<laundry, link>>
        /\ node[First(t)].wptr # NULL /\ ~node[First(t)].alt
    BY <1>22 DEF WalkWakes
  <2>4. First(t) \notin laundry /\ \A q \in Procs : link[q] # First(t)
    BY <1>1, <2>1, <2>3 DEF Memory
  <2> QED
    BY <1>1, <2>1, <2>2, <2>3, <2>4 DEF Memory
<1>23. ASSUME NEW t \in Threads, WalkChallenges(t) PROVE Memory'
  <2>1. First(t) \in Nodes \ free
    BY <1>23, HeldNodes DEF WalkChallenges, TInv, Holding
  <2>2. now[t] \in Times
    BY DEF TInv, TypeOK
  <2>3. Changed(First(t), node[First(t)].wptr, node[First(t)].dirty)
    BY <1>23, <2>1, <2>2, NodeChanges DEF WalkChallenges
  <2>4. UNCHANGED <<free, laundry, link>>
    BY <1>23 DEF WalkChallenges
  <2> QED
    BY <2>1, <2>3, <2>4, MemoryKept
<1>24. ASSUME NEW t \in Threads, WalkSwaps(t) PROVE Memory'
  <2>1. at[t] \in Nodes \ free
    <3>1. at[t] # NULL /\ at[t] \in Held(t)
      BY <1>24, HeldNodes DEF WalkSwaps, TInv, Lists
    <3> QED
      BY <3>1, HeldNodes DEF TInv, Holding
  <2>2. Changed(at[t], NULL, node[at[t]].dirty)
    BY <1>24, <2>1, NodeChanges DEF WalkSwaps
  <2>3. UNCHANGED <<free, laundry, link>>
    BY <1>24 DEF WalkSwaps
  <2> QED
    BY <2>1, <2>2, <2>3, MemoryKept
<1>25. ASSUME NEW t \in Threads, WalkTriggers(t) PROVE Memory'
  BY <1>25, <1>1 DEF WalkTriggers, Runs, Phase, Put, On, Memory
<1>26. ASSUME NEW t \in Threads, WalkPassesDead(t) PROVE Memory'
  BY <1>26, <1>1 DEF WalkPassesDead, Runs, Phase, Put, On, First, Memory
<1>27. ASSUME NEW t \in Threads, WalkCleans(t) PROVE Memory'
  <2>1. at[t] \in Nodes \ free
    <3>1. at[t] # NULL /\ at[t] \in Held(t)
      BY <1>27, HeldNodes DEF WalkCleans, TInv, Lists
    <3> QED
      BY <3>1, HeldNodes DEF TInv, Holding
  <2>2. Changed(at[t], node[at[t]].wptr, FALSE)
    BY <1>27, <2>1, NodeChanges DEF WalkCleans
  <2>3. UNCHANGED <<free, laundry, link>>
    BY <1>27 DEF WalkCleans
  <2> QED
    BY <2>1, <2>2, <2>3, MemoryKept
<1>28. CASE Tick
  <2>1. /\ UNCHANGED <<free, laundry, link>>
        /\ \A m \in Nodes : /\ node'[m].wptr = node[m].wptr /\ node'[m].alt = node[m].alt
                            /\ node'[m].scheduler = node[m].scheduler
                            /\ m \in free => node'[m] = node[m]
    BY <1>28, TickFacts
  <2> QED
    BY <1>1, <2>1 DEF Memory
<1> QED
  BY <1>2, <1>3, <1>4, <1>5, <1>6, <1>7, <1>8, <1>9, <1>10, <1>11, <1>12, <1>13, <1>14,
     <1>15, <1>16, <1>17, <1>18, <1>19, <1>20, <1>21, <1>22, <1>23, <1>24, <1>25,
     <1>26, <1>27, <1>28
     DEF Next, Call, Walk

(* What is in some queue before and after.                                  *)
LEMMA QueuedChanges ==
  ASSUME NEW t \in Threads, NEW n
  PROVE  /\ Gone(t, n) => \A m \in Queued : m = n \/ m \in Queued'
         /\ \A p, time, alt : Entered(t, n, p, time, alt) =>
               n \in Queued' /\ \A m \in Queued : m \in Queued'
         /\ UNCHANGED tq => Queued' = Queued
<1>1. ASSUME Gone(t, n), NEW m \in Queued PROVE m = n \/ m \in Queued'
  BY <1>1 DEF Queued, Gone
<1>2. ASSUME NEW p, NEW time, NEW alt, Entered(t, n, p, time, alt)
      PROVE  n \in Queued' /\ \A m \in Queued : m \in Queued'
  BY <1>2 DEF Queued, Entered
<1>3. UNCHANGED tq => Queued' = Queued
  BY DEF Queued
<1> QED
  BY <1>1, <1>2, <1>3

(* A node names the process that waits for it, and no other node does.      *)
LEMMA PointersStep == TInv /\ [Next]_vars => Pointers'
<1> SUFFICES ASSUME TInv, [Next]_vars PROVE Pointers'
  OBVIOUS
<1>1. /\ Pointers /\ Memory /\ Tasks /\ NULL \notin Threads \cup Procs \cup Nodes
      /\ {"queue", "blocked"} \cap Threads = {}
      /\ link \in [Procs -> Nodes \cup {NULL}] /\ phase \in [Procs -> Phases]
      /\ place \in [Procs -> Threads \cup {"queue", "blocked"}] /\ fired \in [Procs -> BOOLEAN]
      /\ \A n \in Nodes : /\ node[n].dirty \in BOOLEAN /\ node[n].alt \in BOOLEAN
                          /\ node[n].wptr \in Procs \cup {NULL}
  BY NamesAssumption DEF TInv, TypeOK
<1>2. \A p \in Procs : phase[p] = "cas" => link[p] \in Nodes /\ place[p] \in Threads
  BY <1>1 DEF Pointers, Memory, Tasks, InAlt
<1> USE DEF queues, memory, procs, walker
<1>3. CASE UNCHANGED vars
  BY <1>1, <1>3 DEF vars, Pointers, Queued
<1>4. ASSUME NEW t \in Threads, NEW p \in Procs, Dispatch(t, p) PROVE Pointers'
  BY <1>1, <1>2, <1>4 DEF Dispatch, Runs, Put, Pointers, Queued
<1>5. ASSUME NEW t \in Threads, NEW p \in Procs, Yield(t, p) PROVE Pointers'
  BY <1>5, <1>1 DEF Yield, Runs, Phase, Put, Pointers, Queued
<1>6. ASSUME NEW t \in Threads, NEW p \in Procs, AltWaits(t, p) PROVE Pointers'
  BY <1>1, <1>2, <1>6 DEF AltWaits, Runs, Phase, Put, Pointers, Queued
<1>7. ASSUME NEW t \in Threads, NEW p \in Procs, AltGoesOn(t, p) PROVE Pointers'
  <2>1. link[p] \in ToSet(tq[t]) /\ link[p] \in Nodes /\ node[link[p]].alt
        /\ node[link[p]].wptr = p
    BY <1>7, OwnNodeOfWaiter DEF AltGoesOn
  <2>2. \A m \in Queued : m = link[p] \/ m \in Queued'
    BY <1>7, <2>1, DeleteFacts, QueuedChanges DEF AltGoesOn
  <2>3. /\ node'[link[p]].wptr = NULL /\ \A m \in Nodes \ {link[p]} : node'[m] = node[m]
    <3>1. node' = Blanked(node, {link[p]}) /\ {link[p]} \in SUBSET Nodes
      BY <1>7, <2>1 DEF AltGoesOn
    <3> QED
      BY <3>1, NodesFreed DEF Blank
  <2>4. /\ link' = [link EXCEPT ![p] = NULL] /\ phase' = [phase EXCEPT ![p] = "top"]
        /\ UNCHANGED <<place, fired>>
    BY <1>7 DEF AltGoesOn, Phase
  <2>5. \A q \in Procs : q # p /\ link[q] # NULL => link[q] # link[p]
    BY <1>1, <2>1 DEF Memory
  <2> QED
    BY <1>1, <1>2, <2>1, <2>2, <2>3, <2>4, <2>5 DEF Pointers
<1>8. ASSUME NEW t \in Threads, NEW p \in Procs, RemoveLocal(t, p) PROVE Pointers'
  <2>1. phase[p] = "disable" /\ link[p] \in Nodes /\ node[link[p]].alt
        /\ node[link[p]].wptr \in {p, NULL}
    BY <1>1, <1>8 DEF RemoveLocal, Runs, Tasks, InAlt, Memory
  <2>2. phase' = [phase EXCEPT ![p] = "release"] /\ UNCHANGED <<place, link>>
    BY <1>8 DEF RemoveLocal, Settle, Phase
  <2>3. CASE node[link[p]].wptr = NULL
    <3>1. UNCHANGED <<tq, node>> /\ fired' = [fired EXCEPT ![p] = TRUE]
      BY <1>8, <2>3 DEF RemoveLocal, Settle
    <3>2. Queued' = Queued
      BY <3>1, QueuedChanges
    <3> QED
      BY <1>1, <1>2, <2>1, <2>2, <2>3, <3>1, <3>2 DEF Pointers
  <2>4. CASE node[link[p]].wptr # NULL
    <3>1. link[p] \in ToSet(tq[t])
      BY <1>1, <1>8, <2>1, <2>4, OwnNode DEF RemoveLocal, Runs
    <3>2. \A m \in Queued : m = link[p] \/ m \in Queued'
      BY <1>8, <2>4, <3>1, DeleteFacts, QueuedChanges DEF RemoveLocal
    <3>3. Changed(link[p], p, FALSE)
      BY <1>8, <2>1, <2>4, NodeChanges DEF RemoveLocal
    <3>4. fired' = [fired EXCEPT ![p] = FALSE]
      BY <1>8, <2>4 DEF RemoveLocal, Settle
    <3>5. \A m \in Nodes : /\ node'[m].wptr = node[m].wptr /\ node'[m].alt = node[m].alt
                           /\ node'[m].scheduler = node[m].scheduler
                           /\ node'[m].dirty = IF m = link[p] THEN FALSE ELSE node[m].dirty
      BY <2>1, <2>4, <3>3 DEF Changed
    <3>6. \A m \in Nodes : node[m].wptr = p => m = link[p]
      BY <1>1, <2>1, <2>4 DEF Pointers
    <3>7. /\ phase'[p] = "release" /\ ~fired'[p] /\ UNCHANGED <<place, link>>
          /\ \A q \in Procs : q # p => phase'[q] = phase[q] /\ fired'[q] = fired[q]
      BY <1>1, <2>2, <3>4
    <3>a. \A m \in Nodes : node'[m].wptr = node[m].wptr
      BY ONLY <3>5
    <3>b. \A m, n \in Nodes : node[m].wptr # NULL /\ node[m].wptr = node[n].wptr => m = n
      BY ONLY <1>1 DEF Pointers
    <3>c. \A q \in Procs : phase[q] = "cas" => node[link[q]].wptr = q
          /\ node[link[q]].scheduler = place[q]
      BY ONLY <1>1 DEF Pointers
    <3>d. \A m \in Nodes : node[m].wptr # NULL =>
            LET q == node[m].wptr IN
            IF node[m].alt
            THEN /\ link[q] = m
                 /\ \/ phase[q] \in {"cas", "wait", "disable", "swap"} /\ node[m].dirty
                    \/ phase[q] = "release" /\ ~fired[q] /\ ~node[m].dirty
            ELSE phase[q] = "sleep" /\ m \in Queued
      BY ONLY <1>1 DEF Pointers
    <3>e. /\ \A m \in Nodes : node'[m].alt = node[m].alt
          /\ \A m \in Nodes : m # link[p] => node'[m].dirty = node[m].dirty
          /\ node'[link[p]].dirty = FALSE
      BY <2>1, <3>5
    <3>8. ASSUME NEW m \in Nodes, node'[m].wptr # NULL
          PROVE  (LET q == node[m].wptr IN
                  IF node[m].alt
                  THEN /\ link[q] = m
                       /\ \/ phase[q] \in {"cas", "wait", "disable", "swap"} /\ node[m].dirty
                          \/ phase[q] = "release" /\ ~fired[q] /\ ~node[m].dirty
                  ELSE phase[q] = "sleep" /\ m \in Queued)'
      <4>1. CASE m = link[p]
        BY ONLY <2>1, <2>4, <3>a, <3>e, <3>7, <4>1
      <4>2. CASE m # link[p]
        <5>1. node'[m].wptr = node[m].wptr /\ node[m].wptr \in Procs /\ node[m].wptr # p
          BY ONLY <1>1, <3>5, <3>6, <3>8, <4>2
        <5> QED
          BY ONLY <3>2, <3>a, <3>d, <3>e, <3>7, <3>8, <4>2, <5>1, m \in Nodes
      <4> QED
        BY <4>1, <4>2
    <3>9. \A m, n \in Nodes : node'[m].wptr # NULL /\ node'[m].wptr = node'[n].wptr => m = n
      BY ONLY <3>a, <3>b
    <3>10. ASSUME NEW q \in Procs, phase'[q] = "cas"
           PROVE  node'[link'[q]].wptr = q /\ node'[link'[q]].scheduler = place'[q]
      BY ONLY <1>2, <3>5, <3>c, <3>7, <3>10, q \in Procs
    <3> QED
      BY ONLY <3>8, <3>9, <3>10 DEF Pointers
  <2> QED
    BY <2>3, <2>4
<1>9. ASSUME NEW t \in Threads, NEW p \in Procs, LookRemote(t, p) PROVE Pointers'
  <2>1. phase[p] = "disable" /\ link[p] \in Nodes /\ node[link[p]].alt
        /\ node[link[p]].wptr \in {p, NULL}
    BY <1>1, <1>9 DEF LookRemote, Runs, Tasks, InAlt, Memory
  <2>2. UNCHANGED <<place, link, tq, node>>
    BY <1>9 DEF LookRemote
  <2>3. Queued' = Queued
    BY <2>2, QueuedChanges
  <2>4. IF node[link[p]].wptr # NULL THEN phase' = [phase EXCEPT ![p] = "swap"]
        /\ UNCHANGED fired
                                     ELSE phase' = [phase EXCEPT ![p] = "release"] /\ fired' = [fired EXCEPT ![p] = TRUE]
    BY <1>9 DEF LookRemote, Settle, Phase
  <2> QED
    BY <1>1, <1>2, <2>1, <2>2, <2>3, <2>4 DEF Pointers
<1>10. ASSUME NEW t \in Threads, NEW p \in Procs, SwapRemote(t, p) PROVE Pointers'
  <2>1. phase[p] = "swap" /\ link[p] \in Nodes /\ node[link[p]].alt
        /\ node[link[p]].wptr \in {p, NULL}
    BY <1>1, <1>10 DEF SwapRemote, Runs, Tasks, InAlt, Memory
  <2>2. Changed(link[p], NULL, node[link[p]].dirty)
    BY <1>10, <2>1, NodeChanges DEF SwapRemote
  <2>3. UNCHANGED <<place, link, tq>> /\ phase'[p] \in {"sync", "release"}
        /\ \A q \in Procs : q # p => phase'[q] = phase[q] /\ fired'[q] = fired[q]
    BY <1>1, <1>10 DEF SwapRemote, Settle, Phase
  <2>4. Queued' = Queued
    BY <2>3, QueuedChanges
  <2>5. \A q \in Procs : q # p /\ link[q] # NULL => link[q] # link[p]
    BY <1>1, <2>1 DEF Memory
  <2>6. \A m \in Nodes : node'[m].wptr # p
    BY <1>1, <2>1, <2>2 DEF Pointers, Changed
  <2> QED
    BY <1>1, <1>2, <2>1, <2>2, <2>3, <2>4, <2>5, <2>6 DEF Pointers, Changed
<1>11. ASSUME NEW t \in Threads, NEW p \in Procs, TellOwner(t, p) PROVE Pointers'
  <2>1. phase[p] = "sync" /\ UNCHANGED <<place, link, tq, node>>
        /\ phase' = [phase EXCEPT ![p] = "release"] /\ fired' = [fired EXCEPT ![p] = FALSE]
    BY <1>11 DEF TellOwner, Runs, Settle, Phase
  <2>2. Queued' = Queued
    BY <2>1, QueuedChanges
  <2> QED
    BY <1>1, <1>2, <2>1, <2>2 DEF Pointers
<1>12. ASSUME NEW t \in Threads, NEW p \in Procs, Release(t, p) PROVE Pointers'
  <2>1. phase[p] = "release" /\ link[p] \in Nodes /\ node[link[p]].alt
        /\ node[link[p]].wptr \in {p, NULL}
    BY <1>1, <1>12 DEF Release, Runs, Tasks, InAlt, Memory
  <2>2. UNCHANGED <<place, tq>> /\ phase' = [phase EXCEPT ![p] = "altend"]
        /\ link' = [link EXCEPT ![p] = NULL] /\ fired' = [fired EXCEPT ![p] = FALSE]
    BY <1>12 DEF Release, Phase
  <2>3. Queued' = Queued
    BY <2>2, QueuedChanges
  <2>4. /\ node'[link[p]].wptr = NULL /\ \A m \in Nodes \ {link[p]} : node'[m] = node[m]
    <3>1. CASE node[link[p]].dirty
      BY <1>1, <1>12, <2>1, <3>1 DEF Release, Pointers
    <3>2. CASE ~node[link[p]].dirty
      <4>1. node' = Blanked(node, {link[p]}) /\ {link[p]} \in SUBSET Nodes
        BY <1>12, <2>1, <3>2 DEF Release
      <4> QED
        BY <4>1, NodesFreed DEF Blank
    <3> QED
      BY <3>1, <3>2
  <2>5. \A q \in Procs : q # p /\ link[q] # NULL => link[q] # link[p]
    BY <1>1, <2>1 DEF Memory
  <2>6. \A m \in Nodes : node'[m].wptr # p
    BY <1>1, <2>1, <2>4 DEF Pointers
  <2> QED
    BY <1>1, <1>2, <2>1, <2>2, <2>3, <2>4, <2>5, <2>6 DEF Pointers
<1>13. ASSUME NEW t \in Threads, NEW p \in Procs, AltEnd(t, p) PROVE Pointers'
  <2>1. phase[p] = "altend" /\ UNCHANGED <<link, tq, node, fired>>
        /\ phase'[p] \in {"top", "join"}
        /\ \A q \in Procs : q # p => phase'[q] = phase[q] /\ place'[q] = place[q]
    BY <1>1, <1>13 DEF AltEnd, Runs, Phase, Put
  <2>2. Queued' = Queued
    BY <2>1, QueuedChanges
  <2> QED
    BY <1>1, <1>2, <2>1, <2>2 DEF Pointers
<1>14. ASSUME NEW t \in Threads, NEW p \in Procs, NEW d \in 0..MaxDelay,
             Tin(t, p, d)
      PROVE  Pointers'
  <2>1. Clock + d + 1 \in Times
    BY Delays
  <2>2. Insert(t, p, Clock + d + 1, FALSE)
    BY <1>14 DEF Tin, Sleep
  <2>3. Entered(t, Spare, p, Clock + d + 1, FALSE)
    BY <2>1, <2>2, InsertFacts
  <2>4. /\ UNCHANGED link /\ place' = [place EXCEPT ![p] = "blocked"]
        /\ phase' = [phase EXCEPT ![p] = "sleep"] /\ UNCHANGED fired
        /\ phase[p] = "top" /\ place[p] = t
    BY <1>14 DEF Tin, Sleep, Runs, Phase, Put
  <2>5. Spare \in Queued' /\ \A m \in Queued : m \in Queued'
    BY <2>3, QueuedChanges
  <2>6. \A m \in Nodes : node[m].wptr # p
    BY <1>1, <2>4 DEF Pointers
  <2>7. \A m \in Nodes : m # Spare => node'[m] = node[m] \/ node'[m].wptr = NULL
    BY <2>3 DEF Entered, Blank
  <2>8. \A q \in Procs : link[q] # NULL => link[q] # Spare /\ node'[link[q]] = node[link[q]]
    BY <1>1, <2>3 DEF Entered, Memory
  <2>9. Spare \in Nodes /\ node'[Spare].wptr = p /\ node'[Spare].alt = FALSE
        /\ node'[Spare].dirty = FALSE
        /\ node'[Spare].scheduler = t
    BY <2>3 DEF Entered
  <2> QED
    BY <1>1, <1>2, <2>4, <2>5, <2>6, <2>7, <2>8, <2>9 DEF Pointers
<1>15. ASSUME NEW t \in Threads, NEW p \in Procs, NEW d \in 0..MaxDelay,
             FastTin(t, p, d)
      PROVE  Pointers'
  <2>1. Clock + d \in Times
    BY Delays
  <2>2. Insert(t, p, Clock + d, FALSE)
    BY <1>15 DEF FastTin, Sleep
  <2>3. Entered(t, Spare, p, Clock + d, FALSE)
    BY <2>1, <2>2, InsertFacts
  <2>4. /\ UNCHANGED link /\ place' = [place EXCEPT ![p] = "blocked"]
        /\ phase' = [phase EXCEPT ![p] = "sleep"] /\ UNCHANGED fired
        /\ phase[p] = "top" /\ place[p] = t
    BY <1>15 DEF FastTin, Sleep, Runs, Phase, Put
  <2>5. Spare \in Queued' /\ \A m \in Queued : m \in Queued'
    BY <2>3, QueuedChanges
  <2>6. \A m \in Nodes : node[m].wptr # p
    BY <1>1, <2>4 DEF Pointers
  <2>7. \A m \in Nodes : m # Spare => node'[m] = node[m] \/ node'[m].wptr = NULL
    BY <2>3 DEF Entered, Blank
  <2>8. \A q \in Procs : link[q] # NULL => link[q] # Spare /\ node'[link[q]] = node[link[q]]
    BY <1>1, <2>3 DEF Entered, Memory
  <2>9. Spare \in Nodes /\ node'[Spare].wptr = p /\ node'[Spare].alt = FALSE
        /\ node'[Spare].dirty = FALSE
        /\ node'[Spare].scheduler = t
    BY <2>3 DEF Entered
  <2> QED
    BY <1>1, <1>2, <2>4, <2>5, <2>6, <2>7, <2>8, <2>9 DEF Pointers
<1>16. ASSUME NEW t \in Threads, NEW p \in Procs, NEW d \in 0..MaxDelay,
             AltWait(t, p, d)
      PROVE  Pointers'
  <2>1. Clock + d \in Times
    BY Delays
  <2>2. Insert(t, p, Clock + d, TRUE)
    BY <1>16 DEF AltWait, Sleep
  <2>3. Entered(t, Spare, p, Clock + d, TRUE)
    BY <2>1, <2>2, InsertFacts
  <2>4. /\ link' = [link EXCEPT ![p] = Spare] /\ UNCHANGED place
        /\ phase' = [phase EXCEPT ![p] = "cas"] /\ UNCHANGED fired
        /\ phase[p] = "top" /\ place[p] = t
    BY <1>16 DEF AltWait, Sleep, Runs, Phase, Put
  <2>5. Spare \in Queued' /\ \A m \in Queued : m \in Queued'
    BY <2>3, QueuedChanges
  <2>6. \A m \in Nodes : node[m].wptr # p
    BY <1>1, <2>4 DEF Pointers
  <2>7. \A m \in Nodes : m # Spare => node'[m] = node[m] \/ node'[m].wptr = NULL
    BY <2>3 DEF Entered, Blank
  <2>8. \A q \in Procs : link[q] # NULL => link[q] # Spare /\ node'[link[q]] = node[link[q]]
    BY <1>1, <2>3 DEF Entered, Memory
  <2>9. Spare \in Nodes /\ node'[Spare].wptr = p /\ node'[Spare].alt = TRUE
        /\ node'[Spare].dirty = TRUE
        /\ node'[Spare].scheduler = t
    BY <2>3 DEF Entered
  <2> QED
    BY <1>1, <1>2, <2>4, <2>5, <2>6, <2>7, <2>8, <2>9 DEF Pointers
<1>17. ASSUME NEW p \in Procs, ChannelReady(p) PROVE Pointers'
  BY <1>17, <1>1 DEF ChannelReady, Runs, Phase, Put, Pointers, Queued
<1>18. ASSUME NEW t \in Threads, StartClean(t) PROVE Pointers'
  BY <1>18, <1>1 DEF StartClean, Runs, Phase, Put, Pointers, Queued
<1>19. ASSUME NEW t \in Threads, CleanNode(t) PROVE Pointers'
  <2>1. at[t] \in ToSet(tq[t]) /\ at[t] \in Nodes
    BY <1>19, HeldNodes DEF CleanNode, TInv, Lists
  <2>2. UNCHANGED <<link, phase, place, fired>>
    BY <1>19 DEF CleanNode
  <2>3. CASE node[at[t]].wptr = NULL
    <3>1. Changed(at[t], NULL, FALSE)
      BY <1>19, <2>1, <2>3, NodeChanges DEF CleanNode
    <3>2. \A m \in Queued : m = at[t] \/ m \in Queued'
      BY <1>19, <2>1, <2>3, DeleteFacts, QueuedChanges DEF CleanNode
    <3> QED
      BY <1>1, <1>2, <2>1, <2>2, <2>3, <3>1, <3>2 DEF Pointers, Changed
  <2>4. CASE node[at[t]].wptr # NULL
    <3>1. UNCHANGED <<tq, node>>
      BY <1>19, <2>4 DEF CleanNode
    <3>2. Queued' = Queued
      BY <3>1, QueuedChanges
    <3> QED
      BY <1>1, <2>2, <3>1, <3>2 DEF Pointers
  <2> QED
    BY <2>3, <2>4
<1>20. ASSUME NEW t \in Threads, Launder(t) PROVE Pointers'
  <2>1. \A m \in Washed : m \in Nodes /\ node[m].wptr = NULL /\ \A q \in Procs : link[q] # m
    BY Unheld
  <2>2. /\ \A m \in Washed : node'[m] = Blank
        /\ \A m \in Nodes \ Washed : node'[m] = node[m]
    <3>1. Washed \in SUBSET Nodes
      BY <2>1
    <3> QED
      BY <1>20, <3>1, NodesFreed DEF Launder
  <2>3. UNCHANGED <<tq, link, phase, place, fired>>
    BY <1>20 DEF Launder
  <2>4. Queued' = Queued
    BY <2>3, QueuedChanges
  <2> QED
    BY <1>1, <1>2, <2>1, <2>2, <2>3, <2>4 DEF Pointers, Blank
<1>21. ASSUME NEW t \in Threads, StartWalk(t) PROVE Pointers'
  BY <1>21, <1>1 DEF StartWalk, Runs, Phase, Put, Pointers, Queued
<1>22. ASSUME NEW t \in Threads, WalkEnds(t) PROVE Pointers'
  BY <1>22, <1>1 DEF WalkEnds, Runs, Phase, Put, Leave, NoTimeout, Pointers, Queued
<1>23. ASSUME NEW t \in Threads, WalkWakes(t) PROVE Pointers'
  <2> DEFINE n == First(t)
             p == node[n].wptr
  <2>1. Gone(t, n) /\ n \in Nodes
    BY <1>23, BehindFacts DEF WalkWakes, Gone
  <2>2. /\ node'[n].wptr = NULL /\ \A m \in Nodes \ {n} : node'[m] = node[m]
    <3>1. node' = Blanked(node, {n}) /\ {n} \in SUBSET Nodes
      BY <1>23, <2>1 DEF WalkWakes
    <3> QED
      BY <3>1, NodesFreed DEF Blank
  <2>3. /\ phase' = [phase EXCEPT ![p] = "top"] /\ place' = [place EXCEPT ![p] = "queue"]
        /\ UNCHANGED <<link, fired>> /\ p # NULL /\ ~node[n].alt
    BY <1>23 DEF WalkWakes, Phase, Put
  <2>4. \A m \in Queued : m = n \/ m \in Queued'
    BY <2>1, QueuedChanges
  <2> HIDE DEF n
  <2>5. p \in Procs /\ phase[p] = "sleep" /\ \A m \in Nodes : m # n => node[m].wptr # p
    BY <1>1, <2>1, <2>3 DEF Pointers
  <2>6. \A q \in Procs : link[q] # n
    BY <1>1, <2>1, <2>3 DEF Memory
  <2> HIDE DEF p
  <2> QED
    BY <1>1, <1>2, <2>1, <2>2, <2>3, <2>4, <2>5, <2>6 DEF Pointers
<1>24. ASSUME NEW t \in Threads, WalkChallenges(t) PROVE Pointers'
  <2>1. Gone(t, First(t)) /\ First(t) \in Nodes
    BY <1>24, BehindFacts DEF WalkChallenges, Gone
  <2>2. now[t] \in Times
    BY DEF TInv, TypeOK
  <2>3. Changed(First(t), node[First(t)].wptr, node[First(t)].dirty)
    BY <1>24, <2>1, <2>2, NodeChanges DEF WalkChallenges
  <2>4. UNCHANGED <<link, phase, place, fired>> /\ node[First(t)].alt
    BY <1>24 DEF WalkChallenges
  <2>5. \A m \in Queued : m = First(t) \/ m \in Queued'
    BY <2>1, QueuedChanges
  <2>6. \A m \in Nodes : /\ node'[m].wptr = node[m].wptr /\ node'[m].alt = node[m].alt
                         /\ node'[m].dirty = node[m].dirty /\ node'[m].scheduler = node[m].scheduler
    BY <2>3 DEF Changed
  <2> QED
    BY <1>1, <1>2, <2>1, <2>4, <2>5, <2>6 DEF Pointers
<1>25. ASSUME NEW t \in Threads, WalkSwaps(t) PROVE Pointers'
  <2>1. at[t] \in Nodes /\ at[t] \in Held(t) /\ pc[t] = "swap"
    <3>1. at[t] # NULL /\ pc[t] = "swap"
      BY <1>25 DEF WalkSwaps, TInv, Lists
    <3> QED
      BY <3>1, HeldNodes
  <2>2. node[at[t]].alt /\ node[at[t]].scheduler = t
    <3>1. at[t] \in Held(t) => node[at[t]].scheduler = t /\ (node[at[t]].alt \/ pc[t] = "tidy")
      BY DEF TInv, Holding
    <3> QED
      BY <2>1, <3>1
  <2>3. Changed(at[t], NULL, node[at[t]].dirty)
    BY <1>25, <2>1, NodeChanges DEF WalkSwaps
  <2>4. UNCHANGED <<tq, link, phase, place, fired>>
    BY <1>25 DEF WalkSwaps
  <2>5. Queued' = Queued
    BY <2>4, QueuedChanges
  <2>6. \A p \in Procs : phase[p] = "cas" => link[p] # at[t]
    BY <1>1, <2>1, <2>2 DEF Pointers, Tasks
  <2> QED
    BY <1>1, <1>2, <2>1, <2>3, <2>4, <2>5, <2>6 DEF Pointers, Changed
<1>26. ASSUME NEW t \in Threads, WalkTriggers(t) PROVE Pointers'
  <2> DEFINE p == ptr[t]
  <2>1. p \in Procs /\ \A n \in Nodes : node[n].wptr # p
    BY <1>26, Triggered DEF WalkTriggers
  <2>2. UNCHANGED <<tq, node, link, fired>> /\ \A q \in Procs : q # p => phase'[q] = phase[q]
        /\ place'[q] = place[q]
    BY <1>1, <2>1, <1>26 DEF WalkTriggers, Phase, Put
  <2>3. phase'[p] # "cas"
    <3>1. phase[p] # "cas"
      BY <1>26, Triggered DEF WalkTriggers
    <3> QED
      BY <1>1, <2>1, <3>1, <1>26 DEF WalkTriggers, Phase
  <2>4. Queued' = Queued
    BY <2>2, QueuedChanges
  <2> HIDE DEF p
  <2> QED
    BY <1>1, <1>2, <2>1, <2>2, <2>3, <2>4 DEF Pointers
<1>27. ASSUME NEW t \in Threads, WalkPassesDead(t) PROVE Pointers'
  <2>1. \A m \in Queued : m = First(t) \/ m \in Queued'
    BY <1>27, BehindFacts, QueuedChanges DEF WalkPassesDead
  <2>2. node[First(t)].wptr = NULL /\ UNCHANGED <<node, link, phase, place, fired>>
    BY <1>27 DEF WalkPassesDead
  <2> QED
    BY <1>1, <2>1, <2>2 DEF Pointers
<1>28. ASSUME NEW t \in Threads, WalkCleans(t) PROVE Pointers'
  <2>1. at[t] \in Nodes /\ node[at[t]].wptr = NULL
    BY <1>28, HeldNodes DEF WalkCleans, TInv, Lists
  <2>2. Changed(at[t], NULL, FALSE)
    BY <1>28, <2>1, NodeChanges DEF WalkCleans
  <2>3. UNCHANGED <<tq, link, phase, place, fired>>
    BY <1>28 DEF WalkCleans
  <2>4. Queued' = Queued
    BY <2>3, QueuedChanges
  <2> QED
    BY <1>1, <1>2, <2>1, <2>2, <2>3, <2>4 DEF Pointers, Changed
<1>29. CASE Tick
  <2>1. /\ UNCHANGED <<tq, link, phase, place, fired>>
        /\ \A m \in Nodes : /\ node'[m].wptr = node[m].wptr /\ node'[m].alt = node[m].alt
                            /\ node'[m].dirty = node[m].dirty
                            /\ node'[m].scheduler = node[m].scheduler
    BY <1>29, TickFacts
  <2>2. Queued' = Queued
    BY <2>1 DEF Queued
  <2> QED
    BY <1>1, <1>2, <2>1, <2>2 DEF Pointers
<1> QED
  BY <1>3, <1>4, <1>5, <1>6, <1>7, <1>8, <1>9, <1>10, <1>11, <1>12, <1>13, <1>14,
     <1>15, <1>16, <1>17, <1>18, <1>19, <1>20, <1>21, <1>22, <1>23, <1>24, <1>25,
     <1>26, <1>27, <1>28, <1>29
     DEF Next, Call, Walk

(* What the step of one process or thread leaves alone.                     *)
LEMMA SharesSame ==
  ASSUME TInv, UNCHANGED <<ptr, phase, count, fired, link>>,
         \A n \in Nodes : node'[n].wptr = node[n].wptr
  PROVE  Shares'
<1>1. Shares /\ Tasks /\ link \in [Procs -> Nodes \cup {NULL}]
  BY DEF TInv, TypeOK
<1>2. \A q \in Procs : Triggering(q)' <=> Triggering(q)
  BY DEF Triggering
<1>3. ASSUME NEW q \in Procs PROVE Share(q)'
  <2>1. InAlt(q) => node'[link[q]].wptr = node[link[q]].wptr
    BY <1>1 DEF Tasks
  <2>2. Share(q) /\ UNCHANGED <<phase, count, fired, link>>
    BY <1>1 DEF Shares
  <2> QED
    BY ONLY <1>2, <2>1, <2>2, q \in Procs DEF Share, InAlt, Owed
<1> QED
  BY <1>1, <1>3 DEF Shares

(* A step of one process changes its share and that of nobody else.         *)
LEMMA SharesOfOthers ==
  ASSUME TInv, NEW p \in Procs, UNCHANGED ptr, Share(p)',
         \A q \in Procs : q # p => /\ phase'[q] = phase[q] /\ count'[q] = count[q]
                                   /\ fired'[q] = fired[q] /\ link'[q] = link[q]
                                   /\ link[q] # NULL => node'[link[q]].wptr = node[link[q]].wptr,
         \A n \in Nodes : \/ node'[n].wptr \in {node[n].wptr, NULL}
                          \/ node'[n].wptr = p /\ ~Triggering(p)
  PROVE  Shares'
<1>1. Shares /\ Tasks /\ link \in [Procs -> Nodes \cup {NULL}]
  BY DEF TInv, TypeOK
<1>2. \A q \in Procs : Triggering(q)' <=> Triggering(q)
  BY DEF Triggering
<1>3. ASSUME NEW q \in Procs, q # p PROVE Share(q)'
  <2>1. InAlt(q) => node'[link[q]].wptr = node[link[q]].wptr
    BY <1>1, <1>3 DEF Tasks
  <2>2. Share(q) /\ phase'[q] = phase[q] /\ count'[q] = count[q]
        /\ fired'[q] = fired[q] /\ link'[q] = link[q]
    BY <1>1, <1>3 DEF Shares
  <2> QED
    BY ONLY <1>2, <2>1, <2>2, q \in Procs DEF Share, InAlt, Owed
<1>4. ASSUME NEW t \in Threads, NEW n \in Nodes, ptr'[t] # NULL PROVE node'[n].wptr # ptr'[t]
  BY <1>1, <1>4 DEF Shares, Triggering
<1> QED
  BY <1>1, <1>3, <1>4 DEF Shares

(* Whoever swaps the pointer out settles the count, and nobody else.        *)
LEMMA SharesStep == TInv /\ [Next]_vars => Shares'
<1> SUFFICES ASSUME TInv, [Next]_vars PROVE Shares'
  OBVIOUS
<1>1. /\ Shares /\ Pointers /\ Memory /\ Tasks /\ NULL \notin Threads \cup Procs \cup Nodes
      /\ link \in [Procs -> Nodes \cup {NULL}] /\ phase \in [Procs -> Phases]
      /\ fired \in [Procs -> BOOLEAN] /\ count \in [Procs -> 0..1]
      /\ \A n \in Nodes : node[n].wptr \in Procs \cup {NULL}
  BY NamesAssumption DEF TInv, TypeOK
<1>2. \A p \in Procs : Share(p)
  BY <1>1 DEF Shares
<1> USE DEF queues, memory, procs, walker
<1>3. CASE UNCHANGED vars
  BY <1>3, SharesSame DEF vars
<1>4. ASSUME NEW t \in Threads, NEW p \in Procs, Dispatch(t, p) PROVE Shares'
  <2>1. UNCHANGED <<ptr, phase, count, fired, link, node>>
    BY <1>4 DEF Dispatch
  <2> QED
    BY <2>1, SharesSame
<1>5. ASSUME NEW t \in Threads, NEW p \in Procs, Yield(t, p) PROVE Shares'
  <2>1. UNCHANGED <<ptr, phase, count, fired, link, node>>
    BY <1>5 DEF Yield
  <2> QED
    BY <2>1, SharesSame
<1>6. ASSUME NEW t \in Threads, NEW p \in Procs, AltWaits(t, p) PROVE Shares'
  <2>1. phase[p] = "cas" /\ phase' = [phase EXCEPT ![p] = "wait"]
        /\ UNCHANGED <<fired, link, node, ptr>>
        /\ count' = [count EXCEPT ![p] = count[p] + 1]
    BY <1>6 DEF AltWaits, Runs, Phase
  <2>2. count[p] = 0 /\ ~Triggering(p) /\ node[link[p]].wptr = p
    BY <1>1, <1>2, <2>1 DEF Share, Pointers
  <2>3. Share(p)'
    BY <1>1, <2>1, <2>2 DEF Share, Triggering, Owed
  <2> QED
    BY <1>1, <2>1, <2>3, SharesOfOthers
<1>7. ASSUME NEW t \in Threads, NEW p \in Procs, AltGoesOn(t, p) PROVE Shares'
  <2>1. link[p] \in Nodes
    BY <1>7, OwnNodeOfWaiter DEF AltGoesOn
  <2>2. node'[link[p]].wptr = NULL /\ \A m \in Nodes \ {link[p]} : node'[m] = node[m]
    <3>1. node' = Blanked(node, {link[p]}) /\ {link[p]} \in SUBSET Nodes
      BY <1>7, <2>1 DEF AltGoesOn
    <3> QED
      BY <3>1, NodesFreed DEF Blank
  <2>3. /\ phase[p] = "cas" /\ phase' = [phase EXCEPT ![p] = "top"]
           /\ UNCHANGED <<fired, count, ptr>>
        /\ link' = [link EXCEPT ![p] = NULL]
    BY <1>7 DEF AltGoesOn, Runs, Phase
  <2>4. \A q \in Procs : q # p /\ link[q] # NULL => link[q] # link[p]
    BY <1>1, <2>1 DEF Memory
  <2>5. Share(p)'
    BY <1>1, <1>2, <2>3 DEF Share, Triggering
  <2>6. \A q \in Procs : q # p /\ link[q] # NULL => node'[link[q]].wptr = node[link[q]].wptr
    BY <1>1, <2>2, <2>4
  <2>7. \A m \in Nodes : node'[m].wptr \in {node[m].wptr, NULL}
    BY <2>2
  <2> QED
    BY <1>1, <2>3, <2>5, <2>6, <2>7, SharesOfOthers
<1>8. ASSUME NEW t \in Threads, NEW p \in Procs, RemoveLocal(t, p) PROVE Shares'
  <2>1. phase[p] = "disable" /\ link[p] \in Nodes /\ node[link[p]].wptr \in {p, NULL}
    BY <1>1, <1>8 DEF RemoveLocal, Runs, Tasks, InAlt, Memory
  <2>2. phase' = [phase EXCEPT ![p] = "release"] /\ UNCHANGED <<link, count, ptr>>
        /\ fired' = [fired EXCEPT ![p] = (node[link[p]].wptr = NULL)]
    BY <1>8 DEF RemoveLocal, Settle, Phase
  <2>3. \A m \in Nodes : node'[m].wptr = node[m].wptr
    BY <1>8, <2>1, NodeChanges DEF RemoveLocal, Changed
  <2>4. node[link[p]].wptr = p => ~Triggering(p) /\ count[p] = 1
    BY <1>1, <1>2, <2>1 DEF Shares, Share, Owed, Triggering
  <2>5. node[link[p]].wptr # p => (count[p] = 1 <=> Triggering(p)) /\ node[link[p]].wptr = NULL
    BY <1>2, <2>1 DEF Share, Owed
  <2>6. Share(p)'
    <3>1. Triggering(p)' <=> Triggering(p)
      BY <2>2 DEF Triggering
    <3>2. phase'[p] = "release" /\ (fired'[p] <=> node[link[p]].wptr = NULL)
          /\ link'[p] = link[p] /\ count'[p] = count[p] /\ node'[link[p]].wptr = node[link[p]].wptr
      BY <1>1, <2>1, <2>2, <2>3
    <3> QED
      BY <1>1, <2>1, <2>4, <2>5, <3>1, <3>2 DEF Share, InAlt
  <2> QED
    BY <1>1, <2>2, <2>3, <2>6, SharesOfOthers
<1>9. ASSUME NEW t \in Threads, NEW p \in Procs, LookRemote(t, p) PROVE Shares'
  <2>1. phase[p] = "disable" /\ link[p] \in Nodes /\ node[link[p]].wptr \in {p, NULL}
    BY <1>1, <1>9 DEF LookRemote, Runs, Tasks, InAlt, Memory
  <2>2. /\ UNCHANGED <<link, count, ptr, node>>
           /\ \A q \in Procs : q # p => phase'[q] = phase[q] /\ fired'[q] = fired[q]
        /\ IF node[link[p]].wptr # NULL THEN phase'[p] = "swap" ELSE phase'[p] = "release" /\ fired'[p]
    BY <1>1, <1>9 DEF LookRemote, Settle, Phase
  <2>3. Triggering(p)' <=> Triggering(p)
    BY <2>2 DEF Triggering
  <2>4. Share(p)'
    BY <1>1, <1>2, <2>1, <2>2, <2>3 DEF Share, Owed, InAlt
  <2> QED
    BY <1>1, <2>2, <2>4, SharesOfOthers
<1>10. ASSUME NEW t \in Threads, NEW p \in Procs, SwapRemote(t, p) PROVE Shares'
  <2>1. phase[p] = "swap" /\ link[p] \in Nodes /\ node[link[p]].wptr \in {p, NULL}
    BY <1>1, <1>10 DEF SwapRemote, Runs, Tasks, InAlt, Memory
  <2>2. /\ UNCHANGED <<link, count, ptr>> /\ \A q \in Procs : q # p => phase'[q] = phase[q]
           /\ fired'[q] = fired[q]
        /\ IF node[link[p]].wptr # NULL THEN phase'[p] = "sync" ELSE phase'[p] = "release" /\ fired'[p]
    BY <1>1, <1>10 DEF SwapRemote, Settle, Phase
  <2>3. Changed(link[p], NULL, node[link[p]].dirty)
    BY <1>10, <2>1, NodeChanges DEF SwapRemote
  <2>4. Triggering(p)' <=> Triggering(p)
    BY <2>2 DEF Triggering
  <2>5. node[link[p]].wptr = p => ~Triggering(p) /\ count[p] = 1
    BY <1>1, <1>2, <2>1 DEF Shares, Share, Owed, Triggering
  <2>6. node[link[p]].wptr # p => (count[p] = 1 <=> Triggering(p)) /\ node[link[p]].wptr = NULL
    BY <1>2, <2>1 DEF Share, Owed
  <2>7. node'[link'[p]].wptr = NULL
    BY <2>2, <2>3 DEF Changed
  <2>8. Share(p)'
    BY <1>1, <2>2, <2>1, <2>4, <2>5, <2>6, <2>7 DEF Share, InAlt
  <2>9. \A q \in Procs : q # p /\ link[q] # NULL => node'[link[q]].wptr = node[link[q]].wptr
    BY <1>1, <2>1, <2>3 DEF Memory, Changed
  <2>10. \A m \in Nodes : node'[m].wptr \in {node[m].wptr, NULL}
    BY <2>3 DEF Changed
  <2> QED
    BY <1>1, <2>2, <2>8, <2>9, <2>10, SharesOfOthers
<1>11. ASSUME NEW t \in Threads, NEW p \in Procs, TellOwner(t, p) PROVE Shares'
  <2>1. phase[p] = "sync" /\ UNCHANGED <<link, count, ptr, node>>
        /\ phase' = [phase EXCEPT ![p] = "release"] /\ fired' = [fired EXCEPT ![p] = FALSE]
    BY <1>11 DEF TellOwner, Runs, Settle, Phase
  <2>2. Share(p)'
    BY <1>1, <1>2, <2>1 DEF Share, Triggering
  <2> QED
    BY <1>1, <2>1, <2>2, SharesOfOthers
<1>12. ASSUME NEW t \in Threads, NEW p \in Procs, Release(t, p) PROVE Shares'
  <2>1. phase[p] = "release" /\ link[p] \in Nodes
    BY <1>1, <1>12 DEF Release, Runs, Tasks, InAlt
  <2>2. UNCHANGED ptr /\ phase' = [phase EXCEPT ![p] = "altend"]
        /\ link' = [link EXCEPT ![p] = NULL] /\ fired' = [fired EXCEPT ![p] = FALSE]
        /\ count' = [count EXCEPT ![p] = IF fired[p] THEN count[p] ELSE count[p] - 1]
    BY <1>12 DEF Release, Phase
  <2>3. /\ node'[link[p]].wptr \in {node[link[p]].wptr, NULL}
        /\ \A m \in Nodes \ {link[p]} : node'[m] = node[m]
    <3>1. CASE node[link[p]].dirty
      BY <1>12, <3>1 DEF Release
    <3>2. CASE ~node[link[p]].dirty
      <4>1. node' = Blanked(node, {link[p]}) /\ {link[p]} \in SUBSET Nodes
        BY <1>12, <2>1, <3>2 DEF Release
      <4> QED
        BY <4>1, NodesFreed DEF Blank
    <3> QED
      BY <3>1, <3>2
  <2>4. Share(p)'
    <3>1. Triggering(p)' <=> Triggering(p)
      BY <2>2 DEF Triggering
    <3>2. phase'[p] = "altend" /\ count'[p] = IF fired[p] THEN count[p] ELSE count[p] - 1
      BY <1>1, <2>2
    <3>3. IF fired[p] THEN (count[p] = 1 <=> Triggering(p)) ELSE count[p] = 1 /\ ~Triggering(p)
      BY <1>2, <2>1 DEF Share
    <3> QED
      BY <1>1, <3>1, <3>2, <3>3 DEF Share
  <2>5. \A q \in Procs : q # p /\ link[q] # NULL => node'[link[q]].wptr = node[link[q]].wptr
    BY <1>1, <2>1, <2>3 DEF Memory
  <2>6. \A m \in Nodes : node'[m].wptr \in {node[m].wptr, NULL}
    BY <2>3
  <2> QED
    BY <1>1, <2>2, <2>4, <2>5, <2>6, SharesOfOthers
<1>13. ASSUME NEW t \in Threads, NEW p \in Procs, AltEnd(t, p) PROVE Shares'
  <2>1. /\ phase[p] = "altend" /\ UNCHANGED <<link, count, ptr, node, fired>>
        /\ phase' = [phase EXCEPT ![p] = IF count[p] = 0 THEN "top" ELSE "join"]
    BY <1>13 DEF AltEnd, Runs, Phase
  <2>2. Triggering(p)' <=> Triggering(p)
    BY <2>1 DEF Triggering
  <2>3. count[p] \in 0..1 /\ (count[p] = 1 <=> Triggering(p))
    BY <1>1, <1>2, <2>1 DEF Share
  <2>4. Share(p)'
    BY <1>1, <2>1, <2>2, <2>3 DEF Share
  <2> QED
    BY <1>1, <2>1, <2>4, SharesOfOthers
<1>14. ASSUME NEW t \in Threads, NEW p \in Procs, NEW d \in 0..MaxDelay,
             Tin(t, p, d)
      PROVE  Shares'
  <2>1. Clock + d + 1 \in Times
    BY Delays
  <2>2. Insert(t, p, Clock + d + 1, FALSE)
    BY <1>14 DEF Tin, Sleep
  <2>3. Entered(t, Spare, p, Clock + d + 1, FALSE)
    BY <2>1, <2>2, InsertFacts
  <2>4. /\ phase' = [phase EXCEPT ![p] = "sleep"] /\ UNCHANGED <<fired, count, ptr>>
        /\ phase[p] = "top" /\ \A q \in Procs : q # p => link'[q] = link[q]
    BY <1>1, <1>14 DEF Tin, Sleep, Runs, Phase
  <2>5. ~Triggering(p) /\ count[p] = 0
    BY <1>2, <2>4 DEF Share
  <2>6. \A q \in Procs : link[q] # NULL => node'[link[q]] = node[link[q]]
    BY <1>1, <2>3 DEF Entered, Memory
  <2>7. \A m \in Nodes : node'[m].wptr \in {node[m].wptr, NULL} \/ node'[m].wptr = p
    BY <2>3 DEF Entered, Blank
  <2>8. Share(p)'
    BY <1>1, <2>4, <2>5 DEF Share, Triggering
  <2> QED
    BY <1>1, <2>4, <2>5, <2>6, <2>7, <2>8, SharesOfOthers
<1>15. ASSUME NEW t \in Threads, NEW p \in Procs, NEW d \in 0..MaxDelay,
             FastTin(t, p, d)
      PROVE  Shares'
  <2>1. Clock + d \in Times
    BY Delays
  <2>2. Insert(t, p, Clock + d, FALSE)
    BY <1>15 DEF FastTin, Sleep
  <2>3. Entered(t, Spare, p, Clock + d, FALSE)
    BY <2>1, <2>2, InsertFacts
  <2>4. /\ phase' = [phase EXCEPT ![p] = "sleep"] /\ UNCHANGED <<fired, count, ptr>>
        /\ phase[p] = "top" /\ \A q \in Procs : q # p => link'[q] = link[q]
    BY <1>1, <1>15 DEF FastTin, Sleep, Runs, Phase
  <2>5. ~Triggering(p) /\ count[p] = 0
    BY <1>2, <2>4 DEF Share
  <2>6. \A q \in Procs : link[q] # NULL => node'[link[q]] = node[link[q]]
    BY <1>1, <2>3 DEF Entered, Memory
  <2>7. \A m \in Nodes : node'[m].wptr \in {node[m].wptr, NULL} \/ node'[m].wptr = p
    BY <2>3 DEF Entered, Blank
  <2>8. Share(p)'
    BY <1>1, <2>4, <2>5 DEF Share, Triggering
  <2> QED
    BY <1>1, <2>4, <2>5, <2>6, <2>7, <2>8, SharesOfOthers
<1>16. ASSUME NEW t \in Threads, NEW p \in Procs, NEW d \in 0..MaxDelay,
             AltWait(t, p, d)
      PROVE  Shares'
  <2>1. Clock + d \in Times
    BY Delays
  <2>2. Insert(t, p, Clock + d, TRUE)
    BY <1>16 DEF AltWait, Sleep
  <2>3. Entered(t, Spare, p, Clock + d, TRUE)
    BY <2>1, <2>2, InsertFacts
  <2>4. /\ phase' = [phase EXCEPT ![p] = "cas"] /\ UNCHANGED <<fired, count, ptr>>
        /\ phase[p] = "top" /\ \A q \in Procs : q # p => link'[q] = link[q]
    BY <1>1, <1>16 DEF AltWait, Sleep, Runs, Phase
  <2>5. ~Triggering(p) /\ count[p] = 0
    BY <1>2, <2>4 DEF Share
  <2>6. \A q \in Procs : link[q] # NULL => node'[link[q]] = node[link[q]]
    BY <1>1, <2>3 DEF Entered, Memory
  <2>7. \A m \in Nodes : node'[m].wptr \in {node[m].wptr, NULL} \/ node'[m].wptr = p
    BY <2>3 DEF Entered, Blank
  <2>8. Share(p)'
    BY <1>1, <2>4, <2>5 DEF Share, Triggering
  <2> QED
    BY <1>1, <2>4, <2>5, <2>6, <2>7, <2>8, SharesOfOthers
<1>17. ASSUME NEW p \in Procs, ChannelReady(p) PROVE Shares'
  <2>1. /\ phase[p] = "wait" /\ UNCHANGED <<link, count, ptr, node, fired>>
        /\ phase' = [phase EXCEPT ![p] = "disable"]
    BY <1>17 DEF ChannelReady, Phase
  <2>2. Triggering(p)' <=> Triggering(p)
    BY <2>1 DEF Triggering
  <2>3. Share(p)'
    BY <1>1, <1>2, <2>1, <2>2 DEF Share, Owed, InAlt
  <2> QED
    BY <1>1, <2>1, <2>3, SharesOfOthers
<1>18. ASSUME NEW t \in Threads, StartClean(t) PROVE Shares'
  <2>1. UNCHANGED <<ptr, phase, count, fired, link, node>>
    BY <1>18 DEF StartClean
  <2> QED
    BY <2>1, SharesSame
<1>19. ASSUME NEW t \in Threads, CleanNode(t) PROVE Shares'
  <2>1. at[t] \in Nodes
    BY <1>19, HeldNodes DEF CleanNode, TInv, Lists
  <2>2. UNCHANGED <<ptr, phase, count, fired, link>>
    BY <1>19 DEF CleanNode
  <2>3. \A m \in Nodes : node'[m].wptr = node[m].wptr
    BY <1>19, <2>1, NodeChanges DEF CleanNode, Changed
  <2> QED
    BY <2>2, <2>3, SharesSame
<1>20. ASSUME NEW t \in Threads, Launder(t) PROVE Shares'
  <2>1. \A m \in Washed : m \in Nodes /\ node[m].wptr = NULL
    BY Unheld
  <2>2. /\ \A m \in Washed : node'[m] = Blank
        /\ \A m \in Nodes \ Washed : node'[m] = node[m]
    <3>1. Washed \in SUBSET Nodes
      BY <2>1
    <3> QED
      BY <1>20, <3>1, NodesFreed DEF Launder
  <2>3. UNCHANGED <<ptr, phase, count, fired, link>>
    BY <1>20 DEF Launder
  <2>4. \A m \in Nodes : node'[m].wptr = node[m].wptr
    BY <2>1, <2>2 DEF Blank
  <2> QED
    BY <2>3, <2>4, SharesSame
<1>21. ASSUME NEW t \in Threads, StartWalk(t) PROVE Shares'
  <2>1. UNCHANGED <<ptr, phase, count, fired, link, node>>
    BY <1>21 DEF StartWalk
  <2> QED
    BY <2>1, SharesSame
<1>22. ASSUME NEW t \in Threads, WalkEnds(t) PROVE Shares'
  <2>1. UNCHANGED <<ptr, phase, count, fired, link, node>>
    BY <1>22 DEF WalkEnds
  <2> QED
    BY <2>1, SharesSame
<1>23. ASSUME NEW t \in Threads, WalkWakes(t) PROVE Shares'
  <2> DEFINE n == First(t)
  <2>1. n \in Nodes
    BY <1>23, HeldNodes DEF WalkWakes
  <2>1a. node[n].wptr \in Procs
    BY <1>1, <2>1, <1>23 DEF WalkWakes
  <2>1b. PICK p \in Procs : p = node[n].wptr
    BY <2>1a
  <2>2. /\ node'[n].wptr = NULL /\ \A m \in Nodes \ {n} : node'[m] = node[m]
    <3>1. node' = Blanked(node, {n}) /\ {n} \in SUBSET Nodes
      BY <1>23, <2>1 DEF WalkWakes
    <3> QED
      BY <3>1, NodesFreed DEF Blank
  <2>3. /\ phase' = [phase EXCEPT ![p] = "top"]
        /\ UNCHANGED <<link, fired, count, ptr>> /\ node[n].wptr = p /\ ~node[n].alt
    BY <2>1b, <1>23 DEF WalkWakes, Phase
  <2> HIDE DEF n
  <2>4. p # NULL /\ phase[p] = "sleep"
    BY <1>1, <2>1, <2>3 DEF Pointers
  <2>5. \A q \in Procs : link[q] # n
    BY <1>1, <2>1, <2>3, <2>4 DEF Memory
  <2>6. Share(p)'
    BY <1>1, <1>2, <2>3, <2>4 DEF Share, Triggering
  <2>7. \A m \in Nodes : node'[m].wptr \in {node[m].wptr, NULL}
    BY <2>2
  <2>8. \A q \in Procs : link[q] # NULL => node'[link[q]].wptr = node[link[q]].wptr
    BY <1>1, <2>2, <2>5
  <2> QED
    BY <1>1, <2>3, <2>4, <2>6, <2>7, <2>8, SharesOfOthers
<1>24. ASSUME NEW t \in Threads, WalkChallenges(t) PROVE Shares'
  <2>1. First(t) \in Nodes
    BY <1>24, HeldNodes DEF WalkChallenges
  <2>2. now[t] \in Times
    BY DEF TInv, TypeOK
  <2>3. Changed(First(t), node[First(t)].wptr, node[First(t)].dirty)
    BY <1>24, <2>1, <2>2, NodeChanges DEF WalkChallenges
  <2>4. UNCHANGED <<ptr, phase, count, fired, link>>
    BY <1>24 DEF WalkChallenges
  <2>5. \A m \in Nodes : node'[m].wptr = node[m].wptr
    BY <2>3 DEF Changed
  <2> QED
    BY <2>4, <2>5, SharesSame
<1>25. ASSUME NEW t \in Threads, WalkSwaps(t) PROVE Shares'
  <2>1. at[t] \in Nodes /\ at[t] \in Held(t) /\ pc[t] = "swap" /\ ptr[t] = NULL
    <3>1. at[t] # NULL /\ pc[t] = "swap" /\ ptr[t] = NULL
      BY <1>25 DEF WalkSwaps, TInv, Lists
    <3> QED
      BY <3>1, HeldNodes
  <2> DEFINE n == at[t]
  <2>2. node[n].alt /\ node[n].dirty /\ node[n].scheduler = t
    <3>1. n \in Held(t) => node[n].scheduler = t /\ (node[n].alt <=> node[n].dirty)
          /\ (node[n].alt \/ pc[t] = "tidy")
      BY DEF TInv, Holding
    <3> QED
      BY <2>1, <3>1
  <2>3. Changed(n, NULL, node[n].dirty)
    BY <1>25, <2>1, NodeChanges DEF WalkSwaps
  <2>4. UNCHANGED <<phase, count, fired, link>> /\ ptr' = [ptr EXCEPT ![t] = node[n].wptr]
        /\ ptr \in [Threads -> Procs \cup {NULL}]
    BY <1>25 DEF WalkSwaps, TInv, TypeOK
  <2> HIDE DEF n
  <2>5. \A m \in Nodes : m # n => node'[m].wptr = node[m].wptr
    BY <2>3 DEF Changed
  <2>6. node'[n].wptr = NULL /\ n \in Nodes
    BY <2>1, <2>3 DEF Changed, n
  <2>7. CASE node[n].wptr = NULL
    <3>1. ptr' = ptr
      BY <2>1, <2>4, <2>7
    <3>2. \A m \in Nodes : node'[m].wptr = node[m].wptr
      BY <2>5, <2>6, <2>7
    <3> QED
      BY <2>4, <3>1, <3>2, SharesSame
  <2>8. CASE node[n].wptr # NULL
    <3>0. PICK p \in Procs : p = node[n].wptr
      BY <1>1, <2>6, <2>8
    <3>1. link[p] = n /\ phase[p] \in {"wait", "disable", "swap"}
      <4>1. link[p] = n /\ phase[p] \in {"cas", "wait", "disable", "swap"}
        BY <1>1, <2>2, <2>6, <2>8, <3>0 DEF Pointers
      <4>2. phase[p] # "cas"
        BY <1>1, <2>1, <2>2, <4>1 DEF Pointers, Tasks
      <4> QED
        BY <4>1, <4>2
    <3>2. \A m \in Nodes : node[m].wptr = p => m = n
      BY <1>1, <2>6, <2>8, <3>0 DEF Pointers
    <3>3. \A u \in Threads : ptr[u] # p
      BY <1>1, <2>6, <2>8, <3>0 DEF Shares
    <3>4. \A q \in Procs : q # p => (Triggering(q)' <=> Triggering(q))
      BY <1>1, <2>1, <2>4, <3>0 DEF Triggering
    <3>5. Triggering(p)' /\ ~Triggering(p)
      BY <2>4, <3>0, <3>3 DEF Triggering
    <3>6. count[p] = 1
      BY <1>2, <3>0, <3>1 DEF Share, Owed
    <3>7. ASSUME NEW q \in Procs PROVE Share(q)'
      <4>1. CASE q = p
        BY <2>4, <3>1, <3>5, <3>6, <4>1 DEF Share, Owed, InAlt
      <4>2. CASE q # p
        <5>1. InAlt(q) => node'[link[q]].wptr = node[link[q]].wptr
          BY <1>1, <2>5, <2>6, <3>1, <4>2 DEF Tasks, Memory
        <5>2. Share(q) /\ (Triggering(q)' <=> Triggering(q))
              /\ UNCHANGED <<phase, count, fired, link>>
          BY <1>2, <2>4, <3>4, <4>2
        <5> QED
          BY ONLY <5>1, <5>2 DEF Share, InAlt, Owed
      <4> QED
        BY <4>1, <4>2
    <3>8. ASSUME NEW u \in Threads, NEW m \in Nodes, ptr'[u] # NULL
          PROVE node'[m].wptr # ptr'[u]
      <4>1. CASE u = t
        BY <2>4, <2>5, <2>6, <2>8, <3>0, <3>2, <4>1
      <4>2. CASE u # t
        BY <1>1, <2>4, <2>5, <2>6, <3>8, <4>2 DEF Shares
      <4> QED
        BY <4>1, <4>2
    <3>9. \A u, v \in Threads : ptr'[u] # NULL /\ ptr'[u] = ptr'[v] => u = v
      BY <1>1, <2>1, <2>4, <2>8, <3>0, <3>3 DEF Shares
    <3> QED
      BY <3>7, <3>8, <3>9 DEF Shares
  <2> QED
    BY <2>7, <2>8
<1>26. ASSUME NEW t \in Threads, WalkTriggers(t) PROVE Shares'
  <2>0. PICK p \in Procs : p = ptr[t]
    BY <1>26, Triggered DEF WalkTriggers
  <2>1. /\ count[p] = 1 /\ Triggering(p)
        /\ phase[p] \in {"wait", "disable", "swap", "release", "altend", "join"}
        /\ phase[p] = "release" => fired[p]
        /\ \A n \in Nodes : node[n].wptr # p
        /\ \A u \in Threads : u # t => ptr[u] # p
    BY <1>26, <2>0, Triggered DEF WalkTriggers
  <2>2. /\ UNCHANGED <<node, link, fired>> /\ count' = [count EXCEPT ![p] = count[p] - 1]
        /\ ptr' = [ptr EXCEPT ![t] = NULL] /\ ptr \in [Threads -> Procs \cup {NULL}]
    BY <1>26, <2>0 DEF WalkTriggers, TInv, TypeOK
  <2>3. phase' = [phase EXCEPT ![p] = IF phase[p] = "wait" THEN "disable"
                                      ELSE IF phase[p] = "join" THEN "top" ELSE phase[p]]
    BY <1>1, <2>0, <1>26 DEF WalkTriggers, Phase
  <2>4. p # NULL
    BY <1>1, <2>1
  <2>5. ~Triggering(p)'
    BY <2>0, <2>1, <2>2, <2>4 DEF Triggering
  <2>6. \A q \in Procs : q # p => (Triggering(q)' <=> Triggering(q))
    BY <1>1, <2>0, <2>2 DEF Triggering
  <2>7. ASSUME NEW q \in Procs PROVE Share(q)'
    <3>1. CASE q = p
      <4>1. count'[p] = 0 /\ fired'[p] = fired[p] /\ link'[p] = link[p]
        BY <1>1, <2>1, <2>2
      <4>2. \/ phase[p] \in {"wait", "disable"} /\ phase'[p] = "disable"
            \/ phase[p] = "swap" /\ phase'[p] = "swap"
            \/ phase[p] = "release" /\ phase'[p] = "release"
            \/ phase[p] = "altend" /\ phase'[p] = "altend"
            \/ phase[p] = "join" /\ phase'[p] = "top"
        BY <1>1, <2>1, <2>3
      <4>3. phase[p] \in {"wait", "disable", "swap", "release"} => link[p] \in Nodes
        BY <1>1, <2>1 DEF Tasks, InAlt
      <4>4. phase[p] \in {"wait", "disable", "swap", "release"} => node'[link'[p]].wptr # p
        BY <2>1, <2>2, <4>3
      <4>5. phase[p] = "release" => node'[link'[p]].wptr = NULL
        BY <1>2, <2>1, <2>2 DEF Share
      <4> QED
        BY <2>1, <2>5, <3>1, <4>1, <4>2, <4>4, <4>5 DEF Share, Owed, InAlt
    <3>2. CASE q # p
      <4>1. /\ Share(q) /\ (Triggering(q)' <=> Triggering(q)) /\ phase'[q] = phase[q]
            /\ count'[q] = count[q] /\ fired'[q] = fired[q] /\ link'[q] = link[q] /\ node' = node
        BY <1>1, <1>2, <2>2, <2>3, <2>6, <3>2
      <4> QED
        BY ONLY <4>1 DEF Share, InAlt, Owed
    <3> QED
      BY <3>1, <3>2
  <2> QED
    BY <1>1, <2>2, <2>7 DEF Shares
<1>27. ASSUME NEW t \in Threads, WalkPassesDead(t) PROVE Shares'
  <2>1. UNCHANGED <<ptr, phase, count, fired, link, node>>
    BY <1>27 DEF WalkPassesDead
  <2> QED
    BY <2>1, SharesSame
<1>28. ASSUME NEW t \in Threads, WalkCleans(t) PROVE Shares'
  <2>1. at[t] \in Nodes
    BY <1>28, HeldNodes DEF WalkCleans, TInv, Lists
  <2>2. UNCHANGED <<ptr, phase, count, fired, link>>
    BY <1>28 DEF WalkCleans
  <2>3. \A m \in Nodes : node'[m].wptr = node[m].wptr
    BY <1>28, <2>1, NodeChanges DEF WalkCleans, Changed
  <2> QED
    BY <2>2, <2>3, SharesSame
<1>29. CASE Tick
  <2>1. /\ UNCHANGED <<ptr, phase, count, fired, link>>
        /\ \A m \in Nodes : node'[m].wptr = node[m].wptr
    BY <1>29, TickFacts
  <2> QED
    BY <2>1, SharesSame
<1> QED
  BY <1>3, <1>4, <1>5, <1>6, <1>7, <1>8, <1>9, <1>10, <1>11, <1>12, <1>13, <1>14,
     <1>15, <1>16, <1>17, <1>18, <1>19, <1>20, <1>21, <1>22, <1>23, <1>24, <1>25,
     <1>26, <1>27, <1>28, <1>29
     DEF Next, Call, Walk

(* No timer is set at the start.                                            *)
LEMMA InitTInv == Init => TInv
<1> SUFFICES ASSUME Init PROVE TInv
  OBVIOUS
<1>1. /\ \A t \in Threads : tq[t] = <<>> /\ at[t] = NULL /\ ptr[t] = NULL /\ pc[t] = "run"
      /\ \A n \in Nodes : node[n] = Blank
      /\ \A p \in Procs : phase[p] = "top" /\ place[p] = "queue" /\ link[p] = NULL /\ count[p] = 0
      /\ free = Nodes /\ laundry = {}
  BY DEF Init
<1>2. \A t \in Threads : ToSet(tq[t]) = {} /\ Held(t) = {}
  BY <1>1 DEF ToSet, Held
<1>3. TypeOK
  <2>1. Blank \in [wptr : Procs \cup {NULL}, alt : BOOLEAN, time : Times,
                   dirty : BOOLEAN, scheduler : Threads \cup {NULL}]
    BY Delays DEF Blank, Clock
  <2>2. <<>> \in Seq(Nodes)
    OBVIOUS
  <2>3. 0 \in Times
    BY Delays DEF Clock
  <2> QED
    BY <2>1, <2>2, <2>3 DEF Init, TypeOK, Phases
<1>4. Tasks
  BY <1>1, NamesAssumption DEF Tasks, InAlt
<1>5. Lists
  BY <1>1 DEF Lists, IsInjective
<1>6. Holding
  BY <1>1, <1>2 DEF Holding, Blank
<1>7. Memory
  BY <1>1 DEF Memory
<1>8. Pointers
  BY <1>1 DEF Pointers, Blank
<1>9. Shares
  BY <1>1, NamesAssumption DEF Shares, Share, Triggering, Owed
<1> QED
  BY <1>3, <1>4, <1>5, <1>6, <1>7, <1>8, <1>9 DEF TInv

(* Every step keeps the invariant.                                          *)
LEMMA NextTInv == TInv /\ [Next]_vars => TInv'
<1> SUFFICES ASSUME TInv, [Next]_vars PROVE TInv'
  OBVIOUS
<1> QED
  BY TypeOKStep, TasksStep, ListsStep, HoldingStep, MemoryStep, PointersStep, SharesStep DEF TInv

(* The state keeps its types and the whole inductive invariant.             *)
THEOREM TimerInvariance == Spec => []TInv
BY InitTInv, NextTInv, PTL DEF Spec

(* A node that a thread has linked or looks at is not given away.           *)
THEOREM NodesAreNotReused == Spec => []NodeNotReused
<1>1. ASSUME TInv PROVE NodeNotReused
  <2>1. ASSUME NEW t \in Threads, NEW n \in Held(t)
        PROVE  /\ n \notin free
               /\ n \in laundry => node[n].dirty
               /\ node[n].scheduler = t
               /\ n \in ToSet(tq[t]) => node[n].wptr # NULL \/ node[n].dirty
    <3>1. /\ node[n].scheduler = t /\ n \notin free
          /\ node[n].alt <=> node[n].dirty
          /\ node[n].alt \/ node[n].wptr # NULL
      BY <1>1 DEF TInv, Holding
    <3>2. n \in laundry => node[n].alt
      BY <1>1 DEF TInv, Memory
    <3> QED
      BY <3>1, <3>2
  <2>2. ASSUME NEW n \in laundry, node[n].dirty PROVE n \in Held(node[n].scheduler)
    BY <1>1, <2>2 DEF TInv, TypeOK, Holding
  <2> QED
    BY <2>1, <2>2 DEF NodeNotReused
<1> QED
  BY <1>1, TimerInvariance, PTL

(* The count of a process that has left its ALT is zero.                    *)
THEOREM TimersCountOnce == Spec => []CountedOnce
<1>1. ASSUME TInv, NEW p \in Procs
      PROVE  /\ count[p] \in 0..1
             /\ phase[p] \in {"top", "sleep", "cas"} => count[p] = 0
             /\ phase[p] = "join" => count[p] = 1 /\ \E t \in Threads : ptr[t] = p
  <2>1. Share(p) /\ count[p] \in 0..1
    BY <1>1 DEF TInv, TypeOK, Shares
  <2> QED
    BY <2>1 DEF Share, Triggering
<1>2. TInv => CountedOnce
  BY <1>1 DEF CountedOnce
<1> QED
  BY <1>2, TimerInvariance, PTL

-----------------------------------------------------------------------------
(* Times, and the order of a queue *)

(* Remainders of numbers less than two ranges away.                         *)
LEMMA Wraps ==
  ASSUME NEW a \in Int, NEW r \in Nat, r > 0
  PROVE  /\ 0 <= a /\ a < r => a % r = a
         /\ 0 - r <= a /\ a < 0 => a % r = a + r
         /\ r <= a /\ a < r + r => a % r = a - r
<1> DEFINE q == a \div r
           m == a % r
<1>1. m \in Int /\ q \in Int /\ 0 <= m /\ m < r /\ a = r * q + m
  OBVIOUS
<1> HIDE DEF q, m
<1>2. ASSUME 0 <= a, a < r PROVE m = a
  <2>1. CASE q >= 1
    <3>1. r * q >= r
      BY <2>1, <1>1, SMTT(30)
    <3> QED
      BY ONLY <1>1, <1>2, <3>1, r \in Nat, a \in Int
  <2>2. CASE q <= 0 - 1
    <3>1. r * q <= 0 - r
      BY <2>2, <1>1, SMTT(30)
    <3> QED
      BY ONLY <1>1, <1>2, <3>1, r \in Nat, a \in Int
  <2>3. CASE q = 0
    BY <1>1, <2>3
  <2> QED
    BY <1>1, <2>1, <2>2, <2>3
<1>3. ASSUME 0 - r <= a, a < 0 PROVE m = a + r
  <2>1. CASE q >= 0
    <3>1. r * q >= 0
      BY <2>1, <1>1, SMTT(30)
    <3> QED
      BY ONLY <1>1, <1>3, <3>1, r \in Nat, a \in Int
  <2>2. CASE q <= 0 - 2
    <3>1. r * q <= 0 - (r + r)
      BY <2>2, <1>1, SMTT(30)
    <3> QED
      BY ONLY <1>1, <1>3, <3>1, r \in Nat, a \in Int
  <2>3. CASE q = 0 - 1
    <3>1. r * q = 0 - r
      BY <2>3
    <3> QED
      BY <1>1, <3>1
  <2> QED
    BY <1>1, <2>1, <2>2, <2>3
<1>4. ASSUME r <= a, a < r + r PROVE m = a - r
  <2>1. CASE q >= 2
    <3>1. r * q >= r + r
      BY <2>1, <1>1, SMTT(30)
    <3> QED
      BY ONLY <1>1, <1>4, <3>1, r \in Nat, a \in Int
  <2>2. CASE q <= 0
    <3>1. r * q <= 0
      BY <2>2, <1>1, SMTT(30)
    <3> QED
      BY ONLY <1>1, <1>4, <3>1, r \in Nat, a \in Int
  <2>3. CASE q = 1
    <3>1. r * q = r
      BY <2>3
    <3> QED
      BY <1>1, <3>1
  <2> QED
    BY <1>1, <2>1, <2>2, <2>3
<1> QED
  BY <1>2, <1>3, <1>4 DEF m

(* What the assumptions on the constants say.                               *)
LEMMA Ranges ==
  /\ TimeRange \in Nat /\ TimeRange > 0 /\ MaxDelay \in Nat /\ MaxLate \in Nat
  /\ Half \in Nat /\ TimeRange = Half + Half /\ Cardinality(Nodes) \in Nat
  /\ MaxDelay + MaxLate + 1 + Cardinality(Nodes) < Half
<1>1. Cardinality(Nodes) \in Nat
  BY NodesAssumption, FS_CardinalityType
<1> QED
  BY <1>1, TimeAssumption DEF Half

(* How far ahead a clock value is.                                          *)
LEMMA AheadType ==
  ASSUME NEW x \in Times
  PROVE  /\ Ahead(x) \in Int /\ 0 - Half <= Ahead(x) /\ Ahead(x) < Half
         /\ x = IF Ahead(x) >= 0 THEN Ahead(x) ELSE Ahead(x) + TimeRange
  BY Ranges DEF Ahead, Times

(* After is the order of how far ahead two times are, when they are close.  *)
LEMMA AfterIs ==
  ASSUME NEW x \in Times, NEW y \in Times,
         Ahead(x) - Ahead(y) < Half, Ahead(y) - Ahead(x) < Half
  PROVE  After(x, y) <=> Ahead(x) > Ahead(y)
<1>1. /\ Ahead(x) \in Int /\ Ahead(y) \in Int /\ x \in Int /\ y \in Int
      /\ x = (IF Ahead(x) >= 0 THEN Ahead(x) ELSE Ahead(x) + TimeRange)
      /\ y = (IF Ahead(y) >= 0 THEN Ahead(y) ELSE Ahead(y) + TimeRange)
      /\ 0 - TimeRange < y - x /\ y - x < TimeRange
  BY AheadType, Ranges DEF Times
<1> DEFINE d == y - x
           m == d % TimeRange
<1>2. d \in Int /\ m \in Int /\ (0 <= d => m = d) /\ (d < 0 => m = d + TimeRange)
  BY <1>1, Wraps, Ranges
<1>3. After(x, y) <=> m >= Half
  BY DEF After, Half
<1> HIDE DEF m
<1> QED
  BY <1>1, <1>2, <1>3, Ranges

(* The times that processes ask for, and a time one tick later.             *)
LEMMA AheadOfClock ==
  /\ Clock \in Times /\ Ahead(Clock) = 0
  /\ \A d \in 0..(MaxDelay + 1) : Clock + d \in Times /\ Ahead(Clock + d) = d
  BY Ranges DEF Clock, Times, Ahead

(* A tick takes one off.                                                    *)
LEMMA AheadLater ==
  ASSUME NEW x \in Times, Ahead(x) > 0 - Half
  PROVE  Older(x) \in Times /\ Ahead(Older(x)) = Ahead(x) - 1
<1>1. x - 1 \in Int /\ 0 - TimeRange <= x - 1 /\ x - 1 < TimeRange
  BY Ranges DEF Times
<1>2. Older(x) = IF x = 0 THEN TimeRange - 1 ELSE x - 1
  BY <1>1, Wraps, Ranges DEF Older, Times
<1> QED
  BY <1>2, Ranges, AheadType DEF Ahead, Times

(* How late a time may be for the clock to run on.                          *)
LEMMA RecentIs ==
  ASSUME NEW x \in Times, 0 - (MaxLate + Cardinality(Nodes)) <= Ahead(x), Ahead(x) <= MaxDelay + 1
  PROVE  Recent(x) <=> Ahead(x) >= 1 - MaxLate
<1> DEFINE d == x - ((Clock - MaxLate) + 1)
           m == d % TimeRange
<1>1. /\ Ahead(x) \in Int /\ x \in Int /\ d \in Int
      /\ x = (IF Ahead(x) >= 0 THEN Ahead(x) ELSE Ahead(x) + TimeRange)
  BY AheadType, Ranges DEF Times, Clock
<1>2. d = x - 1 + MaxLate
  BY <1>1, Ranges DEF Clock
<1>3. CASE Ahead(x) >= 0
  <2>1. d = Ahead(x) - 1 + MaxLate
    BY <1>1, <1>2, <1>3
  <2>2. 0 - TimeRange <= d /\ d < TimeRange
    BY <1>1, <1>3, <2>1, AheadType, Ranges
  <2>3. m \in Int /\ (0 <= d => m = d) /\ (d < 0 => m = d + TimeRange)
    <3>1. d \in Int /\ TimeRange \in Nat /\ TimeRange > 0
      BY <1>1, Ranges
    <3> HIDE DEF d
    <3> QED
      BY ONLY <2>2, <3>1, Wraps
  <2>4. Recent(x) <=> ~(m >= Half)
    BY DEF Recent, After, Half
  <2> HIDE DEF m, d
  <2> QED
    BY <1>1, <1>3, <2>1, <2>3, <2>4, Ranges
<1>4. CASE Ahead(x) < 0
  <2>1. d = Ahead(x) + TimeRange - 1 + MaxLate
    BY <1>1, <1>2, <1>4, Ranges
  <2>2. 0 <= d /\ d < TimeRange + TimeRange
    BY <1>1, <1>4, <2>1, Ranges
  <2>3. m \in Int /\ (d < TimeRange => m = d) /\ (d >= TimeRange => m = d - TimeRange)
    BY <1>1, <2>2, Wraps, Ranges
  <2>4. Recent(x) <=> ~(m >= Half)
    BY DEF Recent, After, Half
  <2> HIDE DEF m, d
  <2> QED
    BY <1>1, <1>4, <2>1, <2>3, <2>4, Ranges
<1> QED
  BY <1>1, <1>3, <1>4

(* A queue's times, in order, none too late for its place or too far off;   *)
(* and when its thread looks at it.                                         *)
InOrder(n, D) ==
    /\ \A i, j \in 1..n : i < j => D[i] <= D[j]
    /\ \A i \in 1..n : Latest(i) <= D[i] /\ D[i] <= MaxDelay + 1
Alarmed(n, D, a) ==
    n > 0 => /\ D[1] <= a
             /\ a = D[1] \/ a <= 1
             /\ a > 0 => \A i \in 1..n : Latest(i) < D[i]
At(x) == IF x > 0 THEN x ELSE 1

(* How late a time may be at a place.                                       *)
LEMMA LatestIs ==
  \A i \in Int : Latest(i) = i - (MaxLate + Cardinality(Nodes) + 1) /\ Latest(i) \in Int
BY Ranges DEF Latest

(* One more time, at its place.                                             *)
LEMMA OrderOfInserted ==
  ASSUME NEW n \in Nat, NEW D, \A i \in 1..n : D[i] \in Int, InOrder(n, D), n + 1 <= Cardinality(Nodes),
         NEW k \in 0..n, NEW x \in 0..(MaxDelay + 1), NEW E,
         \A i \in 1..k : D[i] <= x,
         \A i \in (k + 1)..n : D[i] > x,
         \A i \in 1..k : E[i] = D[i],
         E[k + 1] = x,
         \A i \in (k + 2)..(n + 1) : E[i] = D[i - 1]
  PROVE  /\ InOrder(n + 1, E)
         /\ k = 0 => Alarmed(n + 1, E, At(x))
         /\ \A a \in Int : k > 0 /\ Alarmed(n, D, a) => Alarmed(n + 1, E, a)
<1>1. \A i \in 1..(n + 1) : E[i] = IF i <= k THEN D[i] ELSE IF i = k + 1 THEN x ELSE D[i - 1]
  OBVIOUS
<1>2. x \in Int /\ 0 <= x /\ x <= MaxDelay + 1 /\ k \in Int /\ 0 <= k /\ k <= n
  BY Ranges
<1>3. \A i \in 1..(n + 1) : Latest(i) < 0
  BY LatestIs, Ranges
<1>4. \A i \in 1..n : Latest(i) <= D[i] /\ D[i] <= MaxDelay + 1
  BY DEF InOrder
<1>5. \A i \in 1..(n + 1) : Latest(i) <= E[i] /\ E[i] <= MaxDelay + 1
  <2> SUFFICES ASSUME NEW i \in 1..(n + 1) PROVE Latest(i) <= E[i] /\ E[i] <= MaxDelay + 1
    OBVIOUS
  <2>1. CASE i <= k
    BY <1>1, <1>2, <1>4, <2>1
  <2>2. CASE i = k + 1
    BY <1>2, <1>3, <2>2, LatestIs
  <2>3. CASE i > k + 1
    BY <1>1, <1>2, <1>3, <1>4, <2>3, LatestIs
  <2> QED
    BY <1>2, <2>1, <2>2, <2>3
<1>6. \A i, j \in 1..(n + 1) : i < j => E[i] <= E[j]
  <2> SUFFICES ASSUME NEW i \in 1..(n + 1), NEW j \in 1..(n + 1), i < j PROVE E[i] <= E[j]
    OBVIOUS
  <2>1. \A c, d \in 1..n : c < d => D[c] <= D[d]
    BY DEF InOrder
  <2>2. CASE j <= k
    BY <1>1, <1>2, <2>1, <2>2
  <2>3. CASE i <= k /\ j = k + 1
    BY <1>1, <1>2, <2>3
  <2>4. CASE i <= k /\ j > k + 1
    <3>1. i \in 1..n /\ j - 1 \in 1..n /\ i < j - 1 /\ E[i] = D[i] /\ E[j] = D[j - 1]
      BY <1>1, <1>2, <2>4
    <3> QED
      BY <2>1, <3>1
  <2>5. CASE i = k + 1
    BY <1>1, <1>2, <2>5
  <2>6. CASE i > k + 1
    <3>1. i - 1 \in 1..n /\ j - 1 \in 1..n /\ i - 1 < j - 1 /\ E[i] = D[i - 1] /\ E[j] = D[j - 1]
      BY <1>1, <1>2, <2>6
    <3> QED
      BY <2>1, <3>1
  <2> QED
    BY <1>2, <2>2, <2>3, <2>4, <2>5, <2>6
<1>7. k = 0 => Alarmed(n + 1, E, At(x))
  <2> SUFFICES ASSUME k = 0 PROVE Alarmed(n + 1, E, At(x))
    OBVIOUS
  <2>1. E[1] = x
    OBVIOUS
  <2>2. \A i \in 1..(n + 1) : Latest(i) < E[i]
    BY <1>1, <1>2, <1>3, LatestIs
  <2> QED
    BY <1>2, <2>1, <2>2 DEF Alarmed, At
<1>8. ASSUME NEW a \in Int, k > 0, Alarmed(n, D, a) PROVE Alarmed(n + 1, E, a)
  <2>1. n > 0 /\ E[1] = D[1]
    BY <1>1, <1>2, <1>8
  <2>2. ASSUME a > 0, NEW i \in 1..(n + 1) PROVE Latest(i) < E[i]
    <3>1. CASE i <= k
      BY <1>1, <1>2, <1>8, <2>1, <2>2, <3>1 DEF Alarmed
    <3>2. CASE i > k
      BY <1>1, <1>2, <1>3, <3>2, LatestIs
    <3> QED
      BY <1>2, <3>1, <3>2
  <2> QED
    BY <1>8, <2>1, <2>2 DEF Alarmed
<1> QED
  BY <1>5, <1>6, <1>7, <1>8 DEF InOrder

(* One time less: those behind it move up.                                  *)
LEMMA OrderOfRemoved ==
  ASSUME NEW n \in Nat, NEW D, \A i \in 1..n : D[i] \in Int, InOrder(n, D),
         NEW k \in 1..n, NEW E,
         \A i \in 1..(k - 1) : E[i] = D[i],
         \A i \in k..(n - 1) : E[i] = D[i + 1]
  PROVE  /\ InOrder(n - 1, E)
         /\ k = 1 /\ n > 1 => Alarmed(n - 1, E, At(D[2]))
         /\ \A a \in Int : k > 1 /\ Alarmed(n, D, a) => Alarmed(n - 1, E, a)
<1>1. /\ \A i \in 1..(n - 1) : E[i] = IF i < k THEN D[i] ELSE D[i + 1]
      /\ k \in Int /\ 1 <= k /\ k <= n /\ n - 1 \in Nat
  OBVIOUS
<1>2. \A i \in 1..n : Latest(i) <= D[i] /\ D[i] <= MaxDelay + 1
  BY DEF InOrder
<1>3. \A i, j \in 1..n : i < j => D[i] <= D[j]
  BY DEF InOrder
<1>4. \A i \in k..(n - 1) : Latest(i) < E[i]
  <2> SUFFICES ASSUME NEW i \in k..(n - 1) PROVE Latest(i) < E[i]
    OBVIOUS
  <2>1. E[i] = D[i + 1] /\ i + 1 \in 1..n /\ i \in Int
    BY <1>1
  <2>2. Latest(i + 1) <= D[i + 1] /\ D[i + 1] \in Int
    BY <1>2, <2>1
  <2>3. Latest(i) < Latest(i + 1) /\ Latest(i) \in Int /\ Latest(i + 1) \in Int
    BY <2>1, LatestIs, Ranges
  <2> QED
    BY <2>1, <2>2, <2>3
<1>5. InOrder(n - 1, E)
  <2>1. ASSUME NEW i \in 1..(n - 1), NEW j \in 1..(n - 1), i < j PROVE E[i] <= E[j]
    <3>1. CASE j < k
      BY <1>1, <1>3, <2>1, <3>1
    <3>2. CASE i < k /\ k <= j
      <4>1. i \in 1..n /\ j + 1 \in 1..n /\ i < j + 1 /\ E[i] = D[i] /\ E[j] = D[j + 1]
        BY <1>1, <3>2
      <4> QED
        BY <1>3, <4>1
    <3>3. CASE k <= i
      <4>1. i + 1 \in 1..n /\ j + 1 \in 1..n /\ i + 1 < j + 1 /\ E[i] = D[i + 1] /\ E[j] = D[j + 1]
        BY <1>1, <2>1, <3>3
      <4> QED
        BY <1>3, <4>1
    <3> QED
      BY <1>1, <2>1, <3>1, <3>2, <3>3
  <2>2. ASSUME NEW i \in 1..(n - 1) PROVE Latest(i) <= E[i] /\ E[i] <= MaxDelay + 1
    <3>1. CASE i < k
      BY <1>1, <1>2, <3>1
    <3>2. CASE k <= i
      BY <1>1, <1>2, <1>4, <3>2, LatestIs
    <3> QED
      BY <1>1, <3>1, <3>2
  <2> QED
    BY <2>1, <2>2 DEF InOrder
<1>6. ASSUME k = 1, n > 1 PROVE Alarmed(n - 1, E, At(D[2]))
  <2>1. E[1] = D[2] /\ D[2] \in Int
    BY <1>1, <1>6
  <2>2. \A i \in 1..(n - 1) : Latest(i) < E[i]
    BY <1>4, <1>6
  <2> QED
    BY <2>1, <2>2 DEF Alarmed, At
<1>7. ASSUME NEW a \in Int, k > 1, Alarmed(n, D, a) PROVE Alarmed(n - 1, E, a)
  <2>1. n > 0 /\ E[1] = D[1]
    BY <1>1, <1>7
  <2>2. ASSUME a > 0, NEW i \in 1..(n - 1) PROVE Latest(i) < E[i]
    <3>1. CASE i < k
      BY <1>1, <1>7, <2>1, <2>2, <3>1 DEF Alarmed
    <3>2. CASE k <= i
      BY <1>1, <1>4, <3>2
    <3> QED
      BY <1>1, <3>1, <3>2
  <2> QED
    BY <1>7, <2>1, <2>2 DEF Alarmed
<1> QED
  BY <1>5, <1>6, <1>7

(* A tick, which there is only when no time is too late.                    *)
LEMMA OrderOfTick ==
  ASSUME NEW n \in Nat, NEW D, \A i \in 1..n : D[i] \in Int, InOrder(n, D), n <= Cardinality(Nodes),
         NEW E, \A i \in 1..n : E[i] = D[i] - 1
  PROVE  /\ (\A i \in 1..n : D[i] >= 1 - MaxLate) => InOrder(n, E)
         /\ \A a \in Int : /\ Alarmed(n, D, a)
                           /\ n > 0 => a > 0 \/ \A i \in 1..n : D[i] >= 1 - MaxLate
                           => InOrder(n, E) /\ Alarmed(n, E, a - 1)
<1>1. \A i \in 1..n : Latest(i) <= D[i] /\ D[i] <= MaxDelay + 1 /\ Latest(i) <= 0 - MaxLate - 1
                      /\ Latest(i) \in Int
  BY LatestIs, Ranges DEF InOrder
<1>2. \A i, j \in 1..n : i < j => E[i] <= E[j]
  <2>1. \A i, j \in 1..n : i < j => D[i] <= D[j]
    BY DEF InOrder
  <2> QED
    BY <2>1
<1>3. (\A i \in 1..n : D[i] >= 1 - MaxLate) => \A i \in 1..n : Latest(i) < E[i] /\ E[i] <= MaxDelay + 1
  BY <1>1, Ranges
<1>4. ASSUME \A i \in 1..n : D[i] >= 1 - MaxLate PROVE InOrder(n, E)
  BY <1>1, <1>2, <1>3, <1>4 DEF InOrder
<1>5. ASSUME NEW a \in Int, Alarmed(n, D, a), n > 0 => a > 0 \/ \A i \in 1..n : D[i] >= 1 - MaxLate
      PROVE  InOrder(n, E) /\ Alarmed(n, E, a - 1)
  <2>1. CASE n = 0
    BY <2>1 DEF InOrder, Alarmed
  <2>2. CASE n > 0
    <3>1. D[1] <= a /\ (a = D[1] \/ a <= 1) /\ (a > 0 => \A i \in 1..n : Latest(i) < D[i]) /\ D[1] \in Int
          /\ E[1] = D[1] - 1
      BY <1>5, <2>2 DEF Alarmed
    <3>2. InOrder(n, E)
      <4>1. CASE a > 0
        BY <1>1, <1>2, <3>1, <4>1, Ranges DEF InOrder
      <4> QED
        BY <1>4, <1>5, <2>2, <4>1
    <3>3. ASSUME a - 1 > 0, NEW i \in 1..n PROVE Latest(i) < E[i]
      <4>1. a = D[1] /\ D[1] > 1
        BY <3>1, <3>3
      <4>2. D[1] <= D[i]
        BY <2>2, <4>1 DEF InOrder
      <4> QED
        BY <1>1, <4>1, <4>2, Ranges
    <3> QED
      BY <3>1, <3>2, <3>3 DEF Alarmed
  <2> QED
    BY <2>1, <2>2
<1> QED
  BY <1>4, <1>5

(* No queue is longer than there are nodes.                                 *)
LEMMA QueueLength ==
  ASSUME NEW s \in Seq(Nodes), IsInjective(s)
  PROVE  Len(s) \in Nat /\ Len(s) <= Cardinality(Nodes)
<1> DEFINE n == Len(s)
<1>1. n \in Nat /\ s \in [1..n -> Nodes] /\ DOMAIN s = 1..n
  OBVIOUS
<1> HIDE DEF n
<1>2. s \in Bijection(1..n, ToSet(s))
  <2>1. s \in [1..n -> ToSet(s)] /\ \A x \in ToSet(s) : \E i \in 1..n : s[i] = x
    BY <1>1 DEF ToSet
  <2> QED
    BY <1>1, <2>1 DEF Bijection, Injection, Surjection, IsInjective
<1>3. Cardinality(ToSet(s)) = n
  BY <1>1, <1>2, FS_CountingElements DEF ExistsBijection
<1>4. ToSet(s) \in SUBSET Nodes
  BY <1>1 DEF ToSet
<1>5. n <= Cardinality(Nodes)
  BY <1>3, <1>4, FS_Subset, NodesAssumption
<1> QED
  BY <1>1, <1>5 DEF n

(* The times of a queue, and what Sorted, Timely and Alarms say of it.      *)
Dates(t)   == [i \in 1..Len(tq[t]) |-> TimeAt(t, i)]
Ordered(t) ==
    /\ InOrder(Len(tq[t]), Dates(t))
    /\ t \notin Walking => Alarmed(Len(tq[t]), Dates(t), Ahead(timeout[t]))

(* What the lemmas below use of a queue.                                    *)
LEMMA QueueFacts ==
  ASSUME TInv, NEW t \in Threads
  PROVE  /\ tq[t] \in Seq(Nodes) /\ IsInjective(tq[t]) /\ timeout[t] \in Times
         /\ Len(tq[t]) \in Nat /\ Len(tq[t]) <= Cardinality(Nodes)
         /\ tq[t] = <<>> <=> Len(tq[t]) = 0
         /\ \A n \in Nodes : node[n].time \in Times
         /\ \A i \in 1..Len(tq[t]) : /\ tq[t][i] \in Nodes /\ tq[t][i] \in ToSet(tq[t])
                                     /\ Dates(t)[i] = TimeAt(t, i) /\ Dates(t)[i] \in Int
                                     /\ Dates(t)[i] = Ahead(node[tq[t][i]].time)
<1>1. tq[t] \in Seq(Nodes) /\ IsInjective(tq[t]) /\ timeout[t] \in Times
  BY DEF TInv, TypeOK, Lists
<1>2. \A n \in Nodes : node[n].time \in Times
  BY DEF TInv, TypeOK
<1>3. \A i \in 1..Len(tq[t]) : tq[t][i] \in Nodes /\ tq[t][i] \in ToSet(tq[t])
  BY <1>1 DEF ToSet
<1>4. \A i \in 1..Len(tq[t]) : Dates(t)[i] = TimeAt(t, i) /\ TimeAt(t, i) = Ahead(node[tq[t][i]].time)
  BY DEF Dates, TimeAt
<1>5. \A x \in Times : Ahead(x) \in Int
  BY AheadType
<1>6. \A i \in 1..Len(tq[t]) : Dates(t)[i] \in Int
  BY ONLY <1>2, <1>3, <1>4, <1>5
<1>7. tq[t] = <<>> <=> Len(tq[t]) = 0
  BY <1>1
<1> QED
  BY ONLY <1>1, <1>2, <1>3, <1>4, <1>6, <1>7, QueueLength

(* The three parts of the invariant, queue by queue.                        *)
LEMMA OrderedIs ==
  ASSUME TInv
  PROVE  (Sorted /\ Timely /\ Alarms) <=> \A t \in Threads : Ordered(t)
<1>1. \A t \in Threads : /\ Len(tq[t]) \in Nat /\ (tq[t] = <<>> <=> Len(tq[t]) = 0)
                         /\ \A i \in 1..Len(tq[t]) : Dates(t)[i] = TimeAt(t, i)
  BY QueueFacts
<1>2. Sorted /\ Timely <=> \A t \in Threads : InOrder(Len(tq[t]), Dates(t))
  BY ONLY <1>1 DEF Sorted, Timely, InOrder
<1>3. Alarms <=> \A t \in Threads \ Walking : Alarmed(Len(tq[t]), Dates(t), Ahead(timeout[t]))
  BY ONLY <1>1 DEF Alarms, Alarmed
<1> QED
  BY ONLY <1>2, <1>3 DEF Ordered

(* The same of the state after a step.                                      *)
LEMMA OrderedIsNext ==
  TInv' => ((Sorted /\ Timely /\ Alarms)' <=> (\A t \in Threads : Ordered(t))')
<1>1. TInv => ((Sorted /\ Timely /\ Alarms) <=> \A t \in Threads : Ordered(t))
  BY OrderedIs
<1> QED
  BY <1>1, PTL

(* A queue that a step leaves alone.                                        *)
LEMMA OrderKept ==
  ASSUME TInv, NEW u \in Threads, Ordered(u), tq'[u] = tq[u], timeout'[u] = timeout[u],
         u \in Walking => u \in Walking',
         \A n \in ToSet(tq[u]) : node'[n].time = node[n].time
  PROVE  Ordered(u)'
<1>1. /\ Len(tq[u]) \in Nat /\ \A i \in 1..Len(tq[u]) : tq[u][i] \in ToSet(tq[u])
  BY QueueFacts
<1>2. Dates(u)' = [i \in 1..Len(tq'[u]) |-> Ahead(node'[tq'[u][i]].time)]
  BY DEF Dates, TimeAt
<1>3. Dates(u) = [i \in 1..Len(tq[u]) |-> Ahead(node[tq[u][i]].time)]
  BY DEF Dates, TimeAt
<1>4. Dates(u)' = Dates(u)
  BY ONLY <1>1, <1>2, <1>3, tq'[u] = tq[u], \A n \in ToSet(tq[u]) : node'[n].time = node[n].time
<1>5. Ordered(u)' <=> /\ InOrder(Len(tq'[u]), Dates(u)')
                      /\ u \notin Walking' => Alarmed(Len(tq'[u]), Dates(u)', Ahead(timeout'[u]))
  BY DEF Ordered
<1> QED
  BY ONLY <1>4, <1>5, Ordered(u), tq'[u] = tq[u], timeout'[u] = timeout[u],
          u \in Walking => u \in Walking' DEF Ordered

(* Where two times compare as the clock readings they are.                  *)
LEMMA CloseTimes ==
  ASSUME NEW x \in Times, NEW y \in Times,
         0 - (MaxLate + Cardinality(Nodes)) <= Ahead(x), Ahead(x) <= MaxDelay + 1,
         0 - (MaxLate + Cardinality(Nodes)) <= Ahead(y), Ahead(y) <= MaxDelay + 1
  PROVE  After(x, y) <=> Ahead(x) > Ahead(y)
<1>1. Ahead(x) \in Int /\ Ahead(y) \in Int
  BY AheadType
<1>2. Ahead(x) - Ahead(y) < Half /\ Ahead(y) - Ahead(x) < Half
  BY <1>1, Ranges
<1> QED
  BY <1>2, AfterIs

(* The times in a queue are close to the clock.                             *)
LEMMA DatesInRange ==
  ASSUME TInv, NEW t \in Threads, Ordered(t), NEW i \in 1..Len(tq[t])
  PROVE  /\ 0 - (MaxLate + Cardinality(Nodes)) <= Dates(t)[i] /\ Dates(t)[i] <= MaxDelay + 1
         /\ Dates(t)[i] \in Int /\ Dates(t)[i] = Ahead(node[tq[t][i]].time)
         /\ node[tq[t][i]].time \in Times
<1>1. Latest(i) <= Dates(t)[i] /\ Dates(t)[i] <= MaxDelay + 1
  BY DEF Ordered, InOrder
<1>2. i \in Int /\ 1 <= i
  BY QueueFacts
<1>3. Latest(i) >= 0 - (MaxLate + Cardinality(Nodes)) /\ Latest(i) \in Int
  <2>1. Latest(i) = i - (MaxLate + Cardinality(Nodes) + 1) /\ Latest(i) \in Int
    BY <1>2, LatestIs
  <2>2. MaxLate \in Nat /\ Cardinality(Nodes) \in Nat
    BY Ranges
  <2> QED
    BY ONLY <1>2, <2>1, <2>2
<1> QED
  <2>1. /\ Dates(t)[i] \in Int /\ Dates(t)[i] = Ahead(node[tq[t][i]].time)
        /\ node[tq[t][i]].time \in Times
    BY QueueFacts
  <2>2. 0 - (MaxLate + Cardinality(Nodes)) \in Int
    BY Ranges
  <2> QED
    BY ONLY <1>1, <1>3, <2>1, <2>2

(* insert_tqnode finds the place behind all earlier and equal times.        *)
LEMMA PlaceSorts ==
  ASSUME TInv, NEW t \in Threads, Ordered(t), NEW x \in 0..(MaxDelay + 1)
  PROVE  LET k == Place(tq[t], Clock + x) IN
         /\ k \in 0..Len(tq[t])
         /\ \A i \in 1..k : Dates(t)[i] <= x
         /\ \A i \in (k + 1)..Len(tq[t]) : Dates(t)[i] > x
<1> DEFINE q == tq[t]
           time == Clock + x
<1>1. q \in Seq(Nodes) /\ Len(q) \in Nat /\ (q = <<>> <=> Len(q) = 0) /\ DOMAIN q = 1..Len(q)
  BY QueueFacts
<1>2. time \in Times /\ Ahead(time) = x /\ x \in Int /\ 0 <= x /\ x <= MaxDelay + 1
  BY AheadOfClock, Ranges
<1>3. \A i \in 1..Len(q) : After(node[q[i]].time, time) <=> Dates(t)[i] > x
  <2> SUFFICES ASSUME NEW i \in 1..Len(q) PROVE After(node[q[i]].time, time) <=> Dates(t)[i] > x
    OBVIOUS
  <2>1. /\ 0 - (MaxLate + Cardinality(Nodes)) <= Dates(t)[i] /\ Dates(t)[i] <= MaxDelay + 1
        /\ Dates(t)[i] = Ahead(node[q[i]].time) /\ node[q[i]].time \in Times
    BY DatesInRange
  <2>2. 0 - (MaxLate + Cardinality(Nodes)) <= x
    BY <1>2, Ranges
  <2> QED
    BY ONLY <1>2, <2>1, <2>2, CloseTimes
<1>4. /\ \A i, j \in 1..Len(q) : i < j => Dates(t)[i] <= Dates(t)[j]
      /\ \A i \in 1..Len(q) : Dates(t)[i] \in Int
  BY QueueFacts DEF Ordered, InOrder
<1>5. PICK D : D = Dates(t)
  OBVIOUS
<1>6. CASE q = <<>>
  BY <1>1, <1>6 DEF Place
<1>7. CASE q # <<>>
  <2> DEFINE front(k) == After(node[q[k]].time, time)
             back(k)  == ~After(node[q[Len(q) + 1 - k]].time, time)
             S == {i \in DOMAIN q : front(i) \/ back(i)}
             k == Min(S)
  <2>1. Place(q, time) = IF front(k) THEN k - 1 ELSE Len(q) + 1 - k
    BY <1>7 DEF Place
  <2>2. /\ \A i \in 1..Len(q) : front(i) <=> D[i] > x
        /\ \A i \in 1..Len(q) : back(i) <=> ~(D[Len(q) + 1 - i] > x)
    <3>1. \A i \in 1..Len(q) : Len(q) + 1 - i \in 1..Len(q)
      BY <1>1
    <3> QED
      BY ONLY <1>3, <1>5, <3>1
  <2> HIDE DEF front, back, q, time
  <2>3. S \subseteq 1..Len(q) /\ S # {}
    <3>1. Len(q) \in 1..Len(q) /\ 1 \in 1..Len(q) /\ Len(q) + 1 - 1 = Len(q)
      BY <1>1, <1>7
    <3>2. front(Len(q)) \/ back(1)
      BY <2>2, <3>1
    <3> QED
      BY <1>1, <3>1, <3>2
  <2>4. \A i \in 1..Len(q) : i \in S <=> front(i) \/ back(i)
    BY <1>1
  <2> HIDE DEF S
  <2>5. \E y \in S : \A z \in S : y <= z
    BY ONLY <1>1, <2>3, Least
  <2>6. k \in S /\ \A z \in S : k <= z
    BY <2>5 DEF Min
  <2> HIDE DEF k
  <2>7. k \in 1..Len(q) /\ k \in Int /\ 1 <= k /\ k <= Len(q) /\ (front(k) \/ back(k))
    BY <1>1, <2>3, <2>4, <2>6
  <2>8. \A i \in 1..Len(q) : i < k => D[i] <= x /\ D[Len(q) + 1 - i] > x
    BY <1>1, <1>2, <1>4, <1>5, <2>2, <2>4, <2>6, <2>7
  <2>9. CASE front(k)
    <3>1. D[k] > x
      BY <2>2, <2>7, <2>9
    <3>2. \A i \in k..Len(q) : D[i] > x
      BY <1>1, <1>2, <1>4, <1>5, <2>7, <3>1
    <3>3. \A i \in 1..(k - 1) : D[i] <= x
      BY <1>1, <2>7, <2>8
    <3>4. Place(q, time) = k - 1 /\ k - 1 \in 0..Len(q) /\ k - 1 + 1 = k
      BY <1>1, <2>1, <2>7, <2>9
    <3> QED
      BY <1>5, <3>2, <3>3, <3>4 DEF q, time
  <2>10. CASE ~front(k)
    <3> DEFINE m == Len(q) + 1 - k
    <3>1. m \in 1..Len(q) /\ m \in Int
      BY <1>1, <2>7
    <3>2. D[m] <= x
      BY <1>2, <1>4, <1>5, <2>2, <2>7, <2>10, <3>1
    <3>3. \A i \in 1..m : D[i] <= x
      BY <1>1, <1>2, <1>4, <1>5, <3>1, <3>2
    <3>4. \A i \in (m + 1)..Len(q) : D[i] > x
      <4> SUFFICES ASSUME NEW i \in (m + 1)..Len(q) PROVE D[i] > x
        OBVIOUS
      <4>1. /\ Len(q) + 1 - i \in 1..Len(q) /\ Len(q) + 1 - i < k
            /\ Len(q) + 1 - (Len(q) + 1 - i) = i
        BY <1>1, <2>7
      <4> QED
        BY <2>8, <4>1
    <3>5. Place(q, time) = m /\ m \in 0..Len(q)
      BY <1>1, <2>1, <2>10, <3>1
    <3> QED
      BY <1>5, <3>3, <3>4, <3>5 DEF q, time
  <2> QED
    BY <2>9, <2>10
<1> QED
  BY <1>6, <1>7

(* The timeout that is set when a node comes to the front.                  *)
LEMMA TimeoutSet ==
  ASSUME TInv, NEW t \in Threads, NEW y \in Times, SetTimeout(t, y),
         0 - (MaxLate + Cardinality(Nodes)) <= Ahead(y), Ahead(y) <= MaxDelay + 1
  PROVE  /\ Ahead(timeout'[t]) = At(Ahead(y))
         /\ \A u \in Threads : u # t => timeout'[u] = timeout[u]
<1>1. timeout \in [Threads -> Times]
  BY DEF TInv, TypeOK
<1>2. /\ Clock \in Times /\ Ahead(Clock) = 0 /\ Clock + 1 \in Times /\ Ahead(Clock + 1) = 1
      /\ 0 - (MaxLate + Cardinality(Nodes)) <= Ahead(Clock) /\ Ahead(Clock) <= MaxDelay + 1
  BY AheadOfClock, Ranges
<1>3. After(y, Clock) <=> Ahead(y) > 0
  BY <1>2, CloseTimes
<1>4. timeout' = [timeout EXCEPT ![t] = IF After(y, Clock) THEN y ELSE Clock + 1]
  BY DEF SetTimeout
<1> QED
  BY ONLY <1>1, <1>2, <1>3, <1>4, t \in Threads DEF At

(* No node is in two queues. *)
LEMMA OneQueue ==
  ASSUME TInv, NEW t \in Threads, NEW u \in Threads, u # t, NEW n \in ToSet(tq[t])
  PROVE  n \notin ToSet(tq[u])
<1>1. \A v \in Threads : n \in ToSet(tq[v]) => node[n].scheduler = v
  BY HeldNodes DEF TInv, Holding
<1> QED
  BY <1>1

(* insert_tqnode keeps the queue in order, and the others.                  *)
LEMMA OrderInserted ==
  ASSUME TInv, TInv', \A u \in Threads : Ordered(u), NEW t \in Threads, NEW p \in Procs,
         NEW x \in 0..(MaxDelay + 1), NEW alt \in BOOLEAN,
         Insert(t, p, Clock + x, alt), pc[t] = "run", UNCHANGED pc
  PROVE  \A u \in Threads : Ordered(u)'
<1> DEFINE time == Clock + x
<1>1. time \in Times /\ Ahead(time) = x /\ x \in Int /\ 0 <= x /\ x <= MaxDelay + 1
      /\ 0 - (MaxLate + Cardinality(Nodes)) <= x
  BY AheadOfClock, Ranges
<1>2. Entered(t, Spare, p, time, alt)
  BY <1>1, InsertFacts
<1> HIDE DEF time
<1>3. PICK s : s = Spare
  OBVIOUS
<1>4. PICK q : q = tq[t]
  OBVIOUS
<1>5. PICK D : D = Dates(t)
  OBVIOUS
<1>6. PICK k : k = Place(tq[t], Clock + x)
  OBVIOUS
<1>7. /\ k \in 0..Len(q)
      /\ \A i \in 1..k : D[i] <= x
      /\ \A i \in (k + 1)..Len(q) : D[i] > x
  BY <1>4, <1>5, <1>6, PlaceSorts
<1>8. /\ q \in Seq(Nodes) /\ Len(q) \in Nat /\ s \in Nodes
      /\ \A i \in 1..Len(q) : /\ D[i] \in Int /\ D[i] = Ahead(node[q[i]].time)
                              /\ q[i] \in Nodes /\ q[i] \in ToSet(q)
      /\ (tq[t] = <<>> <=> Len(q) = 0)
  BY <1>2, <1>3, <1>4, <1>5, QueueFacts DEF Entered
<1>9. tq'[t] = InsertAt(q, k + 1, s)
  <2>1. tq' = [tq EXCEPT ![t] = InsertAt(tq[t], Place(tq[t], Clock + x) + 1, Spare)]
    BY DEF Insert
  <2>2. tq \in [Threads -> Seq(Nodes)]
    BY DEF TInv, TypeOK
  <2> QED
    BY <1>3, <1>4, <1>6, <2>1, <2>2
<1>10. /\ Len(tq'[t]) = Len(q) + 1
       /\ \A i \in 1..k : tq'[t][i] = q[i]
       /\ tq'[t][k + 1] = s
       /\ \A i \in (k + 2)..(Len(q) + 1) : tq'[t][i] = q[i - 1]
  <2>1. k \in 0..Len(q) /\ q \in Seq(Nodes) /\ s \in Nodes
    BY <1>7, <1>8
  <2> QED
    BY ONLY <1>9, <2>1, InsertedAt
<1>11. \A u \in Threads : \A m \in ToSet(tq[u]) : m # s /\ node'[m].time = node[m].time
  <2> SUFFICES ASSUME NEW u \in Threads, NEW m \in ToSet(tq[u])
               PROVE  m # s /\ node'[m].time = node[m].time
    OBVIOUS
  <2>1. m \in Nodes /\ m \in Held(u)
    BY HeldNodes
  <2>2. m # s
    BY <1>2, <1>3, <2>1 DEF Entered
  <2> QED
    BY <1>2, <1>3, <2>1, <2>2 DEF Entered
<1>12. node'[s].time = time
  BY <1>2, <1>3 DEF Entered
<1>13. Len(q) + 1 <= Cardinality(Nodes)
  <2>1. tq'[t] \in Seq(Nodes) /\ IsInjective(tq'[t])
    BY <1>2 DEF Entered
  <2> QED
    BY ONLY <1>10, <2>1, QueueLength
<1>14. PICK E : E = [i \in 1..(Len(q) + 1) |-> IF i <= k THEN D[i] ELSE IF i = k + 1 THEN x ELSE D[i - 1]]
  OBVIOUS
<1>15. Dates(t)' = E
  <2>1. Dates(t)' = [i \in 1..Len(tq'[t]) |-> Ahead(node'[tq'[t][i]].time)]
    BY DEF Dates, TimeAt
  <2>2. \A i \in 1..(Len(q) + 1) : Ahead(node'[tq'[t][i]].time) =
                                     IF i <= k THEN D[i] ELSE IF i = k + 1 THEN x ELSE D[i - 1]
    <3> SUFFICES ASSUME NEW i \in 1..(Len(q) + 1)
                 PROVE  Ahead(node'[tq'[t][i]].time) =
                           IF i <= k THEN D[i] ELSE IF i = k + 1 THEN x ELSE D[i - 1]
      OBVIOUS
    <3>0. \A m \in ToSet(q) : node'[m].time = node[m].time
      BY <1>4, <1>11
    <3>1. CASE i <= k
      <4>1. tq'[t][i] = q[i] /\ i \in 1..Len(q)
        BY <1>7, <1>8, <1>10, <3>1
      <4> QED
        BY ONLY <1>8, <3>0, <3>1, <4>1
    <3>2. CASE i = k + 1
      <4>1. tq'[t][i] = s /\ ~(i <= k)
        BY <1>7, <1>10, <3>2
      <4> QED
        BY ONLY <1>1, <1>12, <3>2, <4>1
    <3>3. CASE i > k + 1
      <4>1. tq'[t][i] = q[i - 1] /\ i - 1 \in 1..Len(q) /\ ~(i <= k) /\ i # k + 1
        BY <1>7, <1>8, <1>10, <3>3
      <4> QED
        BY ONLY <1>8, <3>0, <4>1
    <3> QED
      BY <1>7, <3>1, <3>2, <3>3
  <2> QED
    BY ONLY <1>10, <1>14, <2>1, <2>2
<1>16. /\ InOrder(Len(q) + 1, E)
       /\ k = 0 => Alarmed(Len(q) + 1, E, At(x))
       /\ \A a \in Int : k > 0 /\ Alarmed(Len(q), D, a) => Alarmed(Len(q) + 1, E, a)
  <2>1. InOrder(Len(q), D)
    BY <1>4, <1>5 DEF Ordered
  <2>2. /\ \A i \in 1..k : E[i] = D[i]
        /\ E[k + 1] = x
        /\ \A i \in (k + 2)..(Len(q) + 1) : E[i] = D[i - 1]
    BY <1>7, <1>8, <1>14
  <2> QED
    <3>1. /\ Len(q) \in Nat /\ Len(q) + 1 <= Cardinality(Nodes) /\ k \in 0..Len(q)
          /\ x \in 0..(MaxDelay + 1)
      BY <1>7, <1>8, <1>13
    <3>2. \A i \in 1..Len(q) : D[i] \in Int
      BY <1>8
    <3>3. \A i \in 1..k : D[i] <= x
      BY <1>7
    <3>4. \A i \in (k + 1)..Len(q) : D[i] > x
      BY <1>7
    <3> QED
      BY ONLY <2>1, <2>2, <3>1, <3>2, <3>3, <3>4, OrderOfInserted
<1>17. Alarmed(Len(q) + 1, E, Ahead(timeout'[t]))
  <2>1. CASE k = 0
    <3>1. SetTimeout(t, time)
      BY <1>6, <2>1 DEF Insert, time
    <3> QED
      BY <1>1, <1>16, <2>1, <3>1, TimeoutSet
  <2>2. CASE k > 0
    <3>1. timeout' = timeout
      BY <1>6, <2>2 DEF Insert
    <3>2. t \notin Walking
      BY DEF Walking
    <3>3. Alarmed(Len(q), D, Ahead(timeout[t])) /\ Ahead(timeout[t]) \in Int
      BY <1>4, <1>5, <3>2, QueueFacts, AheadType DEF Ordered
    <3> QED
      BY <1>16, <2>2, <3>1, <3>3
  <2> QED
    BY <1>7, <2>1, <2>2
<1>18. Ordered(t)'
  <2>1. Ordered(t)' <=> /\ InOrder(Len(tq'[t]), Dates(t)')
                        /\ t \notin Walking' => Alarmed(Len(tq'[t]), Dates(t)', Ahead(timeout'[t]))
    BY DEF Ordered
  <2> QED
    BY ONLY <1>10, <1>15, <1>16, <1>17, <2>1
<1>19. ASSUME NEW u \in Threads, u # t PROVE Ordered(u)'
  <2>1. tq'[u] = tq[u]
    BY <1>2, <1>19 DEF Entered
  <2>2. timeout'[u] = timeout[u]
    <3>1. timeout' = timeout \/ SetTimeout(t, time)
      BY DEF Insert, time
    <3> QED
      BY <1>1, <1>19, <3>1, TimeoutSet
  <2>3. u \in Walking => u \in Walking'
    BY DEF Walking
  <2>4. Ordered(u)
    OBVIOUS
  <2> QED
    BY ONLY <1>11, <2>1, <2>2, <2>3, <2>4, OrderKept, TInv, u \in Threads
<1> QED
  BY <1>18, <1>19

(* The times that are left when the k-th node is taken out.                 *)
LEMMA DatesLeft ==
  ASSUME TInv, NEW t \in Threads, Ordered(t), NEW k \in 1..Len(tq[t]),
         tq'[t] = RemoveAt(tq[t], k),
         \A m \in ToSet(tq[t]) : m # tq[t][k] => node'[m].time = node[m].time
  PROVE  /\ Len(tq'[t]) = Len(tq[t]) - 1 /\ Len(tq[t]) \in Nat
         /\ InOrder(Len(tq[t]) - 1, Dates(t)')
         /\ k = 1 /\ Len(tq[t]) > 1 => Alarmed(Len(tq[t]) - 1, Dates(t)', At(Dates(t)[2]))
         /\ \A a \in Int : k > 1 /\ Alarmed(Len(tq[t]), Dates(t), a) =>
                              Alarmed(Len(tq[t]) - 1, Dates(t)', a)
<1>1. PICK q : q = tq[t]
  OBVIOUS
<1>2. PICK D : D = Dates(t)
  OBVIOUS
<1>3. /\ q \in Seq(Nodes) /\ IsInjective(q) /\ Len(q) \in Nat /\ k \in 1..Len(q)
      /\ \A i \in 1..Len(q) : /\ D[i] \in Int /\ D[i] = Ahead(node[q[i]].time)
                              /\ q[i] \in Nodes /\ q[i] \in ToSet(q)
  BY <1>1, <1>2, QueueFacts
<1>4. /\ Len(tq'[t]) = Len(q) - 1
      /\ \A i \in 1..(k - 1) : tq'[t][i] = q[i]
      /\ \A i \in k..(Len(q) - 1) : tq'[t][i] = q[i + 1]
  <2>1. q \in Seq(Nodes) /\ k \in DOMAIN q /\ tq'[t] = RemoveAt(q, k)
    BY <1>1, <1>3
  <2> QED
    BY ONLY <2>1, RemovedAt
<1>5. \A i \in 1..Len(q) : i # k => node'[q[i]].time = node[q[i]].time
  <2>1. DOMAIN q = 1..Len(q)
    BY <1>3
  <2>2. \A i \in 1..Len(q) : i # k => q[i] # q[k]
    BY ONLY <1>3, <2>1 DEF IsInjective
  <2> QED
    BY <1>1, <1>3, <2>2
<1>6. PICK E : E = [i \in 1..(Len(q) - 1) |-> IF i < k THEN D[i] ELSE D[i + 1]]
  OBVIOUS
<1>7. Dates(t)' = E
  <2>1. Dates(t)' = [i \in 1..Len(tq'[t]) |-> Ahead(node'[tq'[t][i]].time)]
    BY DEF Dates, TimeAt
  <2>2. \A i \in 1..(Len(q) - 1) : Ahead(node'[tq'[t][i]].time) = IF i < k THEN D[i] ELSE D[i + 1]
    <3> SUFFICES ASSUME NEW i \in 1..(Len(q) - 1)
                 PROVE  Ahead(node'[tq'[t][i]].time) = IF i < k THEN D[i] ELSE D[i + 1]
      OBVIOUS
    <3>1. CASE i < k
      <4>1. tq'[t][i] = q[i] /\ i \in 1..Len(q) /\ i # k
        BY ONLY <1>3, <1>4, <3>1, i \in 1..(Len(q) - 1)
      <4> QED
        BY ONLY <1>3, <1>5, <3>1, <4>1
    <3>2. CASE ~(i < k)
      <4>1. tq'[t][i] = q[i + 1] /\ i + 1 \in 1..Len(q) /\ i + 1 # k
        BY ONLY <1>3, <1>4, <3>2, i \in 1..(Len(q) - 1)
      <4> QED
        BY ONLY <1>3, <1>5, <3>2, <4>1
    <3> QED
      BY <3>1, <3>2
  <2> QED
    BY ONLY <1>4, <1>6, <2>1, <2>2
<1>8. /\ InOrder(Len(q) - 1, E)
      /\ k = 1 /\ Len(q) > 1 => Alarmed(Len(q) - 1, E, At(D[2]))
      /\ \A a \in Int : k > 1 /\ Alarmed(Len(q), D, a) => Alarmed(Len(q) - 1, E, a)
  <2>1. InOrder(Len(q), D)
    BY <1>1, <1>2 DEF Ordered
  <2>2. Len(q) \in Nat /\ k \in 1..Len(q)
    BY <1>3
  <2>3. \A i \in 1..Len(q) : D[i] \in Int
    BY <1>3
  <2>4. \A i \in 1..(k - 1) : E[i] = D[i]
    BY <1>6, <2>2
  <2>5. \A i \in k..(Len(q) - 1) : E[i] = D[i + 1]
    BY <1>6, <2>2
  <2> QED
    BY ONLY <2>1, <2>2, <2>3, <2>4, <2>5, OrderOfRemoved
<1> QED
  BY ONLY <1>1, <1>2, <1>3, <1>4, <1>7, <1>8

(* delete_tqnode keeps the queue in order, and the others.                  *)
LEMMA OrderDeleted ==
  ASSUME TInv, \A u \in Threads : Ordered(u), NEW t \in Threads, NEW n \in ToSet(tq[t]),
         Delete(t, n), t \notin Walking, \A u \in Threads : u # t => pc'[u] = pc[u],
         \A m \in Nodes : m # n => node'[m].time = node[m].time
  PROVE  \A u \in Threads : Ordered(u)'
<1>1. PICK k : k = Index(t, n)
  OBVIOUS
<1>2. k \in 1..Len(tq[t]) /\ tq[t][k] = n
  <2>1. \E i \in DOMAIN tq[t] : tq[t][i] = n
    BY DEF ToSet
  <2>2. k \in DOMAIN tq[t] /\ tq[t][k] = n
    BY <1>1, <2>1 DEF Index
  <2>3. DOMAIN tq[t] = 1..Len(tq[t])
    BY QueueFacts
  <2> QED
    BY <2>2, <2>3
<1>3. tq'[t] = RemoveAt(tq[t], k)
  <2>1. tq' = [tq EXCEPT ![t] = RemoveAt(tq[t], k)] /\ tq \in [Threads -> Seq(Nodes)]
    BY <1>1 DEF Delete, TInv, TypeOK
  <2> QED
    BY <2>1
<1>4. Gone(t, n)
  BY DeleteFacts
<1>5. /\ Len(tq'[t]) = Len(tq[t]) - 1 /\ Len(tq[t]) \in Nat
      /\ InOrder(Len(tq[t]) - 1, Dates(t)')
      /\ k = 1 /\ Len(tq[t]) > 1 => Alarmed(Len(tq[t]) - 1, Dates(t)', At(Dates(t)[2]))
      /\ \A a \in Int : k > 1 /\ Alarmed(Len(tq[t]), Dates(t), a) =>
                           Alarmed(Len(tq[t]) - 1, Dates(t)', a)
  <2>1. \A m \in ToSet(tq[t]) : m # tq[t][k] => node'[m].time = node[m].time
    BY <1>2, HeldNodes
  <2>2. Ordered(t)
    OBVIOUS
  <2> QED
    BY ONLY <1>2, <1>3, <2>1, <2>2, TInv, t \in Threads, DatesLeft
<1>6. (tq[t] = <<n>> <=> Len(tq[t]) = 1) /\ Head(tq[t]) = tq[t][1]
  <2>1. tq[t] \in Seq(Nodes) /\ Len(tq[t]) \in Nat /\ k \in 1..Len(tq[t]) /\ tq[t][k] = n /\ n \in Nodes
    BY <1>2, QueueFacts
  <2>2. tq[t] = <<n>> => Len(tq[t]) = 1
    OBVIOUS
  <2>3. ASSUME Len(tq[t]) = 1 PROVE tq[t] = <<n>>
    <3>1. tq[t][1] = n
      BY <2>1, <2>3
    <3> QED
      BY ONLY <2>1, <2>3, <3>1
  <2>4. Head(tq[t]) = tq[t][1]
    BY ONLY <2>1
  <2> QED
    BY <2>2, <2>3, <2>4
<1>7. Head(tq[t]) = n <=> k = 1
  <2>1. \A i, j \in 1..Len(tq[t]) : tq[t][i] = tq[t][j] => i = j
    <3>1. DOMAIN tq[t] = 1..Len(tq[t]) /\ IsInjective(tq[t])
      BY QueueFacts
    <3> QED
      BY ONLY <3>1 DEF IsInjective
  <2>2. 1 \in 1..Len(tq[t])
    BY <1>2, <1>5
  <2> QED
    BY <1>2, <1>6, <2>1, <2>2
<1>8. /\ \A u \in Threads : u # t => timeout'[u] = timeout[u]
      /\ Alarmed(Len(tq[t]) - 1, Dates(t)', Ahead(timeout'[t]))
  <2>1. CASE tq[t] = <<n>>
    <3>1. NoTimeout(t)
      BY <2>1 DEF Delete
    <3>2. timeout' = [timeout EXCEPT ![t] = 0] /\ timeout \in [Threads -> Times]
      BY <3>1 DEF NoTimeout, TInv, TypeOK
    <3>3. \A u \in Threads : u # t => timeout'[u] = timeout[u]
      BY <3>2
    <3>4. Alarmed(0, Dates(t)', Ahead(timeout'[t]))
      BY DEF Alarmed
    <3> QED
      BY <1>6, <2>1, <3>3, <3>4
  <2>2. CASE tq[t] # <<n>> /\ k = 1
    <3>1. Len(tq[t]) > 1 /\ 2 \in 1..Len(tq[t])
      <4>1. Len(tq[t]) # 1
        BY <1>6, <2>2
      <4>2. Len(tq[t]) \in Nat /\ 1 \in 1..Len(tq[t])
        BY <1>2, <1>5, <2>2
      <4>3. \A l \in Nat : l # 1 /\ 1 \in 1..l => l > 1 /\ 2 \in 1..l
        OBVIOUS
      <4> QED
        BY ONLY <4>1, <4>2, <4>3
    <3>2. SetTimeout(t, node[tq[t][2]].time)
      BY <1>7, <2>2 DEF Delete
    <3>3. /\ 0 - (MaxLate + Cardinality(Nodes)) <= Dates(t)[2] /\ Dates(t)[2] <= MaxDelay + 1
          /\ Dates(t)[2] = Ahead(node[tq[t][2]].time)
          /\ node[tq[t][2]].time \in Times
      BY <3>1, DatesInRange
    <3>4. /\ Ahead(timeout'[t]) = At(Dates(t)[2])
          /\ \A u \in Threads : u # t => timeout'[u] = timeout[u]
      BY ONLY <3>2, <3>3, TInv, t \in Threads, TimeoutSet
    <3> QED
      BY <1>5, <2>2, <3>1, <3>4
  <2>3. CASE tq[t] # <<n>> /\ k # 1
    <3>1. timeout' = timeout
      BY <1>7, <2>3 DEF Delete
    <3>2. Alarmed(Len(tq[t]), Dates(t), Ahead(timeout[t])) /\ Ahead(timeout[t]) \in Int
      BY QueueFacts, AheadType DEF Ordered
    <3>3. k > 1
      BY <1>2, <2>3
    <3> QED
      BY <1>5, <3>1, <3>2, <3>3
  <2> QED
    BY <2>1, <2>2, <2>3
<1>9. Ordered(t)'
  <2>1. Ordered(t)' <=> /\ InOrder(Len(tq'[t]), Dates(t)')
                        /\ t \notin Walking' => Alarmed(Len(tq'[t]), Dates(t)', Ahead(timeout'[t]))
    BY DEF Ordered
  <2> QED
    BY <1>5, <1>8, <2>1
<1>10. ASSUME NEW u \in Threads, u # t PROVE Ordered(u)'
  <2>1. tq'[u] = tq[u] /\ timeout'[u] = timeout[u]
    BY <1>4, <1>8, <1>10 DEF Gone
  <2>2. u \in Walking => u \in Walking'
    BY <1>10 DEF Walking
  <2>3. \A m \in ToSet(tq[u]) : node'[m].time = node[m].time
    BY <1>10, OneQueue, HeldNodes
  <2>4. Ordered(u)
    OBVIOUS
  <2> QED
    BY ONLY <2>1, <2>2, <2>3, <2>4, OrderKept, TInv, u \in Threads
<1> QED
  BY <1>9, <1>10

(* A walk takes the first node, and looks at the timeout only when it ends. *)
LEMMA OrderBehind ==
  ASSUME TInv, \A u \in Threads : Ordered(u), NEW t \in Threads, tq[t] # <<>>, Behind(t),
         t \in Walking', UNCHANGED timeout, \A u \in Threads : u # t => pc'[u] = pc[u],
         \A m \in Nodes : m # First(t) => node'[m].time = node[m].time
  PROVE  \A u \in Threads : Ordered(u)'
<1>1. Gone(t, First(t))
  BY BehindFacts
<1>2. 1 \in 1..Len(tq[t]) /\ tq[t][1] = First(t) /\ tq'[t] = RemoveAt(tq[t], 1)
  <2>1. tq[t] \in Seq(Nodes) /\ tq \in [Threads -> Seq(Nodes)]
    BY DEF TInv, TypeOK
  <2>2. Len(tq[t]) \in Nat \ {0} /\ Head(tq[t]) = tq[t][1] /\ 1 \in 1..Len(tq[t]) /\ 1 \in DOMAIN tq[t]
    BY <2>1
  <2>3. Tail(tq[t]) \in Seq(Nodes) /\ Len(Tail(tq[t])) = Len(tq[t]) - 1
        /\ \A i \in 1..(Len(tq[t]) - 1) : Tail(tq[t])[i] = tq[t][i + 1]
    BY <2>1
  <2>4. /\ RemoveAt(tq[t], 1) \in Seq(Nodes) /\ Len(RemoveAt(tq[t], 1)) = Len(tq[t]) - 1
        /\ \A i \in 1..(Len(tq[t]) - 1) : RemoveAt(tq[t], 1)[i] = tq[t][i + 1]
    BY ONLY <2>1, <2>2, RemovedAt
  <2>5. RemoveAt(tq[t], 1) = Tail(tq[t])
    BY ONLY <2>1, <2>2, <2>3, <2>4
  <2>6. tq'[t] = Tail(tq[t])
    BY <2>1 DEF Behind
  <2> QED
    BY <2>2, <2>5, <2>6 DEF First
<1>3. InOrder(Len(tq'[t]), Dates(t)')
  <2>1. \A m \in ToSet(tq[t]) : m # tq[t][1] => node'[m].time = node[m].time
    BY <1>2, HeldNodes
  <2>2. Ordered(t)
    OBVIOUS
  <2>3. Len(tq'[t]) = Len(tq[t]) - 1 /\ InOrder(Len(tq[t]) - 1, Dates(t)')
    BY ONLY <1>2, <2>1, <2>2, TInv, t \in Threads, DatesLeft
  <2> QED
    BY <2>3
<1>4. Ordered(t)'
  <2>1. Ordered(t)' <=> /\ InOrder(Len(tq'[t]), Dates(t)')
                        /\ t \notin Walking' => Alarmed(Len(tq'[t]), Dates(t)', Ahead(timeout'[t]))
    BY DEF Ordered
  <2> QED
    BY <1>3, <2>1
<1>5. ASSUME NEW u \in Threads, u # t PROVE Ordered(u)'
  <2>1. tq'[u] = tq[u] /\ timeout'[u] = timeout[u]
    BY <1>1, <1>5 DEF Gone
  <2>2. u \in Walking => u \in Walking'
    BY <1>5 DEF Walking
  <2>3. \A m \in ToSet(tq[u]) : node'[m].time = node[m].time
    BY <1>5, OneQueue, HeldNodes
  <2>4. Ordered(u)
    OBVIOUS
  <2> QED
    BY ONLY <2>1, <2>2, <2>3, <2>4, OrderKept, TInv, u \in Threads
<1> QED
  BY <1>4, <1>5

(* The clock runs on only when every queue has time for it.                 *)
LEMMA OrderTick ==
  ASSUME TInv, \A u \in Threads : Ordered(u), Tick
  PROVE  \A u \in Threads : Ordered(u)'
<1> SUFFICES ASSUME NEW t \in Threads PROVE Ordered(t)'
  OBVIOUS
<1>1. tq'[t] = tq[t] /\ (t \in Walking' <=> t \in Walking)
  BY TickFacts DEF Walking
<1>2. PICK q : q = tq[t]
  OBVIOUS
<1>3. PICK D : D = Dates(t)
  OBVIOUS
<1>4. /\ Len(q) \in Nat /\ Len(q) <= Cardinality(Nodes) /\ (tq[t] = <<>> <=> Len(q) = 0)
      /\ timeout[t] \in Times
      /\ \A i \in 1..Len(q) : /\ D[i] \in Int /\ D[i] = Ahead(node[q[i]].time)
                              /\ q[i] \in Nodes /\ q[i] \in ToSet(tq[t]) /\ node[q[i]].time \in Times
  BY <1>2, <1>3, QueueFacts
<1>5. \A i \in 1..Len(q) : /\ 0 - (MaxLate + Cardinality(Nodes)) <= D[i] /\ D[i] <= MaxDelay + 1
  BY <1>2, <1>3, DatesInRange
<1>6. \A i \in 1..Len(q) : Ahead(node'[q[i]].time) = D[i] - 1
  <2> SUFFICES ASSUME NEW i \in 1..Len(q) PROVE Ahead(node'[q[i]].time) = D[i] - 1
    OBVIOUS
  <2>1. q[i] \in Linked
    <3>1. q[i] \in Queued /\ q[i] # NULL
      BY <1>4, NamesAssumption DEF Queued
    <3> QED
      BY <3>1 DEF Linked
  <2>2. node'[q[i]].time = Older(node[q[i]].time)
    <3>1. node' = [n \in Nodes |-> IF n \in Linked THEN [node[n] EXCEPT !.time = Older(node[n].time)]
                                                   ELSE node[n]]
      BY DEF Tick
    <3>2. node[q[i]] \in [wptr : Procs \cup {NULL}, alt : BOOLEAN, time : Times,
                          dirty : BOOLEAN, scheduler : Threads \cup {NULL}]
      BY <1>4 DEF TInv, TypeOK
    <3> QED
      BY ONLY <1>4, <2>1, <3>1, <3>2
  <2>3. D[i] > 0 - Half /\ D[i] = Ahead(node[q[i]].time) /\ node[q[i]].time \in Times
    BY <1>4, <1>5, Ranges
  <2> QED
    BY ONLY <2>2, <2>3, AheadLater
<1>7. PICK E : E = [i \in 1..Len(q) |-> D[i] - 1]
  OBVIOUS
<1>8. Dates(t)' = E
  <2>1. Dates(t)' = [i \in 1..Len(tq'[t]) |-> Ahead(node'[tq'[t][i]].time)]
    BY DEF Dates, TimeAt
  <2> QED
    BY ONLY <1>1, <1>2, <1>6, <1>7, <2>1
<1>9. InOrder(Len(q), D) /\ (t \notin Walking => Alarmed(Len(q), D, Ahead(timeout[t])))
  BY <1>2, <1>3 DEF Ordered
<1>10. \A i \in 1..Len(q) : Recent(node[q[i]].time) => D[i] >= 1 - MaxLate
  BY <1>4, <1>5, RecentIs
<1>11. \A i \in 1..Len(q) : Recent(node[q[i]].time) \/ Deferred(q[i])
  <2> SUFFICES ASSUME NEW i \in 1..Len(q) PROVE Recent(node[q[i]].time) \/ Deferred(q[i])
    OBVIOUS
  <2>1. q[i] \in Linked
    BY <1>4, NamesAssumption DEF Linked, Queued
  <2> QED
    BY <2>1 DEF Tick
<1>12. \A i \in 1..Len(q) : Deferred(q[i]) => t \notin Walking /\ After(timeout[t], Clock)
  <2> SUFFICES ASSUME NEW i \in 1..Len(q), Deferred(q[i])
               PROVE  t \notin Walking /\ After(timeout[t], Clock)
    OBVIOUS
  <2>1. PICK u \in Threads \ Walking : q[i] \in ToSet(tq[u]) /\ After(timeout[u], Clock)
    BY DEF Deferred
  <2>2. u = t
    BY <1>4, <2>1, OneQueue
  <2> QED
    BY <2>1, <2>2
<1>13. \A i \in 1..Len(q) : E[i] = D[i] - 1
  BY <1>7
<1>14. \A i \in 1..Len(q) : D[i] \in Int
  BY <1>4
<1>15. CASE t \in Walking
  <2>1. \A i \in 1..Len(q) : D[i] >= 1 - MaxLate
    BY <1>10, <1>11, <1>12, <1>15
  <2>2. InOrder(Len(q), E)
    BY ONLY <1>4, <1>9, <1>13, <1>14, <2>1, OrderOfTick
  <2>3. Ordered(t)' <=> /\ InOrder(Len(tq'[t]), Dates(t)')
                        /\ t \notin Walking' => Alarmed(Len(tq'[t]), Dates(t)', Ahead(timeout'[t]))
    BY DEF Ordered
  <2> QED
    BY <1>1, <1>2, <1>8, <1>15, <2>2, <2>3
<1>16. CASE t \notin Walking
  <2> DEFINE a == Ahead(timeout[t])
  <2>1. a \in Int /\ Alarmed(Len(q), D, a)
    BY <1>4, <1>9, <1>16, AheadType
  <2>2. Len(q) > 0 => a > 0 \/ \A i \in 1..Len(q) : D[i] >= 1 - MaxLate
    <3> SUFFICES ASSUME Len(q) > 0, NEW i \in 1..Len(q), ~(D[i] >= 1 - MaxLate) PROVE a > 0
      BY <2>1
    <3>1. After(timeout[t], Clock)
      BY <1>10, <1>11, <1>12
    <3>2. /\ 0 - (MaxLate + Cardinality(Nodes)) <= D[1] /\ D[1] <= MaxDelay + 1 /\ D[1] \in Int
          /\ D[1] <= a /\ (a = D[1] \/ a <= 1)
      BY <1>4, <1>5, <2>1 DEF Alarmed
    <3>3. /\ 0 - (MaxLate + Cardinality(Nodes)) <= a /\ a <= MaxDelay + 1
      BY <2>1, <3>2, Ranges
    <3>4. /\ Clock \in Times /\ Ahead(Clock) = 0
          /\ 0 - (MaxLate + Cardinality(Nodes)) <= Ahead(Clock) /\ Ahead(Clock) <= MaxDelay + 1
      BY AheadOfClock, Ranges
    <3>5. Ahead(timeout[t]) > Ahead(Clock)
      BY ONLY <1>4, <3>1, <3>3, <3>4, CloseTimes DEF a
    <3> QED
      BY <3>4, <3>5
  <2>3. InOrder(Len(q), E) /\ Alarmed(Len(q), E, a - 1)
    <3> HIDE DEF a
    <3> QED
      BY ONLY <1>4, <1>9, <1>13, <1>14, <2>1, <2>2, OrderOfTick
  <2>4. Len(q) > 0 => Ahead(timeout'[t]) = a - 1
    <3> SUFFICES ASSUME Len(q) > 0 PROVE Ahead(timeout'[t]) = a - 1
      OBVIOUS
    <3>1. timeout'[t] = Older(timeout[t])
      BY <1>4 DEF Tick
    <3>2. D[1] <= a /\ D[1] > 0 - Half /\ D[1] \in Int
      BY <1>4, <1>5, <2>1, Ranges DEF Alarmed
    <3>3. a > 0 - Half
      BY <2>1, <3>2, Ranges
    <3> QED
      BY <1>4, <3>1, <3>3, AheadLater
  <2>5. Alarmed(Len(q), E, Ahead(timeout'[t]))
    BY <1>4, <2>3, <2>4 DEF Alarmed
  <2>6. Ordered(t)' <=> /\ InOrder(Len(tq'[t]), Dates(t)')
                        /\ t \notin Walking' => Alarmed(Len(tq'[t]), Dates(t)', Ahead(timeout'[t]))
    BY DEF Ordered
  <2> QED
    BY <1>1, <1>2, <1>8, <2>3, <2>5, <2>6
<1> QED
  BY <1>15, <1>16

(* Steps that change a node and not its time.                               *)
LEMMA TimesKept ==
  ASSUME TInv, NEW n \in Nodes,
         \/ node' = [node EXCEPT ![n].dirty = FALSE]
         \/ node' = [node EXCEPT ![n].wptr = NULL]
  PROVE  \A m \in Nodes : node'[m].time = node[m].time
<1>1. NodeType
  BY DEF TInv, TypeOK, NodeType
<1>2. ASSUME node' = [node EXCEPT ![n].dirty = FALSE] PROVE \A m \in Nodes : node'[m].time = node[m].time
  BY ONLY <1>1, <1>2, n \in Nodes DEF NodeType
<1>3. ASSUME node' = [node EXCEPT ![n].wptr = NULL] PROVE \A m \in Nodes : node'[m].time = node[m].time
  BY ONLY <1>1, <1>3, n \in Nodes DEF NodeType
<1> QED
  BY <1>2, <1>3

(* Steps that leave all queues alone.                                       *)
LEMMA OrderStays ==
  ASSUME TInv, \A u \in Threads : Ordered(u), UNCHANGED <<tq, timeout>>,
         \A u \in Threads : u \in Walking => u \in Walking',
         \A u \in Threads : \A m \in ToSet(tq[u]) : node'[m].time = node[m].time
  PROVE  \A u \in Threads : Ordered(u)'
<1> SUFFICES ASSUME NEW u \in Threads PROVE Ordered(u)'
  OBVIOUS
<1>1. Ordered(u) /\ tq'[u] = tq[u] /\ timeout'[u] = timeout[u] /\ (u \in Walking => u \in Walking')
      /\ \A m \in ToSet(tq[u]) : node'[m].time = node[m].time
  OBVIOUS
<1> QED
  BY ONLY <1>1, TInv, u \in Threads, OrderKept

(* A walk that ends waits for the first time that is after its own.         *)
LEMMA OrderWalked ==
  ASSUME TInv, \A u \in Threads : Ordered(u), Walks, NEW t \in Threads, WalkEnds(t)
  PROVE  \A u \in Threads : Ordered(u)'
<1>1. /\ UNCHANGED <<tq, node>> /\ t \in Walking
      /\ \A u \in Threads : u # t => pc'[u] = pc[u] /\ timeout'[u] = timeout[u]
  BY DEF WalkEnds, NoTimeout, Leave, TInv, TypeOK, Walking, memory
<1>2. /\ Len(tq[t]) \in Nat /\ (tq[t] = <<>> <=> Len(tq[t]) = 0) /\ Head(tq[t]) = tq[t][1]
      /\ Len(tq[t]) <= Cardinality(Nodes)
  BY QueueFacts
<1>3. Dates(t)' = Dates(t)
  BY <1>1 DEF Dates, TimeAt
<1>4. InOrder(Len(tq[t]), Dates(t))
  BY DEF Ordered
<1>5. Alarmed(Len(tq[t]), Dates(t), Ahead(timeout'[t]))
  <2>1. CASE Len(tq[t]) = 0
    BY <2>1 DEF Alarmed
  <2>2. CASE Len(tq[t]) > 0
    <3>1. After(node[First(t)].time, now[t]) /\ timeout'[t] = node[First(t)].time
      BY <1>2, <2>2 DEF WalkEnds, TInv, TypeOK
    <3>2. First(t) = tq[t][1] /\ 1 \in 1..Len(tq[t])
      BY <1>2, <2>2 DEF First
    <3>3. PICK D : D = Dates(t)
      OBVIOUS
    <3>4. /\ 0 - (MaxLate + Cardinality(Nodes)) <= D[1] /\ D[1] <= MaxDelay + 1
          /\ D[1] = Ahead(node[First(t)].time)
          /\ node[First(t)].time \in Times
      BY <3>2, <3>3, DatesInRange
    <3>5. now[t] \in Times /\ Ahead(now[t]) \in (0 - MaxLate)..0
      BY <1>1 DEF Walks, TInv, TypeOK
    <3>6. /\ 0 - (MaxLate + Cardinality(Nodes)) <= Ahead(now[t]) /\ Ahead(now[t]) <= MaxDelay + 1
      BY <3>5, Ranges
    <3>7. D[1] > Ahead(now[t])
      BY ONLY <3>1, <3>4, <3>5, <3>6, CloseTimes
    <3>8. ASSUME D[1] > 0, NEW i \in 1..Len(tq[t]) PROVE Latest(i) < D[i]
      <4>1. D[1] <= D[i] /\ D[i] \in Int /\ D[1] \in Int
        BY <1>2, <1>4, <2>2, <3>3, QueueFacts DEF InOrder
      <4>2. i \in Int /\ i <= Cardinality(Nodes)
        BY <1>2, Ranges
      <4>3. Latest(i) = i - (MaxLate + Cardinality(Nodes) + 1)
        BY <4>2, LatestIs
      <4>4. MaxLate \in Nat /\ Cardinality(Nodes) \in Nat
        BY Ranges
      <4> QED
        BY ONLY <3>8, <4>1, <4>2, <4>3, <4>4
    <3>9. D[1] \in Int
      BY <3>4, AheadType
    <3> QED
      BY ONLY <3>1, <3>3, <3>4, <3>8, <3>9 DEF Alarmed
  <2> QED
    BY <1>2, <2>1, <2>2
<1>6. Ordered(t)'
  <2>1. Ordered(t)' <=> /\ InOrder(Len(tq'[t]), Dates(t)')
                        /\ t \notin Walking' => Alarmed(Len(tq'[t]), Dates(t)', Ahead(timeout'[t]))
    BY DEF Ordered
  <2> QED
    BY <1>1, <1>3, <1>4, <1>5, <2>1
<1>7. ASSUME NEW u \in Threads, u # t PROVE Ordered(u)'
  <2>1. tq'[u] = tq[u] /\ timeout'[u] = timeout[u]
        /\ \A m \in ToSet(tq[u]) : node'[m].time = node[m].time
    BY <1>1, <1>7
  <2>2. u \in Walking => u \in Walking'
    BY <1>1, <1>7 DEF Walking
  <2>3. Ordered(u)
    OBVIOUS
  <2> QED
    BY ONLY <2>1, <2>2, <2>3, OrderKept, TInv, u \in Threads
<1> QED
  BY <1>6, <1>7

(* Every step keeps the queues in order.                                    *)
LEMMA OrderStep ==
  TInv /\ TInv' /\ Walks /\ (\A u \in Threads : Ordered(u)) /\ [Next]_vars => \A u \in Threads : Ordered(u)'
<1> SUFFICES ASSUME TInv, TInv', Walks, \A u \in Threads : Ordered(u), [Next]_vars
             PROVE  \A u \in Threads : Ordered(u)'
  OBVIOUS
<1>a. /\ NULL \notin Threads \cup Procs \cup Nodes
      /\ pc \in [Threads -> {"run", "tidy", "look", "swap", "trigger", "clean"}]
      /\ \A p \in Procs : link[p] \in Nodes \cup {NULL}
      /\ \A t \in Threads : at[t] \in Nodes \cup {NULL}
  BY NamesAssumption DEF TInv, TypeOK
<1>b. \A u \in Threads : u \in Walking <=> pc[u] \in {"look", "swap", "trigger", "clean"}
  BY DEF Walking
<1>c. \A u \in Threads : u \in Walking' <=> pc'[u] \in {"look", "swap", "trigger", "clean"}
  BY DEF Walking
<1> DEFINE Still == UNCHANGED <<tq, timeout>>
           Walkers == \A u \in Threads : pc[u] \in {"look", "swap", "trigger", "clean"} =>
                                           pc'[u] \in {"look", "swap", "trigger", "clean"}
           Same == \A u \in Threads : \A m \in ToSet(tq[u]) : node'[m].time = node[m].time
           Goal == \A u \in Threads : Ordered(u)'
<1>d. Still /\ Walkers /\ Same => Goal
  BY <1>b, <1>c, OrderStays
<1>e. UNCHANGED pc => Walkers
  OBVIOUS
<1>f. UNCHANGED node => Same
  OBVIOUS
<1>g. \A u \in Threads : ToSet(tq[u]) \subseteq Nodes
  BY HeldNodes
<1> HIDE DEF Goal
<1> USE DEF queues, memory, procs, walker
<1>3. CASE UNCHANGED vars
  <2>1. UNCHANGED <<tq, timeout, node, pc>>
    BY <1>3 DEF vars
  <2>2. Still /\ Walkers /\ Same
    BY <2>1
  <2> QED
    BY <1>d, <2>2 DEF Goal
<1>4. ASSUME NEW t \in Threads, NEW p \in Procs,
             Dispatch(t, p) \/ Yield(t, p) \/ AltWaits(t, p) \/ LookRemote(t, p) \/ TellOwner(t, p)
             \/ AltEnd(t, p)
      PROVE  Goal
  BY <1>d, <1>e, <1>f, <1>4 DEF Dispatch, Yield, AltWaits, LookRemote, TellOwner, AltEnd
<1>7. ASSUME NEW t \in Threads, NEW p \in Procs, AltGoesOn(t, p) PROVE Goal
  <2>1. link[p] \in ToSet(tq[t]) /\ link[p] \in Nodes
    BY <1>7, OwnNodeOfWaiter DEF AltGoesOn
  <2>2. node' = Blanked(node, {link[p]}) /\ {link[p]} \in SUBSET Nodes
    BY <1>7, <2>1 DEF AltGoesOn
  <2>3. \A m \in Nodes : m # link[p] => node'[m].time = node[m].time
    BY <2>2, NodesFreed
  <2>4. Delete(t, link[p]) /\ UNCHANGED pc /\ t \notin Walking
    BY <1>7, <1>b DEF AltGoesOn, Runs
  <2> QED
    BY <2>1, <2>3, <2>4, OrderDeleted DEF Goal
<1>8. ASSUME NEW t \in Threads, NEW p \in Procs, RemoveLocal(t, p) PROVE Goal
  <2>1. CASE node[link[p]].wptr = NULL
    BY <1>d, <1>e, <1>f, <1>8, <2>1 DEF RemoveLocal
  <2>2. CASE node[link[p]].wptr # NULL
    <3>1. link[p] # NULL
      BY <1>8 DEF RemoveLocal, Runs, TInv, Tasks, InAlt
    <3>2. link[p] \in ToSet(tq[t]) /\ link[p] \in Nodes
      BY <1>8, <2>2, <3>1, OwnNode DEF RemoveLocal, Runs
    <3>3. \A m \in Nodes : node'[m].time = node[m].time
      BY <1>8, <2>2, <3>2, TimesKept DEF RemoveLocal
    <3>4. Delete(t, link[p]) /\ UNCHANGED pc /\ t \notin Walking
      BY <1>8, <1>b, <2>2 DEF RemoveLocal, Runs
    <3> QED
      BY <3>2, <3>3, <3>4, OrderDeleted DEF Goal
  <2> QED
    BY <2>1, <2>2
<1>10. ASSUME NEW t \in Threads, NEW p \in Procs, SwapRemote(t, p) PROVE Goal
  <2>1. link[p] \in Nodes
    BY <1>a, <1>10 DEF SwapRemote, Runs, TInv, Tasks, InAlt
  <2>2. Same
    BY <1>10, <1>g, <2>1, TimesKept DEF SwapRemote
  <2> QED
    BY <1>d, <1>e, <1>10, <2>2 DEF SwapRemote
<1>12. ASSUME NEW t \in Threads, NEW p \in Procs, Release(t, p) PROVE Goal
  <2>1. link[p] \in Nodes
    BY <1>a, <1>12 DEF Release, Runs, TInv, Tasks, InAlt
  <2>2. CASE node[link[p]].dirty
    BY <1>d, <1>e, <1>f, <1>12, <2>2 DEF Release
  <2>3. CASE ~node[link[p]].dirty
    <3>1. node' = Blanked(node, {link[p]}) /\ {link[p]} \in SUBSET Nodes
      BY <1>12, <2>1, <2>3 DEF Release
    <3>2. \A m \in Nodes : m # link[p] => node'[m] = node[m]
      BY <3>1, NodesFreed
    <3>3. \A u \in Threads : link[p] \notin ToSet(tq[u])
      <4>1. node[link[p]].alt
        BY <2>1, <1>a DEF TInv, Memory
      <4> QED
        BY <2>3, <4>1, HeldNodes DEF TInv, Holding
    <3>4. Same
      BY <1>g, <3>2, <3>3
    <3> QED
      BY <1>d, <1>e, <1>12, <3>4 DEF Release
  <2> QED
    BY <2>2, <2>3
<1>14. ASSUME NEW t \in Threads, NEW p \in Procs, NEW d \in 0..MaxDelay,
              Tin(t, p, d) \/ FastTin(t, p, d) \/ AltWait(t, p, d)
       PROVE  Goal
  <2>1. d \in 0..(MaxDelay + 1) /\ d + 1 \in 0..(MaxDelay + 1) /\ Clock + d + 1 = Clock + (d + 1)
    BY Ranges DEF Clock
  <2>2. pc[t] = "run" /\ UNCHANGED pc
    BY <1>14 DEF Tin, FastTin, AltWait, Sleep, Runs
  <2>3. \/ Insert(t, p, Clock + (d + 1), FALSE) \/ Insert(t, p, Clock + d, FALSE)
        \/ Insert(t, p, Clock + d, TRUE)
    BY <1>14, <2>1 DEF Tin, FastTin, AltWait, Sleep
  <2> QED
    BY <2>1, <2>2, <2>3, OrderInserted DEF Goal
<1>17. ASSUME NEW p \in Procs, ChannelReady(p) PROVE Goal
  BY <1>d, <1>e, <1>f, <1>17 DEF ChannelReady
<1>18. ASSUME NEW t \in Threads, StartClean(t) \/ StartWalk(t) \/ WalkTriggers(t) PROVE Goal
  <2>1. Walkers
    BY <1>a, <1>18 DEF StartClean, StartWalk, WalkTriggers, On
  <2> QED
    BY <1>d, <1>f, <1>18, <2>1 DEF StartClean, StartWalk, WalkTriggers
<1>19. ASSUME NEW t \in Threads, CleanNode(t) PROVE Goal
  <2>1. at[t] \in ToSet(tq[t]) /\ at[t] \in Nodes
    BY <1>19, HeldNodes DEF CleanNode, TInv, Lists
  <2>2. t \notin Walking /\ \A u \in Threads : u # t => pc'[u] = pc[u]
    BY <1>a, <1>b, <1>19 DEF CleanNode
  <2>3. CASE node[at[t]].wptr = NULL
    <3>1. \A m \in Nodes : node'[m].time = node[m].time
      BY <1>19, <2>1, <2>3, TimesKept DEF CleanNode
    <3>2. Delete(t, at[t])
      BY <1>19, <2>3 DEF CleanNode
    <3> QED
      BY <2>1, <2>2, <3>1, <3>2, OrderDeleted DEF Goal
  <2>4. CASE node[at[t]].wptr # NULL
    <3>1. Walkers
      BY <1>b, <2>2
    <3> QED
      BY <1>d, <1>f, <1>19, <2>4, <3>1 DEF CleanNode
  <2> QED
    BY <2>3, <2>4
<1>20. ASSUME NEW t \in Threads, Launder(t) PROVE Goal
  <2>1. Washed \subseteq Nodes
    BY DEF Washed, TInv, TypeOK
  <2>2. \A m \in Nodes \ Washed : node'[m] = node[m]
    BY <1>20, <2>1, NodesFreed DEF Launder
  <2>3. \A u \in Threads : \A m \in ToSet(tq[u]) : m \notin Washed
    BY Unheld, HeldNodes
  <2>4. Same
    BY <1>g, <2>2, <2>3
  <2> QED
    BY <1>d, <1>e, <1>20, <2>4 DEF Launder
<1>22. ASSUME NEW t \in Threads, WalkEnds(t) PROVE Goal
  BY <1>22, OrderWalked DEF Goal
<1>23. ASSUME NEW t \in Threads, WalkWakes(t) PROVE Goal
  <2>1. First(t) \in Nodes /\ tq[t] # <<>> /\ Behind(t) /\ UNCHANGED <<timeout, pc>>
        /\ pc[t] = "look"
    BY <1>23, HeldNodes DEF WalkWakes
  <2>2. node' = Blanked(node, {First(t)}) /\ {First(t)} \in SUBSET Nodes
    BY <1>23, <2>1 DEF WalkWakes
  <2>3. \A m \in Nodes : m # First(t) => node'[m].time = node[m].time
    BY <2>2, NodesFreed
  <2>4. t \in Walking'
    BY <1>c, <2>1
  <2> QED
    BY <2>1, <2>3, <2>4, OrderBehind DEF Goal
<1>24. ASSUME NEW t \in Threads, WalkChallenges(t) PROVE Goal
  <2>1. First(t) \in Nodes /\ tq[t] # <<>> /\ Behind(t) /\ UNCHANGED timeout
    BY <1>24, HeldNodes DEF WalkChallenges
  <2>2. node' = [node EXCEPT ![First(t)].time = now[t]]
    BY <1>24 DEF WalkChallenges
  <2>3. \A m \in Nodes : m # First(t) => node'[m].time = node[m].time
    BY ONLY <2>1, <2>2, TInv DEF TInv, TypeOK
  <2>4. t \in Walking' /\ \A u \in Threads : u # t => pc'[u] = pc[u]
    BY <1>a, <1>c, <1>24 DEF WalkChallenges, On
  <2> QED
    BY <2>1, <2>3, <2>4, OrderBehind DEF Goal
<1>25. ASSUME NEW t \in Threads, WalkSwaps(t) \/ WalkCleans(t) PROVE Goal
  <2>1. at[t] \in Nodes
    BY <1>a, <1>25 DEF WalkSwaps, WalkCleans, TInv, Lists
  <2>2. Same
    BY <1>25, <1>g, <2>1, TimesKept DEF WalkSwaps, WalkCleans
  <2>3. Walkers
    BY <1>a, <1>25 DEF WalkSwaps, WalkCleans, On
  <2> QED
    BY <1>d, <1>25, <2>2, <2>3 DEF WalkSwaps, WalkCleans
<1>27. ASSUME NEW t \in Threads, WalkPassesDead(t) PROVE Goal
  <2>1. tq[t] # <<>> /\ Behind(t) /\ UNCHANGED <<timeout, node>>
    BY <1>27 DEF WalkPassesDead
  <2>2. t \in Walking' /\ \A u \in Threads : u # t => pc'[u] = pc[u]
    BY <1>a, <1>c, <1>27 DEF WalkPassesDead, On
  <2> QED
    BY <2>1, <2>2, OrderBehind DEF Goal
<1>29. CASE Tick
  BY <1>29, OrderTick DEF Goal
<1> QED
  BY <1>3, <1>4, <1>7, <1>8, <1>10, <1>12, <1>14, <1>17, <1>18, <1>19, <1>20, <1>22, <1>23,
     <1>24, <1>25, <1>27, <1>29 DEF Next, Call, Walk, Goal

(* A tick keeps what is after what.                                         *)
LEMMA AfterOlder ==
  ASSUME NEW x \in Times, NEW y \in Times
  PROVE  After(Older(x), Older(y)) <=> After(x, y)
<1>1. x \in Int /\ y \in Int /\ 0 <= x /\ x < TimeRange /\ 0 <= y /\ y < TimeRange
      /\ TimeRange \in Nat /\ TimeRange > 0
  BY Ranges DEF Times
<1>2. \A z \in Times : Older(z) = IF z = 0 THEN TimeRange - 1 ELSE z - 1
  <2> SUFFICES ASSUME NEW z \in Times PROVE Older(z) = IF z = 0 THEN TimeRange - 1 ELSE z - 1
    OBVIOUS
  <2>1. z - 1 \in Int /\ 0 - TimeRange <= z - 1 /\ z - 1 < TimeRange
    BY Ranges DEF Times
  <2> QED
    BY <2>1, Wraps, Ranges DEF Older, Times
<1> DEFINE d == y - x
           e == Older(y) - Older(x)
<1>3. /\ d \in Int /\ 0 - TimeRange <= d /\ d < TimeRange
      /\ e \in Int /\ 0 - TimeRange <= e /\ e < TimeRange
      /\ e = d \/ (e = d - TimeRange /\ d > 0) \/ (e = d + TimeRange /\ d < 0)
  BY <1>1, <1>2
<1> HIDE DEF d, e
<1>4. (0 <= d => d % TimeRange = d) /\ (d < 0 => d % TimeRange = d + TimeRange)
  BY ONLY <1>1, <1>3, Wraps
<1>5. (0 <= e => e % TimeRange = e) /\ (e < 0 => e % TimeRange = e + TimeRange)
  BY ONLY <1>1, <1>3, Wraps
<1>6. d % TimeRange = e % TimeRange
  BY ONLY <1>1, <1>3, <1>4, <1>5
<1> QED
  BY <1>6 DEF After, d, e

(* No time is after itself.                                                 *)
LEMMA NotAfterSelf ==
  ASSUME NEW x \in Times
  PROVE  ~After(x, x)
<1>1. 0 % TimeRange = 0 /\ x - x = 0
  BY Wraps, Ranges DEF Times
<1> QED
  BY <1>1, Ranges DEF After, Half

(* The time of a walk is not far from the clock.                            *)
LEMMA WalksStep == TInv /\ Walks /\ [Next]_vars => Walks'
<1> SUFFICES ASSUME TInv, Walks, [Next]_vars PROVE Walks'
  OBVIOUS
<1>a. /\ pc \in [Threads -> {"run", "tidy", "look", "swap", "trigger", "clean"}]
      /\ now \in [Threads -> Times]
      /\ \A t \in Threads : pc[t] \in {"look", "swap", "trigger", "clean"} =>
                               Ahead(now[t]) \in (0 - MaxLate)..0
  BY DEF TInv, TypeOK, Walks, Walking
<1>b. (\A t \in Threads : pc'[t] \in {"look", "swap", "trigger", "clean"} =>
                             Ahead(now'[t]) \in (0 - MaxLate)..0) => Walks'
  BY DEF Walks, Walking
<1> USE DEF queues, memory, procs, walker
<1>3. CASE UNCHANGED vars
  <2>1. UNCHANGED <<pc, now>>
    BY <1>3 DEF vars
  <2> QED
    BY <1>a, <1>b, <2>1
<1>4. ASSUME NEW t \in Threads, NEW p \in Procs,
             \/ Dispatch(t, p) \/ Yield(t, p) \/ AltWaits(t, p) \/ AltGoesOn(t, p) \/ RemoveLocal(t, p)
             \/ LookRemote(t, p) \/ SwapRemote(t, p) \/ TellOwner(t, p) \/ Release(t, p) \/ AltEnd(t, p)
             \/ \E d \in 0..MaxDelay : Tin(t, p, d) \/ FastTin(t, p, d) \/ AltWait(t, p, d)
      PROVE  Walks'
  <2>1. UNCHANGED <<pc, now>>
    BY <1>4 DEF Dispatch, Yield, AltWaits, AltGoesOn, RemoveLocal, LookRemote, SwapRemote, TellOwner,
                Release, AltEnd, Tin, FastTin, AltWait, Sleep
  <2> QED
    BY <1>a, <1>b, <2>1
<1>9. ASSUME NEW p \in Procs, ChannelReady(p) PROVE Walks'
  BY <1>a, <1>b, <1>9 DEF ChannelReady
<1>5. ASSUME NEW t \in Threads,
             \/ Launder(t) \/ WalkWakes(t)
             \/ StartClean(t) \/ CleanNode(t) \/ WalkChallenges(t) \/ WalkSwaps(t) \/ WalkTriggers(t)
             \/ WalkPassesDead(t) \/ WalkCleans(t)
      PROVE  Walks'
  <2>1. /\ UNCHANGED now
        /\ \A u \in Threads : pc'[u] \in {"look", "swap", "trigger", "clean"} =>
                                 pc[u] \in {"look", "swap", "trigger", "clean"}
    BY <1>a, <1>5 DEF StartClean, CleanNode, WalkChallenges, WalkSwaps, WalkTriggers, WalkPassesDead,
                WalkCleans, On, Launder, WalkWakes
  <2> QED
    BY <1>a, <1>b, <2>1
<1>6. ASSUME NEW t \in Threads, StartWalk(t) PROVE Walks'
  <2>1. 0 \in (0 - MaxLate)..0 /\ Ahead(Clock) = 0
    BY AheadOfClock, Ranges
  <2> QED
    BY <1>a, <1>b, <1>6, <2>1 DEF StartWalk
<1>7. ASSUME NEW t \in Threads, WalkEnds(t) PROVE Walks'
  BY <1>a, <1>b, <1>7 DEF WalkEnds, Leave
<1>8. CASE Tick
  <2>1. UNCHANGED pc /\ now' = [t \in Threads |-> IF t \in Walking THEN Older(now[t]) ELSE now[t]]
    BY <1>8 DEF Tick
  <2>2. ASSUME NEW t \in Walking PROVE Ahead(Older(now[t])) \in (0 - MaxLate)..0
    <3>1. Recent(now[t]) /\ now[t] \in Times /\ Ahead(now[t]) \in (0 - MaxLate)..0
      BY <1>8, <1>a DEF Tick, Walks, Walking
    <3>2. /\ Ahead(now[t]) \in Int /\ 0 - (MaxLate + Cardinality(Nodes)) <= Ahead(now[t])
          /\ Ahead(now[t]) <= MaxDelay + 1 /\ Ahead(now[t]) > 0 - Half /\ Ahead(now[t]) <= 0
      BY <3>1, Ranges
    <3>3. Ahead(now[t]) >= 1 - MaxLate
      BY ONLY <3>1, <3>2, RecentIs
    <3>4. Ahead(Older(now[t])) = Ahead(now[t]) - 1
      BY ONLY <3>1, <3>2, AheadLater
    <3> QED
      BY ONLY <3>2, <3>3, <3>4, Ranges
  <2>3. \A t \in Threads : t \in Walking <=> pc[t] \in {"look", "swap", "trigger", "clean"}
    BY DEF Walking
  <2> QED
    BY <1>b, <2>1, <2>2, <2>3
<1> QED
  BY <1>3, <1>4, <1>5, <1>6, <1>7, <1>8, <1>9 DEF Next, Call, Walk

-----------------------------------------------------------------------------
(* What a node says of the process that asked *)

(* What is in some queue once a node has left one.                          *)
LEMMA QueuedLess ==
  ASSUME TInv, NEW t \in Threads, NEW n, Gone(t, n)
  PROVE  \A m \in Queued' : m \in Queued /\ m # n
<1> SUFFICES ASSUME NEW m \in Queued' PROVE m \in Queued /\ m # n
  OBVIOUS
<1>1. PICK u \in Threads : m \in ToSet(tq'[u])
  BY DEF Queued
<1>2. CASE u = t
  <2>1. m \in ToSet(tq[t]) /\ m # n
    BY <1>1, <1>2 DEF Gone
  <2> QED
    BY <2>1 DEF Queued
<1>3. CASE u # t
  <2>1. m \in ToSet(tq[u])
    BY <1>1, <1>3 DEF Gone
  <2>2. n \in ToSet(tq[t])
    BY DEF Gone
  <2>3. m # n
    BY <1>3, <2>1, <2>2, OneQueue
  <2> QED
    BY <2>1, <2>3 DEF Queued
<1> QED
  BY <1>2, <1>3

(* What is in a queue is held by its thread.                                *)
LEMMA QueuedHeld ==
  ASSUME TInv, NEW m \in Queued
  PROVE  m \in Nodes /\ \E u \in Threads : m \in Held(u) /\ m \in ToSet(tq[u])
BY HeldNodes DEF Queued

(* Steps after which nobody asks for another time, and no time is another.  *)
AskingKept ==
    /\ \A m \in Queued' :
          \/ node'[m].wptr = NULL
          \/ /\ m \in Queued /\ node'[m].wptr = node[m].wptr /\ node'[m].time = node[m].time
             /\ asked'[node[m].wptr] = asked[node[m].wptr]
    /\ \A q \in Procs : InAlt(q)' =>
          /\ InAlt(q) /\ asked'[q] = asked[q] /\ link'[q] = link[q]
          /\ node'[link[q]].time = node[link[q]].time

(* Such steps keep Asking.                                                  *)
LEMMA AskingStays == Asking /\ AskingKept => Asking'
<1> SUFFICES ASSUME Asking, AskingKept PROVE Asking'
  OBVIOUS
<1>1. \A m \in Queued' : node'[m].wptr # NULL => asked'[node'[m].wptr] = node'[m].time
  BY DEF Asking, AskingKept
<1>2. \A q \in Procs : InAlt(q)' => ~After(asked'[q], node'[link'[q]].time)
  BY DEF Asking, AskingKept
<1> QED
  BY <1>1, <1>2 DEF Asking, After

(* Those that change only the phase of processes in an ALT.                 *)
LEMMA AskingSame ==
  ASSUME Asking, UNCHANGED <<tq, node, asked, link>>, \A q \in Procs : InAlt(q)' => InAlt(q)
  PROVE  Asking'
<1>1. AskingKept
  BY DEF AskingKept, Queued
<1> QED
  BY <1>1, AskingStays

(* No two processes have one node.                                          *)
LEMMA LinksDiffer ==
  ASSUME TInv
  PROVE  /\ \A q \in Procs : InAlt(q) => /\ link[q] \in Nodes /\ link[q] # NULL
                                         /\ node[link[q]].alt /\ node[link[q]].wptr \in {q, NULL}
                                         /\ link[q] \notin free \cup laundry
         /\ \A p, q \in Procs : p # q /\ InAlt(p) /\ InAlt(q) => link[p] # link[q]
         /\ \A m, n \in Nodes : node[m].wptr # NULL /\ node[m].wptr = node[n].wptr => m = n
         /\ \A m \in Nodes : node[m].wptr # NULL =>
               /\ node[m].alt => link[node[m].wptr] = m /\ InAlt(node[m].wptr)
               /\ ~node[m].alt => phase[node[m].wptr] = "sleep"
<1>1. \A q \in Procs : link[q] \in Nodes \cup {NULL} /\ (link[q] # NULL <=> InAlt(q))
  BY DEF TInv, TypeOK, Tasks
<1>2. \A q \in Procs : InAlt(q) => /\ link[q] \in Nodes /\ link[q] # NULL
                                   /\ node[link[q]].alt /\ node[link[q]].wptr \in {q, NULL}
                                   /\ link[q] \notin free \cup laundry
  BY <1>1 DEF TInv, Memory
<1>3. \A p, q \in Procs : p # q /\ InAlt(p) /\ InAlt(q) => link[p] # link[q]
  BY <1>1 DEF TInv, Memory
<1>4. \A m, n \in Nodes : node[m].wptr # NULL /\ node[m].wptr = node[n].wptr => m = n
  BY DEF TInv, Pointers
<1>5. \A m \in Nodes : node[m].wptr # NULL =>
               /\ node[m].alt => link[node[m].wptr] = m /\ InAlt(node[m].wptr)
               /\ ~node[m].alt => phase[node[m].wptr] = "sleep"
  BY DEF TInv, Pointers, InAlt
<1> QED
  BY <1>2, <1>3, <1>4, <1>5

(* A node that enters a queue has the time its process asks for.            *)
LEMMA AskingEntered ==
  ASSUME TInv, Asking, NEW t \in Threads, NEW p \in Procs, NEW time \in Times, NEW alt \in BOOLEAN,
         Entered(t, Spare, p, time, alt), phase[p] = "top",
         asked' = [asked EXCEPT ![p] = time],
         \A q \in Procs : q # p => link'[q] = link[q] /\ phase'[q] = phase[q],
         InAlt(p)' => link'[p] = Spare
  PROVE  Asking'
<1>1. asked'[p] = time /\ \A q \in Procs : q # p => asked'[q] = asked[q]
  BY DEF TInv, TypeOK
<1>2. \A m \in Queued' : m = Spare \/ m \in Queued
  <2> SUFFICES ASSUME NEW m \in Queued' PROVE m = Spare \/ m \in Queued
    OBVIOUS
  <2>1. PICK u \in Threads : m \in ToSet(tq'[u])
    BY DEF Queued
  <2>2. m = Spare \/ m \in ToSet(tq[u])
    BY <2>1 DEF Entered
  <2> QED
    BY <2>2 DEF Queued
<1>3. \A m \in Queued : m # Spare /\ node'[m] = node[m]
  BY QueuedHeld DEF Entered
<1>4. node'[Spare].wptr = p /\ node'[Spare].time = time
  BY DEF Entered
<1>5. \A m \in Nodes : node[m].wptr # p
  <2>1. ~InAlt(p) /\ phase[p] # "sleep" /\ p # NULL
    BY NamesAssumption DEF InAlt
  <2> QED
    BY <2>1, LinksDiffer
<1>6. \A m \in Nodes : node[m].wptr \in Procs \cup {NULL}
  BY DEF TInv, TypeOK
<1>7. \A m \in Queued' : node'[m].wptr # NULL => asked'[node'[m].wptr] = node'[m].time
  <2> SUFFICES ASSUME NEW m \in Queued', node'[m].wptr # NULL
               PROVE  asked'[node'[m].wptr] = node'[m].time
    OBVIOUS
  <2>1. CASE m = Spare
    BY ONLY <1>1, <1>4, <2>1
  <2>2. CASE m # Spare
    <3>1. m \in Queued /\ node'[m] = node[m] /\ m \in Nodes
      BY <1>2, <1>3, <2>2, QueuedHeld
    <3>2. node[m].wptr \in Procs /\ node[m].wptr # p
      BY <1>5, <1>6, <3>1
    <3>3. asked[node[m].wptr] = node[m].time
      BY <3>1 DEF Asking
    <3> QED
      BY ONLY <1>1, <3>1, <3>2, <3>3
  <2> QED
    BY <2>1, <2>2
<1>8. ASSUME NEW q \in Procs, InAlt(q)' PROVE ~After(asked'[q], node'[link'[q]].time)
  <2>1. CASE q = p
    BY <1>1, <1>4, <1>8, <2>1, NotAfterSelf
  <2>2. CASE q # p
    <3>1. InAlt(q) /\ link'[q] = link[q] /\ asked'[q] = asked[q]
      BY <1>1, <1>8, <2>2 DEF InAlt
    <3>2. link[q] \in Nodes /\ link[q] \notin free \cup laundry /\ link[q] # Spare
      BY <3>1, LinksDiffer DEF Entered
    <3>3. node'[link[q]] = node[link[q]]
      BY <3>2 DEF Entered
    <3>4. ~After(asked[q], node[link[q]].time)
      BY <3>1 DEF Asking
    <3> QED
      BY ONLY <3>1, <3>3, <3>4
  <2> QED
    BY <2>1, <2>2
<1> QED
  BY <1>7, <1>8 DEF Asking, After

(* A queued node keeps the time its process asked for.                      *)
LEMMA AskingStep == TInv /\ Asking /\ [Next]_vars => Asking'
<1> SUFFICES ASSUME TInv, Asking, [Next]_vars PROVE Asking'
  OBVIOUS
<1>a. /\ NULL \notin Threads \cup Procs \cup Nodes
      /\ phase \in [Procs -> Phases] /\ asked \in [Procs -> Times]
      /\ link \in [Procs -> Nodes \cup {NULL}]
      /\ \A n \in Nodes : node[n].wptr \in Procs \cup {NULL}
      /\ \A t \in Threads : at[t] \in Nodes \cup {NULL} /\ ptr[t] \in Procs \cup {NULL}
                            /\ now[t] \in Times
  BY NamesAssumption DEF TInv, TypeOK
<1>b. Queued \subseteq Nodes
  BY QueuedHeld
<1>c. \A q \in Procs : InAlt(q)' <=> phase'[q] \in {"cas", "wait", "disable", "swap", "sync", "release"}
  BY DEF InAlt
<1>d. UNCHANGED tq => Queued' = Queued
  BY DEF Queued
<1>l. /\ \A q \in Procs : InAlt(q) => /\ link[q] \in Nodes /\ link[q] # NULL
                                      /\ node[link[q]].alt /\ node[link[q]].wptr \in {q, NULL}
                                      /\ link[q] \notin free \cup laundry
      /\ \A p, q \in Procs : p # q /\ InAlt(p) /\ InAlt(q) => link[p] # link[q]
      /\ \A m, n \in Nodes : node[m].wptr # NULL /\ node[m].wptr = node[n].wptr => m = n
      /\ \A m \in Nodes : node[m].wptr # NULL =>
            /\ node[m].alt => link[node[m].wptr] = m /\ InAlt(node[m].wptr)
            /\ ~node[m].alt => phase[node[m].wptr] = "sleep"
  BY LinksDiffer
<1> USE DEF queues, memory, procs, walker
<1>3. CASE UNCHANGED vars
  <2>1. UNCHANGED <<tq, node, asked, link, phase>>
    BY <1>3 DEF vars
  <2> QED
    BY <2>1, AskingSame DEF InAlt
<1>4. ASSUME NEW t \in Threads, NEW p \in Procs,
             \/ Dispatch(t, p) \/ Yield(t, p) \/ AltWaits(t, p) \/ LookRemote(t, p) \/ TellOwner(t, p)
             \/ AltEnd(t, p)
      PROVE  Asking'
  <2>1. UNCHANGED <<tq, node, asked, link>>
    BY <1>4 DEF Dispatch, Yield, AltWaits, LookRemote, TellOwner, AltEnd
  <2>2. \A q \in Procs : InAlt(q)' => InAlt(q)
    BY <1>a, <1>4 DEF Dispatch, Yield, AltWaits, LookRemote, TellOwner, AltEnd, Runs, Phase, Settle, InAlt
  <2> QED
    BY <2>1, <2>2, AskingSame
<1>5. ASSUME NEW p \in Procs, ChannelReady(p) PROVE Asking'
  <2>1. UNCHANGED <<tq, node, asked, link>> /\ \A q \in Procs : InAlt(q)' => InAlt(q)
    BY <1>a, <1>5 DEF ChannelReady, Phase, InAlt
  <2> QED
    BY <2>1, AskingSame
<1>6. ASSUME NEW t \in Threads, StartClean(t) \/ StartWalk(t) \/ WalkEnds(t) PROVE Asking'
  <2>1. UNCHANGED <<tq, node, asked, link, phase>>
    BY <1>6 DEF StartClean, StartWalk, WalkEnds
  <2> QED
    BY <2>1, AskingSame DEF InAlt
<1>7. ASSUME NEW t \in Threads, NEW p \in Procs, AltGoesOn(t, p) PROVE Asking'
  <2>1. link[p] \in ToSet(tq[t]) /\ link[p] \in Nodes /\ node[link[p]].wptr = p
    BY <1>7, OwnNodeOfWaiter DEF AltGoesOn
  <2>2. \A m \in Queued' : m \in Queued /\ m # link[p]
    BY <1>7, <2>1, DeleteFacts, QueuedLess DEF AltGoesOn
  <2>3. \A m \in Nodes : m # link[p] => node'[m] = node[m]
    <3>1. node' = Blanked(node, {link[p]}) /\ {link[p]} \in SUBSET Nodes
      BY <1>7, <2>1 DEF AltGoesOn
    <3> QED
      BY <3>1, NodesFreed
  <2>4. /\ \A q \in Procs : q # p => /\ link'[q] = link[q] /\ asked'[q] = asked[q]
                                     /\ phase'[q] = phase[q]
        /\ phase'[p] = "top" /\ phase[p] = "cas"
    BY <1>a, <1>7 DEF AltGoesOn, Phase, Runs
  <2>5. InAlt(p) /\ ~InAlt(p)' /\ \A q \in Procs : q # p => (InAlt(q)' <=> InAlt(q))
    BY <2>4 DEF InAlt
  <2>6. \A m \in Nodes : m # link[p] => node[m].wptr # p
    BY <1>a, <1>l, <2>1
  <2>7. AskingKept
    <3>1. ASSUME NEW m \in Queued', node'[m].wptr # NULL
          PROVE  /\ m \in Queued /\ node'[m].wptr = node[m].wptr /\ node'[m].time = node[m].time
                 /\ asked'[node[m].wptr] = asked[node[m].wptr]
      BY <1>a, <1>b, <2>2, <2>3, <2>4, <2>6, <3>1
    <3>2. ASSUME NEW q \in Procs, InAlt(q)'
          PROVE  /\ InAlt(q) /\ asked'[q] = asked[q] /\ link'[q] = link[q]
                 /\ node'[link[q]].time = node[link[q]].time
      BY <1>l, <2>3, <2>4, <2>5, <3>2
    <3> QED
      BY <3>1, <3>2 DEF AskingKept
  <2> QED
    BY <2>7, AskingStays
<1>8. ASSUME NEW t \in Threads, NEW p \in Procs, RemoveLocal(t, p) PROVE Asking'
  <2>1. /\ UNCHANGED <<asked, link>> /\ \A q \in Procs : InAlt(q)' => InAlt(q)
    BY <1>a, <1>8 DEF RemoveLocal, Settle, Phase, Runs, InAlt
  <2>2. CASE node[link[p]].wptr = NULL
    <3>1. UNCHANGED <<tq, node>>
      BY <1>8, <2>2 DEF RemoveLocal
    <3> QED
      BY <2>1, <3>1, AskingSame
  <2>3. CASE node[link[p]].wptr # NULL
    <3>1. link[p] # NULL
      BY <1>8 DEF RemoveLocal, Runs, TInv, Tasks, InAlt
    <3>2. link[p] \in ToSet(tq[t]) /\ link[p] \in Nodes
      BY <1>8, <2>3, <3>1, OwnNode DEF RemoveLocal, Runs
    <3>3. \A m \in Queued' : m \in Queued
      BY <1>8, <2>3, <3>2, DeleteFacts, QueuedLess DEF RemoveLocal
    <3>4. \A m \in Nodes : node'[m].time = node[m].time /\ node'[m].wptr = node[m].wptr
      BY <1>8, <2>3, <3>2, TimesKept, NodeChanges DEF RemoveLocal, Changed
    <3>5. AskingKept
      BY <1>b, <1>l, <2>1, <3>3, <3>4 DEF AskingKept
    <3> QED
      BY <3>5, AskingStays
  <2> QED
    BY <2>2, <2>3
<1>9. ASSUME NEW t \in Threads, NEW p \in Procs, SwapRemote(t, p) PROVE Asking'
  <2>1. UNCHANGED <<tq, asked, link>> /\ \A q \in Procs : InAlt(q)' => InAlt(q)
    BY <1>a, <1>9 DEF SwapRemote, Settle, Phase, Runs, InAlt
  <2>2. link[p] \in Nodes
    BY <1>l, <1>9 DEF SwapRemote, Runs, InAlt
  <2>3. \A m \in Nodes : node'[m].time = node[m].time /\ node'[m].wptr \in {node[m].wptr, NULL}
    BY <1>9, <2>2, TimesKept, NodeChanges DEF SwapRemote, Changed
  <2>4. AskingKept
    BY <1>b, <1>d, <1>l, <2>1, <2>3 DEF AskingKept
  <2> QED
    BY <2>4, AskingStays
<1>10. ASSUME NEW t \in Threads, NEW p \in Procs, Release(t, p) PROVE Asking'
  <2>1. /\ \A q \in Procs : q # p => /\ link'[q] = link[q] /\ asked'[q] = asked[q]
                                     /\ phase'[q] = phase[q]
        /\ phase'[p] = "altend" /\ phase[p] = "release" /\ UNCHANGED tq
    BY <1>a, <1>10 DEF Release, Phase, Runs
  <2>2. InAlt(p) /\ ~InAlt(p)' /\ \A q \in Procs : q # p => (InAlt(q)' <=> InAlt(q))
    BY <2>1 DEF InAlt
  <2>3. link[p] \in Nodes
    BY <1>l, <2>2
  <2>4. /\ \A m \in Nodes : m # link[p] => node'[m] = node[m]
        /\ node'[link[p]] = node[link[p]] \/ node'[link[p]].wptr = NULL
    <3>1. CASE node[link[p]].dirty
      BY <1>10, <3>1 DEF Release
    <3>2. CASE ~node[link[p]].dirty
      <4>1. node' = Blanked(node, {link[p]}) /\ {link[p]} \in SUBSET Nodes
        BY <1>10, <2>3, <3>2 DEF Release
      <4> QED
        BY <4>1, NodesFreed DEF Blank
    <3> QED
      BY <3>1, <3>2
  <2>5. \A m \in Queued : node[m].wptr # p
    <3> SUFFICES ASSUME NEW m \in Queued, node[m].wptr = p PROVE FALSE
      OBVIOUS
    <3>1. PICK u \in Threads : m \in Held(u)
      BY QueuedHeld
    <3>2. node[m].alt <=> node[m].dirty
      BY <3>1 DEF TInv, Holding
    <3>3. m \in Nodes /\ p # NULL
      BY <1>a, <1>b
    <3>4. node[m].alt /\ ~node[m].dirty
      BY <2>1, <3>3 DEF TInv, Pointers
    <3> QED
      BY <3>2, <3>4
  <2>6. AskingKept
    <3>1. ASSUME NEW m \in Queued', node'[m].wptr # NULL
          PROVE  /\ m \in Queued /\ node'[m].wptr = node[m].wptr /\ node'[m].time = node[m].time
                 /\ asked'[node[m].wptr] = asked[node[m].wptr]
      <4>1. m \in Queued /\ m \in Nodes
        BY <1>b, <1>d, <2>1
      <4>2. node'[m] = node[m]
        BY <2>4, <3>1, <4>1
      <4>3. node[m].wptr \in Procs /\ node[m].wptr # p
        BY <1>a, <2>5, <3>1, <4>1, <4>2
      <4> QED
        BY <2>1, <4>1, <4>2, <4>3
    <3>2. ASSUME NEW q \in Procs, InAlt(q)'
          PROVE  /\ InAlt(q) /\ asked'[q] = asked[q] /\ link'[q] = link[q]
                 /\ node'[link[q]].time = node[link[q]].time
      BY <1>l, <2>1, <2>2, <2>4, <3>2
    <3> QED
      BY <3>1, <3>2 DEF AskingKept
  <2> QED
    BY <2>6, AskingStays
<1>11. ASSUME NEW t \in Threads, NEW p \in Procs, NEW d \in 0..MaxDelay,
              Tin(t, p, d) \/ FastTin(t, p, d) \/ AltWait(t, p, d)
       PROVE  Asking'
  <2>1. Clock + d \in Times /\ Clock + d + 1 \in Times
    BY Delays
  <2>2. PICK time \in Times : \E alt \in BOOLEAN : Insert(t, p, time, alt)
                              /\ asked' = [asked EXCEPT ![p] = time]
    BY <1>11, <2>1 DEF Tin, FastTin, AltWait, Sleep
  <2>3. PICK alt \in BOOLEAN : Insert(t, p, time, alt) /\ asked' = [asked EXCEPT ![p] = time]
    BY <2>2
  <2>4. Entered(t, Spare, p, time, alt)
    BY <2>3, InsertFacts
  <2>5. /\ phase[p] = "top"
        /\ \A q \in Procs : q # p => link'[q] = link[q] /\ phase'[q] = phase[q]
        /\ phase'[p] = "sleep" \/ link'[p] = Spare
    BY <1>a, <1>11 DEF Tin, FastTin, AltWait, Sleep, Phase, Runs
  <2>6. InAlt(p)' => link'[p] = Spare
    BY <1>c, <2>5
  <2> QED
    BY <2>3, <2>4, <2>5, <2>6, AskingEntered
<1>12. ASSUME NEW t \in Threads, CleanNode(t) PROVE Asking'
  <2>1. at[t] \in ToSet(tq[t]) /\ at[t] \in Nodes
    BY <1>12, HeldNodes DEF CleanNode, TInv, Lists
  <2>2. UNCHANGED <<asked, link, phase>>
    BY <1>12 DEF CleanNode
  <2>3. CASE node[at[t]].wptr = NULL
    <3>1. \A m \in Nodes : node'[m].time = node[m].time /\ node'[m].wptr = node[m].wptr
      BY <1>12, <2>1, <2>3, TimesKept, NodeChanges DEF CleanNode, Changed
    <3>2. \A m \in Queued' : m \in Queued
      BY <1>12, <2>1, <2>3, DeleteFacts, QueuedLess DEF CleanNode
    <3>3. AskingKept
      BY <1>b, <1>l, <2>2, <3>1, <3>2 DEF AskingKept, InAlt
    <3> QED
      BY <3>3, AskingStays
  <2>4. CASE node[at[t]].wptr # NULL
    <3>1. UNCHANGED <<tq, node>>
      BY <1>12, <2>4 DEF CleanNode
    <3> QED
      BY <2>2, <3>1, AskingSame DEF InAlt
  <2> QED
    BY <2>3, <2>4
<1>13. ASSUME NEW t \in Threads, Launder(t) PROVE Asking'
  <2>1. Washed \subseteq Nodes
    BY DEF Washed, TInv, TypeOK
  <2>2. \A m \in Nodes \ Washed : node'[m] = node[m]
    BY <1>13, <2>1, NodesFreed DEF Launder
  <2>3. UNCHANGED <<tq, asked, link, phase>>
    BY <1>13 DEF Launder
  <2>4. \A m \in Queued : m \in Nodes \ Washed
    BY <1>b, QueuedHeld, Unheld
  <2>5. \A q \in Procs : InAlt(q) => link[q] \in Nodes \ Washed
    BY <1>l DEF Washed
  <2>6. AskingKept
    BY <1>d, <2>2, <2>3, <2>4, <2>5 DEF AskingKept, InAlt
  <2> QED
    BY <2>6, AskingStays
<1>14. ASSUME NEW t \in Threads, WalkWakes(t) PROVE Asking'
  <2> DEFINE n == First(t)
             w == node[n].wptr
  <2>1. /\ tq[t] # <<>> /\ w # NULL /\ ~node[n].alt /\ Behind(t) /\ UNCHANGED link
        /\ phase' = [phase EXCEPT ![w] = "top"] /\ asked' = [asked EXCEPT ![w] = 0]
        /\ node' = Blanked(node, {n})
    BY <1>14 DEF WalkWakes, Phase
  <2>2. n \in Nodes /\ Gone(t, n)
    BY <2>1, BehindFacts DEF Gone
  <2>3. \A m \in Queued' : m \in Queued /\ m # n
    BY <2>2, QueuedLess
  <2>4. \A m \in Nodes : m # n => node'[m] = node[m]
    BY <2>1, <2>2, NodesFreed
  <2> HIDE DEF n, w
  <2>5. w \in Procs /\ \A q \in Procs : q # w => phase'[q] = phase[q] /\ asked'[q] = asked[q]
    BY <1>a, <2>1, <2>2 DEF w
  <2>6. phase'[w] = "top"
    BY <1>a, <2>1, <2>5
  <2>7. \A m \in Nodes : m # n => node[m].wptr # w
    BY <1>l, <2>1, <2>2 DEF w
  <2>8. AskingKept
    <3>1. ASSUME NEW m \in Queued', node'[m].wptr # NULL
          PROVE  /\ m \in Queued /\ node'[m].wptr = node[m].wptr /\ node'[m].time = node[m].time
                 /\ asked'[node[m].wptr] = asked[node[m].wptr]
      <4>1. m \in Queued /\ m \in Nodes /\ m # n /\ node'[m] = node[m]
        BY <1>b, <2>3, <2>4
      <4>2. node[m].wptr \in Procs /\ node[m].wptr # w
        BY <1>a, <2>7, <3>1, <4>1
      <4> QED
        BY <2>5, <4>1, <4>2
    <3>2. ASSUME NEW q \in Procs, InAlt(q)'
          PROVE  /\ InAlt(q) /\ asked'[q] = asked[q] /\ link'[q] = link[q]
                 /\ node'[link[q]].time = node[link[q]].time
      <4>1. q # w
        BY <1>c, <2>6, <3>2
      <4>2. InAlt(q) /\ asked'[q] = asked[q]
        BY <2>5, <3>2, <4>1 DEF InAlt
      <4>3. link[q] \in Nodes /\ link[q] # n
        BY <1>l, <2>1, <4>2
      <4> QED
        BY <2>1, <2>4, <4>2, <4>3
    <3> QED
      BY <3>1, <3>2 DEF AskingKept
  <2> QED
    BY <2>8, AskingStays
<1>15. ASSUME NEW t \in Threads, WalkChallenges(t) PROVE Asking'
  <2> DEFINE n == First(t)
             w == node[n].wptr
  <2>1. /\ tq[t] # <<>> /\ w # NULL /\ node[n].alt /\ Behind(t) /\ UNCHANGED <<link, asked, phase>>
        /\ ~After(node[n].time, now[t])
        /\ node' = [node EXCEPT ![n].time = now[t]]
    BY <1>15 DEF WalkChallenges
  <2>2. n \in Nodes /\ Gone(t, n) /\ n \in Queued
    <3>1. n \in ToSet(tq[t])
      BY <2>1, HeldNodes
    <3> QED
      BY <2>1, <3>1, BehindFacts DEF Gone, Queued
  <2>3. \A m \in Queued' : m \in Queued /\ m # n
    BY <2>2, QueuedLess
  <2>4. (\A m \in Nodes : m # n => node'[m] = node[m]) /\ node'[n].time = now[t]
    BY ONLY <2>1, <2>2, TInv DEF TInv, TypeOK
  <2> HIDE DEF n, w
  <2>5. w \in Procs /\ InAlt(w) /\ link[w] = n /\ asked[w] = node[n].time
    BY <1>a, <1>l, <2>1, <2>2 DEF w, Asking
  <2>6. \A m \in Queued' : node'[m].wptr # NULL => asked'[node'[m].wptr] = node'[m].time
    BY <1>b, <2>1, <2>3, <2>4 DEF Asking
  <2>7. ASSUME NEW q \in Procs, InAlt(q)' PROVE ~After(asked'[q], node'[link'[q]].time)
    <3>1. InAlt(q) /\ asked'[q] = asked[q] /\ link'[q] = link[q]
      BY <2>1, <2>7 DEF InAlt
    <3>2. CASE q = w
      BY <2>1, <2>4, <2>5, <3>1, <3>2
    <3>3. CASE q # w
      <4>1. link[q] \in Nodes /\ link[q] # n
        BY <1>l, <2>5, <3>1, <3>3
      <4> QED
        BY <2>4, <3>1, <4>1 DEF Asking
    <3> QED
      BY <3>2, <3>3
  <2> QED
    BY <2>6, <2>7 DEF Asking, After
<1>16. ASSUME NEW t \in Threads, WalkSwaps(t) \/ WalkCleans(t) PROVE Asking'
  <2>1. at[t] \in Nodes
    BY <1>a, <1>16 DEF WalkSwaps, WalkCleans, TInv, Lists
  <2>2. \A m \in Nodes : node'[m].time = node[m].time /\ node'[m].wptr \in {node[m].wptr, NULL}
    BY <1>16, <2>1, TimesKept, NodeChanges DEF WalkSwaps, WalkCleans, Changed
  <2>3. UNCHANGED <<tq, asked, link, phase>>
    BY <1>16 DEF WalkSwaps, WalkCleans
  <2>4. AskingKept
    BY <1>b, <1>d, <1>l, <2>2, <2>3 DEF AskingKept, InAlt
  <2> QED
    BY <2>4, AskingStays
<1>17. ASSUME NEW t \in Threads, WalkTriggers(t) PROVE Asking'
  <2>1. UNCHANGED <<tq, node, asked, link>> /\ \A q \in Procs : InAlt(q)' => InAlt(q)
    BY <1>a, <1>17 DEF WalkTriggers, Phase, InAlt
  <2> QED
    BY <2>1, AskingSame
<1>18. ASSUME NEW t \in Threads, WalkPassesDead(t) PROVE Asking'
  <2>1. UNCHANGED <<node, asked, link, phase>> /\ Gone(t, First(t))
    BY <1>18, BehindFacts DEF WalkPassesDead
  <2>2. AskingKept
    BY <2>1, QueuedLess DEF AskingKept, InAlt
  <2> QED
    BY <2>2, AskingStays
<1>19. CASE Tick
  <2>1. /\ UNCHANGED <<tq, link, phase>>
        /\ \A m \in Nodes : node'[m].wptr = node[m].wptr
        /\ node' = [m \in Nodes |-> IF m \in Linked THEN [node[m] EXCEPT !.time = Older(node[m].time)]
                                                    ELSE node[m]]
        /\ asked' = [q \in Procs |-> IF q \in Waiting THEN Older(asked[q]) ELSE asked[q]]
    BY <1>19, TickFacts DEF Tick
  <2>2. \A m \in Nodes \cap Linked : node'[m].time = Older(node[m].time) /\ node[m].time \in Times
    BY ONLY <2>1, TInv DEF TInv, TypeOK
  <2>3. \A m \in Queued : m \in Linked
    BY <1>a, <1>b DEF Linked
  <2>4. \A q \in Procs : InAlt(q) => q \in Waiting /\ link[q] \in Linked
    BY <1>l DEF InAlt, Waiting, Linked
  <2>5. \A q \in Procs : phase[q] = "sleep" => q \in Waiting
    BY DEF Waiting
  <2>6. ASSUME NEW m \in Queued', node'[m].wptr # NULL PROVE asked'[node'[m].wptr] = node'[m].time
    <3>1. m \in Queued /\ m \in Nodes /\ m \in Linked /\ node'[m].wptr = node[m].wptr
      BY <1>b, <1>d, <2>1, <2>3
    <3>2. node[m].wptr \in Procs /\ node[m].wptr \in Waiting
      BY <1>a, <1>l, <2>4, <2>5, <2>6, <3>1
    <3>3. asked[node[m].wptr] = node[m].time
      BY <2>6, <3>1 DEF Asking
    <3> QED
      BY <2>1, <2>2, <3>1, <3>2, <3>3
  <2>7. ASSUME NEW q \in Procs, InAlt(q)' PROVE ~After(asked'[q], node'[link'[q]].time)
    <3>1. InAlt(q) /\ link'[q] = link[q] /\ q \in Waiting /\ link[q] \in Linked \cap Nodes
      BY <1>l, <2>1, <2>4, <2>7 DEF InAlt
    <3>2. asked'[q] = Older(asked[q]) /\ node'[link[q]].time = Older(node[link[q]].time)
          /\ asked[q] \in Times /\ node[link[q]].time \in Times
      BY <1>a, <2>1, <2>2, <3>1
    <3>3. ~After(asked[q], node[link[q]].time)
      BY <3>1 DEF Asking
    <3> QED
      BY ONLY <3>1, <3>2, <3>3, AfterOlder
  <2> QED
    BY <2>6, <2>7 DEF Asking, After
<1> QED
  BY <1>3, <1>4, <1>5, <1>6, <1>7, <1>8, <1>9, <1>10, <1>11, <1>12, <1>13, <1>14, <1>15, <1>16,
     <1>17, <1>18, <1>19 DEF Next, Call, Walk

-----------------------------------------------------------------------------
(* The theorems about time *)

(* At the start all queues are empty.                                       *)
LEMMA InitOInv == Init => OInv
<1> SUFFICES ASSUME Init PROVE OInv
  OBVIOUS
<1>1. TInv
  BY InitTInv
<1>2. /\ \A t \in Threads : tq[t] = <<>> /\ Len(tq[t]) = 0 /\ pc[t] = "run"
      /\ \A p \in Procs : phase[p] = "top"
      /\ \A n \in Nodes : node[n].wptr = NULL
  BY DEF Init, Blank
<1>3. Sorted /\ Timely /\ Alarms
  BY <1>2 DEF Sorted, Timely, Alarms
<1>4. Walks
  BY <1>2 DEF Walks, Walking
<1>5. Asking
  <2>1. \A t \in Threads : ToSet(tq[t]) = {}
    BY <1>2 DEF ToSet
  <2> QED
    BY <1>2, <2>1 DEF Asking, Queued, InAlt
<1> QED
  BY <1>1, <1>3, <1>4, <1>5 DEF OInv

(* Every step keeps the invariant.                                          *)
LEMMA NextOInv == OInv /\ [Next]_vars => OInv'
<1> SUFFICES ASSUME OInv, [Next]_vars PROVE OInv'
  OBVIOUS
<1>1. TInv /\ TInv' /\ Walks /\ Asking
  BY NextTInv DEF OInv
<1>2. \A u \in Threads : Ordered(u)
  BY <1>1, OrderedIs DEF OInv
<1>3. \A u \in Threads : Ordered(u)'
  BY <1>1, <1>2, OrderStep
<1>4. (Sorted /\ Timely /\ Alarms)'
  BY ONLY <1>1, <1>3, OrderedIsNext
<1>5. Walks' /\ Asking'
  BY <1>1, WalksStep, AskingStep
<1> QED
  BY <1>1, <1>4, <1>5 DEF OInv

(* The queues keep their order, and the alarms and askings that it rests on. *)
THEOREM TimerOrderInvariance == Spec => []OInv
BY InitOInv, NextOInv, PTL DEF Spec

(* Every queue is sorted across the wrap of the clock, and its thread looks *)
(* at it no later than the first node's time, or at the next tick.          *)
THEOREM QueueStaysInOrder == Spec => []QueueInOrder
<1>1. ASSUME OInv, NEW t \in Threads
      PROVE  /\ \A i \in 1..(Len(tq[t]) - 1) : ~After(node[tq[t][i]].time, node[tq[t][i + 1]].time)
             /\ tq[t] # <<>> /\ pc[t] = "run" =>
                   ~After(timeout[t], node[tq[t][1]].time) \/ ~After(timeout[t], Clock + 1)
  <2>1. TInv /\ Ordered(t)
    BY <1>1, OrderedIs DEF OInv
  <2>2. PICK D : D = Dates(t)
    OBVIOUS
  <2>3. \A i \in 1..Len(tq[t]) :
           /\ 0 - (MaxLate + Cardinality(Nodes)) <= D[i] /\ D[i] <= MaxDelay + 1
           /\ D[i] \in Int /\ D[i] = Ahead(node[tq[t][i]].time)
           /\ node[tq[t][i]].time \in Times
    BY <2>1, <2>2, DatesInRange
  <2>4. /\ Len(tq[t]) \in Nat /\ (tq[t] = <<>> <=> Len(tq[t]) = 0) /\ timeout[t] \in Times
    BY <2>1, QueueFacts
  <2>5. ASSUME NEW i \in 1..(Len(tq[t]) - 1)
        PROVE  ~After(node[tq[t][i]].time, node[tq[t][i + 1]].time)
    <3>1. i \in 1..Len(tq[t]) /\ i + 1 \in 1..Len(tq[t]) /\ i < i + 1
      BY <2>4
    <3>2. D[i] <= D[i + 1]
      BY <2>1, <2>2, <3>1 DEF Ordered, InOrder
    <3>3. After(node[tq[t][i]].time, node[tq[t][i + 1]].time) <=> D[i] > D[i + 1]
      BY ONLY <2>3, <3>1, CloseTimes
    <3>4. D[i] \in Int /\ D[i + 1] \in Int
      BY <2>3, <3>1
    <3> QED
      BY ONLY <3>2, <3>3, <3>4
  <2>6. ASSUME tq[t] # <<>>, pc[t] = "run"
        PROVE  ~After(timeout[t], node[tq[t][1]].time) \/ ~After(timeout[t], Clock + 1)
    <3>1. 1 \in 1..Len(tq[t]) /\ Len(tq[t]) > 0 /\ t \notin Walking
      BY <2>4, <2>6 DEF Walking
    <3> DEFINE a == Ahead(timeout[t])
    <3>2. D[1] <= a /\ (a = D[1] \/ a <= 1)
      BY <2>1, <2>2, <3>1 DEF Ordered, Alarmed
    <3>3. a \in Int
      BY <2>4, AheadType
    <3>4. 0 - (MaxLate + Cardinality(Nodes)) <= a /\ a <= MaxDelay + 1
      BY <2>3, <3>1, <3>2, <3>3, Ranges
    <3>5. CASE a = D[1]
      <4>1. After(timeout[t], node[tq[t][1]].time) <=> a > D[1]
        BY ONLY <2>3, <2>4, <3>1, <3>4, CloseTimes DEF a
      <4> QED
        BY <3>3, <3>5, <4>1
    <3>6. CASE a <= 1
      <4>1. /\ Clock + 1 \in Times /\ Ahead(Clock + 1) = 1
            /\ 0 - (MaxLate + Cardinality(Nodes)) <= Ahead(Clock + 1) /\ Ahead(Clock + 1) <= MaxDelay + 1
        BY AheadOfClock, Ranges
      <4>2. After(timeout[t], Clock + 1) <=> a > 1
        BY ONLY <2>4, <3>4, <4>1, CloseTimes DEF a
      <4> QED
        BY <3>3, <3>6, <4>2
    <3> QED
      BY <3>2, <3>5, <3>6
  <2> QED
    BY <2>5, <2>6
<1>2. OInv => QueueInOrder
  BY <1>1 DEF QueueInOrder
<1> QED
  BY <1>2, TimerOrderInvariance, PTL

(* Only a walk lets a process out of Y_tin.                                 *)
LEMMA WhoWakes ==
  ASSUME TInv, [Next]_vars, NEW p \in Procs, phase[p] = "sleep", phase'[p] = "top"
  PROVE  \E t \in Threads : WalkWakes(t) /\ node[First(t)].wptr = p
<1>1. phase \in [Procs -> Phases]
  BY DEF TInv, TypeOK
<1> SUFFICES ASSUME \A t \in Threads : ~(WalkWakes(t) /\ node[First(t)].wptr = p) PROVE phase'[p] = "sleep"
  OBVIOUS
<1> USE DEF queues, memory, procs, walker, Phase
<1>2. CASE UNCHANGED vars
  BY <1>2 DEF vars
<1>3. ASSUME NEW t \in Threads, NEW q \in Procs,
             \/ Dispatch(t, q) \/ Yield(t, q) \/ AltWaits(t, q) \/ AltGoesOn(t, q) \/ RemoveLocal(t, q)
             \/ LookRemote(t, q) \/ SwapRemote(t, q) \/ TellOwner(t, q) \/ Release(t, q) \/ AltEnd(t, q)
             \/ \E d \in 0..MaxDelay : Tin(t, q, d) \/ FastTin(t, q, d) \/ AltWait(t, q, d)
      PROVE  phase'[p] = "sleep"
  BY <1>1, <1>3 DEF Dispatch, Yield, AltWaits, AltGoesOn, RemoveLocal, LookRemote, SwapRemote, TellOwner,
                    Release, AltEnd, Tin, FastTin, AltWait, Sleep, Settle, Runs
<1>4. ASSUME NEW q \in Procs, ChannelReady(q) PROVE phase'[p] = "sleep"
  BY <1>1, <1>4 DEF ChannelReady
<1>5. ASSUME NEW t \in Threads,
             \/ StartClean(t) \/ CleanNode(t) \/ Launder(t) \/ StartWalk(t) \/ WalkEnds(t)
             \/ WalkChallenges(t) \/ WalkSwaps(t) \/ WalkPassesDead(t) \/ WalkCleans(t)
      PROVE  phase'[p] = "sleep"
  BY <1>5 DEF StartClean, CleanNode, Launder, StartWalk, WalkEnds, WalkChallenges, WalkSwaps,
              WalkPassesDead, WalkCleans
<1>6. ASSUME NEW t \in Threads, WalkTriggers(t) PROVE phase'[p] = "sleep"
  <2>1. ptr[t] # p
    BY <1>6, Triggered DEF WalkTriggers
  <2> QED
    BY <1>1, <1>6, <2>1 DEF WalkTriggers
<1>7. ASSUME NEW t \in Threads, WalkWakes(t) PROVE phase'[p] = "sleep"
  BY <1>1, <1>7 DEF WalkWakes
<1>8. CASE Tick
  BY <1>8 DEF Tick
<1> QED
  BY <1>2, <1>3, <1>4, <1>5, <1>6, <1>7, <1>8 DEF Next, Call, Walk

(* A process leaves Y_tin only after the time that it asked for, and a      *)
(* timer guard fires only with a recorded time that is not before its own.  *)
THEOREM NobodyWokenEarly == Spec => NotEarly
<1>1. ASSUME OInv, [Next]_vars, NEW p \in Procs, phase[p] = "sleep", phase'[p] = "top"
      PROVE  ~After(asked[p], Clock)
  <2>1. TInv /\ Walks /\ Asking
    BY <1>1 DEF OInv
  <2>2. PICK t \in Threads : WalkWakes(t) /\ node[First(t)].wptr = p
    BY <1>1, <2>1, WhoWakes
  <2>3. tq[t] # <<>> /\ ~After(node[First(t)].time, now[t]) /\ t \in Walking
    BY <2>2 DEF WalkWakes, Walking
  <2>4. asked[p] = node[First(t)].time
    <3>1. First(t) \in Queued
      BY <2>1, <2>3, HeldNodes DEF Queued
    <3> QED
      BY <2>1, <2>2, <3>1, NamesAssumption DEF Asking
  <2>5. Ordered(t) /\ 1 \in 1..Len(tq[t]) /\ First(t) = tq[t][1]
    <3>1. Ordered(t)
      BY <1>1, <2>1, OrderedIs DEF OInv
    <3>2. tq[t] \in Seq(Nodes)
      BY <2>1, QueueFacts
    <3> QED
      BY <2>3, <3>1, <3>2 DEF First
  <2>6. PICK x : x = Ahead(asked[p])
    OBVIOUS
  <2>7. /\ 0 - (MaxLate + Cardinality(Nodes)) <= x /\ x <= MaxDelay + 1 /\ x \in Int
        /\ asked[p] \in Times
    BY <2>1, <2>4, <2>5, <2>6, DatesInRange
  <2>8. now[t] \in Times /\ Ahead(now[t]) \in (0 - MaxLate)..0
    BY <2>1, <2>3 DEF Walks, TInv, TypeOK
  <2>9. 0 - (MaxLate + Cardinality(Nodes)) <= Ahead(now[t]) /\ Ahead(now[t]) <= MaxDelay + 1
        /\ Ahead(now[t]) <= 0 /\ Ahead(now[t]) \in Int
    BY <2>8, Ranges
  <2>10. x <= 0
    <3>1. After(asked[p], now[t]) <=> x > Ahead(now[t])
      BY ONLY <2>6, <2>7, <2>8, <2>9, CloseTimes
    <3> QED
      BY <2>3, <2>4, <2>7, <2>9, <3>1
  <2>11. Clock \in Times /\ Ahead(Clock) = 0
         /\ 0 - (MaxLate + Cardinality(Nodes)) <= Ahead(Clock) /\ Ahead(Clock) <= MaxDelay + 1
    BY AheadOfClock, Ranges
  <2>12. After(asked[p], Clock) <=> x > 0
    BY ONLY <2>6, <2>7, <2>11, CloseTimes
  <2> QED
    BY <2>7, <2>10, <2>12
<1>2. ASSUME OInv, NEW p \in Procs, phase[p] = "release"
      PROVE  ~After(asked[p], node[link[p]].time)
  BY <1>2 DEF OInv, Asking, InAlt
<1>3. OInv /\ [Next]_vars =>
         \A p \in Procs :
            /\ phase[p] = "sleep" /\ phase'[p] = "top" => ~After(asked[p], Clock)
            /\ phase[p] = "release" /\ fired[p] /\ phase'[p] = "altend" =>
                  ~After(asked[p], node[link[p]].time)
  BY <1>1, <1>2
<1> QED
  BY <1>3, TimerOrderInvariance, PTL DEF Spec, NotEarly
=============================================================================
