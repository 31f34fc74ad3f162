------------------------ MODULE TransterpreterProofs ------------------------
(***************************************************************************)
(* Proofs about the Transterpreter: that it never raises the error flag,   *)
(* that every process is where something will resume it, and that an ALT   *)
(* selects a guard that is ready, whatever the program, the contexts, the  *)
(* wrapper, the time slices and disconnections.                            *)
(*                                                                         *)
(* The inductive invariant is Transterpreter!TInv.  One lemma per action   *)
(* says that the action keeps it: what becomes of the process that takes   *)
(* the step, of one that it resumes, of the others (lemma Kept), of the    *)
(* channel words and of the queues.                                        *)
(***************************************************************************)
EXTENDS Transterpreter, FiniteSetTheorems, SequenceTheorems, WellFoundedInduction, TLAPS

-----------------------------------------------------------------------------
(* Queues *)

(* A queue with a process put in, place by place.                              *)
LEMMA InsertedAt ==
  ASSUME NEW s \in Seq(Procs), NEW k \in 0..Len(s), NEW n \in Procs
  PROVE  /\ InsertAt(s, k + 1, n) \in Seq(Procs) /\ Len(InsertAt(s, k + 1, n)) = Len(s) + 1
         /\ \A i \in 1..k : InsertAt(s, k + 1, n)[i] = s[i]
         /\ InsertAt(s, k + 1, n)[k + 1] = n
         /\ \A i \in (k + 2)..(Len(s) + 1) : InsertAt(s, k + 1, n)[i] = s[i - 1]
<1> DEFINE r == InsertAt(s, k + 1, n)
           a == SubSeq(s, 1, k)
           b == SubSeq(s, k + 1, Len(s))
<1>1. k \in Int /\ Len(s) \in Nat /\ k + 1 \in Int /\ \A i \in 1..Len(s) : s[i] \in Procs
  OBVIOUS
<1>2. a \in Seq(Procs) /\ Len(a) = k /\ \A i \in 1..k : a[i] = s[i]
  BY <1>1
<1>3. b \in Seq(Procs) /\ Len(b) = Len(s) - k /\ \A i \in 1..(Len(s) - k) : b[i] = s[k + i]
  BY <1>1
<1>4. r = (a \o <<n>>) \o b
  <2>1. (k + 1) - 1 = k
    BY <1>1
  <2>2. r = (SubSeq(s, 1, (k + 1) - 1) \o <<n>>) \o b
    BY DEF InsertAt
  <2> QED
    BY ONLY <2>1, <2>2 DEF a
<1> HIDE DEF a, b, r
<1>5. /\ r \in Seq(Procs) /\ Len(r) = Len(s) + 1
      /\ \A i \in 1..k : r[i] = s[i]
      /\ r[k + 1] = n
      /\ \A i \in (k + 2)..(Len(s) + 1) : r[i] = s[i - 1]
  <2>1. a \o <<n>> \in Seq(Procs) /\ Len(a \o <<n>>) = k + 1
        /\ (\A i \in 1..k : (a \o <<n>>)[i] = s[i]) /\ (a \o <<n>>)[k + 1] = n
    BY <1>1, <1>2
  <2>2. PICK c : c = a \o <<n>>
    OBVIOUS
  <2>3. /\ c \in Seq(Procs) /\ Len(c) = k + 1 /\ r = c \o b
        /\ (\A i \in 1..k : c[i] = s[i]) /\ c[k + 1] = n
    BY ONLY <1>4, <2>1, <2>2
  <2>4. /\ r \in Seq(Procs) /\ Len(r) = Len(c) + Len(b)
        /\ \A i \in 1..(Len(c) + Len(b)) : r[i] = IF i <= Len(c) THEN c[i] ELSE b[i - Len(c)]
    <3>1. c \in Seq(Procs) /\ b \in Seq(Procs) /\ r = c \o b
      BY ONLY <1>3, <2>3
    <3> QED
      BY ONLY <3>1, ConcatProperties
  <2>5. Len(r) = Len(s) + 1 /\ Len(c) = k + 1 /\ Len(b) = Len(s) - k
    <3>1. Len(r) = Len(c) + Len(b) /\ Len(c) = k + 1 /\ Len(b) = Len(s) - k
      BY ONLY <1>3, <2>3, <2>4
    <3> QED
      BY ONLY <1>1, <3>1
  <2>6. \A i \in 1..(k + 1) : r[i] = c[i]
    BY ONLY <1>1, <2>4, <2>5
  <2>7. ASSUME NEW i \in (k + 2)..(Len(s) + 1) PROVE r[i] = s[i - 1]
    <3>1. i \in 1..(Len(c) + Len(b)) /\ ~(i <= Len(c)) /\ i - (k + 1) \in 1..(Len(s) - k)
          /\ k + (i - (k + 1)) = i - 1
      BY ONLY <1>1, <2>7, <2>5
    <3>2. r[i] = b[i - (k + 1)]
      BY ONLY <2>4, <2>5, <3>1
    <3> QED
      BY ONLY <1>3, <3>1, <3>2
  <2> QED
    <3>1. \A i \in 1..k : r[i] = c[i] /\ i \in 1..k
      BY ONLY <1>1, <2>6
    <3>2. r[k + 1] = n
      BY ONLY <1>1, <2>3, <2>6
    <3> QED
      BY ONLY <2>3, <2>4, <2>7, <2>5, <3>1, <3>2
<1> QED
  BY <1>5 DEF r

(* A queue with a process put in.                                              *)
LEMMA Inserted ==
  ASSUME NEW s \in Seq(Procs), IsInjective(s), NEW k \in 0..Len(s),
         NEW n \in Procs, n \notin ToSet(s)
  PROVE  /\ InsertAt(s, k + 1, n) \in Seq(Procs)
         /\ IsInjective(InsertAt(s, k + 1, n))
         /\ ToSet(InsertAt(s, k + 1, n)) = ToSet(s) \cup {n}
<1> DEFINE r == InsertAt(s, k + 1, n)
<1>1. k \in Int /\ Len(s) \in Nat /\ \A i \in 1..Len(s) : s[i] \in Procs
  OBVIOUS
<1>5. /\ r \in Seq(Procs) /\ Len(r) = Len(s) + 1
      /\ \A i \in 1..k : r[i] = s[i]
      /\ r[k + 1] = n
      /\ \A i \in (k + 2)..(Len(s) + 1) : r[i] = s[i - 1]
  BY InsertedAt
<1> HIDE DEF r
<1>6. DOMAIN r = 1..(Len(s) + 1) /\ DOMAIN s = 1..Len(s)
  BY <1>5
<1>7. \A i \in DOMAIN s : s[i] # n
  BY DEF ToSet
<1>8. IsInjective(r)
  <2>1. ASSUME NEW i \in DOMAIN r, NEW j \in DOMAIN r, r[i] = r[j] PROVE i = j
    <3>1. \A x \in DOMAIN r : x # k + 1 => /\ (IF x <= k THEN x ELSE x - 1) \in DOMAIN s
                                           /\ r[x] = s[IF x <= k THEN x ELSE x - 1]
      BY ONLY <1>1, <1>5, <1>6
    <3>2. CASE i = k + 1 \/ j = k + 1
      BY ONLY <1>5, <1>7, <2>1, <3>1, <3>2
    <3>3. CASE i # k + 1 /\ j # k + 1
      <4>1. (IF i <= k THEN i ELSE i - 1) = (IF j <= k THEN j ELSE j - 1)
        BY ONLY <2>1, <3>1, <3>3, IsInjective(s) DEF IsInjective
      <4> QED
        BY ONLY <1>1, <1>6, <2>1, <3>3, <4>1
    <3> QED
      BY <3>2, <3>3
  <2> QED
    BY ONLY <2>1 DEF IsInjective
<1>9. ToSet(r) = ToSet(s) \cup {n}
  <2>1. ASSUME NEW i \in DOMAIN r PROVE r[i] \in ToSet(s) \cup {n}
    <3>1. CASE i = k + 1
      BY ONLY <1>5, <3>1
    <3>2. CASE i # k + 1
      <4>1. (IF i <= k THEN i ELSE i - 1) \in DOMAIN s /\ r[i] = s[IF i <= k THEN i ELSE i - 1]
        BY ONLY <1>1, <1>5, <1>6, <3>2, i \in DOMAIN r
      <4> QED
        BY ONLY <4>1 DEF ToSet
    <3> QED
      BY <3>1, <3>2
  <2>2. n \in ToSet(r)
    <3>1. k + 1 \in DOMAIN r /\ r[k + 1] = n
      BY <1>1, <1>5, <1>6
    <3> QED
      BY ONLY <3>1 DEF ToSet
  <2>3. ASSUME NEW i \in DOMAIN s PROVE s[i] \in ToSet(r)
    <3>1. CASE i <= k
      BY <1>1, <1>5, <1>6, <3>1 DEF ToSet
    <3>2. CASE i > k
      <4>1. i + 1 \in DOMAIN r /\ r[i + 1] = s[i]
        BY <1>1, <1>5, <1>6, <3>2
      <4> QED
        BY <4>1 DEF ToSet
    <3> QED
      BY <1>1, <1>6, <3>1, <3>2
  <2> QED
    BY <2>1, <2>2, <2>3 DEF ToSet
<1> QED
  BY <1>5, <1>8, <1>9 DEF r

(* A queue without one of its processs, place by place.                        *)
LEMMA RemovedAt ==
  ASSUME NEW s \in Seq(Procs), NEW k \in DOMAIN s
  PROVE  /\ RemoveAt(s, k) \in Seq(Procs) /\ Len(RemoveAt(s, k)) = Len(s) - 1
         /\ \A i \in 1..(k - 1) : RemoveAt(s, k)[i] = s[i]
         /\ \A i \in k..(Len(s) - 1) : RemoveAt(s, k)[i] = s[i + 1]
<1> DEFINE r == RemoveAt(s, k)
           a == SubSeq(s, 1, k - 1)
           b == SubSeq(s, k + 1, Len(s))
<1>1. k \in 1..Len(s) /\ Len(s) \in Nat /\ \A i \in 1..Len(s) : s[i] \in Procs
  OBVIOUS
<1>2. a \in Seq(Procs) /\ Len(a) = k - 1 /\ \A i \in 1..(k - 1) : a[i] = s[i]
  BY <1>1
<1>3. b \in Seq(Procs) /\ Len(b) = Len(s) - k /\ \A i \in 1..(Len(s) - k) : b[i] = s[k + i]
  BY <1>1
<1>4. r = a \o b
  BY DEF RemoveAt
<1> HIDE DEF a, b, r
<1>5. /\ r \in Seq(Procs) /\ Len(r) = Len(s) - 1
      /\ \A i \in 1..(k - 1) : r[i] = s[i]
      /\ \A i \in k..(Len(s) - 1) : r[i] = s[i + 1]
  <2>1. r \in Seq(Procs) /\ Len(r) = Len(a) + Len(b)
    BY ONLY <1>2, <1>3, <1>4, ConcatProperties
  <2>2. /\ \A i \in 1..Len(a) : r[i] = a[i]
        /\ \A i \in (Len(a) + 1)..(Len(a) + Len(b)) : r[i] = b[i - Len(a)]
    <3>1. Len(a) \in Nat /\ Len(b) \in Nat
      BY <1>2, <1>3
    <3>2. \A i \in 1..(Len(a) + Len(b)) : r[i] = IF i <= Len(a) THEN a[i] ELSE b[i - Len(a)]
      BY ONLY <1>2, <1>3, <1>4, ConcatProperties
    <3> QED
      BY ONLY <3>1, <3>2
  <2>3. Len(r) = Len(s) - 1 /\ \A i \in 1..(k - 1) : r[i] = s[i]
    <3>1. Len(r) = (k - 1) + (Len(s) - k) /\ Len(a) = k - 1
      BY ONLY <1>2, <1>3, <2>1
    <3>2. \A i \in 1..(k - 1) : r[i] = s[i]
      BY ONLY <1>2, <2>2
    <3> QED
      BY ONLY <1>1, <3>1, <3>2
  <2>4. ASSUME NEW i \in k..(Len(s) - 1) PROVE r[i] = s[i + 1]
    <3>1. i - (k - 1) \in 1..(Len(s) - k) /\ i \in k..(k - 1 + (Len(s) - k))
      BY ONLY <1>1, <2>4
    <3>2. i \in (Len(a) + 1)..(Len(a) + Len(b)) /\ Len(a) = k - 1
      BY ONLY <1>1, <1>2, <1>3, <3>1
    <3>3. r[i] = b[i - (k - 1)]
      BY ONLY <2>2, <3>2
    <3>4. b[i - (k - 1)] = s[k + (i - (k - 1))]
      BY ONLY <1>3, <3>1
    <3>5. k + (i - (k - 1)) = i + 1
      BY ONLY <1>1, <2>4
    <3> QED
      BY ONLY <3>3, <3>4, <3>5
  <2> QED
    BY <2>1, <2>3, <2>4
<1> QED
  BY <1>5 DEF r

(* A queue without one of its processs.                                        *)
LEMMA Removed ==
  ASSUME NEW s \in Seq(Procs), IsInjective(s), NEW k \in DOMAIN s
  PROVE  /\ RemoveAt(s, k) \in Seq(Procs)
         /\ IsInjective(RemoveAt(s, k))
         /\ ToSet(RemoveAt(s, k)) = ToSet(s) \ {s[k]}
<1> DEFINE r == RemoveAt(s, k)
<1>1. k \in 1..Len(s) /\ Len(s) \in Nat /\ \A i \in 1..Len(s) : s[i] \in Procs
  OBVIOUS
<1>5. /\ r \in Seq(Procs) /\ Len(r) = Len(s) - 1
      /\ \A i \in 1..(k - 1) : r[i] = s[i]
      /\ \A i \in k..(Len(s) - 1) : r[i] = s[i + 1]
  BY RemovedAt
<1> HIDE DEF r
<1>6. DOMAIN r = 1..(Len(s) - 1) /\ DOMAIN s = 1..Len(s)
  BY <1>1, <1>5
<1>7. \A i, j \in DOMAIN s : s[i] = s[j] => i = j
  BY DEF IsInjective
<1>8. IsInjective(r)
  <2>1. ASSUME NEW i \in DOMAIN r, NEW j \in DOMAIN r, r[i] = r[j] PROVE i = j
    <3>1. \A x \in DOMAIN r : r[x] = s[IF x < k THEN x ELSE x + 1]
      BY ONLY <1>1, <1>5, <1>6
    <3>2. (IF i < k THEN i ELSE i + 1) \in DOMAIN s /\ (IF j < k THEN j ELSE j + 1) \in DOMAIN s
      BY ONLY <1>1, <1>6, <2>1
    <3>3. (IF i < k THEN i ELSE i + 1) = (IF j < k THEN j ELSE j + 1)
      BY ONLY <1>7, <2>1, <3>1, <3>2
    <3> QED
      BY ONLY <1>1, <1>6, <2>1, <3>3
  <2> QED
    BY ONLY <2>1 DEF IsInjective
<1>9. ToSet(r) = ToSet(s) \ {s[k]}
  <2>1. ASSUME NEW i \in DOMAIN r PROVE r[i] \in ToSet(s) \ {s[k]}
    <3>1. PICK x \in DOMAIN s : r[i] = s[x] /\ x # k
      <4>1. (IF i < k THEN i ELSE i + 1) \in DOMAIN s /\ r[i] = s[IF i < k THEN i ELSE i + 1]
        BY ONLY <1>1, <1>5, <1>6, <2>1
      <4>2. (IF i < k THEN i ELSE i + 1) # k
        BY ONLY <1>1, <1>6, <2>1
      <4> QED
        BY <4>1, <4>2
    <3> QED
      BY <1>7, <3>1 DEF ToSet
  <2>2. ASSUME NEW i \in DOMAIN s, i # k PROVE s[i] \in ToSet(r)
    <3>1. PICK x \in DOMAIN r : r[x] = s[i]
      <4>1. CASE i < k
        BY <1>1, <1>5, <1>6, <4>1
      <4>2. CASE i > k
        <5>1. i - 1 \in DOMAIN r /\ r[i - 1] = s[i]
          BY <1>1, <1>5, <1>6, <4>2
        <5> QED
          BY <5>1
      <4> QED
        BY <1>1, <1>6, <2>2, <4>1, <4>2
    <3> QED
      BY <3>1 DEF ToSet
  <2> QED
    BY <2>1, <2>2 DEF ToSet
<1> QED
  BY <1>5, <1>8, <1>9 DEF r

(* The least of some numbers.                                               *)
LEMMA Least ==
  ASSUME NEW n \in Nat, NEW S \in SUBSET (1..n), S # {}
  PROVE  \E x \in S : \A y \in S : x <= y
<1> DEFINE R == {ss \in Nat \X Nat : ss[1] < ss[2]}
<1>1. IsWellFoundedOn(R, Nat)
  BY NatLessThanWellFounded DEF OpToRel
<1>2. \A x, y \in Nat : <<y, x>> \in R <=> y < x
  OBVIOUS
<1> HIDE DEF R
<1>3. S \subseteq Nat
  OBVIOUS
<1>4. PICK x \in S : \A y \in S : ~(<<y, x>> \in R)
  BY ONLY <1>1, <1>3, WFMin, S # {}
<1>5. \A y \in S : ~(y < x)
  BY ONLY <1>2, <1>3, <1>4
<1>6. \A y \in S : x <= y
  BY ONLY <1>3, <1>5
<1> QED
  BY <1>6

LEMMA SetOfEmpty == ToSet(<<>>) = {} /\ IsInjective(<<>>)
  BY DEF ToSet, IsInjective

(* A queue with a process at its end.                                       *)
LEMMA Appended ==
  ASSUME NEW S, NEW s \in Seq(S), NEW x \in S
  PROVE  /\ Append(s, x) \in Seq(S) /\ Append(s, x) # <<>>
         /\ ToSet(Append(s, x)) = ToSet(s) \cup {x}
         /\ IsInjective(s) /\ x \notin ToSet(s) => IsInjective(Append(s, x))
<1>1. /\ Append(s, x) \in Seq(S) /\ Len(s) \in Nat /\ Len(Append(s, x)) = Len(s) + 1
      /\ \A i \in 1..Len(s) : Append(s, x)[i] = s[i]
      /\ Append(s, x)[Len(s) + 1] = x
  OBVIOUS
<1>2. DOMAIN s = 1..Len(s) /\ DOMAIN Append(s, x) = 1..(Len(s) + 1)
  BY <1>1
<1>3. ToSet(Append(s, x)) = ToSet(s) \cup {x}
  <2> DEFINE r == Append(s, x)
  <2> HIDE DEF r
  <2>1. ASSUME NEW y \in ToSet(r) PROVE y \in ToSet(s) \cup {x}
    BY <1>1, <1>2, <2>1 DEF ToSet, r
  <2>2. ASSUME NEW y \in ToSet(s) PROVE y \in ToSet(r)
    BY <1>1, <1>2, <2>2 DEF ToSet, r
  <2>3. x \in ToSet(r)
    BY <1>1, <1>2 DEF ToSet, r
  <2> QED
    BY <2>1, <2>2, <2>3 DEF r
<1>4. ASSUME IsInjective(s), x \notin ToSet(s) PROVE IsInjective(Append(s, x))
  BY <1>1, <1>2, <1>4 DEF IsInjective, ToSet
<1> QED
  BY <1>1, <1>3, <1>4

(* A queue without its first process.                                       *)
LEMMA HeadAndTail ==
  ASSUME NEW S, NEW s \in Seq(S), s # <<>>, IsInjective(s)
  PROVE  /\ Head(s) \in S /\ Head(s) \in ToSet(s)
         /\ Tail(s) \in Seq(S) /\ IsInjective(Tail(s))
         /\ ToSet(Tail(s)) = ToSet(s) \ {Head(s)}
<1>1. /\ Head(s) = s[1] /\ s[1] \in S /\ Len(s) \in Nat /\ Len(s) > 0
      /\ Tail(s) \in Seq(S) /\ Len(Tail(s)) = Len(s) - 1
      /\ \A i \in 1..(Len(s) - 1) : Tail(s)[i] = s[i + 1]
  OBVIOUS
<1>2. DOMAIN s = 1..Len(s) /\ DOMAIN Tail(s) = 1..(Len(s) - 1)
  BY <1>1
<1>3. IsInjective(Tail(s))
  BY <1>1, <1>2 DEF IsInjective
<1>4. ASSUME NEW y \in ToSet(Tail(s)) PROVE y \in ToSet(s) /\ y # Head(s)
  <2>1. PICK i \in 1..(Len(s) - 1) : y = Tail(s)[i]
    BY <1>2 DEF ToSet
  <2>2. i + 1 \in DOMAIN s /\ 1 \in DOMAIN s /\ y = s[i + 1] /\ i + 1 # 1
    BY <1>1, <1>2, <2>1
  <2> QED
    BY <1>1, <2>2 DEF ToSet, IsInjective
<1>5. ASSUME NEW y \in ToSet(s), y # Head(s) PROVE y \in ToSet(Tail(s))
  <2>1. PICK i \in 1..Len(s) : y = s[i]
    BY <1>2 DEF ToSet
  <2>2. i # 1
    BY <1>1, <1>5, <2>1
  <2>3. i - 1 \in DOMAIN Tail(s) /\ y = Tail(s)[i - 1]
    BY <1>1, <1>2, <2>1, <2>2
  <2> QED
    BY <2>3 DEF ToSet
<1>6. Head(s) \in ToSet(s)
  BY <1>1, <1>2 DEF ToSet
<1> QED
  BY <1>1, <1>3, <1>4, <1>5, <1>6

(* SetToSeq lists a finite set, each element once.                          *)
LEMMA Listing ==
  ASSUME NEW S, IsFiniteSet(S)
  PROVE  SetToSeq(S) \in Seq(S) /\ IsInjective(SetToSeq(S)) /\ ToSet(SetToSeq(S)) = S
<1> DEFINE n == Cardinality(S)
           s == SetToSeq(S)
<1>1. PICK m \in Nat : ExistsBijection(1..m, S)
  BY FS_NatBijection
<1>2. n = m
  BY <1>1, FS_CountingElements
<1>3. PICK f \in Bijection(1..m, S) : TRUE
  BY <1>1 DEF ExistsBijection
<1>4. f \in [1..n -> S] /\ IsInjective(f)
  BY <1>2, <1>3 DEF Bijection, Injection
<1>5. s \in [1..n -> S] /\ IsInjective(s)
  BY <1>4 DEF SetToSeq
<1>6. s \in Bijection(1..n, ToSet(s))
  <2>1. DOMAIN s = 1..n
    BY <1>5
  <2>2. s \in [1..n -> ToSet(s)] /\ \A x \in ToSet(s) : \E i \in 1..n : s[i] = x
    BY <1>5, <2>1 DEF ToSet
  <2> QED
    BY <1>5, <2>2 DEF Bijection, Injection, Surjection
<1>7. Cardinality(ToSet(s)) = n
  BY <1>1, <1>2, <1>6, FS_CountingElements DEF ExistsBijection
<1>8. ToSet(s) \in SUBSET S
  BY <1>5 DEF ToSet
<1>9. ToSet(s) = S
  BY <1>7, <1>8, FS_Subset
<1>10. s \in Seq(S)
  BY <1>1, <1>2, <1>5
<1> QED
  BY <1>5, <1>9, <1>10

(* Two queues, one behind the other.                                        *)
LEMMA Joined ==
  ASSUME NEW S, NEW s \in Seq(S), NEW t \in Seq(S)
  PROVE  /\ s \o t \in Seq(S) /\ ToSet(s \o t) = ToSet(s) \cup ToSet(t)
         /\ IsInjective(s) /\ IsInjective(t) /\ ToSet(s) \cap ToSet(t) = {} => IsInjective(s \o t)
<1> DEFINE r == s \o t
<1>1. /\ r \in Seq(S) /\ Len(s) \in Nat /\ Len(t) \in Nat /\ Len(r) = Len(s) + Len(t)
      /\ \A i \in 1..Len(s) : r[i] = s[i]
      /\ \A i \in 1..Len(t) : r[Len(s) + i] = t[i]
  <2>1. /\ r \in Seq(S) /\ Len(s) \in Nat /\ Len(t) \in Nat /\ Len(r) = Len(s) + Len(t)
        /\ \A i \in 1..(Len(s) + Len(t)) : r[i] = IF i <= Len(s) THEN s[i] ELSE t[i - Len(s)]
    OBVIOUS
  <2> HIDE DEF r
  <2>2. ASSUME NEW i \in 1..Len(t) PROVE r[Len(s) + i] = t[i]
    <3>1. Len(s) + i \in 1..(Len(s) + Len(t)) /\ ~(Len(s) + i <= Len(s)) /\ (Len(s) + i) - Len(s) = i
      BY <2>1
    <3> QED
      BY <2>1, <3>1
  <2> QED
    BY <2>1, <2>2
<1> HIDE DEF r
<1>2. DOMAIN s = 1..Len(s) /\ DOMAIN t = 1..Len(t) /\ DOMAIN r = 1..(Len(s) + Len(t))
  BY <1>1
<1>3. \A i \in DOMAIN r : i \in DOMAIN s \/ (i - Len(s) \in DOMAIN t /\ i = Len(s) + (i - Len(s)))
  BY <1>1, <1>2
<1>4. ToSet(r) = ToSet(s) \cup ToSet(t)
  <2>1. ASSUME NEW i \in DOMAIN r PROVE r[i] \in ToSet(s) \cup ToSet(t)
    BY <1>1, <1>2, <1>3 DEF ToSet
  <2>2. ASSUME NEW i \in DOMAIN s PROVE s[i] \in ToSet(r)
    <3>1. i \in DOMAIN r /\ r[i] = s[i]
      BY <1>1, <1>2
    <3> QED
      BY <3>1 DEF ToSet
  <2>3. ASSUME NEW i \in DOMAIN t PROVE t[i] \in ToSet(r)
    <3>1. Len(s) + i \in DOMAIN r /\ r[Len(s) + i] = t[i]
      BY <1>1, <1>2
    <3> QED
      BY <3>1 DEF ToSet
  <2> QED
    BY <2>1, <2>2, <2>3 DEF ToSet
<1>5. ASSUME IsInjective(s), IsInjective(t), ToSet(s) \cap ToSet(t) = {} PROVE IsInjective(r)
  <2>1. \A i \in DOMAIN s : \A j \in DOMAIN t : s[i] # t[j]
    BY <1>5 DEF ToSet
  <2>2. ASSUME NEW i \in DOMAIN r, NEW j \in DOMAIN r, r[i] = r[j] PROVE i = j
    <3>1. CASE i \in DOMAIN s /\ j \in DOMAIN s
      BY <1>1, <1>2, <1>5, <2>2, <3>1 DEF IsInjective
    <3>2. CASE i \notin DOMAIN s /\ j \notin DOMAIN s
      <4>1. i - Len(s) = j - Len(s)
        BY <1>1, <1>2, <1>3, <1>5, <2>2, <3>2 DEF IsInjective
      <4> QED
        BY <1>1, <1>2, <4>1
    <3>3. CASE i \in DOMAIN s /\ j \notin DOMAIN s
      BY <1>1, <1>2, <1>3, <2>1, <2>2, <3>3
    <3>4. CASE i \notin DOMAIN s /\ j \in DOMAIN s
      BY <1>1, <1>2, <1>3, <2>1, <2>2, <3>4
    <3> QED
      BY <3>1, <3>2, <3>3, <3>4
  <2> QED
    BY <2>2 DEF IsInjective
<1> QED
  BY <1>1, <1>4, <1>5 DEF r

(* timer_queue_insert puts a process into the queue, wherever that is.      *)
LEMMA TimerInserted ==
  ASSUME NEW q \in Seq(Procs), IsInjective(q), NEW p \in Procs, p \notin ToSet(q), NEW t
  PROVE  /\ Insert(q, p, t) \in Seq(Procs) /\ IsInjective(Insert(q, p, t))
         /\ ToSet(Insert(q, p, t)) = ToSet(q) \cup {p} /\ Insert(q, p, t) # <<>>
<1> DEFINE later == {i \in DOMAIN q : After(time[q[i]], t)}
<1>1. CASE later = {}
  <2>1. Insert(q, p, t) = Append(q, p)
    BY <1>1 DEF Insert
  <2> QED
    BY <2>1, Appended
<1>2. CASE later # {}
  <2>1. Insert(q, p, t) = InsertAt(q, Min(later), p)
    BY <1>2 DEF Insert
  <2>2. Len(q) \in Nat /\ DOMAIN q = 1..Len(q) /\ later \in SUBSET (1..Len(q))
    OBVIOUS
  <2> HIDE DEF later
  <2>3. Min(later) \in 1..Len(q)
    BY <1>2, <2>2, Least DEF Min
  <2>4. PICK k \in 0..Len(q) : Min(later) = k + 1
    <3>1. Min(later) - 1 \in 0..Len(q) /\ Min(later) = (Min(later) - 1) + 1
      BY <2>2, <2>3
    <3> QED
      BY <3>1
  <2>5. Insert(q, p, t) = InsertAt(q, k + 1, p)
    BY <2>1, <2>4
  <2>6. ToSet(Insert(q, p, t)) = ToSet(q) \cup {p}
    BY <2>5, Inserted
  <2> QED
    BY <2>5, <2>6, Inserted, SetOfEmpty
<1> QED
  BY <1>1, <1>2

(* timer_queue_remove takes a process of the queue out.                     *)
LEMMA TimerRemoved ==
  ASSUME NEW q \in Seq(Procs), IsInjective(q), NEW p \in ToSet(q)
  PROVE  /\ RemoveAt(q, Place(q, p)) \in Seq(Procs) /\ IsInjective(RemoveAt(q, Place(q, p)))
         /\ ToSet(RemoveAt(q, Place(q, p))) = ToSet(q) \ {p}
<1>1. PICK i \in DOMAIN q : q[i] = p
  BY DEF ToSet
<1>2. Place(q, p) \in DOMAIN q /\ q[Place(q, p)] = p
  BY <1>1 DEF Place
<1> QED
  BY <1>2, Removed

-----------------------------------------------------------------------------
(* Run queues and current processes *)

(* RunLists and CanRun, of run queues rq and current processes w            *)
Lists(rq, w) ==
    \A c \in Contexts :
        /\ IsInjective(rq[c]) /\ \A p \in ToSet(rq[c]) : Ctx[p] = c
        /\ w[c] # NULL => Ctx[w[c]] = c /\ w[c] \notin ToSet(rq[c])
Can(rq, w, p) == \E c \in Contexts : p \in ToSet(rq[c]) \/ w[c] = p
RunQueueType == [Contexts -> Seq(Procs)]
CurrentType  == [Contexts -> Procs \cup {NULL}]

LEMMA ListsIs ==
  /\ RunLists <=> Lists(runq, wptr)
  /\ \A p \in Procs : CanRun(p) <=> Can(runq, wptr, p)
BY DEF RunLists, Lists, CanRun, OnQueue, Can

LEMMA ListsIsNext ==
  /\ RunLists' <=> Lists(runq', wptr')
  /\ \A p \in Procs : CanRun(p)' <=> Can(runq', wptr', p)
BY DEF RunLists, Lists, CanRun, OnQueue, Can

LEMMA CtxType == \A p \in Procs : Ctx[p] \in Contexts
BY ProgramAssumption

(* ADD_TO_QUEUE_ECTX *)
LEMMA QueuePuts ==
  ASSUME NEW rq \in RunQueueType, NEW w \in CurrentType, Lists(rq, w),
         NEW p \in Procs, ~Can(rq, w, p)
  PROVE  /\ Queue(rq, p) \in RunQueueType /\ Lists(Queue(rq, p), w)
         /\ \A r \in Procs : Can(Queue(rq, p), w, r) <=> Can(rq, w, r) \/ r = p
<1> DEFINE new == Queue(rq, p)
<1>1. Ctx[p] \in Contexts /\ rq[Ctx[p]] \in Seq(Procs)
  BY CtxType DEF RunQueueType
<1>2. /\ new[Ctx[p]] = Append(rq[Ctx[p]], p)
      /\ \A c \in Contexts : c # Ctx[p] => new[c] = rq[c]
      /\ DOMAIN new = Contexts
  BY <1>1 DEF Queue, RunQueueType
<1>3. /\ Append(rq[Ctx[p]], p) \in Seq(Procs) /\ ToSet(Append(rq[Ctx[p]], p)) = ToSet(rq[Ctx[p]]) \cup {p}
      /\ IsInjective(Append(rq[Ctx[p]], p))
  BY <1>1, Appended DEF Lists, Can
<1>4. new \in RunQueueType
  BY <1>1, <1>3 DEF Queue, RunQueueType
<1> HIDE DEF new
<1>5. \A c \in Contexts : \A r : r \in ToSet(new[c]) <=> r \in ToSet(rq[c]) \/ (r = p /\ c = Ctx[p])
  BY <1>2, <1>3
<1>6. \A c \in Contexts : IsInjective(new[c])
  BY <1>2, <1>3 DEF Lists
<1>7. Lists(new, w)
  <2>1. ASSUME NEW c \in Contexts PROVE \A r \in ToSet(new[c]) : Ctx[r] = c
    BY <1>5 DEF Lists
  <2>2. ASSUME NEW c \in Contexts, w[c] # NULL PROVE Ctx[w[c]] = c /\ w[c] \notin ToSet(new[c])
    BY <1>5, <2>2 DEF Lists, Can
  <2> QED
    BY <1>6, <2>1, <2>2 DEF Lists
<1>8. \A r \in Procs : Can(new, w, r) <=> Can(rq, w, r) \/ r = p
  BY <1>1, <1>5 DEF Can
<1> QED
  BY <1>4, <1>7, <1>8 DEF new

(* A context has no current process any more.                               *)
LEMMA CurrentDropped ==
  ASSUME NEW rq \in RunQueueType, NEW w \in CurrentType, Lists(rq, w),
         NEW t \in Contexts, NEW p \in Procs, w[t] = p
  PROVE  /\ [w EXCEPT ![t] = NULL] \in CurrentType /\ Lists(rq, [w EXCEPT ![t] = NULL])
         /\ \A r \in Procs : Can(rq, [w EXCEPT ![t] = NULL], r) <=> Can(rq, w, r) /\ r # p
<1>1. p # NULL /\ NULL \notin Procs
  BY NamesAssumption
<1>2. \A c \in Contexts : w[c] # NULL => Ctx[w[c]] = c /\ w[c] \notin ToSet(rq[c])
  BY DEF Lists
<1>3. \A c \in Contexts : p \notin ToSet(rq[c])
  BY <1>1, <1>2 DEF Lists
<1> QED
  BY <1>1, <1>2, <1>3 DEF Lists, Can, CurrentType

(* A context gets a current process.                                        *)
LEMMA CurrentSet ==
  ASSUME NEW rq \in RunQueueType, NEW w \in CurrentType, Lists(rq, w),
         NEW t \in Contexts, w[t] = NULL, NEW p \in Procs, Ctx[p] = t, ~Can(rq, w, p)
  PROVE  /\ [w EXCEPT ![t] = p] \in CurrentType /\ Lists(rq, [w EXCEPT ![t] = p])
         /\ \A r \in Procs : Can(rq, [w EXCEPT ![t] = p], r) <=> Can(rq, w, r) \/ r = p
<1>1. p # NULL /\ NULL \notin Procs
  BY NamesAssumption
<1> QED
  BY <1>1 DEF Lists, Can, CurrentType

(* LOAD_PROCESS_RET: p leaves the processor, for the run queue or not, and  *)
(* a process q, if there is one, becomes able to run.                       *)
LEMMA LoadEffect ==
  ASSUME TypeOK, RunLists, turn \in Contexts, NEW p \in Procs, wptr[turn] = p,
         NEW back \in BOOLEAN, NEW q \in Procs \cup {NULL}, q \in Procs => ~CanRun(q),
         Load(q, IF back THEN Queue(runq, p) ELSE runq)
  PROVE  /\ RunLists' /\ runq' \in RunQueueType /\ wptr' \in CurrentType
         /\ \A r \in Procs : CanRun(r)' <=> (r # p /\ CanRun(r)) \/ (r = p /\ back) \/ r = q
         /\ turn' = turn /\ then' = then
         /\ mode' = mode \/ (mode' = "sync" /\ wptr'[turn] = NULL)
<1> DEFINE w1  == [wptr EXCEPT ![turn] = NULL]
           rq2 == IF back THEN Queue(runq, p) ELSE runq
<1>1. /\ runq \in RunQueueType /\ wptr \in CurrentType /\ Lists(runq, wptr)
      /\ NULL \notin Procs /\ w1[turn] = NULL
      /\ \A r \in Procs : CanRun(r) <=> Can(runq, wptr, r)
  BY ListsIs, NamesAssumption DEF TypeOK, RunQueueType, CurrentType
<1>2. /\ w1 \in CurrentType /\ Lists(runq, w1)
      /\ \A r \in Procs : Can(runq, w1, r) <=> Can(runq, wptr, r) /\ r # p
  BY <1>1, CurrentDropped
<1> HIDE DEF w1
<1>3. /\ rq2 \in RunQueueType /\ Lists(rq2, w1)
      /\ \A r \in Procs : Can(rq2, w1, r) <=> (Can(runq, wptr, r) /\ r # p) \/ (back /\ r = p)
  <2>1. CASE back
    <3>1. rq2 = Queue(runq, p)
      BY <2>1
    <3> HIDE DEF rq2
    <3>2. ~Can(runq, w1, p)
      BY <1>2
    <3> QED
      BY <1>1, <1>2, <2>1, <3>1, <3>2, QueuePuts
  <2>2. CASE ~back
    BY <1>1, <1>2, <2>2
  <2> QED
    BY <2>1, <2>2
<1>4. q \in Procs => q # p /\ ~Can(rq2, w1, q)
  BY <1>1, <1>3 DEF Can
<1>5. Load(q, rq2)
  OBVIOUS
<1> HIDE DEF rq2
<1>6. CASE q # NULL /\ Ctx[q] = turn
  <2>1. /\ wptr' = [wptr EXCEPT ![turn] = q] /\ runq' = rq2 /\ mode' = mode /\ then' = then /\ turn' = turn
    BY <1>5, <1>6 DEF Load
  <2>2. wptr' = [w1 EXCEPT ![turn] = q]
    BY <1>1, <2>1 DEF w1, CurrentType
  <2>3. q \in Procs /\ ~Can(rq2, w1, q)
    BY <1>4, <1>6
  <2>4. /\ wptr' \in CurrentType /\ Lists(rq2, wptr')
        /\ \A r \in Procs : Can(rq2, wptr', r) <=> Can(rq2, w1, r) \/ r = q
    BY <1>1, <1>2, <1>3, <1>6, <2>2, <2>3, CurrentSet
  <2>5. RunLists' /\ \A r \in Procs : CanRun(r)' <=> Can(rq2, wptr', r)
    BY <2>1, <2>4, ListsIsNext
  <2>6. ASSUME NEW r \in Procs
        PROVE  CanRun(r)' <=> (r # p /\ CanRun(r)) \/ (r = p /\ back) \/ r = q
    <3>1. CanRun(r)' <=> Can(rq2, w1, r) \/ r = q
      BY <2>4, <2>5
    <3> QED
      BY <1>1, <1>3, <3>1
  <2> QED
    BY <1>3, <2>1, <2>4, <2>5, <2>6
<1>7. CASE q # NULL /\ Ctx[q] # turn
  <2>1. /\ runq' = Queue(rq2, q) /\ wptr' = w1 /\ mode' = "sync" /\ then' = then /\ turn' = turn
    BY <1>5, <1>7 DEF Load, RunNext, w1
  <2>2. q \in Procs /\ ~Can(rq2, w1, q)
    BY <1>4, <1>7
  <2>3. /\ runq' \in RunQueueType /\ Lists(runq', w1)
        /\ \A r \in Procs : Can(runq', w1, r) <=> Can(rq2, w1, r) \/ r = q
    BY <1>2, <1>3, <2>1, <2>2, QueuePuts
  <2> QED
    BY <1>1, <1>2, <1>3, <2>1, <2>3, ListsIsNext
<1>8. CASE q = NULL
  <2>1. /\ runq' = rq2 /\ wptr' = w1 /\ mode' = "sync" /\ then' = then /\ turn' = turn
    BY <1>5, <1>8 DEF Load, RunNext, w1
  <2> QED
    BY <1>1, <1>2, <1>3, <1>8, <2>1, ListsIsNext
<1> QED
  BY <1>6, <1>7, <1>8

(* ADD_TO_QUEUE_ECTX, and the interpreter goes on.                          *)
LEMMA QueueEffect ==
  ASSUME TypeOK, RunLists, NEW p \in Procs, ~CanRun(p), runq' = Queue(runq, p), wptr' = wptr
  PROVE  /\ RunLists' /\ runq' \in RunQueueType
         /\ \A r \in Procs : CanRun(r)' <=> CanRun(r) \/ r = p
<1>1. /\ runq \in RunQueueType /\ wptr \in CurrentType /\ Lists(runq, wptr)
      /\ \A r \in Procs : CanRun(r) <=> Can(runq, wptr, r)
  BY ListsIs DEF TypeOK, RunQueueType, CurrentType
<1> QED
  BY <1>1, QueuePuts, ListsIsNext

(* Nothing moves.                                                           *)
LEMMA ListsSame ==
  ASSUME UNCHANGED <<wptr, runq>>
  PROVE  (RunLists => RunLists') /\ \A r \in Procs : CanRun(r)' <=> CanRun(r)
BY DEF RunLists, CanRun, OnQueue

-----------------------------------------------------------------------------
(* Channel words, and the processes that a step leaves alone *)

LEMMA WordParts ==
  /\ \A p, q : /\ Word(p, TRUE) = Word(q, TRUE) => p = q
               /\ Word(p, FALSE) = Word(q, FALSE) => p = q
               /\ Word(p, TRUE) # Word(q, FALSE)
  /\ \A p : Word(p, TRUE).who = p /\ Word(p, TRUE).alt /\ Word(p, FALSE).who = p /\ ~Word(p, FALSE).alt
  /\ \A p \in Procs : Word(p, FALSE) \notin {Empty, Cut} /\ Word(p, TRUE) \notin {Empty, Cut}
  /\ Empty.who = NULL /\ Cut.who = NULL /\ Empty # Cut
BY NamesAssumption DEF Word, Empty, Cut

LEMMA WordIs ==
  ASSUME TypeOK, NEW c \in Chans
  PROVE  /\ chan[c].who \in Procs \cup {NULL} /\ chan[c].alt \in BOOLEAN
         /\ \A p : \A a \in BOOLEAN : chan[c] = Word(p, a) <=> chan[c].who = p /\ chan[c].alt = a
BY DEF TypeOK, Word

(* The process that executes an instruction                                 *)
LEMMA Running ==
  ASSUME TInv, NEW p \in Procs, Runs(p)
  PROVE  /\ CanRun(p) /\ turn = Ctx[p] /\ turn \in Contexts /\ mode = "run" /\ wptr[turn] = p
         /\ slot[p] # "waiting" /\ pc[p] # "stopped" /\ p # NULL
         /\ \A c \in Chans : chan[c] # Word(p, FALSE)
         /\ tlink[p] = "link" => pc[p] = "disable"
<1>1. turn = Ctx[p] /\ turn \in Contexts /\ mode = "run" /\ wptr[turn] = p /\ p # NULL
  BY CtxType, NamesAssumption DEF Runs
<1>2. CanRun(p)
  BY <1>1 DEF CanRun
<1>3. Position(p) /\ Deadline(p)
  BY DEF TInv, Processes
<1>4. slot[p] # "waiting" /\ pc[p] # "stopped"
  BY <1>2, <1>3 DEF Position
<1>5. tlink[p] = "link" => pc[p] = "disable"
  BY <1>2, <1>3 DEF Deadline
<1>6. ASSUME NEW c \in Chans, chan[c] = Word(p, FALSE) PROVE FALSE
  <2>1. HasWaiter(c, p)
    BY <1>1, <1>6, WordIs DEF TInv, Words
  <2> QED
    BY <1>2, <2>1 DEF HasWaiter
<1> QED
  BY <1>1, <1>2, <1>4, <1>5, <1>6

(* What a process that runs may find in the word of a channel of its own    *)
LEMMA OwnWord ==
  ASSUME TInv, NEW p \in Procs, Runs(p), NEW c \in Chans, p \in {Writer[c], Reader[c]}
  PROVE  /\ \/ chan[c] \in {Empty, Cut}
            \/ chan[c] = Word(Reader[c], TRUE) /\ HasAlt(c, Reader[c])
            \/ /\ chan[c] = Word(chan[c].who, FALSE) /\ HasWaiter(c, chan[c].who)
               /\ chan[c].who \in Procs /\ chan[c].who # p
               /\ chan[c].who = (IF p = Reader[c] THEN Writer[c] ELSE Reader[c])
         /\ pc[p] = "idle" => chan[c] # Word(p, TRUE)
<1>1. TypeOK /\ Words
  BY DEF TInv
<1>2. CanRun(p)
  BY Running
<1>3. CASE chan[c].who = NULL
  BY <1>1, <1>3, WordIs, NamesAssumption DEF Empty, Cut
<1>4. CASE chan[c].who # NULL /\ chan[c].alt
  <2>1. chan[c] = Word(Reader[c], TRUE) /\ HasAlt(c, Reader[c])
    BY <1>1, <1>4, WordIs DEF Words, HasAlt
  <2>2. ASSUME pc[p] = "idle", p = Reader[c] PROVE FALSE
    <3>1. Offered(p) = {}
      BY <2>2 DEF Offered
    <3> QED
      BY <2>1, <2>2, <3>1 DEF HasAlt
  <2> QED
    BY <2>1, <2>2, WordParts
<1>5. CASE chan[c].who # NULL /\ ~chan[c].alt
  <2>1. chan[c] = Word(chan[c].who, FALSE) /\ HasWaiter(c, chan[c].who)
    BY <1>1, <1>5, WordIs DEF Words
  <2>2. chan[c].who # p /\ chan[c].who \in Procs
    BY <1>1, <1>2, <1>5, <2>1, WordIs DEF HasWaiter
  <2>3. chan[c] # Word(p, TRUE)
    BY <1>1, <1>5, WordIs
  <2> QED
    BY <2>1, <2>2, <2>3 DEF HasWaiter
<1> QED
  BY <1>3, <1>4, <1>5

(* A process whose variables a step does not touch                          *)
Same(r) ==
    /\ pc'[r] = pc[r] /\ guards'[r] = guards[r] /\ due'[r] = due[r] /\ temp'[r] = temp[r]
    /\ idx'[r] = idx[r] /\ slot'[r] = slot[r] /\ tlink'[r] = tlink[r] /\ time'[r] = time[r]

LEMMA OfferedSame == ASSUME NEW r, Same(r) PROVE Offered(r)' = Offered(r)
BY DEF Same, Offered

LEMMA Kept ==
  ASSUME NEW r \in Procs, Position(r), Selection(r), Deadline(r), Same(r), CanRun(r)' <=> CanRun(r),
         \A c \in Chans : chan[c] = Word(r, FALSE) => chan'[c] = Word(r, FALSE) \/ CanRun(r),
         \A c \in Chans : Reader[c] = r =>
            (Ready(c) => Ready(c)') /\ (chan[c] = Word(r, TRUE) => chan'[c] = Word(r, TRUE))
  PROVE  Position(r)' /\ Selection(r)' /\ Deadline(r)'
<1>1. Offered(r)' = Offered(r)
  BY OfferedSame
<1>2. Held(r) => Held(r)' \/ CanRun(r)
  BY DEF Held
<1>3. \A i \in DOMAIN guards[r] : guards[r][i] \in Chans => Reader[guards[r][i]] = r
  BY DEF Position
<1>4. Position(r)'
  BY <1>2 DEF Same, Position
<1>5. \A i \in Offered(r) : i \in DOMAIN guards[r]
  BY DEF Offered
<1>6. Selection(r)'
  <2>1. \A i \in DOMAIN guards[r] : (Fires(r, i) => Fires(r, i)') /\ (Chosen(r, i) => Chosen(r, i)')
    BY <1>3 DEF Same, Fires, Chosen
  <2>2. (slot[r] \in {"enabling", "waiting"} =>
            \A i \in Offered(r) : /\ guards[r][i] \in Chans => chan[guards[r][i]] = Word(r, TRUE)
                                  /\ guards[r][i] # SKIP)'
    BY <1>1, <1>3, <1>5 DEF Selection, Same
  <2>3. (pc[r] \in {"enable", "wait", "disable"} /\ slot[r] = "ready" /\ temp[r] = 0 =>
            \E i \in Offered(r) : Fires(r, i) /\ (pc[r] # "disable" => guards[r][i] # TIMER))'
    <3>1. SUFFICES ASSUME pc[r] \in {"enable", "wait", "disable"}, slot[r] = "ready", temp[r] = 0
                   PROVE  \E i \in Offered(r) : Fires(r, i)' /\ (pc[r] # "disable" => guards[r][i] # TIMER)
      BY <1>1 DEF Same
    <3>2. PICK i \in Offered(r) : Fires(r, i) /\ (pc[r] # "disable" => guards[r][i] # TIMER)
      BY <3>1 DEF Selection
    <3> QED
      BY <1>5, <2>1, <3>2
  <2>4. (pc[r] \in {"disable", "end"} /\ temp[r] # 0 => Chosen(r, temp[r]))'
    <3>1. SUFFICES ASSUME pc[r] \in {"disable", "end"}, temp[r] # 0 PROVE Chosen(r, temp[r])'
      BY DEF Same
    <3>2. Chosen(r, temp[r])
      BY <3>1 DEF Selection
    <3>3. Chosen(r, temp[r]) => temp[r] \in DOMAIN guards[r]
      BY DEF Chosen
    <3>4. temp'[r] = temp[r] /\ guards'[r] = guards[r] /\ due'[r] = due[r]
      BY DEF Same
    <3> QED
      BY <1>3, <3>2, <3>3, <3>4 DEF Chosen
  <2>5. (pc[r] \in {"in", "xin", "xend"} /\ slot[r] # "waiting" => Ready(guards[r][temp[r]]))'
    <3>1. SUFFICES ASSUME pc[r] \in {"in", "xin", "xend"}, slot[r] # "waiting"
                   PROVE  Ready(guards[r][temp[r]])'
      BY DEF Same
    <3>2. Ready(guards[r][temp[r]]) /\ temp[r] \in DOMAIN guards[r] /\ guards[r][temp[r]] \in Chans
      BY <3>1 DEF Selection, Position
    <3>3. temp'[r] = temp[r] /\ guards'[r] = guards[r]
      BY DEF Same
    <3> QED
      BY <1>3, <3>2, <3>3 DEF Ready
  <2>6. (pc[r] = "end" => temp[r] # 0)'
    BY DEF Same, Selection
  <2> QED
    BY <2>2, <2>3, <2>4, <2>5, <2>6 DEF Selection
<1>7. Deadline(r)'
  BY <1>1, <1>5 DEF Same, Deadline
<1> QED
  BY <1>4, <1>6, <1>7

(* Channel words after a step that changes those of the channels in S       *)
LEMMA WordsStep ==
  ASSUME Words, TypeOK', NEW S \in SUBSET Chans,
         \A c \in Chans \ S : chan'[c] = chan[c],
         \A c \in Chans : \A r \in Procs :
            chan'[c] = Word(r, TRUE) /\ (c \notin S => HasAlt(c, r)) => HasAlt(c, r)',
         \A c \in Chans : \A r \in Procs :
            chan'[c] = Word(r, FALSE) /\ (c \notin S => HasWaiter(c, r)) => HasWaiter(c, r)',
         \A c \in S, d \in Chans : Plain(chan'[c]) /\ chan'[c] = chan'[d] => c = d
  PROVE  Words'
<1>1. \A c \in Chans \ S : \A r \in Procs :
         /\ chan'[c] = Word(r, TRUE) => HasAlt(c, r)
         /\ chan'[c] = Word(r, FALSE) => HasWaiter(c, r)
  <2>1. SUFFICES ASSUME NEW c \in Chans \ S, NEW r \in Procs
                 PROVE  /\ chan[c] = Word(r, TRUE) => HasAlt(c, r)
                        /\ chan[c] = Word(r, FALSE) => HasWaiter(c, r)
    OBVIOUS
  <2>2. chan[c].who # NULL => IF chan[c].alt THEN HasAlt(c, chan[c].who) ELSE HasWaiter(c, chan[c].who)
    BY DEF Words
  <2>3. \A a \in BOOLEAN : chan[c] = Word(r, a) => chan[c].who = r /\ r # NULL /\ chan[c].alt = a
    BY NamesAssumption DEF Word
  <2> QED
    BY <2>2, <2>3
<1>2. \A c \in Chans : \A r \in Procs :
         /\ chan'[c] = Word(r, TRUE) => HasAlt(c, r)'
         /\ chan'[c] = Word(r, FALSE) => HasWaiter(c, r)'
  BY <1>1
<1>3. (\A c \in Chans : chan[c].who # NULL =>
          IF chan[c].alt THEN HasAlt(c, chan[c].who) ELSE HasWaiter(c, chan[c].who))'
  <2>1. SUFFICES ASSUME NEW c \in Chans, NEW r, r = chan'[c].who, r # NULL
                 PROVE  IF chan'[c].alt THEN HasAlt(c, r)' ELSE HasWaiter(c, r)'
    OBVIOUS
  <2>2. r \in Procs /\ (chan'[c] = Word(r, TRUE) \/ (chan'[c] = Word(r, FALSE) /\ ~chan'[c].alt))
    BY <2>1 DEF TypeOK, Word
  <2> QED
    BY <1>2, <2>2 DEF Word
<1>4. \A c, d \in Chans : Plain(chan'[c]) /\ chan'[c] = chan'[d] => c = d
  <2>1. ASSUME NEW c \in Chans, NEW d \in Chans, Plain(chan'[c]), chan'[c] = chan'[d] PROVE c = d
    <3>1. CASE c \in S \/ d \in S
      BY <2>1, <3>1
    <3>2. CASE c \notin S /\ d \notin S
      BY <2>1, <3>2 DEF Words
    <3> QED
      BY <3>1, <3>2
  <2> QED
    BY <2>1
<1> QED
  BY <1>3, <1>4 DEF Words, Plain

LEMMA OneWord ==
  ASSUME Words, NEW q \in Procs, NEW c \in Chans, NEW d \in Chans,
         chan[c] = Word(q, FALSE), chan[d] = Word(q, FALSE)
  PROVE  c = d
<1>1. Plain(chan[c])
  BY NamesAssumption DEF Plain, Word
<1> QED
  BY <1>1 DEF Words

LEMMA AltSame ==
  ASSUME NEW c \in Chans, NEW r \in Procs, HasAlt(c, r), Same(r)
  PROVE  HasAlt(c, r)'
BY OfferedSame DEF HasAlt, Same

LEMMA WaiterSame ==
  ASSUME NEW c \in Chans, NEW r \in Procs, HasWaiter(c, r), Same(r), CanRun(r)' => CanRun(r)
  PROVE  HasWaiter(c, r)'
BY DEF HasWaiter, Same

(* Processes that offer nothing are in no channel word as an ALT.           *)
LEMMA NoOffer ==
  ASSUME NEW p \in Procs,
         \/ pc[p] \in {"idle", "in", "xend", "end", "stopped"}
         \/ pc[p] = "xin" /\ slot[p] # "waiting"
  PROVE  Offered(p) = {} /\ \A c \in Chans : ~HasAlt(c, p)
BY DEF Offered, HasAlt

(* A process that is between two operations                                 *)
LEMMA Finished ==
  ASSUME NEW p \in Procs, pc'[p] = "idle", guards'[p] = <<>>, Len(due'[p]) = 0, temp'[p] = 0,
         slot'[p] # "waiting", tlink'[p] # "link", CanRun(p)' \/ Held(p)'
  PROVE  Position(p)' /\ Selection(p)' /\ Deadline(p)'
<1>1. DOMAIN guards'[p] = {}
  OBVIOUS
<1>2. Position(p)'
  BY <1>1 DEF Position, InAlt
<1>3. Selection(p)'
  <2>1. Offered(p)' = {}
    BY <1>1 DEF Offered
  <2> QED
    BY <2>1 DEF Selection
<1>4. Deadline(p)'
  BY DEF Deadline
<1> QED
  BY <1>2, <1>3, <1>4

(* A process that waited for its communication and goes on                  *)
LEMMA Resumed ==
  ASSUME NEW p \in Procs, NEW c \in Chans, Position(p), Deadline(p), HasWaiter(c, p), Same(p), CanRun(p)'
  PROVE  Position(p)' /\ Selection(p)' /\ Deadline(p)'
<1>1. pc[p] = "idle" /\ guards[p] = <<>> /\ temp[p] = 0 /\ slot[p] = "data" /\ Len(due[p]) = 0
  BY DEF HasWaiter, Position
<1>2. tlink[p] # "link"
  BY <1>1 DEF Deadline
<1> QED
  BY <1>1, <1>2, Finished DEF Same

(* An ALT that finds out that a guard it offers is ready                    *)
LEMMA AltTriggered ==
  ASSUME NEW r \in Procs, Position(r), Selection(r), Deadline(r), NEW c \in Chans, HasAlt(c, r), Ready(c)',
         pc'[r] = pc[r], guards'[r] = guards[r], due'[r] = due[r], temp'[r] = temp[r],
         idx'[r] = idx[r], slot'[r] = "ready", tlink'[r] = tlink[r], time'[r] = time[r],
         CanRun(r)',
         \A d \in Chans : Reader[d] = r => (Ready(d) => Ready(d)')
  PROVE  Position(r)' /\ Selection(r)' /\ Deadline(r)'
<1>1. PICK i \in Offered(r) : guards[r][i] = c
  BY DEF HasAlt
<1>2. i \in DOMAIN guards[r] /\ c # TIMER /\ c # SKIP
  BY <1>1, NamesAssumption DEF Offered
<1>3. \/ pc[r] \in {"enable", "wait", "disable"} /\ Offered(r)' = Offered(r)
      \/ pc[r] = "xin" /\ i = temp[r]
  BY <1>1 DEF Offered
<1>4. \A j \in DOMAIN guards[r] : guards[r][j] \in Chans => Reader[guards[r][j]] = r
  BY DEF Position
<1>5. Position(r)'
  BY <1>3 DEF Position, InAlt
<1>6. Selection(r)'
  <2>1. CASE pc[r] = "xin"
    BY <1>1, <1>3, <2>1 DEF Selection
  <2>2. CASE pc[r] \in {"enable", "wait", "disable"}
    <3>1. i \in Offered(r)' /\ Fires(r, i)' /\ guards'[r][i] # TIMER
      BY <1>1, <1>2, <1>3, <2>2 DEF Fires
    <3>2. ASSUME pc[r] = "disable", temp[r] # 0 PROVE Chosen(r, temp[r])'
      <4>1. Chosen(r, temp[r])
        BY <3>2 DEF Selection
      <4> QED
        BY <1>4, <4>1 DEF Chosen
    <3> QED
      BY <2>2, <3>1, <3>2 DEF Selection
  <2> QED
    BY <1>3, <2>1, <2>2
<1>7. Deadline(r)'
  <2>1. CASE pc[r] = "xin"
    BY <2>1 DEF Deadline
  <2>2. CASE pc[r] \in {"enable", "wait", "disable"}
    <3>1. Offered(r)' = Offered(r)
      BY <1>3, <2>2
    <3> QED
      BY <2>2, <3>1 DEF Deadline
  <2> QED
    BY <1>3, <2>1, <2>2
<1> QED
  BY <1>5, <1>6, <1>7

(* Where the interpreter is after an instruction, or at the beginning of a  *)
(* run of a context                                                         *)
LEMMA TurnsStep ==
  ASSUME \/ mode' = "run"
         \/ mode' = "sync" /\ (turn' \in Contexts => wptr'[turn'] = NULL)
  PROVE  Turns'
BY DEF Turns, Switching

LEMMA TimerListsSame ==
  ASSUME TimerLists, UNCHANGED <<tq, tlink>>
  PROVE  TimerLists'
BY DEF TimerLists, Timed

-----------------------------------------------------------------------------
(* Input and output *)

(* p is at an input or an output on c.                                      *)
AtChannel(p, c) ==
    /\ TInv /\ p \in Procs /\ c \in Chans /\ Runs(p)
    /\ pc[p] \in {"idle", "in"} /\ p \in {Writer[c], Reader[c]}

LEMMA DoneSame ==
  ASSUME NEW p \in Procs, TypeOK, Done(p)
  PROVE  /\ pc'[p] = "idle" /\ guards'[p] = <<>> /\ due'[p] = <<>> /\ temp'[p] = 0
         /\ \A r \in Procs \ {p} : /\ pc'[r] = pc[r] /\ guards'[r] = guards[r] /\ due'[r] = due[r]
                                   /\ temp'[r] = temp[r] /\ idx'[r] = idx[r]
BY DEF TypeOK, Done, Goto

LEMMA DoneType ==
  ASSUME NEW p \in Procs, TypeOK, Done(p), UNCHANGED <<loop, timer, sflag, os, err>>,
         turn' = turn, then' = then, mode' \in {mode, "sync"},
         runq' \in RunQueueType, wptr' \in CurrentType,
         chan' \in [Chans -> [who: Procs \cup {NULL}, alt: BOOLEAN]],
         slot' \in [Procs -> {"none", "data", "enabling", "waiting", "ready"}]
  PROVE  TypeOK'
<1>1. /\ guards' \in [Procs -> Seq(Chans \cup {TIMER, SKIP})]
      /\ due' \in [Procs -> Seq((-MaxLate - 1)..MaxDelay)]
      /\ temp' \in [Procs -> Nat] /\ idx' \in [Procs -> Nat]
      /\ pc' \in [Procs -> InAlt \cup {"idle", "in", "xin", "xend", "stopped"}]
  <2>1. \A S : <<>> \in Seq(S)
    OBVIOUS
  <2> QED
    BY <2>1 DEF TypeOK, Done, Goto
<1>2. /\ wrapper' = wrapper /\ alive' = alive /\ turn' = turn /\ then' = then /\ tq' = tq
      /\ tlink' = tlink /\ time' = time /\ sflag' = sflag /\ alarm' = alarm /\ itimer' = itimer
      /\ err' = err
  BY DEF loop, timer, os
<1>3. mode' \in {"sync", "walk", "alarm", "itimer", "pick", "run"}
  BY DEF TypeOK
<1> QED
  BY <1>1, <1>2, <1>3 DEF TypeOK, RunQueueType, CurrentType

LEMMA Communicates ==
  ASSUME NEW p, NEW c, AtChannel(p, c), Communicate(p, c), Done(p), UNCHANGED <<loop, timer, sflag, os, err>>
  PROVE  TInv'
<1>1. /\ TypeOK /\ Turns /\ RunLists /\ TimerLists /\ Words /\ ~err /\ p \in Procs /\ c \in Chans
      /\ \A r \in Procs : Position(r) /\ Selection(r) /\ Deadline(r)
  BY DEF AtChannel, TInv, Processes, NoErrors
<1>2. /\ CanRun(p) /\ turn \in Contexts /\ mode = "run" /\ wptr[turn] = p
      /\ slot[p] # "waiting" /\ \A d \in Chans : chan[d] # Word(p, FALSE)
      /\ tlink[p] # "link"
  BY Running DEF AtChannel
<1>3. PICK q \in Procs :
         /\ q = chan[c].who /\ chan[c] = Word(q, FALSE) /\ HasWaiter(c, q) /\ q # p
         /\ q = (IF p = Reader[c] THEN Writer[c] ELSE Reader[c]) /\ p \in {Writer[c], Reader[c]}
  <2>1. chan[c].who # NULL /\ ~chan[c].alt
    BY DEF Communicate, Plain
  <2>2. chan[c] \notin {Empty, Cut} /\ chan[c] # Word(Reader[c], TRUE)
    BY <2>1, WordParts
  <2> QED
    BY <1>1, <2>2, OwnWord DEF AtChannel
<1>4. ~CanRun(q)
  BY <1>3 DEF HasWaiter
<1>5. /\ RunLists' /\ runq' \in RunQueueType /\ wptr' \in CurrentType
      /\ \A r \in Procs : CanRun(r)' <=> (r # p /\ CanRun(r)) \/ r = p \/ r = q
      /\ turn' = turn /\ then' = then
      /\ mode' = mode \/ (mode' = "sync" /\ wptr'[turn] = NULL)
  <2>1. Load(q, IF TRUE THEN Queue(runq, p) ELSE runq)
    BY <1>3 DEF Communicate
  <2> QED
    BY <1>1, <1>2, <1>3, <1>4, <2>1, LoadEffect
<1>6. /\ chan' = [chan EXCEPT ![c] = Empty] /\ slot' = slot
      /\ \A r \in Procs \ {p} : Same(r)
  BY <1>1, DoneSame DEF Communicate, Same, timer
<1>7. TypeOK'
  <2>1. Empty \in [who: Procs \cup {NULL}, alt: BOOLEAN]
    BY DEF Empty, Word
  <2> QED
    BY <1>1, <1>2, <1>5, <1>6, <2>1, DoneType DEF TypeOK
<1>8. Turns'
  BY <1>2, <1>5, TurnsStep
<1>9. /\ chan'[c] = Empty /\ \A d \in Chans \ {c} : chan'[d] = chan[d]
  BY <1>1, <1>6 DEF TypeOK
<1>10. ASSUME NEW r \in Procs PROVE (Position(r) /\ Selection(r) /\ Deadline(r))'
  <2>1. CASE r = p
    <3>1. slot'[p] # "waiting" /\ tlink'[p] # "link" /\ CanRun(p)'
      BY <1>1, <1>2, <1>5, <1>6 DEF timer
    <3>2. pc'[p] = "idle" /\ guards'[p] = <<>> /\ Len(due'[p]) = 0 /\ temp'[p] = 0
      BY <1>1, DoneSame
    <3> QED
      BY <1>1, <2>1, <3>1, <3>2, Finished
  <2>2. CASE r = q
    <3>1. CanRun(q)' /\ Same(q)
      BY <1>3, <1>5, <1>6
    <3> QED
      BY <1>1, <1>3, <2>2, <3>1, Resumed
  <2>3. CASE r # p /\ r # q
    <3>1. Reader[c] # r /\ Same(r) /\ (CanRun(r)' <=> CanRun(r))
      BY <1>3, <1>5, <1>6, <2>3
    <3>2. \A d \in Chans : chan[d] = Word(r, FALSE) => chan'[d] = Word(r, FALSE)
      BY <1>3, <1>9, <2>3, WordParts
    <3>3. \A d \in Chans : Reader[d] = r =>
             (Ready(d) => Ready(d)') /\ (chan[d] = Word(r, TRUE) => chan'[d] = Word(r, TRUE))
      BY <1>9, <3>1 DEF Ready
    <3> QED
      BY <1>1, <3>1, <3>2, <3>3, Kept
  <2> QED
    BY <2>1, <2>2, <2>3
<1>11. Words'
  <2> DEFINE S == {c}
  <2>0. S \in SUBSET Chans /\ \A d \in Chans \ S : chan'[d] = chan[d]
    BY <1>1, <1>9
  <2>1. ASSUME NEW d \in Chans, NEW r \in Procs, chan'[d] = Word(r, TRUE), d \notin S => HasAlt(d, r)
        PROVE  HasAlt(d, r)'
    <3>1. d # c
      BY <1>1, <1>9, <2>1, WordParts, NamesAssumption DEF Empty
    <3>2. r # p
      BY <1>1, <2>1, <3>1, NoOffer DEF AtChannel
    <3> QED
      BY <1>6, <2>1, <3>1, <3>2, AltSame
  <2>2. ASSUME NEW d \in Chans, NEW r \in Procs, chan'[d] = Word(r, FALSE), d \notin S => HasWaiter(d, r)
        PROVE  HasWaiter(d, r)'
    <3>1. d # c
      BY <1>1, <1>9, <2>2, WordParts, NamesAssumption DEF Empty
    <3>2. r # p /\ r # q
      BY <1>1, <1>2, <1>3, <1>9, <2>2, <3>1, OneWord
    <3> QED
      BY <1>5, <1>6, <2>2, <3>1, <3>2, WaiterSame
  <2>3. \A x \in S, d \in Chans : Plain(chan'[x]) /\ chan'[x] = chan'[d] => x = d
    BY <1>9 DEF Empty, Plain, Word
  <2> HIDE DEF S
  <2> QED
    BY <1>1, <1>7, <2>0, <2>1, <2>2, <2>3, WordsStep
<1>12. TimerLists' /\ NoErrors'
  BY <1>1, TimerListsSame DEF timer, NoErrors
<1> QED
  BY <1>5, <1>7, <1>8, <1>10, <1>11, <1>12 DEF TInv, Processes

LEMMA BlocksOnEmpty ==
  ASSUME NEW p, NEW c, AtChannel(p, c), chan[c] = Empty, slot' = [slot EXCEPT ![p] = "data"],
         Load(NULL, runq), chan' = [chan EXCEPT ![c] = Word(p, FALSE)],
         Done(p), UNCHANGED <<loop, timer, sflag, os, err>>
  PROVE  TInv'
<1>1. /\ TypeOK /\ Turns /\ RunLists /\ TimerLists /\ Words /\ ~err /\ p \in Procs /\ c \in Chans
      /\ p \in {Writer[c], Reader[c]}
      /\ \A r \in Procs : Position(r) /\ Selection(r) /\ Deadline(r)
  BY DEF AtChannel, TInv, Processes, NoErrors
<1>2. /\ CanRun(p) /\ turn \in Contexts /\ mode = "run" /\ wptr[turn] = p
      /\ slot[p] # "waiting" /\ \A d \in Chans : chan[d] # Word(p, FALSE)
      /\ tlink[p] # "link"
  BY Running DEF AtChannel
<1>3. /\ RunLists' /\ runq' \in RunQueueType /\ wptr' \in CurrentType
      /\ \A r \in Procs : CanRun(r)' <=> r # p /\ CanRun(r)
      /\ turn' = turn /\ then' = then
      /\ mode' = mode \/ (mode' = "sync" /\ wptr'[turn] = NULL)
  <2>1. Load(NULL, IF FALSE THEN Queue(runq, p) ELSE runq) /\ NULL \notin Procs
    BY NamesAssumption
  <2>2. \A r \in Procs : CanRun(r)' <=> (r # p /\ CanRun(r)) \/ (r = p /\ FALSE) \/ r = NULL
    BY <1>1, <1>2, <2>1, LoadEffect
  <2> QED
    BY <1>1, <1>2, <2>1, <2>2, LoadEffect
<1>4. /\ chan'[c] = Word(p, FALSE) /\ \A d \in Chans \ {c} : chan'[d] = chan[d]
      /\ slot'[p] = "data" /\ \A r \in Procs \ {p} : slot'[r] = slot[r]
  BY <1>1 DEF TypeOK
<1>5. /\ \A r \in Procs \ {p} : Same(r)
      /\ pc'[p] = "idle" /\ guards'[p] = <<>> /\ Len(due'[p]) = 0 /\ temp'[p] = 0
  BY <1>1, <1>4, DoneSame DEF Same, timer
<1>6. TypeOK'
  <2>1. Word(p, FALSE) \in [who: Procs \cup {NULL}, alt: BOOLEAN]
    BY <1>1 DEF Word
  <2>2. chan' \in [Chans -> [who: Procs \cup {NULL}, alt: BOOLEAN]]
    BY <1>1, <2>1 DEF TypeOK
  <2>3. slot' \in [Procs -> {"none", "data", "enabling", "waiting", "ready"}]
    BY <1>1 DEF TypeOK
  <2> QED
    BY <1>1, <1>2, <1>3, <2>2, <2>3, DoneType
<1>7. Turns'
  BY <1>2, <1>3, TurnsStep
<1>8. ASSUME NEW r \in Procs PROVE (Position(r) /\ Selection(r) /\ Deadline(r))'
  <2>1. CASE r = p
    <3>1. slot'[p] # "waiting" /\ tlink'[p] # "link"
      BY <1>2, <1>4 DEF timer
    <3>2. Held(p)'
      BY <1>1, <1>4 DEF Held
    <3> QED
      BY <1>1, <1>5, <2>1, <3>1, <3>2, Finished
  <2>2. CASE r # p
    <3>1. Same(r) /\ (CanRun(r)' <=> CanRun(r))
      BY <1>3, <1>5, <2>2
    <3>2. \A d \in Chans : chan[d] = Word(r, FALSE) => chan'[d] = Word(r, FALSE)
      BY <1>4, WordParts
    <3>3. \A d \in Chans : (Ready(d) => Ready(d)') /\ (chan[d] = Word(r, TRUE) => chan'[d] = Word(r, TRUE))
      <4>1. ASSUME NEW d \in Chans PROVE Ready(d) => Ready(d)'
        <5>1. CASE d = c
          BY <1>1, <5>1, WordParts, ProgramAssumption DEF Ready
        <5>2. CASE d # c
          BY <1>4, <5>2 DEF Ready
        <5> QED
          BY <5>1, <5>2
      <4> QED
        BY <1>4, <4>1, WordParts
    <3> QED
      BY <1>1, <3>1, <3>2, <3>3, Kept
  <2> QED
    BY <2>1, <2>2
<1>9. Words'
  <2> DEFINE S == {c}
  <2>1. S \in SUBSET Chans /\ \A d \in Chans \ S : chan'[d] = chan[d]
    BY <1>1, <1>4
  <2>2. ASSUME NEW d \in Chans, NEW r \in Procs, chan'[d] = Word(r, TRUE), d \notin S => HasAlt(d, r)
        PROVE  HasAlt(d, r)'
    <3>1. d # c
      BY <1>4, <2>2 DEF Word
    <3>2. r # p
      BY <1>1, <2>2, <3>1, NoOffer DEF AtChannel
    <3> QED
      BY <1>5, <2>2, <3>1, <3>2, AltSame
  <2>3. ASSUME NEW d \in Chans, NEW r \in Procs, chan'[d] = Word(r, FALSE), d \notin S => HasWaiter(d, r)
        PROVE  HasWaiter(d, r)'
    <3>1. CASE d = c
      <4>1. r = p
        BY <1>4, <2>3, <3>1 DEF Word
      <4>2. ~CanRun(p)'
        BY <1>1, <1>3
      <4> QED
        BY <1>1, <1>4, <1>5, <3>1, <4>1, <4>2 DEF HasWaiter
    <3>2. CASE d # c
      <4>1. r # p
        BY <1>2, <1>4, <2>3, <3>2
      <4> QED
        BY <1>3, <1>5, <2>3, <3>2, <4>1, WaiterSame
    <3> QED
      BY <3>1, <3>2
  <2>4. \A x \in S, d \in Chans : Plain(chan'[x]) /\ chan'[x] = chan'[d] => x = d
    <3>1. \A d \in Chans \ {c} : chan'[d] # Word(p, FALSE)
      BY <1>2, <1>4
    <3> QED
      BY <1>4, <3>1
  <2> HIDE DEF S
  <2> QED
    BY <1>1, <1>6, <2>1, <2>2, <2>3, <2>4, WordsStep, ZenonT(60)
<1>10. TimerLists' /\ NoErrors'
  BY <1>1, TimerListsSame DEF timer, NoErrors
<1> QED
  BY <1>3, <1>6, <1>7, <1>8, <1>9, <1>10 DEF TInv, Processes

LEMMA BlocksOnAlt ==
  ASSUME NEW p, NEW c, AtChannel(p, c), NEW other, other = chan[c].who, other # NULL, chan[c].alt,
         slot' = [slot EXCEPT ![other] = "ready", ![p] = "data"],
         Load(IF slot[other] = "waiting" THEN other ELSE NULL, runq),
         chan' = [chan EXCEPT ![c] = Word(p, FALSE)],
         Done(p), UNCHANGED <<loop, timer, sflag, os, err>>
  PROVE  TInv'
<1>1. /\ TypeOK /\ Turns /\ RunLists /\ TimerLists /\ Words /\ ~err /\ p \in Procs /\ c \in Chans
      /\ p \in {Writer[c], Reader[c]}
      /\ \A r \in Procs : Position(r) /\ Selection(r) /\ Deadline(r)
  BY DEF AtChannel, TInv, Processes, NoErrors
<1>2. /\ CanRun(p) /\ turn \in Contexts /\ mode = "run" /\ wptr[turn] = p
      /\ slot[p] # "waiting" /\ \A d \in Chans : chan[d] # Word(p, FALSE)
      /\ tlink[p] # "link"
  BY Running DEF AtChannel
<1>3. /\ other \in Procs /\ other = Reader[c] /\ other # p /\ HasAlt(c, other)
      /\ chan[c] = Word(other, TRUE) /\ p = Writer[c]
  <2>1. other \in Procs /\ chan[c] = Word(other, TRUE) /\ HasAlt(c, other)
    BY <1>1, WordIs DEF Words
  <2> QED
    BY <1>1, <2>1, NoOffer DEF AtChannel, HasAlt
<1>4. /\ pc[other] \notin {"idle", "stopped"} /\ (CanRun(other) <=> slot[other] # "waiting")
  BY <1>1, <1>3, NoOffer DEF Position
<1>5. /\ RunLists' /\ runq' \in RunQueueType /\ wptr' \in CurrentType
      /\ \A r \in Procs : CanRun(r)' <=> (r # p /\ CanRun(r)) \/ r = other
      /\ turn' = turn /\ then' = then
      /\ mode' = mode \/ (mode' = "sync" /\ wptr'[turn] = NULL)
  <2> DEFINE q == IF slot[other] = "waiting" THEN other ELSE NULL
  <2>1. Load(q, IF FALSE THEN Queue(runq, p) ELSE runq) /\ NULL \notin Procs
    BY NamesAssumption
  <2>2. PICK x \in Procs \cup {NULL} : x = q
    BY <1>3
  <2>3. Load(x, IF FALSE THEN Queue(runq, p) ELSE runq) /\ (x \in Procs => ~CanRun(x))
    BY <1>4, <2>1, <2>2
  <2>4. /\ RunLists' /\ runq' \in RunQueueType /\ wptr' \in CurrentType
        /\ \A r \in Procs : CanRun(r)' <=> (r # p /\ CanRun(r)) \/ (r = p /\ FALSE) \/ r = x
        /\ turn' = turn /\ then' = then
        /\ mode' = mode \/ (mode' = "sync" /\ wptr'[turn] = NULL)
    BY ONLY <1>1, <1>2, <2>3, LoadEffect
  <2>5. x = other \/ (x = NULL /\ CanRun(other))
    BY <1>4, <2>2
  <2> HIDE DEF q
  <2> QED
    BY <1>3, <2>1, <2>4, <2>5
<1>6. /\ chan'[c] = Word(p, FALSE) /\ \A d \in Chans \ {c} : chan'[d] = chan[d]
      /\ slot'[p] = "data" /\ slot'[other] = "ready" /\ \A r \in Procs \ {p, other} : slot'[r] = slot[r]
  BY <1>1, <1>3 DEF TypeOK
<1>7. /\ \A r \in Procs \ {p, other} : Same(r)
      /\ pc'[p] = "idle" /\ guards'[p] = <<>> /\ Len(due'[p]) = 0 /\ temp'[p] = 0
      /\ pc'[other] = pc[other] /\ guards'[other] = guards[other] /\ due'[other] = due[other]
      /\ temp'[other] = temp[other] /\ idx'[other] = idx[other]
      /\ tlink'[other] = tlink[other] /\ time'[other] = time[other]
  <2>1. tlink' = tlink /\ time' = time
    BY DEF timer
  <2>2. /\ pc'[p] = "idle" /\ guards'[p] = <<>> /\ due'[p] = <<>> /\ temp'[p] = 0
        /\ \A r \in Procs \ {p} : /\ pc'[r] = pc[r] /\ guards'[r] = guards[r] /\ due'[r] = due[r]
                                  /\ temp'[r] = temp[r] /\ idx'[r] = idx[r]
    BY <1>1, DoneSame
  <2>3. \A r \in Procs \ {p, other} : Same(r)
    BY ONLY <1>6, <2>1, <2>2 DEF Same
  <2> QED
    BY ONLY <1>3, <2>1, <2>2, <2>3
<1>8. TypeOK'
  <2>1. Word(p, FALSE) \in [who: Procs \cup {NULL}, alt: BOOLEAN]
    BY <1>1 DEF Word
  <2>2. chan' \in [Chans -> [who: Procs \cup {NULL}, alt: BOOLEAN]]
    BY <1>1, <2>1 DEF TypeOK
  <2>3. slot' \in [Procs -> {"none", "data", "enabling", "waiting", "ready"}]
    BY <1>1 DEF TypeOK
  <2> QED
    BY <1>1, <1>2, <1>5, <2>2, <2>3, DoneType
<1>9. Turns'
  BY <1>2, <1>5, TurnsStep
<1>10. Ready(c)' /\ \A d \in Chans : d # c => (Ready(d) => Ready(d)')
  BY <1>3, <1>6 DEF Ready
<1>11. ASSUME NEW r \in Procs PROVE (Position(r) /\ Selection(r) /\ Deadline(r))'
  <2>1. CASE r = p
    <3>1. slot'[p] # "waiting" /\ tlink'[p] # "link"
      BY <1>2, <1>6 DEF timer
    <3>2. Held(p)'
      BY <1>1, <1>6 DEF Held
    <3> QED
      BY <1>1, <1>7, <2>1, <3>1, <3>2, Finished
  <2>2. CASE r = other
    <3>1. CanRun(other)'
      BY <1>3, <1>5
    <3>2. \A d \in Chans : Reader[d] = other => (Ready(d) => Ready(d)')
      BY <1>10
    <3> QED
      BY <1>1, <1>3, <1>6, <1>7, <1>10, <2>2, <3>1, <3>2, AltTriggered
  <2>3. CASE r # p /\ r # other
    <3>1. Same(r) /\ (CanRun(r)' <=> CanRun(r)) /\ Reader[c] # r
      BY <1>3, <1>5, <1>7, <2>3
    <3>2. \A d \in Chans : chan[d] = Word(r, FALSE) => chan'[d] = Word(r, FALSE)
      BY <1>3, <1>6 DEF Word
    <3>3. \A d \in Chans : Reader[d] = r =>
             (Ready(d) => Ready(d)') /\ (chan[d] = Word(r, TRUE) => chan'[d] = Word(r, TRUE))
      BY <1>6, <1>10, <3>1
    <3> QED
      BY <1>1, <3>1, <3>2, <3>3, Kept
  <2> QED
    BY <2>1, <2>2, <2>3
<1>12. Words'
  <2> DEFINE S == {c}
  <2>1. S \in SUBSET Chans /\ \A d \in Chans \ S : chan'[d] = chan[d]
    BY <1>1, <1>6
  <2>2. ASSUME NEW d \in Chans, NEW r \in Procs, chan'[d] = Word(r, TRUE), d \notin S => HasAlt(d, r)
        PROVE  HasAlt(d, r)'
    <3>1. d # c
      BY <1>6, <2>2 DEF Word
    <3>5. HasAlt(d, r) /\ chan[d] = Word(r, TRUE)
      BY <1>6, <2>2, <3>1
    <3>2. r # p
      BY <1>1, <3>5, NoOffer DEF AtChannel
    <3>3. CASE r = other
      <4>2. ASSUME slot[other] = "waiting", pc[other] = "xin" PROVE FALSE
        <5>1. PICK i \in Offered(other) : guards[other][i] = c
          BY <1>3 DEF HasAlt
        <5>2. PICK j \in Offered(other) : guards[other][j] = d
          BY <3>5, <3>3 DEF HasAlt
        <5>3. i = temp[other] /\ j = temp[other]
          BY <4>2 DEF Offered
        <5> QED
          BY <3>1, <5>1, <5>2, <5>3
      <4>3. pc[other] # "xin"
        BY <1>3, <4>2 DEF HasAlt, Offered
      <4>4. Offered(other)' = Offered(other)
        BY <1>7, <4>3 DEF Offered
      <4> QED
        BY <1>6, <1>7, <3>5, <3>3, <4>4 DEF HasAlt
    <3>4. CASE r # other
      BY <1>7, <3>5, <3>2, <3>4, AltSame
    <3> QED
      BY <3>3, <3>4
  <2>3. ASSUME NEW d \in Chans, NEW r \in Procs, chan'[d] = Word(r, FALSE), d \notin S => HasWaiter(d, r)
        PROVE  HasWaiter(d, r)'
    <3>1. CASE d = c
      <4>1. r = p
        BY <1>6, <2>3, <3>1 DEF Word
      <4>2. ~CanRun(p)'
        BY <1>1, <1>3, <1>5
      <4> QED
        BY <1>1, <1>6, <1>7, <3>1, <4>1, <4>2 DEF HasWaiter
    <3>2. CASE d # c
      <4>1. r # p /\ HasWaiter(d, r)
        BY <1>2, <1>6, <2>3, <3>2
      <4>2. r # other
        BY <1>4, <4>1 DEF HasWaiter
      <4> QED
        BY <1>5, <1>7, <4>1, <4>2, WaiterSame
    <3> QED
      BY <3>1, <3>2
  <2>4. \A x \in S, d \in Chans : Plain(chan'[x]) /\ chan'[x] = chan'[d] => x = d
    <3>1. \A d \in Chans \ {c} : chan'[d] # Word(p, FALSE)
      BY <1>2, <1>6
    <3> QED
      BY <1>6, <3>1, ZenonT(60)
  <2> HIDE DEF S
  <2> QED
    BY <1>1, <1>8, <2>1, <2>2, <2>3, <2>4, WordsStep, ZenonT(60)
<1>13. TimerLists' /\ NoErrors'
  BY <1>1, TimerListsSame DEF timer, NoErrors
<1> QED
  BY <1>5, <1>8, <1>9, <1>11, <1>12, <1>13 DEF TInv, Processes

LEMMA PassesBy ==
  ASSUME NEW p, NEW c, AtChannel(p, c), Pass(p, c), Done(p), UNCHANGED <<loop, timer, sflag, os, err>>
  PROVE  TInv'
<1>1. /\ TypeOK /\ Turns /\ RunLists /\ TimerLists /\ Words /\ ~err /\ p \in Procs /\ c \in Chans
      /\ \A r \in Procs : Position(r) /\ Selection(r) /\ Deadline(r)
  BY DEF AtChannel, TInv, Processes, NoErrors
<1>2. /\ CanRun(p) /\ turn \in Contexts /\ mode = "run" /\ wptr[turn] = p
      /\ slot[p] # "waiting" /\ \A d \in Chans : chan[d] # Word(p, FALSE)
      /\ tlink[p] # "link"
  BY Running DEF AtChannel
<1>3. /\ RunLists' /\ runq' \in RunQueueType /\ wptr' \in CurrentType
      /\ \A r \in Procs : CanRun(r)' <=> CanRun(r)
      /\ turn' = turn /\ then' = then
      /\ mode' = mode \/ (mode' = "sync" /\ wptr'[turn] = NULL)
  <2>1. Load(NULL, IF TRUE THEN Queue(runq, p) ELSE runq) /\ NULL \notin Procs
    BY NamesAssumption DEF Pass
  <2>2. \A r \in Procs : CanRun(r)' <=> (r # p /\ CanRun(r)) \/ (r = p /\ TRUE) \/ r = NULL
    BY <1>1, <1>2, <2>1, LoadEffect
  <2> QED
    BY <1>1, <1>2, <2>1, <2>2, LoadEffect
<1>4. /\ chan' = chan /\ slot' = slot /\ \A r \in Procs \ {p} : Same(r)
      /\ pc'[p] = "idle" /\ guards'[p] = <<>> /\ Len(due'[p]) = 0 /\ temp'[p] = 0
  BY <1>1, DoneSame DEF Pass, Same, timer
<1>5. TypeOK'
  BY <1>1, <1>2, <1>3, <1>4, DoneType DEF TypeOK
<1>6. Turns'
  BY <1>2, <1>3, TurnsStep
<1>7. ASSUME NEW r \in Procs PROVE (Position(r) /\ Selection(r) /\ Deadline(r))'
  <2>1. CASE r = p
    <3>1. slot'[p] # "waiting" /\ tlink'[p] # "link" /\ CanRun(p)'
      BY <1>1, <1>2, <1>3, <1>4 DEF timer
    <3> QED
      BY <1>1, <1>4, <2>1, <3>1, Finished
  <2>2. CASE r # p
    <3>1. Same(r) /\ (CanRun(r)' <=> CanRun(r)) /\ \A d \in Chans : Ready(d) => Ready(d)'
      BY <1>3, <1>4, <2>2 DEF Ready
    <3> QED
      BY <1>1, <1>4, <3>1, Kept
  <2> QED
    BY <2>1, <2>2
<1>8. Words'
  <2> DEFINE S == {}
  <2>1. S \in SUBSET Chans /\ \A d \in Chans \ S : chan'[d] = chan[d]
    BY <1>4
  <2>2. ASSUME NEW d \in Chans, NEW r \in Procs, chan'[d] = Word(r, TRUE), d \notin S => HasAlt(d, r)
        PROVE  HasAlt(d, r)'
    <3>1. r # p
      BY <1>1, <2>2, NoOffer DEF AtChannel
    <3> QED
      BY <1>4, <2>2, <3>1, AltSame
  <2>3. ASSUME NEW d \in Chans, NEW r \in Procs, chan'[d] = Word(r, FALSE), d \notin S => HasWaiter(d, r)
        PROVE  HasWaiter(d, r)'
    BY <1>2, <1>3, <1>4, <2>3, WaiterSame
  <2>4. \A x \in S, d \in Chans : Plain(chan'[x]) /\ chan'[x] = chan'[d] => x = d
    OBVIOUS
  <2> HIDE DEF S
  <2> QED
    BY <1>1, <1>5, <2>1, <2>2, <2>3, <2>4, WordsStep
<1>9. TimerLists' /\ NoErrors'
  BY <1>1, TimerListsSame DEF timer, NoErrors
<1> QED
  BY <1>3, <1>5, <1>6, <1>7, <1>8, <1>9 DEF TInv, Processes

(* Out and In: whoever is in the word, the input or output succeeds or      *)
(* waits; an ALT there is in a state that the writer understands.           *)
LEMMA ChanIOStep ==
  ASSUME NEW p, NEW c, AtChannel(p, c), ChanIO(p, c)
  PROVE  TInv'
<1>1. CASE Communicate(p, c) /\ Done(p) /\ UNCHANGED <<loop, timer, sflag, os, err>>
  BY <1>1, Communicates
<1>2. CASE Block(p, c) /\ Done(p) /\ UNCHANGED <<loop, timer, sflag, os, err>>
  <2>1. CASE chan[c] = Empty /\ slot' = [slot EXCEPT ![p] = "data"] /\ Load(NULL, runq)
    BY <1>2, <2>1, BlocksOnEmpty DEF Block
  <2>2. ASSUME NEW other, other = chan[c].who, other # NULL, chan[c].alt,
               slot' = [slot EXCEPT ![other] = "ready", ![p] = "data"],
               Load(IF slot[other] = "waiting" THEN other ELSE NULL, runq)
        PROVE  TInv'
    BY <1>2, <2>2, BlocksOnAlt DEF Block
  <2> QED
    BY <1>2, <2>1, <2>2 DEF Block
<1>3. CASE Pass(p, c) /\ Done(p) /\ UNCHANGED <<loop, timer, sflag, os, err>>
  BY <1>3, PassesBy
<1>4. CASE /\ chan[c].who # NULL /\ chan[c].alt
           /\ slot[chan[c].who] \notin {"waiting", "enabling", "ready"}
  BY <1>4 DEF AtChannel, TInv, Words, HasAlt
<1> QED
  BY <1>1, <1>2, <1>3, <1>4 DEF ChanIO

LEMMA OutStep == ASSUME TInv, NEW p \in Procs, Out(p) PROVE TInv'
BY ChanIOStep DEF Out, Enters, AtChannel

LEMMA InStep == ASSUME TInv, NEW p \in Procs, In(p) PROVE TInv'
<1>1. CASE Enters(p, "in") /\ \E c \in Chans : Reader[c] = p /\ ChanIO(p, c)
  BY <1>1, ChanIOStep DEF Enters, AtChannel
<1>2. CASE Runs(p) /\ pc[p] = "in" /\ ChanIO(p, guards[p][temp[p]])
  <2>1. guards[p][temp[p]] \in Chans /\ Reader[guards[p][temp[p]]] = p
    BY <1>2 DEF TInv, Processes, Position
  <2> QED
    BY <1>2, <2>1, ChanIOStep DEF AtChannel
<1> QED
  BY <1>1, <1>2 DEF In

-----------------------------------------------------------------------------
(* Extended input *)

(* Steps that leave the channel words as they are                           *)
LEMMA KeptQuietly ==
  ASSUME NEW r \in Procs, Position(r), Selection(r), Deadline(r), Same(r), CanRun(r)' <=> CanRun(r),
         chan' = chan
  PROVE  Position(r)' /\ Selection(r)' /\ Deadline(r)'
<1>1. \A d \in Chans : Ready(d) => Ready(d)'
  BY DEF Ready
<1> QED
  BY <1>1, Kept

LEMMA WordsQuietly ==
  ASSUME TypeOK', Words, chan' = chan,
         \A d \in Chans, r \in Procs : chan[d] = Word(r, TRUE) /\ HasAlt(d, r) => HasAlt(d, r)',
         \A d \in Chans, r \in Procs : chan[d] = Word(r, FALSE) /\ HasWaiter(d, r) => HasWaiter(d, r)'
  PROVE  Words'
<1> DEFINE S == {}
<1>1. S \in SUBSET Chans /\ \A d \in Chans \ S : chan'[d] = chan[d]
  OBVIOUS
<1>2. \A d \in Chans, r \in Procs :
         chan'[d] = Word(r, TRUE) /\ (d \notin S => HasAlt(d, r)) => HasAlt(d, r)'
  OBVIOUS
<1>3. \A d \in Chans, r \in Procs :
         chan'[d] = Word(r, FALSE) /\ (d \notin S => HasWaiter(d, r)) => HasWaiter(d, r)'
  OBVIOUS
<1>4. \A x \in S, d \in Chans : Plain(chan'[x]) /\ chan'[x] = chan'[d] => x = d
  OBVIOUS
<1> HIDE DEF S
<1> QED
  BY <1>1, <1>2, <1>3, <1>4, WordsStep

(* A process in an extended input, or in the input of a branch of an ALT    *)
LEMMA AtInput ==
  ASSUME NEW p \in Procs, NEW c \in Chans, Reader[c] = p, pc'[p] \in {"in", "xin", "xend"},
         temp'[p] \in DOMAIN guards'[p], guards'[p][temp'[p]] = c, Len(due'[p]) \in {0, Len(guards'[p])},
         \A i \in DOMAIN guards'[p] : guards'[p][i] \in Chans => Reader[guards'[p][i]] = p,
         CanRun(p)' <=> slot'[p] # "waiting", tlink'[p] # "link",
         slot'[p] = "waiting" => pc'[p] = "xin" /\ chan'[c] = Word(p, TRUE),
         slot'[p] # "waiting" => Ready(c)'
  PROVE  Position(p)' /\ Selection(p)' /\ Deadline(p)'
<1>1. \A i \in Offered(p)' : slot'[p] = "waiting" /\ i = temp'[p]
  BY DEF Offered
<1>2. c # SKIP
  BY NamesAssumption
<1>3. Position(p)'
  BY DEF Position, InAlt
<1>4. Selection(p)'
  BY <1>1, <1>2 DEF Selection
<1>5. Deadline(p)'
  BY DEF Deadline
<1> QED
  BY <1>3, <1>4, <1>5

LEMMA XAbleStep == ASSUME TInv, NEW p \in Procs, XAble(p) PROVE TInv'
<1>1. /\ TypeOK /\ Turns /\ RunLists /\ TimerLists /\ Words /\ ~err
      /\ \A r \in Procs : Position(r) /\ Selection(r) /\ Deadline(r)
  BY DEF TInv, Processes, NoErrors
<1>2. /\ CanRun(p) /\ turn \in Contexts /\ mode = "run" /\ wptr[turn] = p
      /\ slot[p] # "waiting" /\ \A d \in Chans : chan[d] # Word(p, FALSE)
      /\ tlink[p] # "link" /\ pc[p] = "idle" /\ Runs(p)
  BY Running DEF XAble, Enters
<1>3. PICK c \in Chans :
         /\ Reader[c] = p
         /\ guards' = [guards EXCEPT ![p] = <<c>>] /\ temp' = [temp EXCEPT ![p] = 1]
         /\ \/ /\ chan[c] = Empty
               /\ slot' = [slot EXCEPT ![p] = "waiting"]
               /\ chan' = [chan EXCEPT ![c] = Word(p, TRUE)]
               /\ RunNext
            \/ /\ chan[c] # Empty /\ Continue
               /\ UNCHANGED <<slot, chan>>
  BY DEF XAble
<1>4. /\ pc' = [pc EXCEPT ![p] = "xin"] /\ runq' = runq /\ tq' = tq /\ tlink' = tlink /\ time' = time
      /\ sflag' = sflag /\ due' = due /\ idx' = idx /\ alarm' = alarm /\ itimer' = itimer /\ err' = err
      /\ wrapper' = wrapper /\ alive' = alive
  BY DEF XAble, Goto, loop, timer, os
<1>5. /\ pc'[p] = "xin" /\ guards'[p] = <<c>> /\ temp'[p] = 1 /\ Len(due'[p]) = 0
      /\ \A r \in Procs \ {p} : /\ pc'[r] = pc[r] /\ guards'[r] = guards[r] /\ due'[r] = due[r]
                                /\ temp'[r] = temp[r] /\ idx'[r] = idx[r]
                                /\ tlink'[r] = tlink[r] /\ time'[r] = time[r]
  <2>1. Len(due[p]) = 0
    BY <1>1, <1>2 DEF Position
  <2> QED
    BY <1>1, <1>3, <1>4, <2>1 DEF TypeOK
<1>6. /\ RunLists' /\ turn' = turn /\ then' = then /\ wptr' \in CurrentType /\ runq' \in RunQueueType
      /\ \/ /\ chan[c] = Empty /\ slot'[p] = "waiting" /\ chan'[c] = Word(p, TRUE)
            /\ \A d \in Chans \ {c} : chan'[d] = chan[d]
            /\ \A r \in Procs : CanRun(r)' <=> CanRun(r) /\ r # p
            /\ mode' = "sync" /\ wptr'[turn] = NULL
         \/ /\ chan[c] # Empty /\ slot'[p] # "waiting" /\ chan' = chan /\ mode' = "run"
            /\ \A r \in Procs : CanRun(r)' <=> CanRun(r)
      /\ \A r \in Procs \ {p} : slot'[r] = slot[r]
  <2>1. CASE /\ chan[c] = Empty /\ slot' = [slot EXCEPT ![p] = "waiting"]
             /\ chan' = [chan EXCEPT ![c] = Word(p, TRUE)] /\ RunNext
    <3>1. Load(NULL, IF FALSE THEN Queue(runq, p) ELSE runq) /\ NULL \notin Procs
      BY <1>4, <2>1, NamesAssumption DEF Load
    <3>2. /\ \A r \in Procs : CanRun(r)' <=> (r # p /\ CanRun(r)) \/ (r = p /\ FALSE) \/ r = NULL
          /\ RunLists' /\ runq' \in RunQueueType /\ wptr' \in CurrentType
      BY <1>1, <1>2, <3>1, LoadEffect
    <3>3. mode' = "sync" /\ wptr'[turn] = NULL /\ turn' = turn /\ then' = then
      BY <1>1, <1>2, <2>1 DEF RunNext, TypeOK
    <3> QED
      BY <1>1, <2>1, <3>1, <3>2, <3>3 DEF TypeOK
  <2>2. CASE chan[c] # Empty /\ Continue /\ UNCHANGED <<slot, chan>>
    <3>1. wptr' = wptr /\ runq' = runq /\ turn' = turn /\ then' = then /\ mode' = "run"
      BY <1>2, <1>4, <2>2 DEF Continue
    <3>2. RunLists' /\ \A r \in Procs : CanRun(r)' <=> CanRun(r)
      BY <1>1, <3>1, ListsSame
    <3> QED
      BY <1>1, <1>2, <2>2, <3>1, <3>2 DEF TypeOK, RunQueueType, CurrentType
  <2> QED
    BY <1>3, <2>1, <2>2
<1>7. TypeOK'
  <2>1. Word(p, TRUE) \in [who: Procs \cup {NULL}, alt: BOOLEAN]
    BY DEF Word
  <2>2. chan' \in [Chans -> [who: Procs \cup {NULL}, alt: BOOLEAN]]
    BY <1>1, <1>3, <2>1 DEF TypeOK
  <2>3. slot' \in [Procs -> {"none", "data", "enabling", "waiting", "ready"}]
    BY <1>1, <1>3 DEF TypeOK
  <2>4. guards' \in [Procs -> Seq(Chans \cup {TIMER, SKIP})] /\ temp' \in [Procs -> Nat]
    BY <1>1, <1>3 DEF TypeOK
  <2>5. pc' \in [Procs -> InAlt \cup {"idle", "in", "xin", "xend", "stopped"}]
    BY <1>1, <1>4 DEF TypeOK
  <2> QED
    BY <1>1, <1>4, <1>6, <2>2, <2>3, <2>4, <2>5, ZenonT(60) DEF TypeOK, RunQueueType, CurrentType
<1>8. Turns'
  BY <1>2, <1>6, TurnsStep
<1>9. chan[c] # Empty => Ready(c)
  <2>1. /\ \/ chan[c] \in {Empty, Cut}
           \/ chan[c] = Word(Reader[c], TRUE)
           \/ /\ chan[c] = Word(chan[c].who, FALSE)
              /\ chan[c].who = (IF p = Reader[c] THEN Writer[c] ELSE Reader[c])
        /\ chan[c] # Word(p, TRUE) /\ p = Reader[c]
    <3>1. Runs(p) /\ p \in {Writer[c], Reader[c]} /\ Reader[c] = p /\ pc[p] = "idle"
      BY <1>2, <1>3
    <3> QED
      BY <3>1, OwnWord
  <2> QED
    BY ONLY <2>1 DEF Ready
<1>10. ASSUME NEW r \in Procs PROVE (Position(r) /\ Selection(r) /\ Deadline(r))'
  <2>1. CASE r = p
    <3>1. /\ temp'[p] \in DOMAIN guards'[p] /\ guards'[p][temp'[p]] = c
          /\ \A i \in DOMAIN guards'[p] : guards'[p][i] \in Chans => Reader[guards'[p][i]] = p
      BY <1>3, <1>5
    <3>2. /\ CanRun(p)' <=> slot'[p] # "waiting"
          /\ slot'[p] = "waiting" => chan'[c] = Word(p, TRUE)
          /\ tlink'[p] # "link"
      BY <1>2, <1>4, <1>6
    <3>3. slot'[p] # "waiting" => Ready(c)'
      BY <1>6, <1>9 DEF Ready
    <3> QED
      BY <1>3, <1>5, <2>1, <3>1, <3>2, <3>3, AtInput
  <2>2. CASE r # p
    <3>1. Same(r) /\ (CanRun(r)' <=> CanRun(r)) /\ Reader[c] # r
      BY <1>3, <1>5, <1>6, <2>2 DEF Same
    <3>2. \A d \in Chans : chan[d] = Word(r, FALSE) => chan'[d] = Word(r, FALSE)
      BY <1>6, WordParts
    <3>3. \A d \in Chans : Reader[d] = r =>
             (Ready(d) => Ready(d)') /\ (chan[d] = Word(r, TRUE) => chan'[d] = Word(r, TRUE))
      BY <1>6, <3>1 DEF Ready
    <3> QED
      BY <1>1, <3>1, <3>2, <3>3, Kept
  <2> QED
    BY <2>1, <2>2
<1>11. Words'
  <2>1. ASSUME NEW d \in Chans, NEW r \in Procs, HasAlt(d, r) PROVE HasAlt(d, r)'
    <3>1. r # p
      BY <1>2, <2>1, NoOffer
    <3>2. Same(r)
      BY <1>5, <1>6, <3>1 DEF Same
    <3> QED
      BY <2>1, <3>2, AltSame
  <2>2. ASSUME NEW d \in Chans, NEW r \in Procs, HasWaiter(d, r) PROVE HasWaiter(d, r)'
    <3>1. r # p
      BY <1>2, <2>2 DEF HasWaiter
    <3>2. Same(r)
      BY <1>5, <1>6, <3>1 DEF Same
    <3> QED
      BY <1>6, <2>2, <3>2, WaiterSame
  <2>3. CASE chan[c] # Empty
    <3>1. chan' = chan
      BY <1>6, <2>3
    <3> QED
      BY <1>1, <1>7, <2>1, <2>2, <3>1, WordsQuietly
  <2>4. CASE chan[c] = Empty
    <3> DEFINE S == {c}
    <3>1. S \in SUBSET Chans /\ \A d \in Chans \ S : chan'[d] = chan[d]
      BY <1>6, <2>4
    <3>2. chan'[c] = Word(p, TRUE)
      BY <1>6, <2>4
    <3>3. HasAlt(c, p)'
      <4>1. 1 \in Offered(p)' /\ guards'[p][1] = c
        BY <1>5, <1>6, <2>4 DEF Offered
      <4> QED
        BY <1>3, <1>6, <2>4, <4>1 DEF HasAlt
    <3>4. ASSUME NEW d \in Chans, NEW r \in Procs, chan'[d] = Word(r, TRUE), d \notin S => HasAlt(d, r)
          PROVE  HasAlt(d, r)'
      <4>1. CASE d = c
        <5>1. r = p
          BY <3>2, <3>4, <4>1 DEF Word
        <5> QED
          BY <3>3, <4>1, <5>1
      <4>2. CASE d # c
        BY <2>1, <3>4, <4>2
      <4> QED
        BY <4>1, <4>2
    <3>5. ASSUME NEW d \in Chans, NEW r \in Procs, chan'[d] = Word(r, FALSE), d \notin S => HasWaiter(d, r)
          PROVE  HasWaiter(d, r)'
      <4>1. d # c
        BY <3>2, <3>5 DEF Word
      <4> QED
        BY <2>2, <3>5, <4>1
    <3>6. \A x \in S, d \in Chans : Plain(chan'[x]) /\ chan'[x] = chan'[d] => x = d
      BY <3>2 DEF Plain, Word
    <3> HIDE DEF S
    <3> QED
      BY <1>1, <1>7, <3>1, <3>4, <3>5, <3>6, WordsStep
  <2> QED
    BY <2>3, <2>4
<1>12. TimerLists' /\ NoErrors'
  BY <1>1, <1>4, TimerListsSame DEF NoErrors
<1> QED
  BY <1>6, <1>7, <1>8, <1>10, <1>11, <1>12 DEF TInv, Processes

(* A step of p that leaves the channel words and the other processes alone  *)
LEMMA QuietStep ==
  ASSUME TInv, NEW p \in Procs, Runs(p), chan' = chan, err' = err,
         TypeOK', Turns', RunLists', TimerLists',
         \A r \in Procs \ {p} : Same(r) /\ (CanRun(r)' <=> CanRun(r)),
         Position(p)' /\ Selection(p)' /\ Deadline(p)',
         \A d \in Chans : chan[d] = Word(p, TRUE) /\ HasAlt(d, p) => HasAlt(d, p)'
  PROVE  TInv'
<1>1. /\ Words /\ ~err /\ CanRun(p)
      /\ \A r \in Procs : Position(r) /\ Selection(r) /\ Deadline(r)
  BY Running DEF TInv, Processes, NoErrors
<1>2. ASSUME NEW r \in Procs PROVE (Position(r) /\ Selection(r) /\ Deadline(r))'
  BY <1>1, KeptQuietly
<1>3. ASSUME NEW d \in Chans, NEW r \in Procs, chan[d] = Word(r, TRUE), HasAlt(d, r) PROVE HasAlt(d, r)'
  BY <1>3, AltSame
<1>4. ASSUME NEW d \in Chans, NEW r \in Procs, HasWaiter(d, r) PROVE HasWaiter(d, r)'
  <2>1. r # p
    BY <1>1, <1>4 DEF HasWaiter
  <2> QED
    BY <1>4, <2>1, WaiterSame
<1>5. Words'
  BY <1>1, <1>3, <1>4, WordsQuietly
<1> QED
  BY <1>1, <1>2, <1>5 DEF TInv, Processes, NoErrors

LEMMA XInStep == ASSUME TInv, NEW p \in Procs, XIn(p) PROVE TInv'
<1> DEFINE c == guards[p][temp[p]]
<1>1. /\ TypeOK /\ Turns /\ RunLists /\ TimerLists /\ Words /\ ~err
      /\ Position(p) /\ Selection(p) /\ Deadline(p)
  BY DEF TInv, Processes, NoErrors
<1>2. /\ CanRun(p) /\ turn \in Contexts /\ mode = "run" /\ wptr[turn] = p
      /\ slot[p] # "waiting" /\ tlink[p] # "link" /\ pc[p] = "xin" /\ Runs(p)
  BY Running DEF XIn
<1>3. /\ c \in Chans /\ Reader[c] = p /\ temp[p] \in DOMAIN guards[p] /\ Len(due[p]) \in {0, Len(guards[p])}
      /\ \A i \in DOMAIN guards[p] : guards[p][i] \in Chans => Reader[guards[p][i]] = p
      /\ Ready(c)
  BY <1>1, <1>2 DEF Position, Selection
<1>4. Plain(chan[c]) \/ chan[c] = Cut
  BY <1>3, NamesAssumption, ProgramAssumption DEF Ready, Plain, Word
<1>5. /\ \/ Continue /\ runq' = runq
         \/ Load(NULL, Queue(runq, p))
      /\ Goto(p, "xend") /\ chan' = chan
      /\ UNCHANGED <<loop, timer, sflag, slot, temp, guards, due, idx, os, err>>
  BY <1>4 DEF XIn
<1>6. /\ RunLists' /\ turn' = turn /\ then' = then /\ wptr' \in CurrentType /\ runq' \in RunQueueType
      /\ \A r \in Procs : CanRun(r)' <=> CanRun(r)
      /\ mode' = mode \/ (mode' = "sync" /\ wptr'[turn] = NULL)
  <2>1. CASE Load(NULL, Queue(runq, p))
    <3>1. Load(NULL, IF TRUE THEN Queue(runq, p) ELSE runq) /\ NULL \notin Procs
      BY <2>1, NamesAssumption
    <3>2. /\ \A r \in Procs : CanRun(r)' <=> (r # p /\ CanRun(r)) \/ (r = p /\ TRUE) \/ r = NULL
          /\ RunLists' /\ runq' \in RunQueueType /\ wptr' \in CurrentType
          /\ turn' = turn /\ then' = then
          /\ mode' = mode \/ (mode' = "sync" /\ wptr'[turn] = NULL)
      BY <1>1, <1>2, <3>1, LoadEffect
    <3> QED
      BY <1>2, <3>1, <3>2
  <2>2. CASE Continue /\ runq' = runq
    <3>1. wptr' = wptr /\ turn' = turn /\ then' = then /\ mode' = mode
      BY <2>2 DEF Continue
    <3>2. RunLists' /\ \A r \in Procs : CanRun(r)' <=> CanRun(r)
      BY <1>1, <2>2, <3>1, ListsSame
    <3> QED
      BY <1>1, <2>2, <3>1, <3>2 DEF TypeOK, RunQueueType, CurrentType
  <2> QED
    BY <1>5, <2>1, <2>2
<1>7. /\ wrapper' = wrapper /\ alive' = alive /\ tq' = tq /\ tlink' = tlink /\ time' = time
      /\ sflag' = sflag /\ alarm' = alarm /\ itimer' = itimer /\ err' = err /\ slot' = slot
      /\ guards' = guards /\ due' = due /\ temp' = temp /\ idx' = idx
      /\ pc' = [pc EXCEPT ![p] = "xend"]
  BY <1>5 DEF Goto, loop, timer, os
<1>8. TypeOK'
  <2>1. mode' \in {"sync", "walk", "alarm", "itimer", "pick", "run"}
    BY <1>1, <1>6 DEF TypeOK
  <2>2. pc' \in [Procs -> InAlt \cup {"idle", "in", "xin", "xend", "stopped"}]
    BY <1>1, <1>7 DEF TypeOK
  <2> QED
    BY <1>1, <1>5, <1>6, <1>7, <2>1, <2>2, SMTT(40) DEF TypeOK, RunQueueType, CurrentType
<1>9. pc'[p] = "xend" /\ \A r \in Procs \ {p} : Same(r)
  BY <1>1, <1>7 DEF TypeOK, Same
<1>10. Position(p)' /\ Selection(p)' /\ Deadline(p)'
  <2>1. Ready(c)'
    BY <1>3, <1>5, <1>7 DEF Ready
  <2>2. PICK x \in Chans : x = c
    BY <1>3
  <2>3. Ready(x)'
    BY <2>2, <1>3, <1>5 DEF Ready
  <2>4. CanRun(p)' <=> slot'[p] # "waiting"
    BY <1>2, <1>6, <1>7
  <2> QED
    BY <1>2, <1>3, <1>7, <1>9, <2>2, <2>3, <2>4, AtInput, ZenonT(60)
<1>11. \A d \in Chans : ~HasAlt(d, p)
  BY <1>2, NoOffer
<1>12. Turns' /\ TimerLists'
  BY <1>1, <1>2, <1>6, <1>7, TurnsStep, TimerListsSame
<1> QED
  BY <1>2, <1>5, <1>6, <1>7, <1>8, <1>9, <1>10, <1>11, <1>12, QuietStep

LEMMA XEndStep == ASSUME TInv, NEW p \in Procs, XEnd(p) PROVE TInv'
<1>1. /\ TypeOK /\ Turns /\ RunLists /\ TimerLists /\ Words /\ ~err
      /\ \A r \in Procs : Position(r) /\ Selection(r) /\ Deadline(r)
  BY DEF TInv, Processes, NoErrors
<1>2. /\ CanRun(p) /\ turn \in Contexts /\ mode = "run" /\ wptr[turn] = p
      /\ slot[p] # "waiting" /\ tlink[p] # "link" /\ pc[p] = "xend" /\ Runs(p)
      /\ \A d \in Chans : chan[d] # Word(p, FALSE)
  BY Running DEF XEnd
<1>3. PICK c \in Chans : c = guards[p][temp[p]] /\ Reader[c] = p /\ Ready(c)
  BY <1>1, <1>2, ZenonT(60) DEF Position, Selection
<1>4. /\ \/ /\ chan[c] # Cut /\ chan' = [chan EXCEPT ![c] = Empty]
            /\ runq' = Queue(runq, chan[c].who)
         \/ chan[c] = Cut /\ chan' = chan /\ runq' = runq
      /\ wptr' = wptr /\ mode' = mode /\ then' = then /\ turn' = turn /\ Done(p) /\ slot' = slot
      /\ tlink' = tlink /\ time' = time /\ tq' = tq /\ err' = err
      /\ UNCHANGED <<loop, timer, sflag, os, err>>
  BY <1>3 DEF XEnd, Continue, timer
<1>5. /\ \A r \in Procs \ {p} : Same(r)
      /\ pc'[p] = "idle" /\ guards'[p] = <<>> /\ Len(due'[p]) = 0 /\ temp'[p] = 0
  BY <1>1, <1>4, DoneSame DEF Same
<1>6. wptr' \in CurrentType /\ (runq' = runq => runq' \in RunQueueType)
  BY <1>1, <1>4 DEF TypeOK, RunQueueType, CurrentType
<1>7. Turns' /\ TimerLists' /\ NoErrors'
  BY <1>1, <1>2, <1>4, TurnsStep, TimerListsSame DEF NoErrors
<1>8. ASSUME NEW d \in Chans, NEW r \in Procs, HasAlt(d, r) PROVE HasAlt(d, r)'
  <2>1. r # p
    BY <1>2, <1>8, NoOffer
  <2> QED
    BY <1>5, <1>8, <2>1, AltSame
<1>9. ASSUME CanRun(p)' PROVE Position(p)' /\ Selection(p)' /\ Deadline(p)'
  <2>1. slot'[p] # "waiting" /\ tlink'[p] # "link"
    BY <1>2, <1>4
  <2> QED
    BY <1>5, <1>9, <2>1, Finished
<1>10. CASE chan[c] = Cut
  <2>1. chan' = chan /\ runq' = runq
    BY <1>4, <1>10
  <2>2. RunLists' /\ \A r \in Procs : CanRun(r)' <=> CanRun(r)
    BY <1>1, <1>4, <2>1, ListsSame
  <2>3. TypeOK'
    BY <1>1, <1>4, <1>6, <2>1, DoneType DEF TypeOK
  <2> QED
    BY <1>2, <1>4, <1>5, <1>7, <1>8, <1>9, <2>1, <2>2, <2>3, QuietStep
<1>11. CASE chan[c] # Cut
  <2>1. PICK q \in Procs : q = Writer[c] /\ chan[c] = Word(q, FALSE)
    BY <1>3, <1>11, ProgramAssumption DEF Ready
  <2>2. chan[c].who = q /\ q # p
    BY <1>2, <2>1, WordParts
  <2>3. HasWaiter(c, q)
    BY <1>1, <2>1, NamesAssumption DEF Words, Word
  <2>4. ~CanRun(q)
    BY <2>3 DEF HasWaiter
  <2>5. chan'[c] = Empty /\ \A d \in Chans \ {c} : chan'[d] = chan[d]
    BY <1>1, <1>4, <1>11 DEF TypeOK
  <2>6. RunLists' /\ runq' \in RunQueueType /\ \A r \in Procs : CanRun(r)' <=> CanRun(r) \/ r = q
    <3>1. runq' = Queue(runq, q)
      BY <1>4, <1>11, <2>2
    <3> QED
      BY <1>1, <1>4, <2>4, <3>1, QueueEffect
  <2>7. TypeOK'
    <3>1. Empty \in [who: Procs \cup {NULL}, alt: BOOLEAN]
      BY DEF Empty, Word
    <3>2. chan' \in [Chans -> [who: Procs \cup {NULL}, alt: BOOLEAN]]
      BY <1>1, <1>4, <1>11, <3>1 DEF TypeOK
    <3>3. slot' \in [Procs -> {"none", "data", "enabling", "waiting", "ready"}]
      BY <1>1, <1>4 DEF TypeOK
    <3> QED
      BY <1>1, <1>4, <1>6, <2>6, <3>2, <3>3, DoneType
  <2>8. ASSUME NEW r \in Procs PROVE (Position(r) /\ Selection(r) /\ Deadline(r))'
    <3>1. CASE r = p
      BY <1>2, <1>9, <2>6, <3>1
    <3>2. CASE r = q
      <4>1. CanRun(q)' /\ Same(q)
        BY <1>5, <2>2, <2>6
      <4> QED
        BY <1>1, <2>3, <3>2, <4>1, Resumed
    <3>3. CASE r # p /\ r # q
      <4>1. Same(r) /\ (CanRun(r)' <=> CanRun(r)) /\ Reader[c] # r
        BY <1>3, <1>5, <2>6, <3>3
      <4>2. \A d \in Chans : chan[d] = Word(r, FALSE) => chan'[d] = Word(r, FALSE)
        BY <2>1, <2>5, <3>3, WordParts, ZenonT(60)
      <4>3. \A d \in Chans : Reader[d] = r =>
               (Ready(d) => Ready(d)') /\ (chan[d] = Word(r, TRUE) => chan'[d] = Word(r, TRUE))
        BY <2>5, <4>1 DEF Ready
      <4> QED
        BY <1>1, <4>1, <4>2, <4>3, Kept
    <3> QED
      BY <3>1, <3>2, <3>3
  <2>9. Words'
    <3> DEFINE S == {c}
    <3>1. S \in SUBSET Chans /\ \A d \in Chans \ S : chan'[d] = chan[d]
      BY <2>5
    <3>2. ASSUME NEW d \in Chans, NEW r \in Procs, chan'[d] = Word(r, TRUE), d \notin S => HasAlt(d, r)
          PROVE  HasAlt(d, r)'
      <4>1. d # c
        BY <2>5, <3>2, WordParts
      <4> QED
        BY <1>8, <3>2, <4>1
    <3>3. ASSUME NEW d \in Chans, NEW r \in Procs, chan'[d] = Word(r, FALSE), d \notin S => HasWaiter(d, r)
          PROVE  HasWaiter(d, r)'
      <4>1. d # c
        BY <2>5, <3>3, WordParts
      <4>2. r # p /\ r # q
        BY <1>1, <1>2, <2>1, <2>5, <3>3, <4>1, OneWord, ZenonT(60)
      <4> QED
        BY <1>5, <2>6, <3>3, <4>1, <4>2, WaiterSame
    <3>4. \A x \in S, d \in Chans : Plain(chan'[x]) /\ chan'[x] = chan'[d] => x = d
      BY <2>5 DEF Empty, Plain, Word
    <3> HIDE DEF S
    <3> QED
      BY <1>1, <2>7, <3>1, <3>2, <3>3, <3>4, WordsStep
  <2> QED
    BY <1>7, <2>6, <2>7, <2>8, <2>9 DEF TInv, Processes
<1> QED
  BY <1>10, <1>11

(* The types of what a step assigns; the rest does not change.              *)
LEMMA TypeStep ==
  ASSUME TypeOK,
         wrapper' = wrapper, alive' = alive, turn' = turn, sflag' = sflag,
         alarm' = alarm, itimer' = itimer, err' = err,
         mode' \in {mode, "alarm", "sync", "run"}, then' \in {then, "sync", "run"},
         wptr' = wptr \/ wptr' \in CurrentType, runq' = runq \/ runq' \in RunQueueType,
         tq' = tq \/ tq' \in [Contexts -> Seq(Procs)],
         chan' = chan \/ chan' \in [Chans -> [who: Procs \cup {NULL}, alt: BOOLEAN]],
         slot' \in [Procs -> {"none", "data", "enabling", "waiting", "ready"}],
         tlink' \in [Procs -> {"notset", "set", "link"}],
         time' \in [Procs -> Times],
         pc' \in [Procs -> InAlt \cup {"idle", "in", "xin", "xend", "stopped"}],
         guards' \in [Procs -> Seq(Chans \cup {TIMER, SKIP})],
         due' \in [Procs -> Seq((-MaxLate - 1)..MaxDelay)],
         temp' \in [Procs -> Nat], idx' \in [Procs -> Nat]
  PROVE  TypeOK'
<1>1. /\ wrapper' \in Wrappers /\ alive' \in BOOLEAN
      /\ turn' \in Contexts \cup {"sleep", "off"}
      /\ mode' \in {"sync", "walk", "alarm", "itimer", "pick", "run"} /\ then' \in {"sync", "pick", "run"}
      /\ wptr' \in [Contexts -> Procs \cup {NULL}]
      /\ runq' \in [Contexts -> Seq(Procs)] /\ tq' \in [Contexts -> Seq(Procs)]
      /\ sflag' \in [Contexts -> BOOLEAN]
      /\ chan' \in [Chans -> [who: Procs \cup {NULL}, alt: BOOLEAN]]
      /\ alarm' \in [set: BOOLEAN, at: Int, t: {Off, Far} \cup 1..(MaxDelay + 1)]
      /\ itimer' \in {Off, Far} \cup 0..(MaxDelay + 1) /\ err' \in BOOLEAN
  BY SMTT(40) DEF TypeOK, RunQueueType, CurrentType
<1> QED
  BY <1>1 DEF TypeOK

-----------------------------------------------------------------------------
(* Timeouts, and the instructions around an ALT *)

(* timer_queue_insert: p leaves the processor for the timer queue.          *)
LEMMA InsertEffect ==
  ASSUME TInv, NEW p \in Procs, Runs(p), tlink[p] # "link", NEW t, TimerQueueInsert(p, t)
  PROVE  /\ RunLists' /\ TimerLists' /\ Turns' /\ turn' = turn
         /\ runq' \in RunQueueType /\ wptr' \in CurrentType /\ tq' \in [Contexts -> Seq(Procs)]
         /\ mode' \in {"alarm", "sync"} /\ then' \in {"sync", "run"}
         /\ \A r \in Procs : CanRun(r)' <=> r # p /\ CanRun(r)
         /\ time' = [time EXCEPT ![p] = t] /\ tlink' = [tlink EXCEPT ![p] = "link"]
<1> DEFINE q == Insert(tq[turn], p, t)
<1>1. /\ TypeOK /\ RunLists /\ TimerLists
      /\ turn \in Contexts /\ mode = "run" /\ wptr[turn] = p /\ turn = Ctx[p]
  BY Running DEF TInv
<1>2. tq[turn] \in Seq(Procs) /\ IsInjective(tq[turn]) /\ p \notin ToSet(tq[turn])
  BY <1>1 DEF TypeOK, TimerLists, Timed
<1>3. /\ q \in Seq(Procs) /\ IsInjective(q) /\ ToSet(q) = ToSet(tq[turn]) \cup {p} /\ q # <<>>
  BY <1>2, TimerInserted
<1>4. /\ tq' = [tq EXCEPT ![turn] = q] /\ time' = [time EXCEPT ![p] = t]
      /\ tlink' = [tlink EXCEPT ![p] = "link"] /\ wptr' = [wptr EXCEPT ![turn] = NULL]
      /\ Enter(Head(q) = p, "sync") /\ turn' = turn /\ runq' = runq
  BY DEF TimerQueueInsert
<1> HIDE DEF q
<1>5. tq' \in [Contexts -> Seq(Procs)] /\ tq'[turn] = q /\ \A c \in Contexts \ {turn} : tq'[c] = tq[c]
  BY <1>1, <1>3, <1>4 DEF TypeOK
<1>6. RunLists' /\ runq' \in RunQueueType /\ wptr' \in CurrentType /\ \A r \in Procs : CanRun(r)' <=> r # p /\ CanRun(r)
  <2>1. /\ runq \in RunQueueType /\ wptr \in CurrentType /\ Lists(runq, wptr)
        /\ \A r \in Procs : CanRun(r) <=> Can(runq, wptr, r)
    BY <1>1, ListsIs DEF TypeOK, RunQueueType, CurrentType
  <2>2. /\ wptr' \in CurrentType /\ Lists(runq, wptr')
        /\ \A r \in Procs : Can(runq, wptr', r) <=> Can(runq, wptr, r) /\ r # p
    BY <1>1, <1>4, <2>1, CurrentDropped
  <2>3. RunLists' /\ \A r \in Procs : CanRun(r)' <=> Can(runq, wptr', r)
    BY <1>4, <2>2, ListsIsNext
  <2> QED
    BY <1>4, <2>1, <2>2, <2>3
<1>7. mode' \in {"alarm", "sync"} /\ then' \in {"sync", "run"}
  BY <1>4 DEF Enter
<1>8. Turns'
  BY <1>1, <1>3, <1>4, <1>5, <1>7 DEF Turns, TypeOK
<1>9. TimerLists'
  <2>1. \A c \in Contexts : IsInjective(tq'[c]) /\ \A r \in ToSet(tq'[c]) : Ctx[r] = c
    BY <1>1, <1>3, <1>5 DEF TimerLists
  <2>2. \A r \in Procs : r \in ToSet(tq'[Ctx[r]]) <=> tlink'[r] = "link"
    <3>1. tlink'[p] = "link" /\ \A r \in Procs \ {p} : tlink'[r] = tlink[r]
      BY <1>1, <1>4 DEF TypeOK
    <3>2. \A r \in Procs \ {p} : r \in ToSet(tq'[Ctx[r]]) <=> r \in ToSet(tq[Ctx[r]])
      BY <1>3, <1>5, CtxType
    <3> QED
      BY <1>1, <1>3, <1>5, <3>1, <3>2 DEF TimerLists, Timed
  <2> QED
    BY <2>1, <2>2 DEF TimerLists, Timed
<1> QED
  BY <1>4, <1>5, <1>6, <1>7, <1>8, <1>9

LEMMA TinStep == ASSUME TInv, NEW p \in Procs, Tin(p) PROVE TInv'
<1>1. /\ TypeOK /\ Position(p)
  BY DEF TInv, Processes
<1>2. /\ CanRun(p) /\ tlink[p] # "link" /\ pc[p] = "idle" /\ Runs(p)
  BY Running DEF Tin, Enters
<1>3. PICK t \in 0..MaxDelay : TimerQueueInsert(p, t)
  BY DEF Tin
<1>4. /\ RunLists' /\ TimerLists' /\ Turns' /\ turn' = turn
      /\ runq' \in RunQueueType /\ wptr' \in CurrentType /\ tq' \in [Contexts -> Seq(Procs)]
      /\ mode' \in {"alarm", "sync"} /\ then' \in {"sync", "run"}
      /\ \A r \in Procs : CanRun(r)' <=> r # p /\ CanRun(r)
      /\ time' = [time EXCEPT ![p] = t] /\ tlink' = [tlink EXCEPT ![p] = "link"]
  BY <1>2, <1>3, InsertEffect
<1>5. /\ slot' = [slot EXCEPT ![p] = "none"] /\ chan' = chan /\ err' = err /\ sflag' = sflag
      /\ temp' = temp /\ pc' = pc /\ guards' = guards /\ due' = due /\ idx' = idx
      /\ alarm' = alarm /\ itimer' = itimer /\ wrapper' = wrapper /\ alive' = alive
  BY DEF Tin, loop, ws, os
<1>6. TypeOK'
  <2>1. slot' \in [Procs -> {"none", "data", "enabling", "waiting", "ready"}]
    BY <1>1, <1>5 DEF TypeOK
  <2>2. tlink' \in [Procs -> {"notset", "set", "link"}]
    BY <1>1, <1>4 DEF TypeOK
  <2>3. t \in Times
    BY BoundsAssumption DEF Times
  <2>4. time' \in [Procs -> Times]
    BY <1>1, <1>4, <2>3 DEF TypeOK
  <2> QED
    BY <1>1, <1>4, <1>5, <2>1, <2>2, <2>4 DEF TypeOK, RunQueueType, CurrentType
<1>7. \A r \in Procs \ {p} : Same(r) /\ (CanRun(r)' <=> CanRun(r))
  BY <1>1, <1>4, <1>5 DEF TypeOK, Same
<1>8. Position(p)' /\ Selection(p)' /\ Deadline(p)'
  <2>1. slot'[p] = "none" /\ tlink'[p] = "link" /\ ~CanRun(p)'
    BY <1>1, <1>4, <1>5 DEF TypeOK
  <2>2. pc'[p] = "idle" /\ guards'[p] = <<>> /\ temp'[p] = 0 /\ Len(due'[p]) = 0
    BY <1>1, <1>2, <1>5 DEF Position
  <2>3. DOMAIN guards'[p] = {}
    BY <2>2
  <2> QED
    BY <2>1, <2>2, <2>3 DEF Position, Selection, Deadline, InAlt
<1>9. \A d \in Chans : ~HasAlt(d, p)
  BY <1>2, NoOffer
<1> QED
  BY <1>2, <1>4, <1>5, <1>6, <1>7, <1>8, <1>9, QuietStep

LEMMA StopStep == ASSUME TInv, NEW p \in Procs, Stop(p) PROVE TInv'
<1>1. /\ TypeOK /\ RunLists /\ TimerLists /\ Position(p)
  BY DEF TInv, Processes
<1>2. /\ CanRun(p) /\ tlink[p] # "link" /\ pc[p] = "idle" /\ Runs(p) /\ wptr[turn] = p
      /\ turn \in Contexts
  BY Running DEF Stop, Enters
<1>3. /\ pc' = [pc EXCEPT ![p] = "stopped"] /\ runq' = runq /\ slot' = slot /\ chan' = chan /\ err' = err
      /\ sflag' = sflag /\ tq' = tq /\ tlink' = tlink /\ time' = time
      /\ temp' = temp /\ guards' = guards /\ due' = due /\ idx' = idx
      /\ alarm' = alarm /\ itimer' = itimer /\ wrapper' = wrapper /\ alive' = alive
      /\ wptr' = [wptr EXCEPT ![turn] = NULL] /\ mode' = "sync" /\ turn' = turn /\ then' = then
  BY DEF Stop, Goto, RunNext, loop, os, timer
<1>4. RunLists' /\ wptr' \in CurrentType /\ \A r \in Procs : CanRun(r)' <=> r # p /\ CanRun(r)
  <2>1. /\ runq \in RunQueueType /\ wptr \in CurrentType /\ Lists(runq, wptr)
        /\ \A r \in Procs : CanRun(r) <=> Can(runq, wptr, r)
    BY <1>1, ListsIs DEF TypeOK, RunQueueType, CurrentType
  <2>2. /\ wptr' \in CurrentType /\ Lists(runq, wptr')
        /\ \A r \in Procs : Can(runq, wptr', r) <=> Can(runq, wptr, r) /\ r # p
    BY <1>2, <1>3, <2>1, CurrentDropped
  <2>3. RunLists' /\ \A r \in Procs : CanRun(r)' <=> Can(runq, wptr', r)
    BY <1>3, <2>2, ListsIsNext
  <2> QED
    BY <1>3, <2>1, <2>2, <2>3
<1>5. TypeOK'
  <2>1. pc' \in [Procs -> InAlt \cup {"idle", "in", "xin", "xend", "stopped"}]
    BY <1>1, <1>3 DEF TypeOK
  <2> QED
    BY <1>1, <1>3, <1>4, <2>1 DEF TypeOK, CurrentType
<1>6. Turns' /\ TimerLists'
  <2>1. wptr'[turn] = NULL
    BY <1>1, <1>2, <1>3 DEF TypeOK
  <2> QED
    BY <1>1, <1>3, <2>1, TurnsStep, TimerListsSame
<1>7. \A r \in Procs \ {p} : Same(r) /\ (CanRun(r)' <=> CanRun(r))
  BY <1>1, <1>3, <1>4 DEF TypeOK, Same
<1>8. Position(p)' /\ Selection(p)' /\ Deadline(p)'
  <2>1. slot'[p] # "waiting" /\ tlink'[p] # "link" /\ ~CanRun(p)'
    BY <1>1, <1>2, <1>3, <1>4 DEF Position
  <2>2. pc'[p] = "stopped" /\ guards'[p] = <<>> /\ temp'[p] = 0 /\ Len(due'[p]) = 0
    BY <1>1, <1>2, <1>3 DEF Position, TypeOK
  <2>3. DOMAIN guards'[p] = {}
    BY <2>2
  <2>4. Selection(p)'
    BY <2>1, <2>2, <2>3 DEF Selection, Offered
  <2> QED
    BY <2>1, <2>2, <2>3, <2>4 DEF Position, Deadline, InAlt
<1>9. \A d \in Chans : ~HasAlt(d, p)
  BY <1>2, NoOffer
<1> QED
  BY <1>2, <1>3, <1>4, <1>5, <1>6, <1>7, <1>8, <1>9, QuietStep

LEMMA FunctionIsSequence ==
  ASSUME NEW S, NEW n \in Nat, NEW f \in [1..n -> S]
  PROVE  f \in Seq(S) /\ Len(f) = n
OBVIOUS

LEMMA AltStartStep == ASSUME TInv, NEW p \in Procs, AltStart(p) PROVE TInv'
<1>1. /\ TypeOK /\ RunLists /\ TimerLists /\ Position(p)
  BY DEF TInv, Processes
<1>2. /\ CanRun(p) /\ tlink[p] # "link" /\ pc[p] = "idle" /\ Runs(p) /\ mode = "run"
  BY Running DEF AltStart, Enters
<1>3. PICK a \in Alts[wrapper][p] : \E d \in [DOMAIN a -> 0..MaxDelay] :
         guards' = [guards EXCEPT ![p] = a] /\ due' = [due EXCEPT ![p] = d]
  BY DEF AltStart
<1>4. PICK d \in [DOMAIN a -> 0..MaxDelay] :
         guards' = [guards EXCEPT ![p] = a] /\ due' = [due EXCEPT ![p] = d]
  BY <1>3
<1>5. /\ slot' = [slot EXCEPT ![p] = "enabling"] /\ tlink' = [tlink EXCEPT ![p] = "notset"]
      /\ time' = [time EXCEPT ![p] = 0] /\ pc' = [pc EXCEPT ![p] = "enable"] /\ idx' = [idx EXCEPT ![p] = 1]
      /\ wptr' = wptr /\ mode' = mode /\ then' = then /\ turn' = turn /\ runq' = runq /\ tq' = tq
      /\ sflag' = sflag /\ chan' = chan /\ temp' = temp /\ alarm' = alarm /\ itimer' = itimer /\ err' = err
      /\ wrapper' = wrapper /\ alive' = alive
  BY DEF AltStart, Goto, Continue, loop, os
<1>6. /\ a \in Seq({TIMER, SKIP} \cup {c \in Chans : Reader[c] = p}) /\ a # <<>>
      /\ a \in Seq(Chans \cup {TIMER, SKIP})
  <2>1. a \in Seq({TIMER, SKIP} \cup {c \in Chans : Reader[c] = p}) /\ a # <<>>
    BY <1>1, ProgramAssumption DEF TypeOK
  <2> QED
    BY <2>1
<1>7. d \in Seq((-MaxLate - 1)..MaxDelay) /\ Len(d) = Len(a) /\ 1 \in DOMAIN a /\ Len(a) # 0
      /\ \A i \in DOMAIN a : a[i] \in Chans => Reader[a[i]] = p
  <2>1. d \in [1..Len(a) -> 0..MaxDelay] /\ Len(a) \in Nat /\ Len(a) # 0 /\ DOMAIN a = 1..Len(a)
    BY <1>6
  <2>2. \A i \in 0..MaxDelay : i \in (-MaxLate - 1)..MaxDelay
    BY BoundsAssumption
  <2>3. d \in [1..Len(a) -> (-MaxLate - 1)..MaxDelay]
    BY <2>1, <2>2
  <2>4. \A i \in DOMAIN a : a[i] \in Chans => Reader[a[i]] = p
    BY <1>6, NamesAssumption
  <2>5. Len(d) = Len(a) /\ d \in Seq((-MaxLate - 1)..MaxDelay)
    BY ONLY <2>1, <2>3, FunctionIsSequence
  <2> QED
    BY ONLY <2>1, <2>4, <2>5
<1>8. TypeOK'
  <2>1. slot' \in [Procs -> {"none", "data", "enabling", "waiting", "ready"}]
    BY <1>1, <1>5 DEF TypeOK
  <2>2. tlink' \in [Procs -> {"notset", "set", "link"}]
    BY <1>1, <1>5 DEF TypeOK
  <2>3. 0 \in Times
    BY BoundsAssumption DEF Times
  <2>4. time' \in [Procs -> Times]
    BY <1>1, <1>5, <2>3 DEF TypeOK
  <2>5. guards' \in [Procs -> Seq(Chans \cup {TIMER, SKIP})] /\ due' \in [Procs -> Seq((-MaxLate - 1)..MaxDelay)]
    BY <1>1, <1>4, <1>6, <1>7 DEF TypeOK
  <2>6. idx' \in [Procs -> Nat]
    BY <1>1, <1>5 DEF TypeOK
  <2>7. pc' \in [Procs -> InAlt \cup {"idle", "in", "xin", "xend", "stopped"}]
    BY <1>1, <1>5 DEF TypeOK, InAlt
  <2>8. temp' \in [Procs -> Nat]
    BY <1>1, <1>5 DEF TypeOK
  <2> QED
    BY ONLY <1>1, <1>5, <2>1, <2>2, <2>4, <2>5, <2>6, <2>7, <2>8, TypeStep
<1>9. RunLists' /\ \A r \in Procs : CanRun(r)' <=> CanRun(r)
  BY <1>1, <1>5, ListsSame
<1>10. \A r \in Procs \ {p} : Same(r)
  BY <1>1, <1>4, <1>5 DEF TypeOK, Same
<1>11. TimerLists'
  <2>1. \A r \in Procs : tlink'[r] = "link" <=> tlink[r] = "link"
    BY <1>1, <1>2, <1>5 DEF TypeOK
  <2> QED
    BY <1>1, <1>5, <2>1 DEF TimerLists, Timed
<1>12. Turns'
  BY <1>2, <1>5, TurnsStep
<1>13. Position(p)' /\ Selection(p)' /\ Deadline(p)'
  <2>1. /\ slot'[p] = "enabling" /\ tlink'[p] = "notset" /\ pc'[p] = "enable" /\ idx'[p] = 1
        /\ guards'[p] = a /\ due'[p] = d /\ CanRun(p)' /\ temp'[p] = 0
    BY <1>1, <1>2, <1>4, <1>5, <1>9 DEF TypeOK, Position
  <2>2. Offered(p)' = {}
    BY <1>6, <2>1 DEF Offered
  <2>3. Position(p)'
    BY <1>6, <1>7, <2>1 DEF Position, InAlt
  <2> QED
    BY <2>1, <2>2, <2>3 DEF Selection, Deadline
<1>14. \A c \in Chans : ~HasAlt(c, p)
  BY <1>2, NoOffer
<1> QED
  BY <1>2, <1>5, <1>8, <1>9, <1>10, <1>11, <1>12, <1>13, <1>14, QuietStep

LEMMA AltEndStep == ASSUME TInv, NEW p \in Procs, AltEnd(p) PROVE TInv'
<1>1. /\ TypeOK /\ RunLists /\ TimerLists /\ Position(p) /\ Selection(p)
  BY DEF TInv, Processes
<1>2. /\ CanRun(p) /\ tlink[p] # "link" /\ pc[p] = "end" /\ Runs(p) /\ mode = "run" /\ slot[p] # "waiting"
  BY Running DEF AltEnd
<1>3. temp[p] # 0 /\ Chosen(p, temp[p])
  BY <1>1, <1>2 DEF Selection
<1>4. /\ time' = [time EXCEPT ![p] = 0]
      /\ wptr' = wptr /\ mode' = mode /\ then' = then /\ turn' = turn /\ runq' = runq /\ tq' = tq
      /\ tlink' = tlink /\ slot' = slot
      /\ sflag' = sflag /\ chan' = chan /\ alarm' = alarm /\ itimer' = itimer /\ err' = err
      /\ wrapper' = wrapper /\ alive' = alive
      /\ \/ Done(p)
         \/ /\ Selected(p) \in Chans
            /\ \E next \in {"in", "xin"} : Goto(p, next)
            /\ due' = [due EXCEPT ![p] = <<>>] /\ temp' = temp /\ guards' = guards /\ idx' = idx
  BY <1>3 DEF AltEnd, Continue, loop, os
<1>5. RunLists' /\ TimerLists' /\ \A r \in Procs : CanRun(r)' <=> CanRun(r)
  BY <1>1, <1>4, ListsSame, TimerListsSame
<1>6. Turns'
  BY <1>2, <1>4, TurnsStep
<1>7. time' \in [Procs -> Times]
  <2>1. 0 \in Times
    BY BoundsAssumption DEF Times
  <2> QED
    BY <1>1, <1>4, <2>1 DEF TypeOK
<1>8. \A d \in Chans : ~HasAlt(d, p)
  BY <1>2, NoOffer
<1>9. CASE Done(p)
  <2>1. /\ guards' \in [Procs -> Seq(Chans \cup {TIMER, SKIP})]
        /\ due' \in [Procs -> Seq((-MaxLate - 1)..MaxDelay)]
        /\ temp' \in [Procs -> Nat] /\ idx' \in [Procs -> Nat]
        /\ pc' \in [Procs -> InAlt \cup {"idle", "in", "xin", "xend", "stopped"}]
    <3>1. \A S : <<>> \in Seq(S)
      OBVIOUS
    <3> QED
      BY <1>1, <1>9, <3>1 DEF TypeOK, Done, Goto
  <2>2. TypeOK'
    BY ONLY <1>1, <1>4, <1>7, <2>1, TypeStep DEF TypeOK
  <2>3. /\ pc'[p] = "idle" /\ guards'[p] = <<>> /\ Len(due'[p]) = 0 /\ temp'[p] = 0
        /\ \A r \in Procs \ {p} : /\ pc'[r] = pc[r] /\ guards'[r] = guards[r] /\ due'[r] = due[r]
                                  /\ temp'[r] = temp[r] /\ idx'[r] = idx[r]
    BY <1>1, <1>9, DoneSame
  <2>4. \A r \in Procs \ {p} : Same(r)
    BY <1>1, <1>4, <2>3 DEF TypeOK, Same
  <2>5. Position(p)' /\ Selection(p)' /\ Deadline(p)'
    BY <1>2, <1>4, <1>5, <2>3, Finished
  <2> QED
    BY <1>2, <1>4, <1>5, <1>6, <1>8, <2>2, <2>4, <2>5, QuietStep
<1>10. CASE /\ Selected(p) \in Chans
            /\ \E next \in {"in", "xin"} : Goto(p, next)
            /\ due' = [due EXCEPT ![p] = <<>>] /\ temp' = temp /\ guards' = guards /\ idx' = idx
  <2>1. PICK next \in {"in", "xin"} : pc' = [pc EXCEPT ![p] = next]
    BY <1>10 DEF Goto
  <2>2. pc' \in [Procs -> InAlt \cup {"idle", "in", "xin", "xend", "stopped"}]
    BY <1>1, <2>1 DEF TypeOK
  <2>3. due' \in [Procs -> Seq((-MaxLate - 1)..MaxDelay)]
    <3>1. <<>> \in Seq((-MaxLate - 1)..MaxDelay)
      OBVIOUS
    <3> QED
      BY <1>1, <1>10, <3>1 DEF TypeOK
  <2>4. TypeOK'
    BY <1>1, <1>4, <1>7, <1>10, <2>2, <2>3, SMTT(40) DEF TypeOK
  <2>5. \A r \in Procs \ {p} : Same(r)
    BY <1>1, <1>4, <1>10, <2>1 DEF TypeOK, Same
  <2>6. PICK c \in Chans : c = guards[p][temp[p]] /\ temp[p] \in DOMAIN guards[p] /\ Reader[c] = p /\ Ready(c)
    <3>1. guards[p][temp[p]] \in Chans /\ temp[p] \in DOMAIN guards[p]
      BY <1>3, <1>10 DEF Selected, Chosen
    <3> QED
      BY <1>1, <1>3, <3>1, NamesAssumption DEF Chosen, Position
  <2>7. Position(p)' /\ Selection(p)' /\ Deadline(p)'
    <3>1. pc'[p] \in {"in", "xin", "xend"} /\ Len(due'[p]) = 0
      BY <1>1, <1>10, <2>1 DEF TypeOK
    <3>2. \A i \in DOMAIN guards'[p] : guards'[p][i] \in Chans => Reader[guards'[p][i]] = p
      BY <1>1, <1>10 DEF Position
    <3>3. Ready(c)'
      BY <1>4, <2>6 DEF Ready
    <3> QED
      BY <1>2, <1>4, <1>5, <1>10, <2>6, <3>1, <3>2, <3>3, AtInput
  <2> QED
    BY <1>2, <1>4, <1>5, <1>6, <1>8, <2>4, <2>5, <2>7, QuietStep
<1> QED
  BY <1>4, <1>9, <1>10

-----------------------------------------------------------------------------
(* Enabling, waiting and disabling *)

(* A step of p that puts its word into an empty channel that it reads, or   *)
(* takes it out                                                             *)
LEMMA OwnWordStep ==
  ASSUME TInv, NEW p \in Procs, Runs(p), NEW c \in Chans, Reader[c] = p, err' = err,
         \/ chan[c] = Empty /\ chan' = [chan EXCEPT ![c] = Word(p, TRUE)] /\ HasAlt(c, p)'
         \/ chan[c] = Word(p, TRUE) /\ chan' = [chan EXCEPT ![c] = Empty],
         TypeOK', Turns', RunLists', TimerLists',
         \A r \in Procs \ {p} : Same(r) /\ (CanRun(r)' <=> CanRun(r)),
         Position(p)' /\ Selection(p)' /\ Deadline(p)',
         \A d \in Chans \ {c} : chan[d] = Word(p, TRUE) /\ HasAlt(d, p) => HasAlt(d, p)'
  PROVE  TInv'
<1>1. /\ TypeOK /\ Words /\ ~err /\ CanRun(p)
      /\ \A r \in Procs : Position(r) /\ Selection(r) /\ Deadline(r)
  BY Running DEF TInv, Processes, NoErrors
<1>2. /\ \A d \in Chans \ {c} : chan'[d] = chan[d]
      /\ \/ chan[c] = Empty /\ chan'[c] = Word(p, TRUE) /\ HasAlt(c, p)'
         \/ chan[c] = Word(p, TRUE) /\ chan'[c] = Empty
  BY <1>1, ZenonT(60) DEF TypeOK
<1>3. ASSUME NEW r \in Procs PROVE (Position(r) /\ Selection(r) /\ Deadline(r))'
  <2>1. CASE r = p
    BY <2>1
  <2>2. CASE r # p
    <3>1. \A d \in Chans : chan[d] = Word(r, FALSE) => chan'[d] = Word(r, FALSE)
      BY <1>2, WordParts
    <3>2. \A d \in Chans : Reader[d] = r =>
             (Ready(d) => Ready(d)') /\ (chan[d] = Word(r, TRUE) => chan'[d] = Word(r, TRUE))
      BY <1>2, <2>2 DEF Ready
    <3> QED
      BY <1>1, <2>2, <3>1, <3>2, Kept
  <2> QED
    BY <2>1, <2>2
<1>4. Words'
  <2> DEFINE S == {c}
  <2>1. S \in SUBSET Chans /\ \A d \in Chans \ S : chan'[d] = chan[d]
    BY <1>2
  <2>2. ASSUME NEW d \in Chans, NEW r \in Procs, chan'[d] = Word(r, TRUE), d \notin S => HasAlt(d, r)
        PROVE  HasAlt(d, r)'
    <3>1. CASE d = c
      <4>1. chan'[c] = Word(p, TRUE) /\ HasAlt(c, p)'
        BY <1>2, <2>2, <3>1, WordParts
      <4>2. r = p
        BY <2>2, <3>1, <4>1 DEF Word
      <4> QED
        BY <3>1, <4>1, <4>2
    <3>2. CASE d # c
      <4>1. HasAlt(d, r) /\ chan[d] = Word(r, TRUE)
        BY <1>2, <2>2, <3>2
      <4>2. CASE r = p
        BY <3>2, <4>1, <4>2
      <4>3. CASE r # p
        BY <4>1, <4>3, AltSame
      <4> QED
        BY <4>2, <4>3
    <3> QED
      BY <3>1, <3>2
  <2>3. ASSUME NEW d \in Chans, NEW r \in Procs, chan'[d] = Word(r, FALSE), d \notin S => HasWaiter(d, r)
        PROVE  HasWaiter(d, r)'
    <3>1. d # c
      BY <1>2, <2>3, WordParts DEF Word
    <3>2. r # p /\ HasWaiter(d, r)
      BY <1>1, <2>3, <3>1 DEF HasWaiter
    <3> QED
      BY <3>2, WaiterSame
  <2>4. \A x \in S, d \in Chans : Plain(chan'[x]) /\ chan'[x] = chan'[d] => x = d
    BY <1>2 DEF Empty, Plain, Word
  <2> HIDE DEF S
  <2> QED
    BY <1>1, <2>1, <2>2, <2>3, <2>4, WordsStep
<1> QED
  BY <1>1, <1>3, <1>4 DEF TInv, Processes, NoErrors

(* One guard is enabled.                                                    *)
LEMMA EnableAdvances ==
  ASSUME TypeOK, NEW p \in Procs, Position(p), pc[p] = "enable", Advance(p, "wait"), guards' = guards
  PROVE  /\ Offered(p)' = Offered(p) \cup {idx[p]} /\ idx[p] \in DOMAIN guards[p]
         /\ pc'[p] \in {"enable", "wait"} /\ (pc'[p] = "enable" => idx'[p] \in DOMAIN guards'[p])
         /\ \A r \in Procs \ {p} : pc'[r] = pc[r] /\ idx'[r] = idx[r]
         /\ idx' \in [Procs -> Nat]
         /\ pc' \in [Procs -> InAlt \cup {"idle", "in", "xin", "xend", "stopped"}]
<1>1. /\ idx[p] \in DOMAIN guards[p] /\ idx[p] \in Nat
      /\ DOMAIN guards[p] = 1..Len(guards[p]) /\ Len(guards[p]) \in Nat
  BY DEF Position, TypeOK
<1>2. CASE idx[p] < Len(guards[p])
  <2>1. idx' = [idx EXCEPT ![p] = idx[p] + 1] /\ pc' = pc
    BY <1>2 DEF Advance
  <2>2. pc'[p] = "enable" /\ idx'[p] = idx[p] + 1
    BY <2>1 DEF TypeOK
  <2> QED
    BY <1>1, <1>2, <2>1, <2>2 DEF TypeOK, Offered
<1>3. CASE ~(idx[p] < Len(guards[p]))
  <2>1. idx' = [idx EXCEPT ![p] = 0] /\ pc' = [pc EXCEPT ![p] = "wait"]
    BY <1>3 DEF Advance, Goto
  <2>2. pc'[p] = "wait" /\ idx[p] = Len(guards[p])
    BY <1>1, <1>3, <2>1 DEF TypeOK
  <2>3. pc' \in [Procs -> InAlt \cup {"idle", "in", "xin", "xend", "stopped"}]
    BY <2>1 DEF TypeOK, InAlt
  <2>4. Offered(p)' = Offered(p) \cup {idx[p]}
    BY <1>1, <2>2 DEF Offered
  <2> QED
    BY <1>1, <2>1, <2>2, <2>3, <2>4 DEF TypeOK
<1> QED
  BY <1>2, <1>3

LEMMA WordsOffered ==
  ASSUME NEW p \in Procs, Selection(p), slot[p] \in {"enabling", "waiting"}, NEW i \in Offered(p)
  PROVE  (guards[p][i] \in Chans => chan[guards[p][i]] = Word(p, TRUE)) /\ guards[p][i] # SKIP
BY DEF Selection

LEMMA EnableStep == ASSUME TInv, NEW p \in Procs, Enable(p) PROVE TInv'
<1>0. PICK g, k, o : g = guards[p][idx[p]] /\ k = idx[p] /\ o = Offered(p) \cup {k}
  OBVIOUS
<1>1. /\ TypeOK /\ RunLists /\ TimerLists /\ Position(p) /\ Selection(p) /\ Deadline(p)
  BY DEF TInv, Processes
<1>2. /\ CanRun(p) /\ tlink[p] # "link" /\ pc[p] = "enable" /\ Runs(p) /\ mode = "run"
      /\ slot[p] \in {"enabling", "ready"} /\ temp[p] = 0
      /\ Len(due[p]) = Len(guards[p]) /\ guards[p] # <<>>
  <2>1. CanRun(p) /\ tlink[p] # "link" /\ pc[p] = "enable" /\ Runs(p) /\ mode = "run"
    BY Running DEF Enable
  <2> QED
    BY <1>1, <2>1 DEF Position, InAlt
<1>3. /\ \/ g \in Chans /\ Enbc(p, g)
         \/ g = SKIP /\ Enbs(p)
         \/ g = TIMER /\ Enbt(p, due[p][idx[p]])
      /\ Advance(p, "wait")
      /\ wptr' = wptr /\ mode' = mode /\ then' = then /\ turn' = turn /\ runq' = runq /\ tq' = tq
      /\ sflag' = sflag /\ temp' = temp /\ guards' = guards /\ due' = due /\ alarm' = alarm /\ itimer' = itimer
      /\ err' = err /\ wrapper' = wrapper /\ alive' = alive
  BY <1>0 DEF Enable, Guard, Continue, loop, os
<1>4. /\ Offered(p)' = o /\ k \in DOMAIN guards[p]
      /\ pc'[p] \in {"enable", "wait"} /\ (pc'[p] = "enable" => idx'[p] \in DOMAIN guards'[p])
      /\ \A r \in Procs \ {p} : pc'[r] = pc[r] /\ idx'[r] = idx[r]
      /\ idx' \in [Procs -> Nat]
      /\ pc' \in [Procs -> InAlt \cup {"idle", "in", "xin", "xend", "stopped"}]
  BY <1>0, <1>1, <1>2, <1>3, EnableAdvances
<1>5. /\ slot'[p] \in {"enabling", "ready"} /\ \A r \in Procs \ {p} : slot'[r] = slot[r]
      /\ slot' \in [Procs -> {"none", "data", "enabling", "waiting", "ready"}]
      /\ slot[p] = "ready" => slot'[p] = "ready"
      /\ g = SKIP => slot'[p] = "ready"
  BY <1>1, <1>2, <1>3, NamesAssumption DEF TypeOK, Enbc, Enbs, Enbt
<1>6. due[p][idx[p]] \in Times
  <2>1. due[p] \in Seq((-MaxLate - 1)..MaxDelay) /\ idx[p] \in 1..Len(due[p])
    BY <1>0, <1>1, <1>2, <1>4 DEF TypeOK
  <2>2. due[p][idx[p]] \in (-MaxLate - 1)..MaxDelay
    BY <2>1, ElementOfSeq
  <2> QED
    BY <2>2, BoundsAssumption DEF Times
<1>7. /\ time' \in [Procs -> Times] /\ tlink' \in [Procs -> {"notset", "set", "link"}]
      /\ \A r \in Procs \ {p} : time'[r] = time[r] /\ tlink'[r] = tlink[r]
      /\ tlink'[p] # "link"
      /\ g # TIMER => tlink'[p] = tlink[p] /\ time'[p] = time[p]
      /\ g = TIMER => /\ tlink'[p] = "set"
                      /\ time'[p] = due[p][idx[p]] \/ (tlink[p] = "set" /\ time'[p] = time[p])
  <2>1. CASE g # TIMER
    <3>1. time' = time /\ tlink' = tlink
      BY <1>3, <2>1 DEF Enbc, Enbs
    <3> QED
      BY <1>1, <1>2, <2>1, <3>1 DEF TypeOK
  <2>2. CASE g = TIMER
    <3>1. Enbt(p, due[p][idx[p]])
      BY <1>3, <2>2, NamesAssumption
    <3>2. /\ tlink' = [tlink EXCEPT ![p] = "set"]
          /\ time' = [time EXCEPT ![p] = IF tlink[p] = "notset" \/ After(time[p], due[p][idx[p]])
                                         THEN due[p][idx[p]] ELSE time[p]]
      BY <1>1, <3>1 DEF Enbt, TypeOK
    <3>3. tlink[p] \in {"notset", "set"}
      BY <1>1, <1>2 DEF TypeOK
    <3>4. time[p] \in Times
      BY <1>1 DEF TypeOK
    <3>5. time'[p] = IF tlink[p] = "notset" \/ After(time[p], due[p][idx[p]])
                     THEN due[p][idx[p]] ELSE time[p]
      BY <1>1, <3>2 DEF TypeOK
    <3>6. time' \in [Procs -> Times] /\ \A r \in Procs \ {p} : time'[r] = time[r]
      BY <1>1, <1>6, <3>2, <3>4 DEF TypeOK
    <3>7. tlink' \in [Procs -> {"notset", "set", "link"}] /\ tlink'[p] = "set"
          /\ \A r \in Procs \ {p} : tlink'[r] = tlink[r]
      BY <1>1, <3>2 DEF TypeOK
    <3> QED
      BY <2>2, <3>3, <3>5, <3>6, <3>7
  <2> QED
    BY <2>1, <2>2
<1>8. g \in Chans => Reader[g] = p
  BY <1>0, <1>1, <1>4 DEF Position
<1>9. /\ g \notin Chans => chan' = chan
      /\ g \in Chans => /\ chan' = [chan EXCEPT ![g] = IF chan[g] = Empty THEN Word(p, TRUE) ELSE chan[g]]
                        /\ slot'[p] = IF chan[g] \in {Empty, Word(p, TRUE)} THEN slot[p] ELSE "ready"
  <2>1. CASE g \notin Chans
    BY <1>3, <2>1 DEF Enbs, Enbt
  <2>2. CASE g \in Chans
    <3>1. Enbc(p, g)
      BY <1>3, <2>2, NamesAssumption
    <3> QED
      BY <1>1, <2>2, <3>1 DEF Enbc, TypeOK
  <2> QED
    BY <2>1, <2>2
<1>10. \A d \in Chans : /\ Ready(d) => Ready(d)'
                        /\ chan[d] = Word(p, TRUE) => chan'[d] = Word(p, TRUE)
  <2>1. ASSUME NEW d \in Chans PROVE chan'[d] = chan[d] \/ chan[d] = Empty
    BY <1>1, <1>9, <2>1 DEF TypeOK
  <2>2. ~(Empty \in {Cut, Word(p, TRUE)}) /\ \A d \in Chans : Empty # Word(Writer[d], FALSE)
    BY WordParts, ProgramAssumption
  <2> QED
    BY <2>1, <2>2 DEF Ready
<1>11. ASSUME g \in Chans, chan[g] \notin {Empty, Word(p, TRUE)} PROVE Ready(g)'
  <2>1. Ready(g)
    BY <1>2, <1>8, <1>11, OwnWord DEF Ready
  <2> QED
    BY <1>10, <1>11, <2>1
<1>12. CanRun(p)' /\ RunLists' /\ \A r \in Procs : CanRun(r)' <=> CanRun(r)
  BY <1>1, <1>2, <1>3, ListsSame
<1>13. Position(p)'
  BY <1>1, <1>2, <1>3, <1>4, <1>5, <1>12 DEF Position, InAlt
<1>14. Selection(p)'
  <2>1. ASSUME slot'[p] = "enabling", NEW i \in o
        PROVE  (guards[p][i] \in Chans => chan'[guards[p][i]] = Word(p, TRUE)) /\ guards[p][i] # SKIP
    <3>1. CASE i \in Offered(p)
      <4>1. slot[p] = "enabling"
        BY <1>2, <1>5, <2>1
      <4>2. (guards[p][i] \in Chans => chan[guards[p][i]] = Word(p, TRUE)) /\ guards[p][i] # SKIP
        BY <1>1, <3>1, <4>1, WordsOffered
      <4> QED
        BY <1>10, <4>2
    <3>2. CASE i = k
      <4>1. ASSUME g \in Chans PROVE chan'[g] = Word(p, TRUE)
        <5>1. chan[g] \in {Empty, Word(p, TRUE)}
          BY <1>9, <2>1, <4>1
        <5> QED
          BY <1>1, <1>9, <4>1, <5>1 DEF TypeOK
      <4> QED
        BY <1>0, <1>5, <2>1, <3>2, <4>1
    <3> QED
      BY <1>0, <2>1, <3>1, <3>2
  <2>2. ASSUME slot'[p] = "ready"
        PROVE  \E i \in o : Fires(p, i)' /\ guards[p][i] # TIMER
    <3>1. CASE slot[p] = "ready"
      <4>1. PICK i \in Offered(p) : Fires(p, i) /\ guards[p][i] # TIMER
        BY <1>1, <1>2, <3>1 DEF Selection
      <4>2. Fires(p, i)'
        BY <1>3, <1>10, <4>1 DEF Fires, Ready
      <4> QED
        BY <1>0, <4>1, <4>2
    <3>2. CASE slot[p] # "ready" /\ g = SKIP
      <4>1. Fires(p, k)' /\ guards[p][k] # TIMER
        BY <1>0, <1>3, <3>2, NamesAssumption DEF Fires
      <4> QED
        BY <1>0, <4>1
    <3>3. CASE slot[p] # "ready" /\ g \in Chans
      <4>1. chan[g] \notin {Empty, Word(p, TRUE)}
        BY <1>9, <2>2, <3>3
      <4>2. Ready(g)'
        BY <1>11, <3>3, <4>1
      <4>3. Fires(p, k)' /\ guards[p][k] # TIMER
        BY <1>0, <1>3, <3>3, <4>2, NamesAssumption DEF Fires, Ready
      <4> QED
        BY <1>0, <4>3
    <3>4. CASE slot[p] # "ready" /\ g = TIMER
      BY <1>3, <2>2, <3>4, NamesAssumption DEF Enbt
    <3> QED
      BY <1>3, <3>1, <3>2, <3>3, <3>4
  <2> QED
    BY <1>2, <1>3, <1>4, <1>5, <2>1, <2>2 DEF Selection
<1>15. Deadline(p)'
  <2>1. CASE g = TIMER
    <3>1. k \in o /\ guards[p][k] = TIMER
      BY <1>0, <2>1
    <3>2. \E i \in o : guards[p][i] = TIMER /\ due[p][i] = time'[p]
      <4>1. CASE time'[p] = due[p][k]
        BY <3>1, <4>1
      <4>2. CASE tlink[p] = "set" /\ time'[p] = time[p]
        BY <1>0, <1>1, <1>2, <4>2 DEF Deadline
      <4> QED
        BY <1>0, <1>7, <2>1, <4>1, <4>2
    <3>3. tlink'[p] = "set" /\ guards'[p] = guards[p] /\ due'[p] = due[p]
      BY <1>3, <1>7, <2>1
    <3> QED
      BY <1>4, <3>2, <3>3 DEF Deadline
  <2>2. CASE g # TIMER
    <3>1. tlink'[p] = tlink[p] /\ time'[p] = time[p] /\ guards'[p] = guards[p] /\ due'[p] = due[p]
      BY <1>3, <1>7, <2>2
    <3>2. \/ tlink[p] = "notset" /\ \A i \in o : guards[p][i] # TIMER
          \/ tlink[p] = "set" /\ \E i \in o : guards[p][i] = TIMER /\ due[p][i] = time[p]
      BY <1>0, <1>1, <1>2, <2>2 DEF Deadline
    <3> QED
      BY <1>4, <1>7, <3>1, <3>2 DEF Deadline
  <2> QED
    BY <2>1, <2>2
<1>16. \A d \in Chans : HasAlt(d, p) => HasAlt(d, p)'
  BY <1>0, <1>3, <1>4, <1>5 DEF HasAlt
<1>17. \A r \in Procs \ {p} : Same(r)
  BY <1>3, <1>4, <1>5, <1>7 DEF Same
<1>18. Turns'
  BY <1>2, <1>3, TurnsStep
<1>19. TimerLists'
  <2>1. \A r \in Procs : tlink'[r] = "link" <=> tlink[r] = "link"
    BY <1>2, <1>7
  <2> QED
    BY <1>1, <1>3, <2>1 DEF TimerLists, Timed
<1>20. TypeOK'
  <2>1. Word(p, TRUE) \in [who: Procs \cup {NULL}, alt: BOOLEAN]
    BY DEF Word
  <2>2. chan' \in [Chans -> [who: Procs \cup {NULL}, alt: BOOLEAN]]
    <3>1. CASE g \in Chans
      <4>1. (IF chan[g] = Empty THEN Word(p, TRUE) ELSE chan[g]) \in [who: Procs \cup {NULL}, alt: BOOLEAN]
        BY <1>1, <2>1, <3>1 DEF TypeOK
      <4> QED
        BY <1>1, <1>9, <3>1, <4>1 DEF TypeOK
    <3>2. CASE g \notin Chans
      BY <1>1, <1>9, <3>2 DEF TypeOK
    <3> QED
      BY <3>1, <3>2
  <2>3. /\ guards' \in [Procs -> Seq(Chans \cup {TIMER, SKIP})] /\ temp' \in [Procs -> Nat]
        /\ due' \in [Procs -> Seq((-MaxLate - 1)..MaxDelay)]
    BY <1>1, <1>3 DEF TypeOK
  <2> QED
    BY ONLY <1>1, <1>3, <1>4, <1>5, <1>7, <2>2, <2>3, TypeStep
<1>21. CASE g \in Chans /\ chan[g] = Empty
  <2>1. chan' = [chan EXCEPT ![g] = Word(p, TRUE)]
    BY <1>9, <1>21
  <2>2. HasAlt(g, p)'
    BY <1>0, <1>3, <1>4, <1>5, <1>8, <1>21 DEF HasAlt
  <2> QED
    BY <1>2, <1>3, <1>8, <1>12, <1>13, <1>14, <1>15, <1>16, <1>17, <1>18, <1>19, <1>20, <1>21, <2>1, <2>2,
       OwnWordStep
<1>22. CASE ~(g \in Chans /\ chan[g] = Empty)
  <2>1. chan' = chan
    BY <1>1, <1>9, <1>22 DEF TypeOK
  <2> QED
    BY <1>2, <1>3, <1>12, <1>13, <1>14, <1>15, <1>16, <1>17, <1>18, <1>19, <1>20, <2>1, QuietStep
<1> QED
  BY <1>21, <1>22

LEMMA AltWaitStep == ASSUME TInv, NEW p \in Procs, AltWait(p) PROVE TInv'
<1>1. /\ TypeOK /\ RunLists /\ TimerLists /\ Position(p) /\ Selection(p) /\ Deadline(p)
  BY DEF TInv, Processes
<1>2. /\ CanRun(p) /\ tlink[p] # "link" /\ pc[p] = "wait" /\ Runs(p) /\ mode = "run"
      /\ turn \in Contexts /\ wptr[turn] = p
      /\ slot[p] \in {"enabling", "ready"} /\ temp[p] = 0
      /\ Len(due[p]) = Len(guards[p]) /\ guards[p] # <<>>
  <2>1. CanRun(p) /\ tlink[p] # "link" /\ pc[p] = "wait" /\ Runs(p) /\ mode = "run"
        /\ turn \in Contexts /\ wptr[turn] = p
    BY Running DEF AltWait
  <2> QED
    BY <1>1, <2>1 DEF Position, InAlt
<1>3. /\ pc' = [pc EXCEPT ![p] = "disable"] /\ idx' = [idx EXCEPT ![p] = 1]
      /\ wrapper' = wrapper /\ alive' = alive /\ sflag' = sflag /\ chan' = chan
      /\ temp' = temp /\ guards' = guards /\ due' = due
      /\ alarm' = alarm /\ itimer' = itimer /\ err' = err
  BY DEF AltWait, Goto, loop, os
<1>4. /\ pc'[p] = "disable" /\ idx'[p] = 1 /\ 1 \in DOMAIN guards[p] /\ Len(due[p]) # 0
      /\ \A r \in Procs \ {p} : pc'[r] = pc[r] /\ idx'[r] = idx[r]
      /\ pc' \in [Procs -> InAlt \cup {"idle", "in", "xin", "xend", "stopped"}]
      /\ idx' \in [Procs -> Nat]
  <2>1. guards[p] \in Seq(Chans \cup {TIMER, SKIP}) /\ guards[p] # <<>>
    BY <1>1, <1>2 DEF TypeOK
  <2>2. Len(guards[p]) \in Nat \ {0} /\ DOMAIN guards[p] = 1..Len(guards[p])
    BY <2>1
  <2>3. pc' \in [Procs -> InAlt \cup {"idle", "in", "xin", "xend", "stopped"}]
    BY <1>1, <1>3 DEF TypeOK, InAlt
  <2> QED
    BY <1>1, <1>2, <1>3, <2>2, <2>3 DEF TypeOK
<1>5. /\ \A i : i \in Offered(p) <=> i \in DOMAIN guards[p]
      /\ \A i : i \in Offered(p)' <=> i \in DOMAIN guards[p]
  <2>1. guards[p] \in Seq(Chans \cup {TIMER, SKIP})
    BY <1>1 DEF TypeOK
  <2>2. \A i \in DOMAIN guards[p] : i >= 1
    BY <2>1
  <2> QED
    BY <1>2, <1>3, <1>4, <2>2 DEF Offered
<1>6. /\ HasTimer(p) <=> \E i \in DOMAIN guards[p] : guards[p][i] = TIMER
      /\ HasTimer(p) => tlink[p] = "set" /\ \E i \in DOMAIN guards[p] : guards[p][i] = TIMER /\ due[p][i] = time[p]
      /\ ~HasTimer(p) => tlink[p] = "notset"
  <2>1. due[p] # <<>>
    BY <1>4
  <2>2. HasTimer(p) <=> \E i \in DOMAIN guards[p] : guards[p][i] = TIMER
    BY <2>1 DEF HasTimer, Timers
  <2> QED
    BY <1>1, <1>2, <1>5, <2>2 DEF Deadline
<1>7. ASSUME slot'[p] \in {"waiting", "ready"}, NEW d \in Chans, HasAlt(d, p) PROVE HasAlt(d, p)'
  <2>1. PICK i \in Offered(p) : guards[p][i] = d
    BY <1>7 DEF HasAlt
  <2>2. i \in Offered(p)' /\ guards'[p][i] = d
    BY <1>3, <1>5, <2>1
  <2> QED
    BY <1>7, <2>2 DEF HasAlt
<1>8. CASE /\ slot[p] = "ready" \/ (HasTimer(p) /\ After(0, time[p]))
           /\ slot' = [slot EXCEPT ![p] = "ready"] /\ time' = NowIn(p)
           /\ Continue /\ UNCHANGED <<runq, tq, tlink>>
  <2>1. /\ runq' = runq /\ tq' = tq /\ tlink' = tlink /\ wptr' = wptr /\ mode' = mode
        /\ then' = then /\ turn' = turn
    BY <1>8 DEF Continue
  <2>2. /\ slot'[p] = "ready" /\ \A r \in Procs \ {p} : slot'[r] = slot[r]
        /\ slot' \in [Procs -> {"none", "data", "enabling", "waiting", "ready"}]
    BY <1>1, <1>8 DEF TypeOK
  <2>3. /\ time'[p] = IF HasTimer(p) THEN 0 ELSE time[p]
        /\ \A r \in Procs \ {p} : time'[r] = time[r]
        /\ time' \in [Procs -> Times]
    <3>1. 0 \in Times
      BY BoundsAssumption DEF Times
    <3> QED
      BY <1>1, <1>8, <3>1 DEF TypeOK, NowIn
  <2>4. RunLists' /\ TimerLists' /\ Turns' /\ \A r \in Procs : CanRun(r)' <=> CanRun(r)
    BY <1>1, <1>2, <2>1, ListsSame, TimerListsSame, TurnsStep
  <2>5. TypeOK'
    BY <1>1, <1>3, <1>4, <2>1, <2>2, <2>3, TypeStep DEF TypeOK
  <2>6. \A r \in Procs \ {p} : Same(r)
    BY <1>3, <1>4, <2>1, <2>2, <2>3 DEF Same
  <2>7. Position(p)'
    BY <1>1, <1>2, <1>3, <1>4, <2>2, <2>4 DEF Position, InAlt
  <2>8. \E i \in DOMAIN guards[p] : Fires(p, i)'
    <3>1. CASE slot[p] = "ready"
      <4>1. PICK i \in Offered(p) : Fires(p, i) /\ guards[p][i] # TIMER
        BY <1>1, <1>2, <3>1 DEF Selection
      <4>2. i \in DOMAIN guards[p] /\ Fires(p, i)'
        BY <1>3, <1>5, <4>1 DEF Fires, Ready
      <4> QED
        BY <4>2
    <3>2. CASE HasTimer(p) /\ After(0, time[p])
      <4>1. PICK i \in DOMAIN guards[p] : guards[p][i] = TIMER /\ due[p][i] = time[p]
        BY <1>6, <3>2
      <4>2. tlink'[p] = "set" /\ time'[p] = 0 /\ due'[p][i] = time[p] /\ guards'[p][i] = TIMER
        BY <1>3, <1>6, <2>1, <2>3, <3>2, <4>1
      <4>3. ~After(time[p], 0)
        BY <1>1, <3>2, BoundsAssumption DEF After, TypeOK, Times
      <4>4. Fires(p, i)'
        BY <4>2, <4>3 DEF Fires, After
      <4> QED
        BY <4>4
    <3> QED
      BY <1>8, <3>1, <3>2
  <2>9. Selection(p)'
    BY <1>2, <1>3, <1>4, <1>5, <2>2, <2>8 DEF Selection
  <2>10. Deadline(p)'
    BY <1>2, <1>4, <1>6, <2>1, <2>2, <2>3 DEF Deadline
  <2> QED
    BY <1>2, <1>3, <1>7, <2>2, <2>4, <2>5, <2>6, <2>7, <2>9, <2>10, QuietStep
<1>9. CASE /\ slot[p] # "ready" /\ slot' = [slot EXCEPT ![p] = "waiting"]
           /\ IF HasTimer(p) THEN TimerQueueInsert(p, time[p] + 1)
              ELSE RunNext /\ UNCHANGED <<runq, timer>>
  <2>1. /\ slot'[p] = "waiting" /\ \A r \in Procs \ {p} : slot'[r] = slot[r]
        /\ slot' \in [Procs -> {"none", "data", "enabling", "waiting", "ready"}]
    BY <1>1, <1>9 DEF TypeOK
  <2>2. /\ RunLists' /\ TimerLists' /\ Turns' /\ TypeOK'
        /\ \A r \in Procs : CanRun(r)' <=> r # p /\ CanRun(r)
        /\ \A r \in Procs \ {p} : time'[r] = time[r] /\ tlink'[r] = tlink[r]
        /\ \/ HasTimer(p) /\ time'[p] = time[p] + 1 /\ tlink'[p] = "link"
           \/ ~HasTimer(p) /\ tlink'[p] = "notset"
    <3>1. CASE HasTimer(p)
      <4>1. PICK t : t = time[p] + 1
        OBVIOUS
      <4>2. TimerQueueInsert(p, t)
        BY <1>9, <3>1, <4>1
      <4>3. /\ RunLists' /\ TimerLists' /\ Turns' /\ turn' = turn
            /\ runq' \in RunQueueType /\ wptr' \in CurrentType /\ tq' \in [Contexts -> Seq(Procs)]
            /\ mode' \in {"alarm", "sync"} /\ then' \in {"sync", "run"}
            /\ \A r \in Procs : CanRun(r)' <=> r # p /\ CanRun(r)
            /\ time' = [time EXCEPT ![p] = t] /\ tlink' = [tlink EXCEPT ![p] = "link"]
        BY <1>1, <1>2, <4>2, InsertEffect
      <4>4. t \in Times
        <5>1. PICK i \in DOMAIN guards[p] : guards[p][i] = TIMER /\ due[p][i] = time[p]
          BY <1>6, <3>1
        <5>2. due[p] \in Seq((-MaxLate - 1)..MaxDelay) /\ guards[p] \in Seq(Chans \cup {TIMER, SKIP})
          BY <1>1 DEF TypeOK
        <5>3. i \in 1..Len(due[p])
          BY <1>2, <5>1, <5>2
        <5>4. time[p] \in (-MaxLate - 1)..MaxDelay
          BY <5>1, <5>2, <5>3, ElementOfSeq
        <5> QED
          BY <4>1, <5>4, BoundsAssumption DEF Times
      <4>5. time' \in [Procs -> Times] /\ tlink' \in [Procs -> {"notset", "set", "link"}]
        BY <1>1, <4>3, <4>4 DEF TypeOK
      <4>6. /\ guards' \in [Procs -> Seq(Chans \cup {TIMER, SKIP})] /\ temp' \in [Procs -> Nat]
            /\ due' \in [Procs -> Seq((-MaxLate - 1)..MaxDelay)]
        BY <1>1, <1>3 DEF TypeOK
      <4>7. TypeOK'
        BY ONLY <1>1, <1>3, <1>4, <2>1, <4>3, <4>5, <4>6, TypeStep
      <4> QED
        BY <1>1, <3>1, <4>1, <4>3, <4>7, ZenonT(60) DEF TypeOK
    <3>2. CASE ~HasTimer(p)
      <4>1. /\ wptr' = [wptr EXCEPT ![turn] = NULL] /\ mode' = "sync" /\ then' = then /\ turn' = turn
            /\ runq' = runq /\ tq' = tq /\ tlink' = tlink /\ time' = time
        BY <1>9, <3>2 DEF RunNext, timer
      <4>2. Load(NULL, IF FALSE THEN Queue(runq, p) ELSE runq) /\ NULL \notin Procs
        BY <4>1, NamesAssumption DEF Load, RunNext
      <4>3. /\ \A r \in Procs : CanRun(r)' <=> (r # p /\ CanRun(r)) \/ (r = p /\ FALSE) \/ r = NULL
            /\ RunLists' /\ runq' \in RunQueueType /\ wptr' \in CurrentType
        BY <1>1, <1>2, <4>2, LoadEffect
      <4>4. wptr'[turn'] = NULL
        BY <1>1, <1>2, <4>1 DEF TypeOK
      <4>5. Turns' /\ TimerLists'
        BY <1>1, <4>1, <4>4, TurnsStep, TimerListsSame
      <4>6. /\ guards' \in [Procs -> Seq(Chans \cup {TIMER, SKIP})] /\ temp' \in [Procs -> Nat]
            /\ due' \in [Procs -> Seq((-MaxLate - 1)..MaxDelay)]
            /\ time' \in [Procs -> Times] /\ tlink' \in [Procs -> {"notset", "set", "link"}]
        BY <1>1, <1>3, <4>1 DEF TypeOK
      <4>7. TypeOK'
        BY ONLY <1>1, <1>3, <1>4, <2>1, <4>1, <4>3, <4>6, TypeStep
      <4> QED
        BY <1>6, <3>2, <4>1, <4>2, <4>3, <4>5, <4>7
    <3> QED
      BY <3>1, <3>2
  <2>3. \A r \in Procs \ {p} : Same(r) /\ (CanRun(r)' <=> CanRun(r))
    BY <1>3, <1>4, <2>1, <2>2 DEF Same
  <2>4. Position(p)'
    BY <1>1, <1>2, <1>3, <1>4, <2>1, <2>2 DEF Position, InAlt
  <2>5. Selection(p)'
    <3>1. \A i \in DOMAIN guards[p] : (guards[p][i] \in Chans => chan[guards[p][i]] = Word(p, TRUE)) /\ guards[p][i] # SKIP
      BY <1>1, <1>2, <1>5, <1>9, WordsOffered
    <3> QED
      BY <1>2, <1>3, <1>4, <1>5, <2>1, <3>1 DEF Selection
  <2>6. Deadline(p)'
    <3>1. CASE HasTimer(p)
      <4>1. PICK i \in DOMAIN guards[p] : guards[p][i] = TIMER /\ due[p][i] = time[p]
        BY <1>6, <3>1
      <4>2. guards'[p] = guards[p] /\ due'[p][i] + 1 = time'[p] /\ tlink'[p] = "link"
        BY <1>3, <2>2, <3>1, <4>1
      <4> QED
        BY <1>4, <1>5, <4>1, <4>2 DEF Deadline
    <3>2. CASE ~HasTimer(p)
      BY <1>3, <1>4, <1>6, <2>2, <3>2 DEF Deadline
    <3> QED
      BY <3>1, <3>2
  <2> QED
    BY <1>2, <1>3, <1>7, <2>1, <2>2, <2>3, <2>4, <2>5, <2>6, QuietStep
<1> QED
  BY <1>8, <1>9 DEF AltWait

(* timer_queue_remove: p goes on, and takes itself off the timer queue.     *)
LEMMA RemoveEffect ==
  ASSUME TInv, NEW p \in Procs, Runs(p), tlink[p] = "link", TimerQueueRemove(p), turn' = turn, wptr' = wptr
  PROVE  /\ TimerLists' /\ Turns' /\ tq' \in [Contexts -> Seq(Procs)]
         /\ mode' \in {"alarm", "run"} /\ then' = "run"
         /\ tlink' = [tlink EXCEPT ![p] = "notset"]
<1>1. /\ TypeOK /\ TimerLists /\ turn \in Contexts /\ turn = Ctx[p]
  BY Running DEF TInv
<1>2. tq[turn] \in Seq(Procs) /\ IsInjective(tq[turn]) /\ p \in ToSet(tq[turn])
  BY <1>1 DEF TypeOK, TimerLists, Timed
<1>3. PICK q : q = RemoveAt(tq[turn], Place(tq[turn], p))
  OBVIOUS
<1>4. q \in Seq(Procs) /\ IsInjective(q) /\ ToSet(q) = ToSet(tq[turn]) \ {p}
  BY <1>2, <1>3, TimerRemoved
<1>5. /\ tq' = [tq EXCEPT ![turn] = q] /\ tlink' = [tlink EXCEPT ![p] = "notset"]
      /\ Enter(Head(tq[turn]) = p /\ q # <<>>, "run")
  BY <1>3 DEF TimerQueueRemove
<1>6. tq' \in [Contexts -> Seq(Procs)] /\ tq'[turn] = q /\ \A c \in Contexts \ {turn} : tq'[c] = tq[c]
  BY <1>1, <1>4, <1>5 DEF TypeOK
<1>7. mode' \in {"alarm", "run"} /\ then' = "run" /\ (mode' = "alarm" => q # <<>>)
  BY <1>5 DEF Enter
<1>8. Turns'
  BY <1>1, <1>6, <1>7 DEF Turns, Switching
<1>9. TimerLists'
  <2>1. \A c \in Contexts : IsInjective(tq'[c]) /\ \A r \in ToSet(tq'[c]) : Ctx[r] = c
    BY <1>1, <1>4, <1>6 DEF TimerLists
  <2>2. \A r \in Procs : r \in ToSet(tq'[Ctx[r]]) <=> tlink'[r] = "link"
    <3>1. tlink'[p] = "notset" /\ \A r \in Procs \ {p} : tlink'[r] = tlink[r]
      BY <1>1, <1>5 DEF TypeOK
    <3>2. \A r \in Procs : r \in ToSet(tq'[Ctx[r]]) <=> r # p /\ r \in ToSet(tq[Ctx[r]])
      BY <1>1, <1>4, <1>6, CtxType
    <3> QED
      BY <1>1, <3>1, <3>2 DEF TimerLists, Timed
  <2> QED
    BY <2>1, <2>2 DEF TimerLists, Timed
<1> QED
  BY <1>5, <1>6, <1>7, <1>8, <1>9

(* One guard is disabled.                                                   *)
LEMMA DisableAdvances ==
  ASSUME TypeOK, NEW p \in Procs, Position(p), pc[p] = "disable", Advance(p, "end"), guards' = guards
  PROVE  /\ \A i : i \in Offered(p)' <=> i \in Offered(p) /\ i # idx[p]
         /\ idx[p] \in DOMAIN guards[p] /\ idx[p] # 0
         /\ \/ pc'[p] = "disable" /\ idx'[p] \in DOMAIN guards'[p]
            \/ pc'[p] = "end" /\ \A i : i \notin Offered(p)'
         /\ \A r \in Procs \ {p} : pc'[r] = pc[r] /\ idx'[r] = idx[r]
         /\ idx' \in [Procs -> Nat]
         /\ pc' \in [Procs -> InAlt \cup {"idle", "in", "xin", "xend", "stopped"}]
<1>1. /\ idx[p] \in DOMAIN guards[p] /\ idx[p] \in Nat
      /\ DOMAIN guards[p] = 1..Len(guards[p]) /\ Len(guards[p]) \in Nat
  BY DEF Position, TypeOK
<1>2. CASE idx[p] < Len(guards[p])
  <2>1. idx' = [idx EXCEPT ![p] = idx[p] + 1] /\ pc' = pc
    BY <1>2 DEF Advance
  <2>2. pc'[p] = "disable" /\ idx'[p] = idx[p] + 1
    BY <2>1 DEF TypeOK
  <2>3. \A i \in DOMAIN guards[p] : i >= idx[p] + 1 <=> i >= idx[p] /\ i # idx[p]
    BY <1>1
  <2>4. \A i : i \in Offered(p)' <=> i \in Offered(p) /\ i # idx[p]
    BY <2>2, <2>3 DEF Offered
  <2>5. idx'[p] \in DOMAIN guards'[p]
    BY <1>1, <1>2, <2>2
  <2>6. idx' \in [Procs -> Nat] /\ \A r \in Procs \ {p} : idx'[r] = idx[r]
    BY <1>1, <2>1 DEF TypeOK
  <2> QED
    BY <1>1, <2>1, <2>2, <2>4, <2>5, <2>6 DEF TypeOK
<1>3. CASE ~(idx[p] < Len(guards[p]))
  <2>1. idx' = [idx EXCEPT ![p] = 0] /\ pc' = [pc EXCEPT ![p] = "end"]
    BY <1>3 DEF Advance, Goto
  <2>2. pc'[p] = "end" /\ idx[p] = Len(guards[p])
    BY <1>1, <1>3, <2>1 DEF TypeOK
  <2>3. pc' \in [Procs -> InAlt \cup {"idle", "in", "xin", "xend", "stopped"}]
    BY <2>1 DEF TypeOK, InAlt
  <2>4. \A i : i \notin Offered(p)'
    BY <2>2 DEF Offered
  <2>5. \A i \in Offered(p) : i = idx[p]
    BY <1>1, <2>2 DEF Offered
  <2> QED
    BY <1>1, <2>1, <2>2, <2>3, <2>4, <2>5 DEF TypeOK
<1> QED
  BY <1>2, <1>3

LEMMA DisableStep == ASSUME TInv, NEW p \in Procs, Disable(p) PROVE TInv'
<1>0. PICK g, k : g = guards[p][idx[p]] /\ k = idx[p]
  OBVIOUS
<1>1. /\ TypeOK /\ RunLists /\ TimerLists /\ Position(p) /\ Selection(p) /\ Deadline(p)
  BY DEF TInv, Processes
<1>2. /\ CanRun(p) /\ pc[p] = "disable" /\ Runs(p) /\ mode = "run"
      /\ turn \in Contexts /\ wptr[turn] = p /\ slot[p] = "ready"
      /\ Len(due[p]) = Len(guards[p]) /\ guards[p] # <<>>
  <2>1. CanRun(p) /\ pc[p] = "disable" /\ Runs(p) /\ mode = "run" /\ slot[p] # "waiting"
        /\ turn \in Contexts /\ wptr[turn] = p
    BY Running DEF Disable
  <2> QED
    BY <1>1, <2>1 DEF Position, InAlt
<1>3. /\ \/ g \in Chans /\ Disc(p, g)
         \/ g = SKIP /\ Diss(p)
         \/ g = TIMER /\ Dist(p, due[p][idx[p]])
      /\ Advance(p, "end")
      /\ wrapper' = wrapper /\ alive' = alive /\ turn' = turn /\ wptr' = wptr /\ runq' = runq
      /\ time' = time /\ sflag' = sflag /\ slot' = slot /\ guards' = guards /\ due' = due
      /\ alarm' = alarm /\ itimer' = itimer /\ err' = err
  BY <1>0 DEF Disable, Guard, loop, os, sched
<1>4. /\ \A i : i \in Offered(p)' <=> i \in Offered(p) /\ i # k
      /\ k \in DOMAIN guards[p] /\ k # 0
      /\ \/ pc'[p] = "disable" /\ idx'[p] \in DOMAIN guards'[p]
         \/ pc'[p] = "end" /\ \A i : i \notin Offered(p)'
      /\ \A r \in Procs \ {p} : pc'[r] = pc[r] /\ idx'[r] = idx[r]
      /\ idx' \in [Procs -> Nat]
      /\ pc' \in [Procs -> InAlt \cup {"idle", "in", "xin", "xend", "stopped"}]
  BY <1>0, <1>1, <1>2, <1>3, DisableAdvances
<1>5. g \in Chans => Reader[g] = p
  BY <1>0, <1>1, <1>4 DEF Position
<1>6. PICK ready \in BOOLEAN :
         /\ Select(p, ready)
         /\ g \in Chans => (ready <=> chan[g] \notin {Empty, Word(p, TRUE)})
         /\ g = SKIP => ready
         /\ g = TIMER => (ready <=> tlink[p] = "set" /\ ~After(due[p][k], time[p]))
  <2>1. CASE g \in Chans
    BY <1>3, <2>1, NamesAssumption DEF Disc
  <2>2. CASE g = SKIP
    BY <1>3, <2>2, NamesAssumption DEF Diss
  <2>3. CASE g = TIMER
    BY <1>0, <1>3, <2>3, NamesAssumption DEF Dist
  <2> QED
    BY <1>3, <2>1, <2>2, <2>3
<1>7. /\ temp'[p] = IF ready /\ temp[p] = 0 THEN k ELSE temp[p]
      /\ \A r \in Procs \ {p} : temp'[r] = temp[r]
      /\ temp' \in [Procs -> Nat]
  <2>1. temp' = [temp EXCEPT ![p] = IF ready /\ temp[p] = 0 THEN idx[p] ELSE temp[p]]
    BY <1>1, <1>6 DEF Select, TypeOK
  <2>2. idx[p] \in Nat /\ temp[p] \in Nat
    BY <1>1 DEF TypeOK
  <2> QED
    BY <1>0, <1>1, <2>1, <2>2 DEF TypeOK
<1>8. /\ g \notin Chans => chan' = chan
      /\ g \in Chans => chan' = [chan EXCEPT ![g] = IF chan[g] = Word(p, TRUE) THEN Empty ELSE chan[g]]
  <2>1. CASE g \in Chans
    BY <1>1, <1>3, <2>1, NamesAssumption DEF Disc, TypeOK
  <2>2. CASE g \notin Chans
    BY <1>3, <2>2 DEF Diss, Dist
  <2> QED
    BY <2>1, <2>2
<1>9. /\ TimerLists' /\ Turns' /\ (tq' = tq \/ tq' \in [Contexts -> Seq(Procs)])
      /\ mode' \in {"alarm", "run"} /\ then' \in {then, "run"}
      /\ tlink' \in [Procs -> {"notset", "set", "link"}]
      /\ \A r \in Procs \ {p} : tlink'[r] = tlink[r]
      /\ tlink'[p] = IF g = TIMER /\ tlink[p] = "link" THEN "notset" ELSE tlink[p]
  <2>1. CASE g = TIMER /\ tlink[p] = "link"
    <3>1. TimerQueueRemove(p)
      BY <1>3, <2>1, NamesAssumption DEF Dist
    <3>2. /\ TimerLists' /\ Turns' /\ tq' \in [Contexts -> Seq(Procs)]
          /\ mode' \in {"alarm", "run"} /\ then' = "run"
          /\ tlink' = [tlink EXCEPT ![p] = "notset"]
      BY <1>2, <1>3, <2>1, <3>1, RemoveEffect
    <3> QED
      BY <1>1, <2>1, <3>2 DEF TypeOK
  <2>2. CASE ~(g = TIMER /\ tlink[p] = "link")
    <3>1. tq' = tq /\ tlink' = tlink /\ mode' = mode /\ then' = then
      BY <1>3, <2>2 DEF Disc, Diss, Dist
    <3>2. Turns' /\ TimerLists'
      BY <1>1, <1>2, <3>1, TurnsStep, TimerListsSame
    <3> QED
      BY <1>1, <1>2, <2>2, <3>1, <3>2 DEF TypeOK
  <2> QED
    BY <2>1, <2>2
<1>10. \A d \in Chans : Ready(d) => Ready(d)'
  <2>1. ASSUME NEW d \in Chans PROVE chan'[d] = chan[d] \/ chan[d] = Word(p, TRUE)
    BY <1>1, <1>8, <2>1 DEF TypeOK
  <2>2. Word(p, TRUE) # Cut /\ \A d \in Chans : Word(p, TRUE) # Word(Writer[d], FALSE)
    BY WordParts
  <2> QED
    BY <2>1, <2>2 DEF Ready
<1>11. CanRun(p)' /\ RunLists' /\ \A r \in Procs : CanRun(r)' <=> CanRun(r)
  BY <1>1, <1>2, <1>3, ListsSame
<1>12. Position(p)'
  BY <1>1, <1>2, <1>3, <1>4, <1>7, <1>11 DEF Position, InAlt
<1>13. ASSUME ready, temp[p] = 0 PROVE Chosen(p, k)'
  <2>1. CASE g \in Chans
    <3>1. Ready(g)
      BY <1>2, <1>5, <1>6, <1>13, <2>1, OwnWord, ZenonT(60) DEF Ready
    <3> QED
      BY <1>0, <1>3, <1>4, <1>10, <2>1, <3>1 DEF Chosen, Ready
  <2>2. CASE g = SKIP
    BY <1>0, <1>3, <1>4, <2>2 DEF Chosen
  <2>3. CASE g = TIMER
    <3>1. tlink[p] = "set" /\ ~After(due[p][k], time[p]) /\ time[p] <= 0
      BY <1>1, <1>2, <1>6, <1>13, <2>3 DEF Deadline
    <3>2. due[p] \in Seq((-MaxLate - 1)..MaxDelay) /\ guards[p] \in Seq(Chans \cup {TIMER, SKIP})
      BY <1>1 DEF TypeOK
    <3>3. k \in 1..Len(due[p])
      BY <1>2, <1>4, <3>2
    <3>4. due[p][k] \in (-MaxLate - 1)..MaxDelay
      BY <3>2, <3>3, ElementOfSeq
    <3>5. time[p] \in Times
      BY <1>1 DEF TypeOK
    <3>6. ~After(due[p][k], 0)
      BY <3>1, <3>4, <3>5, BoundsAssumption DEF After, Times
    <3> QED
      BY <1>0, <1>3, <1>4, <2>3, <3>6 DEF Chosen, After
  <2> QED
    BY <1>3, <2>1, <2>2, <2>3
<1>14. ASSUME temp[p] # 0 PROVE Chosen(p, temp[p])'
  <2>1. Chosen(p, temp[p]) /\ temp'[p] = temp[p]
    BY <1>1, <1>2, <1>7, <1>14 DEF Selection
  <2> QED
    BY <1>3, <1>10, <2>1 DEF Chosen
<1>15. temp'[p] # 0 => Chosen(p, temp[p])'
  <2>1. CASE temp[p] # 0
    BY <1>14, <2>1
  <2>2. CASE temp[p] = 0 /\ ready
    <3>1. temp'[p] = k
      BY <1>7, <2>2
    <3> QED
      BY <1>13, <2>2, <3>1 DEF Chosen
  <2>3. CASE temp[p] = 0 /\ ~ready
    BY <1>7, <2>3
  <2> QED
    BY <2>1, <2>2, <2>3
<1>16. ASSUME temp'[p] = 0
       PROVE  \E i \in Offered(p) : i # k /\ Fires(p, i)'
  <2>1. temp[p] = 0 /\ ~ready
    BY <1>4, <1>7, <1>16
  <2>2. PICK i \in Offered(p) : Fires(p, i)
    BY <1>1, <1>2, <2>1 DEF Selection
  <2>3. i # k
    <3>1. ASSUME g \in Chans, Ready(g) PROVE FALSE
      <4>1. Word(Writer[g], FALSE) \notin {Empty, Word(p, TRUE)} /\ Cut \notin {Empty, Word(p, TRUE)}
        BY <3>1, WordParts, ProgramAssumption
      <4> QED
        BY <1>6, <2>1, <3>1, <4>1 DEF Ready
    <3> QED
      BY <1>0, <1>6, <2>1, <2>2, <3>1 DEF Fires
  <2>4. tlink[p] = "set" => tlink'[p] = "set"
    BY <1>9
  <2>5. Fires(p, i)'
    BY <1>3, <1>10, <2>2, <2>4 DEF Fires
  <2> QED
    BY <2>3, <2>5
<1>17. Selection(p)'
  <2>1. temp'[p] = 0 => \E i \in Offered(p)' : Fires(p, i)'
    BY <1>4, <1>16
  <2>2. pc'[p] = "end" => temp'[p] # 0
    BY <1>4, <2>1
  <2> QED
    BY <1>2, <1>3, <1>4, <1>15, <2>1, <2>2 DEF Selection
<1>18. Deadline(p)'
  <2>1. ASSUME tlink'[p] = "link"
        PROVE  /\ pc'[p] = "disable"
               /\ \A i \in DOMAIN guards[p] : guards[p][i] = TIMER => i \in Offered(p)'
               /\ \E i \in Offered(p)' : guards[p][i] = TIMER /\ due[p][i] + 1 = time[p]
    <3>1. tlink[p] = "link" /\ g # TIMER
      BY <1>9, <2>1
    <3>2. \A i \in DOMAIN guards[p] : guards[p][i] = TIMER => i \in Offered(p) /\ i # k
      BY <1>0, <1>1, <1>2, <3>1 DEF Deadline
    <3>3. PICK i \in Offered(p) : guards[p][i] = TIMER /\ due[p][i] + 1 = time[p]
      BY <1>1, <1>2, <3>1 DEF Deadline
    <3>4. i \in Offered(p)'
      BY <1>0, <1>4, <3>1, <3>3
    <3> QED
      BY <1>4, <3>2, <3>3, <3>4
  <2>2. tlink'[p] = "set" => time'[p] <= 0
    BY <1>1, <1>2, <1>3, <1>9 DEF Deadline
  <2> QED
    BY <1>2, <1>3, <1>4, <2>1, <2>2 DEF Deadline
<1>19. ASSUME NEW d \in Chans, d # g, HasAlt(d, p) PROVE HasAlt(d, p)'
  <2>1. PICK i \in Offered(p) : guards[p][i] = d
    BY <1>19 DEF HasAlt
  <2>2. i \in Offered(p)' /\ guards'[p][i] = d /\ slot'[p] = slot[p]
    BY <1>0, <1>3, <1>4, <1>19, <2>1
  <2> QED
    BY <1>19, <2>2 DEF HasAlt
<1>20. \A r \in Procs \ {p} : Same(r)
  BY <1>3, <1>4, <1>7, <1>9 DEF Same
<1>21. TypeOK'
  <2>1. chan' \in [Chans -> [who: Procs \cup {NULL}, alt: BOOLEAN]]
    <3>1. Empty \in [who: Procs \cup {NULL}, alt: BOOLEAN]
      BY DEF Empty, Word
    <3>2. CASE g \in Chans
      <4>1. (IF chan[g] = Word(p, TRUE) THEN Empty ELSE chan[g]) \in [who: Procs \cup {NULL}, alt: BOOLEAN]
        BY <1>1, <3>1, <3>2 DEF TypeOK
      <4> QED
        BY <1>1, <1>8, <3>2, <4>1 DEF TypeOK
    <3>3. CASE g \notin Chans
      BY <1>1, <1>8, <3>3 DEF TypeOK
    <3> QED
      BY <3>2, <3>3
  <2>2. /\ guards' \in [Procs -> Seq(Chans \cup {TIMER, SKIP})]
        /\ due' \in [Procs -> Seq((-MaxLate - 1)..MaxDelay)] /\ time' \in [Procs -> Times]
        /\ slot' \in [Procs -> {"none", "data", "enabling", "waiting", "ready"}]
    BY <1>1, <1>3 DEF TypeOK
  <2> QED
    BY ONLY <1>1, <1>3, <1>4, <1>7, <1>9, <2>1, <2>2, TypeStep
<1>22. CASE g \in Chans /\ chan[g] = Word(p, TRUE)
  <2>1. chan' = [chan EXCEPT ![g] = Empty]
    BY <1>8, <1>22
  <2> QED
    BY <1>2, <1>3, <1>5, <1>9, <1>11, <1>12, <1>17, <1>18, <1>19, <1>20, <1>21, <1>22, <2>1, OwnWordStep
<1>23. CASE ~(g \in Chans /\ chan[g] = Word(p, TRUE))
  <2>1. chan' = chan
    BY <1>1, <1>8, <1>23 DEF TypeOK
  <2>2. \A d \in Chans : chan[d] = Word(p, TRUE) /\ HasAlt(d, p) => HasAlt(d, p)'
    BY <1>19, <1>23
  <2> QED
    BY <1>2, <1>3, <1>9, <1>11, <1>12, <1>17, <1>18, <1>20, <1>21, <2>1, <2>2, QuietStep
<1> QED
  BY <1>22, <1>23

-----------------------------------------------------------------------------
(* Disconnection *)

(* Who is in a channel word, and in what state                              *)
LEMMA AltInWord ==
  ASSUME TInv, NEW c \in Chans, NEW r \in Procs, chan[c] = Word(r, TRUE)
  PROVE  /\ HasAlt(c, r) /\ r = Reader[c] /\ slot[r] \in {"enabling", "waiting", "ready"}
         /\ pc[r] \notin {"idle", "stopped"} /\ (CanRun(r) <=> slot[r] # "waiting")
<1>1. Words /\ Position(r)
  BY DEF TInv, Processes
<1>2. HasAlt(c, r)
  BY <1>1, NamesAssumption DEF Words, Word
<1>3. pc[r] \notin {"idle", "stopped"}
  BY <1>2, NoOffer
<1> QED
  BY <1>1, <1>2, <1>3 DEF HasAlt, Position

LEMMA WaiterInWord ==
  ASSUME TInv, NEW c \in Chans, NEW r \in Procs, chan[c] = Word(r, FALSE)
  PROVE  HasWaiter(c, r) /\ pc[r] = "idle" /\ slot[r] = "data" /\ ~CanRun(r)
<1>1. Words
  BY DEF TInv
<1>2. HasWaiter(c, r)
  BY <1>1, NamesAssumption DEF Words, Word
<1> QED
  BY <1>2 DEF HasWaiter

LEMMA InWord ==
  ASSUME TInv, NEW c \in Chans, NEW r \in Procs, chan[c].who = r
  PROVE  chan[c] = Word(r, TRUE) \/ chan[c] = Word(r, FALSE)
BY WordIs DEF TInv

(* Those released can run, in the contexts that they are in.                *)
LEMMA ReleaseEffect ==
  ASSUME TInv, Disconnect, wptr' = wptr
  PROVE  /\ RunLists' /\ runq' \in RunQueueType
         /\ \A r \in Procs : CanRun(r)' <=> CanRun(r) \/ r \in Released
         /\ \A r \in Released : r \in Procs /\ ~CanRun(r)
<1>1. TypeOK /\ RunLists
  BY DEF TInv
<1>2. ASSUME NEW r \in Released PROVE r \in Procs /\ ~CanRun(r)
  <2>1. PICK c \in TopLevel : r \in Procs /\ chan[c].who = r /\ (chan[c].alt => slot[r] = "waiting")
    BY DEF Released
  <2>2. c \in Chans
    BY <2>1, ProgramAssumption
  <2>3. CASE chan[c] = Word(r, TRUE)
    <3>1. slot[r] = "waiting"
      BY <2>1, <2>3 DEF Word
    <3> QED
      BY <2>1, <2>2, <2>3, <3>1, AltInWord
  <2>4. CASE chan[c] = Word(r, FALSE)
    BY <2>1, <2>2, <2>4, WaiterInWord
  <2> QED
    BY <2>1, <2>2, <2>3, <2>4, InWord
<1>3. ASSUME NEW c \in Contexts
      PROVE  /\ runq'[c] \in Seq(Procs) /\ IsInjective(runq'[c])
             /\ \A r : r \in ToSet(runq'[c]) <=> r \in ToSet(runq[c]) \/ (r \in Released /\ Ctx[r] = c)
  <2>1. PICK R : R = {r \in Released : Ctx[r] = c}
    OBVIOUS
  <2>2. R \in SUBSET Procs /\ IsFiniteSet(R)
    <3>1. R \in SUBSET Procs
      BY <1>2, <2>1
    <3> QED
      BY <3>1, ProcsAssumption, FS_Subset
  <2>3. PICK s : s = SetToSeq(R)
    OBVIOUS
  <2>4. s \in Seq(R) /\ IsInjective(s) /\ ToSet(s) = R
    BY <2>2, <2>3, Listing
  <2>5. s \in Seq(Procs)
    <3>1. Len(s) \in Nat /\ s \in [1..Len(s) -> R]
      BY <2>4
    <3>2. s \in [1..Len(s) -> Procs]
      BY <2>2, <3>1
    <3> QED
      BY <3>1, <3>2
  <2>6. runq[c] \in Seq(Procs) /\ IsInjective(runq[c])
    BY <1>1 DEF TypeOK, RunLists
  <2>7. ToSet(runq[c]) \cap ToSet(s) = {}
    <3>1. \A r \in Procs : r \in ToSet(runq[c]) => CanRun(r)
      BY DEF CanRun, OnQueue
    <3> QED
      BY <1>2, <2>1, <2>4, <3>1
  <2>8. runq'[c] = runq[c] \o s
    BY <2>1, <2>3 DEF Disconnect
  <2>9. /\ runq[c] \o s \in Seq(Procs) /\ IsInjective(runq[c] \o s)
        /\ ToSet(runq[c] \o s) = ToSet(runq[c]) \cup ToSet(s)
    BY <2>4, <2>5, <2>6, <2>7, Joined
  <2> QED
    BY <2>1, <2>4, <2>8, <2>9
<1>4. runq' \in RunQueueType
  <2>1. runq' = [c \in Contexts |-> runq'[c]]
    BY DEF Disconnect
  <2> QED
    BY <1>3, <2>1 DEF RunQueueType
<1>5. Lists(runq', wptr')
  <2>1. ASSUME NEW c \in Contexts PROVE \A r \in ToSet(runq'[c]) : Ctx[r] = c
    BY <1>1, <1>3 DEF RunLists
  <2>2. ASSUME NEW c \in Contexts, wptr[c] # NULL
        PROVE  Ctx[wptr[c]] = c /\ wptr[c] \notin ToSet(runq'[c])
    <3>1. Ctx[wptr[c]] = c /\ wptr[c] \notin ToSet(runq[c]) /\ wptr[c] \in Procs
      BY <1>1, <2>2 DEF RunLists, TypeOK
    <3>2. CanRun(wptr[c])
      BY <2>2 DEF CanRun
    <3> QED
      BY <1>2, <1>3, <3>1, <3>2
  <2> QED
    BY <1>3, <2>1, <2>2 DEF Lists
<1>6. ASSUME NEW r \in Procs PROVE CanRun(r)' <=> CanRun(r) \/ r \in Released
  <2>1. Can(runq', wptr', r) <=> Can(runq, wptr, r) \/ r \in Released
    BY <1>3, CtxType DEF Can
  <2> QED
    BY <2>1, ListsIs, ListsIsNext
<1> QED
  BY <1>2, <1>4, <1>5, <1>6, ListsIsNext

(* tvm_ectx_disconnect: who waited on a top-level channel goes on, an ALT   *)
(* finds a guard ready, and the others do not notice.                       *)
LEMMA Disconnection ==
  ASSUME TInv, Disconnect, wptr' = wptr, UNCHANGED <<timer, ws, err>>, TypeOK', Turns'
  PROVE  TInv'
<1>1. /\ TypeOK /\ RunLists /\ TimerLists /\ Words /\ ~err
      /\ \A r \in Procs : Position(r) /\ Selection(r) /\ Deadline(r)
  BY DEF TInv, Processes, NoErrors
<1>2. /\ RunLists' /\ \A r \in Procs : CanRun(r)' <=> CanRun(r) \/ r \in Released
  BY ReleaseEffect
<1>3. TopLevel \in SUBSET Chans
  BY ProgramAssumption
<1>4. \A c \in Chans : chan'[c] = IF c \in TopLevel THEN Cut ELSE chan[c]
  BY DEF Disconnect
<1>5. \A r \in Procs :
         slot'[r] = IF slot[r] \in {"waiting", "enabling"} /\ \E c \in TopLevel : chan[c] = Word(r, TRUE)
                    THEN "ready" ELSE slot[r]
  BY DEF Disconnect
<1>6. /\ temp' = temp /\ pc' = pc /\ guards' = guards /\ due' = due /\ idx' = idx
      /\ tq' = tq /\ tlink' = tlink /\ time' = time /\ err' = err
  BY DEF timer, ws
<1>7. \A c \in Chans : Ready(c) => Ready(c)'
  BY <1>4 DEF Ready
<1>8. \A r \in Procs :
         r \in Released <=> \E c \in TopLevel : \/ chan[c] = Word(r, FALSE)
                                                \/ chan[c] = Word(r, TRUE) /\ slot[r] = "waiting"
  <2>1. ASSUME NEW r \in Procs, NEW c \in TopLevel
        PROVE  chan[c].who = r /\ (chan[c].alt => slot[r] = "waiting") <=>
                  \/ chan[c] = Word(r, FALSE)
                  \/ chan[c] = Word(r, TRUE) /\ slot[r] = "waiting"
    <3>1. c \in Chans
      BY <1>3
    <3>2. chan[c].who = r => chan[c] = Word(r, TRUE) \/ chan[c] = Word(r, FALSE)
      BY <3>1, InWord
    <3>3. /\ Word(r, TRUE).who = r /\ Word(r, FALSE).who = r
          /\ Word(r, TRUE).alt = TRUE /\ Word(r, FALSE).alt = FALSE
      BY DEF Word
    <3> QED
      BY <3>2, <3>3
  <2> QED
    BY <2>1 DEF Released
<1>9. ASSUME NEW r \in Procs PROVE (Position(r) /\ Selection(r) /\ Deadline(r))'
  <2>1. ASSUME NEW c \in TopLevel, chan[c] = Word(r, TRUE) PROVE (Position(r) /\ Selection(r) /\ Deadline(r))'
    <3>1. c \in Chans /\ Ready(c)'
      BY <1>3, <1>4 DEF Ready
    <3>2. /\ HasAlt(c, r) /\ slot[r] \in {"enabling", "waiting", "ready"}
          /\ (CanRun(r) <=> slot[r] # "waiting")
      BY <2>1, <3>1, AltInWord
    <3>3. slot'[r] = "ready"
      BY <1>5, <2>1, <3>2
    <3>4. CanRun(r)'
      BY <1>2, <1>8, <2>1, <3>2
    <3> QED
      BY <1>1, <1>6, <1>7, <3>1, <3>2, <3>3, <3>4, AltTriggered
  <2>2. ASSUME \A c \in TopLevel : chan[c] # Word(r, TRUE) PROVE Same(r)
    BY <1>5, <1>6, <2>2 DEF Same
  <2>3. ASSUME NEW c \in TopLevel, chan[c] = Word(r, FALSE) PROVE (Position(r) /\ Selection(r) /\ Deadline(r))'
    <3>1. c \in Chans
      BY <1>3
    <3>2. HasWaiter(c, r) /\ pc[r] = "idle"
      BY <2>3, <3>1, WaiterInWord
    <3>3. \A d \in TopLevel : chan[d] # Word(r, TRUE)
      BY <1>3, <3>2, AltInWord
    <3>4. CanRun(r)'
      BY <1>2, <1>8, <2>3
    <3> QED
      BY <1>1, <2>2, <3>1, <3>2, <3>3, <3>4, Resumed
  <2>4. ASSUME \A c \in TopLevel : chan[c] \notin {Word(r, TRUE), Word(r, FALSE)}
        PROVE  (Position(r) /\ Selection(r) /\ Deadline(r))'
    <3>1. Same(r) /\ (CanRun(r)' <=> CanRun(r))
      BY <1>2, <1>8, <2>2, <2>4
    <3>2. \A c \in Chans : chan[c] \in {Word(r, TRUE), Word(r, FALSE)} => chan'[c] = chan[c]
      BY <1>4, <2>4
    <3> QED
      BY <1>1, <1>7, <3>1, <3>2, Kept
  <2> QED
    BY <2>1, <2>3, <2>4
<1>10. Words'
  <2>1. \A c \in Chans \ TopLevel : chan'[c] = chan[c]
    BY <1>4
  <2>2. ASSUME NEW c \in Chans, NEW r \in Procs, chan'[c] = Word(r, TRUE), c \notin TopLevel => HasAlt(c, r)
        PROVE  HasAlt(c, r)'
    <3>1. c \notin TopLevel /\ HasAlt(c, r) /\ chan[c] = Word(r, TRUE)
      BY <1>4, <2>2, WordParts
    <3>2. CASE \A d \in TopLevel : chan[d] # Word(r, TRUE)
      <4>1. Same(r)
        BY <1>5, <1>6, <3>2 DEF Same
      <4> QED
        BY <3>1, <4>1, AltSame
    <3>3. ASSUME NEW d \in TopLevel, chan[d] = Word(r, TRUE) PROVE HasAlt(c, r)'
      <4>1. d \in Chans /\ HasAlt(d, r) /\ d # c
        BY <1>3, <3>1, <3>3, AltInWord
      <4>2. pc[r] # "xin"
        BY <3>1, <4>1 DEF HasAlt, Offered
      <4>3. \A i : i \in Offered(r)' <=> i \in Offered(r)
        BY <1>6, <4>2 DEF Offered
      <4>4. slot'[r] = "ready"
        BY <1>5, <3>3, <4>1 DEF HasAlt
      <4> QED
        BY <1>6, <3>1, <4>3, <4>4 DEF HasAlt
    <3> QED
      BY <3>2, <3>3
  <2>3. ASSUME NEW c \in Chans, NEW r \in Procs, chan'[c] = Word(r, FALSE), c \notin TopLevel => HasWaiter(c, r)
        PROVE  HasWaiter(c, r)'
    <3>1. c \notin TopLevel /\ HasWaiter(c, r) /\ chan[c] = Word(r, FALSE)
      BY <1>4, <2>3, WordParts
    <3>2. \A d \in TopLevel : chan[d] \notin {Word(r, TRUE), Word(r, FALSE)}
      <4>1. \A d \in TopLevel : chan[d] # Word(r, TRUE)
        BY <1>3, <3>1, AltInWord DEF HasWaiter
      <4>2. \A d \in TopLevel : chan[d] # Word(r, FALSE)
        BY <1>1, <1>3, <3>1, OneWord
      <4> QED
        BY <4>1, <4>2
    <3>3. Same(r) /\ (CanRun(r)' => CanRun(r))
      BY <1>2, <1>5, <1>6, <1>8, <3>2 DEF Same
    <3> QED
      BY <3>1, <3>3, WaiterSame
  <2>4. \A x \in TopLevel, d \in Chans : Plain(chan'[x]) /\ chan'[x] = chan'[d] => x = d
    BY <1>3, <1>4 DEF Cut, Plain, Word
  <2> QED
    BY <1>1, <1>3, <2>1, <2>2, <2>3, <2>4, WordsStep
<1>11. TimerLists' /\ NoErrors'
  BY <1>1, <1>6, TimerListsSame DEF NoErrors
<1> QED
  BY <1>2, <1>9, <1>10, <1>11 DEF TInv, Processes

LEMMA DisconnectType ==
  ASSUME TypeOK, Disconnect
  PROVE  /\ chan' \in [Chans -> [who: Procs \cup {NULL}, alt: BOOLEAN]]
         /\ slot' \in [Procs -> {"none", "data", "enabling", "waiting", "ready"}]
<1>1. Cut \in [who: Procs \cup {NULL}, alt: BOOLEAN]
  BY DEF Cut, Word
<1>2. chan' \in [Chans -> [who: Procs \cup {NULL}, alt: BOOLEAN]]
  BY <1>1 DEF TypeOK, Disconnect
<1>3. slot' \in [Procs -> {"none", "data", "enabling", "waiting", "ready"}]
  BY DEF TypeOK, Disconnect
<1> QED
  BY <1>2, <1>3

LEMMA KillUserStep == ASSUME TInv, NEW p \in Procs, KillUser(p) PROVE TInv'
<1>1. TypeOK /\ Runs(p) /\ mode = "run"
  BY Running DEF TInv, KillUser, Enters
<1>2. /\ Disconnect /\ alive' = FALSE /\ wptr' = wptr /\ mode' = mode /\ then' = then /\ turn' = turn
      /\ wrapper' = wrapper /\ sflag' = sflag /\ alarm' = alarm /\ itimer' = itimer
      /\ UNCHANGED <<timer, ws, err>>
  BY DEF KillUser, Continue, os
<1>3. Turns'
  BY <1>1, <1>2, TurnsStep
<1>4. TypeOK'
  <2>1. runq' \in RunQueueType
    BY <1>2, ReleaseEffect
  <2>2. /\ chan' \in [Chans -> [who: Procs \cup {NULL}, alt: BOOLEAN]]
        /\ slot' \in [Procs -> {"none", "data", "enabling", "waiting", "ready"}]
    BY <1>1, <1>2, DisconnectType
  <2>3. /\ temp' = temp /\ pc' = pc /\ guards' = guards /\ due' = due /\ idx' = idx
        /\ tq' = tq /\ tlink' = tlink /\ time' = time /\ err' = err
    BY <1>2 DEF timer, ws
  <2> QED
    BY <1>1, <1>2, <2>1, <2>2, <2>3 DEF TypeOK, RunQueueType
<1> QED
  BY <1>2, <1>3, <1>4, Disconnection

-----------------------------------------------------------------------------
(* The scheduler *)

(* Steps that move nobody                                                   *)
LEMMA NobodyMoves ==
  ASSUME TInv, UNCHANGED <<timer, chan, slot, ws, err>>, TypeOK', Turns', RunLists',
         \A r \in Procs : CanRun(r)' <=> CanRun(r)
  PROVE  TInv'
<1>1. /\ Words /\ TimerLists /\ ~err /\ \A r \in Procs : Position(r) /\ Selection(r) /\ Deadline(r)
  BY DEF TInv, Processes, NoErrors
<1>2. /\ chan' = chan /\ err' = err /\ tq' = tq /\ tlink' = tlink
      /\ \A r \in Procs : Same(r)
  BY DEF timer, ws, Same
<1>3. ASSUME NEW r \in Procs PROVE (Position(r) /\ Selection(r) /\ Deadline(r))'
  BY <1>1, <1>2, KeptQuietly
<1>4. ASSUME NEW d \in Chans, NEW r \in Procs, HasAlt(d, r) PROVE HasAlt(d, r)'
  BY <1>2, <1>4, AltSame
<1>5. ASSUME NEW d \in Chans, NEW r \in Procs, HasWaiter(d, r) PROVE HasWaiter(d, r)'
  BY <1>2, <1>5, WaiterSame
<1>6. Words'
  BY <1>1, <1>2, <1>4, <1>5, WordsQuietly
<1>7. TimerLists' /\ NoErrors'
  BY <1>1, <1>2, TimerListsSame DEF NoErrors
<1> QED
  BY <1>3, <1>6, <1>7 DEF TInv, Processes

LEMMA NothingMoves ==
  ASSUME TInv, UNCHANGED <<sched, timer, chan, slot, ws, err>>, TypeOK', Turns'
  PROVE  TInv'
<1>1. RunLists
  BY DEF TInv
<1>2. RunLists' /\ \A r \in Procs : CanRun(r)' <=> CanRun(r)
  BY <1>1, ListsSame DEF sched
<1> QED
  BY <1>2, NobodyMoves

(* The types of what the scheduler and the main loop assign                 *)
LEMMA LoopType ==
  ASSUME TypeOK, UNCHANGED <<timer, ws, err, wrapper, wptr>>,
         alive' \in BOOLEAN, turn' \in Contexts \cup {"sleep", "off"},
         mode' \in {"sync", "walk", "alarm", "itimer", "pick", "run"}, then' \in {"sync", "pick", "run"},
         runq' = runq \/ runq' \in RunQueueType,
         sflag' = sflag \/ sflag' \in [Contexts -> BOOLEAN],
         chan' = chan \/ chan' \in [Chans -> [who: Procs \cup {NULL}, alt: BOOLEAN]],
         slot' = slot \/ slot' \in [Procs -> {"none", "data", "enabling", "waiting", "ready"}],
         alarm' = alarm \/ alarm' \in [set: BOOLEAN, at: Int, t: {Off, Far} \cup 1..(MaxDelay + 1)],
         itimer' = itimer \/ itimer' \in {Off, Far} \cup 0..(MaxDelay + 1)
  PROVE  TypeOK'
<1>1. /\ temp' = temp /\ pc' = pc /\ guards' = guards /\ due' = due /\ idx' = idx
      /\ tq' = tq /\ tlink' = tlink /\ time' = time /\ err' = err /\ wrapper' = wrapper /\ wptr' = wptr
  BY DEF timer, ws
<1>2. /\ runq' \in [Contexts -> Seq(Procs)]
      /\ sflag' \in [Contexts -> BOOLEAN]
      /\ chan' \in [Chans -> [who: Procs \cup {NULL}, alt: BOOLEAN]]
      /\ slot' \in [Procs -> {"none", "data", "enabling", "waiting", "ready"}]
      /\ alarm' \in [set: BOOLEAN, at: Int, t: {Off, Far} \cup 1..(MaxDelay + 1)]
      /\ itimer' \in {Off, Far} \cup 0..(MaxDelay + 1)
  BY DEF TypeOK, RunQueueType
<1> QED
  BY <1>1, <1>2 DEF TypeOK

LEMMA BeginTurns ==
  ASSUME TypeOK, NEW c \in Contexts, Begin(c), wptr' = wptr
  PROVE  Turns' /\ turn' \in Contexts /\ mode' \in {"sync", "run"}
<1>1. turn' = c /\ mode' = IF wptr[c] = NULL THEN "sync" ELSE "run"
  BY DEF Begin
<1> QED
  BY <1>1, TurnsStep

LEMMA RoundTurns ==
  ASSUME TypeOK, Round, wptr' = wptr, mode \in {"pick", "sync"}
  PROVE  Turns' /\ turn' \in Contexts \cup {"sleep"} /\ mode' \in {"sync", "run", "pick"}
<1>1. CASE turn' = "sleep" /\ UNCHANGED mode
  BY <1>1 DEF Turns, Contexts
<1>2. CASE Begin("firmware")
  <2>1. "firmware" \in Contexts
    BY DEF Contexts
  <2> QED
    BY <1>2, <2>1, BeginTurns
<1> QED
  BY <1>1, <1>2 DEF Round

LEMMA UserBreaksDownStep == ASSUME TInv, UserBreaksDown PROVE TInv'
<1>1. /\ TypeOK /\ mode \in {"pick", "sync"}
      /\ then' = then /\ wptr' = wptr /\ wrapper' = wrapper /\ sflag' = sflag /\ alarm' = alarm
      /\ itimer' = itimer /\ UNCHANGED <<timer, ws, err>> /\ "firmware" \in Contexts
  BY DEF TInv, UserBreaksDown, Picking, os, Contexts
<1>2. CASE turn' = "off" /\ UNCHANGED <<alive, chan, slot, runq, mode>>
  <2>1. Turns'
    BY <1>1, <1>2 DEF Turns, Contexts
  <2>2. TypeOK'
    BY <1>1, <1>2, LoopType DEF TypeOK
  <2> QED
    BY <1>1, <1>2, <2>1, <2>2, NothingMoves DEF sched
<1>3. CASE alive' = FALSE /\ Disconnect /\ Begin("firmware")
  <2>1. Turns' /\ turn' \in Contexts /\ mode' \in {"sync", "run"}
    BY <1>1, <1>3, BeginTurns
  <2>2. TypeOK'
    <3>1. runq' \in RunQueueType
      BY <1>1, <1>3, ReleaseEffect
    <3>2. /\ chan' \in [Chans -> [who: Procs \cup {NULL}, alt: BOOLEAN]]
          /\ slot' \in [Procs -> {"none", "data", "enabling", "waiting", "ready"}]
      BY <1>1, <1>3, DisconnectType
    <3>3. then \in {"sync", "pick", "run"}
      BY <1>1 DEF TypeOK
    <3> QED
      BY <1>1, <1>3, <2>1, <3>1, <3>2, <3>3, LoopType
  <2> QED
    BY <1>1, <1>3, <2>1, <2>2, Disconnection
<1> QED
  BY <1>2, <1>3 DEF UserBreaksDown

LEMMA FirmwareStopsStep == ASSUME TInv, FirmwareStops PROVE TInv'
<1>1. /\ TypeOK /\ mode \in {"pick", "sync"} /\ "user" \in Contexts
      /\ UNCHANGED <<loop, then, sched, timer, sflag, chan, slot, ws, os, err>>
  BY DEF TInv, FirmwareStops, Picking, Contexts
<1>2. Turns' /\ turn' \in Contexts \cup {"sleep"} /\ mode' \in {"sync", "run", "pick"}
  BY <1>1, BeginTurns, RoundTurns DEF FirmwareStops, sched
<1>3. TypeOK'
  BY <1>1, <1>2, LoopType DEF TypeOK, loop, sched, os
<1> QED
  BY <1>1, <1>2, <1>3, NothingMoves

LEMMA UserStopsStep == ASSUME TInv, UserStops PROVE TInv'
<1>1. /\ TypeOK /\ mode \in {"pick", "sync"}
      /\ UNCHANGED <<loop, then, sched, timer, sflag, chan, slot, ws, os, err>>
  BY DEF TInv, UserStops, Picking
<1>2. Turns' /\ turn' \in Contexts \cup {"sleep"} /\ mode' \in {"sync", "run", "pick"}
  BY <1>1, RoundTurns DEF UserStops, sched
<1>3. TypeOK'
  BY <1>1, <1>2, LoopType DEF TypeOK, loop, sched, os
<1> QED
  BY <1>1, <1>2, <1>3, NothingMoves

LEMMA SliceStep == ASSUME TInv, Slice \/ Awake PROVE TInv'
<1>1. /\ TypeOK /\ "firmware" \in Contexts /\ Begin("firmware")
      /\ UNCHANGED <<loop, then, sched, timer, sflag, chan, slot, ws, os, err>>
  BY DEF TInv, Slice, Awake, Contexts
<1>2. Turns' /\ turn' \in Contexts /\ mode' \in {"sync", "run"}
  BY <1>1, BeginTurns DEF sched
<1>3. TypeOK'
  BY <1>1, <1>2, LoopType DEF TypeOK, loop, sched, os
<1> QED
  BY <1>1, <1>2, <1>3, NothingMoves

LEMMA SigAlrmStep == ASSUME TInv, SigAlrm PROVE TInv'
<1>1. /\ TypeOK /\ Turns /\ "firmware" \in Contexts
      /\ UNCHANGED <<loop, then, sched, timer, chan, slot, ws, err>>
      /\ sflag' \in [Contexts -> BOOLEAN] /\ itimer' = Off
      /\ alarm' = [alarm EXCEPT !.set = FALSE, !.at = 0]
  BY DEF TInv, SigAlrm, Contexts
<1>2. alarm' \in [set: BOOLEAN, at: Int, t: {Off, Far} \cup 1..(MaxDelay + 1)]
  <2>1. alarm \in [set: BOOLEAN, at: Int, t: {Off, Far} \cup 1..(MaxDelay + 1)]
    BY <1>1 DEF TypeOK
  <2>2. alarm.t \in {Off, Far} \cup 1..(MaxDelay + 1)
    BY <2>1
  <2>3. alarm' = [set |-> FALSE, at |-> 0, t |-> alarm.t]
    BY <1>1, <2>1
  <2> QED
    BY <2>2, <2>3
<1>3. /\ Turns' /\ turn' \in Contexts \cup {"sleep", "off"}
      /\ mode' \in {"sync", "walk", "alarm", "itimer", "pick", "run"}
  <2>1. CASE Begin("firmware")
    BY <1>1, <2>1, BeginTurns DEF sched
  <2>2. CASE UNCHANGED <<turn, mode>>
    BY <1>1, <2>2 DEF Turns, Switching, Expired, TNEXT, TypeOK, sched, timer
  <2> QED
    BY <2>1, <2>2 DEF SigAlrm
<1>4. TypeOK'
  BY <1>1, <1>2, <1>3, LoopType DEF TypeOK, loop, sched
<1> QED
  BY <1>1, <1>3, <1>4, NothingMoves

LEMMA SynchroniseStep == ASSUME TInv, Synchronise PROVE TInv'
<1>1. /\ TypeOK /\ Turns /\ turn \in Contexts /\ mode = "sync" /\ turn' = turn
      /\ UNCHANGED <<loop, then, sched, timer, chan, slot, ws, os, err>>
  BY DEF TInv, Synchronise
<1>2. wptr[turn] = NULL
  BY <1>1 DEF Turns, Switching
<1>3. /\ sflag' = sflag \/ sflag' \in [Contexts -> BOOLEAN]
      /\ mode' = "pick" \/ (mode' = "walk" /\ Expired(turn))
  <2>1. CASE Expired(turn) /\ mode' = "walk" /\ UNCHANGED <<timer, sflag>>
    BY <2>1
  <2>2. CASE FlagAfterWalk(turn) /\ mode' = "pick"
    <3>1. sflag \in [Contexts -> BOOLEAN]
      BY <1>1 DEF TypeOK
    <3> QED
      BY <1>1, <2>2, <3>1 DEF FlagAfterWalk
  <2> QED
    BY <2>1, <2>2 DEF Synchronise
<1>4. Turns'
  BY <1>1, <1>2, <1>3 DEF Turns, Expired, TNEXT, sched, timer
<1>5. TypeOK'
  BY <1>1, <1>3, LoopType DEF TypeOK, loop, sched, os
<1> QED
  BY <1>1, <1>4, <1>5, NothingMoves

(* The time of a process at the head of a timer queue                       *)
LEMMA FirstTime ==
  ASSUME TypeOK, NEW c \in Contexts, tq[c] # <<>>
  PROVE  TNEXT(c) \in Times
<1>1. tq[c] \in Seq(Procs) /\ Head(tq[c]) \in Procs
  BY DEF TypeOK
<1> QED
  BY <1>1 DEF TNEXT, TypeOK

LEMMA ResumeTurns ==
  ASSUME TypeOK, Turns, mode \in {"alarm", "itimer"}, Resume, turn' = turn, wptr' = wptr
  PROVE  Turns' /\ mode' \in {"sync", "pick", "run"} /\ then' = "run"
<1>1. mode' = then /\ then' = "run" /\ then \in {"sync", "pick", "run"}
  BY DEF Resume, TypeOK
<1> QED
  BY <1>1 DEF Turns, Switching

LEMMA SetAlarmStep == ASSUME TInv, SetAlarm PROVE TInv'
<1>1. /\ TypeOK /\ Turns /\ turn \in Contexts /\ mode = "alarm" /\ turn' = turn
      /\ UNCHANGED <<loop, sched, timer, chan, slot, ws, itimer, err>> /\ wptr' = wptr
  BY DEF TInv, SetAlarm, sched
<1>2. PICK next : next = TNEXT(turn)
  OBVIOUS
<1>3. next \in Times
  BY <1>1, <1>2, FirstTime DEF Turns
<1>4. CASE Resume /\ (sflag' = sflag \/ sflag' = [sflag EXCEPT ![turn] = TRUE]) /\ alarm' = alarm
  <2>1. Turns' /\ mode' \in {"sync", "pick", "run"} /\ then' = "run"
    BY <1>1, <1>4, ResumeTurns
  <2>2. sflag' \in [Contexts -> BOOLEAN]
    BY <1>1, <1>4 DEF TypeOK
  <2>3. TypeOK'
    BY <1>1, <1>4, <2>1, <2>2, LoopType DEF TypeOK, loop, sched
  <2> QED
    BY <1>1, <2>1, <2>3, NothingMoves
<1>5. CASE /\ sflag' = [sflag EXCEPT ![turn] = @ \/ ~After(next, 0)]
           /\ alarm' = [set |-> TRUE, at |-> next,
                        t |-> IF After(next, 0) THEN next ELSE IF next = 0 THEN Off ELSE Far]
           /\ mode' = "itimer" /\ UNCHANGED then
  <2>1. Turns'
    BY <1>1, <1>5 DEF Turns, Switching
  <2>2. sflag' \in [Contexts -> BOOLEAN]
    BY <1>1, <1>5 DEF TypeOK
  <2>3. (IF After(next, 0) THEN next ELSE IF next = 0 THEN Off ELSE Far) \in {Off, Far} \cup 1..(MaxDelay + 1)
    BY <1>3, BoundsAssumption DEF After, Times
  <2>4. next \in Int
    BY <1>3, BoundsAssumption DEF Times
  <2>5. alarm' \in [set: BOOLEAN, at: Int, t: {Off, Far} \cup 1..(MaxDelay + 1)]
    BY <1>5, <2>3, <2>4
  <2>6. TypeOK'
    BY <1>1, <1>5, <2>2, <2>5, LoopType DEF TypeOK, loop, sched
  <2> QED
    BY <1>1, <2>1, <2>6, NothingMoves
<1> QED
  BY <1>2, <1>4, <1>5 DEF SetAlarm

LEMMA SetItimerStep == ASSUME TInv, SetItimer PROVE TInv'
<1>1. /\ TypeOK /\ Turns /\ mode = "itimer" /\ turn' = turn /\ Resume
      /\ UNCHANGED <<loop, sched, timer, sflag, chan, slot, ws, err>> /\ wptr' = wptr
      /\ itimer' = alarm.t /\ alarm' = [alarm EXCEPT !.t = Off]
  BY DEF TInv, SetItimer, sched
<1>2. Turns' /\ mode' \in {"sync", "pick", "run"} /\ then' = "run"
  BY <1>1, ResumeTurns
<1>3. /\ alarm' \in [set: BOOLEAN, at: Int, t: {Off, Far} \cup 1..(MaxDelay + 1)]
      /\ itimer' \in {Off, Far} \cup 0..(MaxDelay + 1)
  <2>1. alarm \in [set: BOOLEAN, at: Int, t: {Off, Far} \cup 1..(MaxDelay + 1)]
    BY <1>1 DEF TypeOK
  <2>2. alarm.t \in {Off, Far} \cup 1..(MaxDelay + 1)
    BY <2>1
  <2>3. 1..(MaxDelay + 1) \subseteq 0..(MaxDelay + 1)
    BY BoundsAssumption
  <2> QED
    BY <1>1, <2>1, <2>2, <2>3
<1>4. TypeOK'
  BY <1>1, <1>2, <1>3, LoopType DEF TypeOK, loop, sched
<1> QED
  BY <1>1, <1>2, <1>4, NothingMoves

LEMMA PickNextStep == ASSUME TInv, PickNext PROVE TInv'
<1>1. /\ TypeOK /\ Turns /\ RunLists /\ turn \in Contexts /\ mode \in {"pick", "sync"} /\ runq[turn] # <<>>
      /\ wptr' = [wptr EXCEPT ![turn] = Head(runq[turn])]
      /\ runq' = [runq EXCEPT ![turn] = Tail(runq[turn])]
      /\ mode' = "run" /\ turn' = turn /\ then' = then
      /\ UNCHANGED <<loop, timer, sflag, chan, slot, ws, os, err>>
  BY DEF TInv, PickNext, Picking
<1>2. wptr[turn] = NULL
  BY <1>1 DEF Turns, Switching
<1>3. /\ runq \in RunQueueType /\ wptr \in CurrentType /\ Lists(runq, wptr)
      /\ \A r \in Procs : CanRun(r) <=> Can(runq, wptr, r)
  BY <1>1, ListsIs DEF TypeOK, RunQueueType, CurrentType
<1>4. PICK p, rest : p = Head(runq[turn]) /\ rest = Tail(runq[turn])
  OBVIOUS
<1>5. /\ p \in Procs /\ rest \in Seq(Procs) /\ IsInjective(rest) /\ p \notin ToSet(rest)
      /\ \A r : r \in ToSet(runq[turn]) <=> r = p \/ r \in ToSet(rest)
  <2>1. runq[turn] \in Seq(Procs) /\ IsInjective(runq[turn])
    BY <1>1, <1>3 DEF RunQueueType, Lists
  <2> QED
    BY <1>1, <1>4, <2>1, HeadAndTail
<1>6. /\ runq' \in RunQueueType /\ runq'[turn] = rest
      /\ \A c \in Contexts \ {turn} : runq'[c] = runq[c]
  BY <1>1, <1>3, <1>4, <1>5 DEF RunQueueType
<1>7. Ctx[p] = turn
  BY <1>1, <1>3, <1>5 DEF Lists
<1>8. Lists(runq', wptr)
  BY <1>3, <1>5, <1>6 DEF Lists
<1>9. ~Can(runq', wptr, p)
  <2>1. p # NULL
    BY <1>5, NamesAssumption
  <2>2. \A c \in Contexts : wptr[c] # p
    BY <1>1, <1>2, <1>3, <1>5, <1>7, <2>1 DEF Lists
  <2>3. \A c \in Contexts : p \notin ToSet(runq'[c])
    BY <1>3, <1>5, <1>6, <1>7 DEF Lists
  <2> QED
    BY <2>2, <2>3 DEF Can
<1>10. /\ wptr' \in CurrentType /\ Lists(runq', wptr')
       /\ \A r \in Procs : Can(runq', wptr', r) <=> Can(runq', wptr, r) \/ r = p
  <2>1. PICK rq : rq = runq'
    OBVIOUS
  <2>2. rq \in RunQueueType /\ Lists(rq, wptr) /\ ~Can(rq, wptr, p) /\ wptr' = [wptr EXCEPT ![turn] = p]
    BY <1>1, <1>4, <1>6, <1>8, <1>9, <2>1
  <2>3. PICK w : w = [wptr EXCEPT ![turn] = p]
    OBVIOUS
  <2>4. /\ w \in CurrentType /\ Lists(rq, w)
        /\ \A r \in Procs : Can(rq, w, r) <=> Can(rq, wptr, r) \/ r = p
    BY ONLY <1>1, <1>2, <1>3, <1>5, <1>7, <2>2, <2>3, CurrentSet
  <2> QED
    BY <2>1, <2>2, <2>3, <2>4
<1>11. \A r \in Procs : Can(runq', wptr, r) \/ r = p <=> Can(runq, wptr, r)
  BY <1>1, <1>5, <1>6 DEF Can
<1>12. RunLists' /\ \A r \in Procs : CanRun(r)' <=> CanRun(r)
  BY <1>3, <1>10, <1>11, ListsIsNext
<1>13. Turns'
  BY <1>1, TurnsStep
<1>14. TypeOK'
  <2>1. /\ temp' = temp /\ pc' = pc /\ guards' = guards /\ due' = due /\ idx' = idx
        /\ tq' = tq /\ tlink' = tlink /\ time' = time /\ err' = err /\ wrapper' = wrapper
        /\ alive' = alive /\ sflag' = sflag /\ chan' = chan /\ slot' = slot
        /\ alarm' = alarm /\ itimer' = itimer
    BY <1>1 DEF timer, ws, loop, os
  <2> QED
    BY <1>1, <1>6, <1>10, <2>1 DEF TypeOK, RunQueueType, CurrentType
<1> QED
  BY <1>1, <1>12, <1>13, <1>14, NobodyMoves

(* The process at the head of the timer queue goes on, if it has not yet:   *)
(* at its input of the clock, or in an ALT that has a timeout to select.    *)
LEMMA WalkTimerQueueStep == ASSUME TInv, WalkTimerQueue PROVE TInv'
<1>1. /\ TypeOK /\ Turns /\ RunLists /\ TimerLists /\ Words /\ ~err
      /\ \A r \in Procs : Position(r) /\ Selection(r) /\ Deadline(r)
  BY DEF TInv, Processes, NoErrors
<1>2. /\ turn \in Contexts /\ mode = "walk" /\ wptr[turn] = NULL
      /\ tq[turn] # <<>> /\ ~After(time[Head(tq[turn])], 0)
  BY <1>1 DEF WalkTimerQueue, Turns, Switching, Expired, TNEXT
<1>3. PICK p, rest : p = Head(tq[turn]) /\ rest = Tail(tq[turn])
  OBVIOUS
<1>4. /\ p \in Procs /\ p \in ToSet(tq[turn]) /\ rest \in Seq(Procs) /\ IsInjective(rest)
      /\ ToSet(rest) = ToSet(tq[turn]) \ {p}
  <2>1. tq[turn] \in Seq(Procs) /\ IsInjective(tq[turn])
    BY <1>1, <1>2 DEF TypeOK, TimerLists
  <2> QED
    BY <1>2, <1>3, <2>1, HeadAndTail
<1>5. Ctx[p] = turn /\ tlink[p] = "link" /\ time[p] <= 0
  <2>1. Ctx[p] = turn
    BY <1>1, <1>2, <1>4 DEF TimerLists
  <2>2. tlink[p] = "link"
    BY <1>1, <1>4, <2>1 DEF TimerLists, Timed
  <2>3. time[p] \in Times
    BY <1>1, <1>4 DEF TypeOK
  <2> QED
    BY <1>2, <1>3, <2>1, <2>2, <2>3, BoundsAssumption DEF After, Times
<1>6. \/ pc[p] = "idle" /\ slot[p] = "none" /\ ~CanRun(p)
      \/ pc[p] = "disable" /\ slot[p] \in {"ready", "waiting"} /\ (CanRun(p) <=> slot[p] # "waiting")
  <2>1. \/ pc[p] = "idle" /\ slot[p] = "none" /\ ~CanRun(p)
        \/ pc[p] = "disable"
    BY <1>1, <1>4, <1>5 DEF Deadline
  <2> QED
    BY <1>1, <1>4, <2>1 DEF Position
<1>7. /\ tq' = [tq EXCEPT ![turn] = rest]
      /\ tlink' = [tlink EXCEPT ![p] = "set"] /\ time' = [time EXCEPT ![p] = 0]
      /\ slot' = [slot EXCEPT ![p] = "ready"]
      /\ runq' = (IF slot[p] # "ready" THEN Queue(runq, p) ELSE runq)
      /\ \/ /\ rest # <<>> /\ ~After(time[Head(rest)], 0)
            /\ UNCHANGED <<mode, then, sflag>>
         \/ Enter(rest # <<>>, "pick") /\ FlagAfterWalk(turn)
      /\ wrapper' = wrapper /\ alive' = alive /\ turn' = turn /\ wptr' = wptr /\ chan' = chan
      /\ temp' = temp /\ pc' = pc /\ guards' = guards /\ due' = due /\ idx' = idx
      /\ alarm' = alarm /\ itimer' = itimer /\ err' = err
  BY <1>3 DEF WalkTimerQueue, loop, ws, os
<1>8. /\ tq' \in [Contexts -> Seq(Procs)] /\ tq'[turn] = rest /\ \A c \in Contexts \ {turn} : tq'[c] = tq[c]
      /\ tlink'[p] = "set" /\ time'[p] = 0 /\ slot'[p] = "ready"
      /\ \A r \in Procs \ {p} : tlink'[r] = tlink[r] /\ time'[r] = time[r] /\ slot'[r] = slot[r]
  BY <1>1, <1>2, <1>4, <1>7 DEF TypeOK
<1>9. /\ RunLists' /\ runq' \in RunQueueType
      /\ \A r \in Procs : CanRun(r)' <=> CanRun(r) \/ r = p
  <2>1. CASE slot[p] = "ready"
    <3>1. runq' = runq /\ wptr' = wptr /\ CanRun(p)
      BY <1>6, <1>7, <2>1
    <3>2. RunLists' /\ \A r \in Procs : CanRun(r)' <=> CanRun(r)
      BY <1>1, <3>1, ListsSame
    <3> QED
      BY <1>1, <3>1, <3>2 DEF TypeOK, RunQueueType
  <2>2. CASE slot[p] # "ready"
    <3>1. runq' = Queue(runq, p) /\ wptr' = wptr /\ ~CanRun(p)
      BY <1>6, <1>7, <2>2
    <3> QED
      BY <1>1, <1>4, <3>1, QueueEffect
  <2> QED
    BY <2>1, <2>2
<1>10. TypeOK'
  <2>1. \/ mode' = mode /\ then' = then /\ sflag' = sflag
        \/ mode' \in {"alarm", "pick"} /\ then' \in {"pick", "run"} /\ sflag' \in [Contexts -> BOOLEAN]
    <3>1. CASE Enter(rest # <<>>, "pick") /\ FlagAfterWalk(turn)
      <4>1. sflag \in [Contexts -> BOOLEAN]
        BY <1>1 DEF TypeOK
      <4>2. sflag' \in [Contexts -> BOOLEAN]
        BY <3>1, <4>1 DEF FlagAfterWalk
      <4> QED
        BY <3>1, <4>2 DEF Enter
    <3> QED
      BY <1>7, <3>1
  <2>2. /\ slot' \in [Procs -> {"none", "data", "enabling", "waiting", "ready"}]
        /\ tlink' \in [Procs -> {"notset", "set", "link"}]
    BY <1>1, <1>7 DEF TypeOK
  <2>3. time' \in [Procs -> Times]
    <3>1. 0 \in Times
      BY BoundsAssumption DEF Times
    <3> QED
      BY <1>1, <1>7, <3>1 DEF TypeOK
  <2>4. /\ mode' \in {"sync", "walk", "alarm", "itimer", "pick", "run"} /\ then' \in {"sync", "pick", "run"}
        /\ sflag' \in [Contexts -> BOOLEAN]
    BY <1>1, <2>1 DEF TypeOK
  <2> QED
    BY <1>1, <1>7, <1>8, <1>9, <2>2, <2>3, <2>4 DEF TypeOK, RunQueueType
<1>11. Turns'
  <2>1. CASE /\ rest # <<>> /\ ~After(time[Head(rest)], 0)
             /\ UNCHANGED <<mode, then, sflag>>
    <3>1. Head(rest) \in Procs /\ Head(rest) # p
      BY <1>4, <2>1, HeadAndTail
    <3>2. time'[Head(rest)] = time[Head(rest)]
      BY <1>8, <3>1
    <3>3. ~After(time'[Head(tq'[turn])], 0)
      BY <1>8, <2>1, <3>2
    <3>4. Expired(turn)'
      BY <1>7, <1>8, <2>1, <3>3 DEF Expired, TNEXT, After
    <3> QED
      BY <1>2, <1>7, <2>1, <3>4 DEF Turns
  <2>2. CASE Enter(rest # <<>>, "pick")
    BY <1>2, <1>7, <1>8, <2>2 DEF Turns, Enter
  <2> QED
    BY <1>7, <2>1, <2>2
<1>12. TimerLists'
  <2>1. \A c \in Contexts : IsInjective(tq'[c]) /\ \A r \in ToSet(tq'[c]) : Ctx[r] = c
    BY <1>1, <1>4, <1>8 DEF TimerLists
  <2>2. \A r \in Procs : r \in ToSet(tq'[Ctx[r]]) <=> tlink'[r] = "link"
    <3>1. \A r \in Procs : r \in ToSet(tq'[Ctx[r]]) <=> r # p /\ r \in ToSet(tq[Ctx[r]])
      BY <1>4, <1>5, <1>8, CtxType
    <3> QED
      BY <1>1, <1>8, <3>1 DEF TimerLists, Timed
  <2> QED
    BY <2>1, <2>2 DEF TimerLists, Timed
<1>13. \A r \in Procs \ {p} : Same(r) /\ (CanRun(r)' <=> CanRun(r))
  BY <1>7, <1>8, <1>9 DEF Same
<1>14. ASSUME NEW r \in Procs PROVE (Position(r) /\ Selection(r) /\ Deadline(r))'
  <2>1. CASE r # p
    BY <1>1, <1>7, <1>13, <2>1, KeptQuietly
  <2>2. CASE r = p /\ pc[p] = "idle"
    <3>1. guards[p] = <<>> /\ temp[p] = 0 /\ Len(due[p]) = 0
      BY <1>1, <1>4, <2>2 DEF Position
    <3>2. CanRun(p)'
      BY <1>4, <1>9
    <3> QED
      BY <1>4, <1>7, <1>8, <2>2, <3>1, <3>2, Finished
  <2>3. CASE r = p /\ pc[p] = "disable"
    <3>1. CanRun(p)'
      BY <1>4, <1>9
    <3>2. \A i : i \in Offered(p)' <=> i \in Offered(p)
      BY <1>7, <2>3 DEF Offered
    <3>3. Position(p)'
      BY <1>1, <1>4, <1>7, <1>8, <2>3, <3>1 DEF Position, InAlt
    <3>4. PICK i \in Offered(p) : guards[p][i] = TIMER /\ due[p][i] + 1 = time[p]
      BY <1>1, <1>4, <1>5, <2>3 DEF Deadline
    <3>5. due[p][i] \in Int
      <4>1. due[p] \in Seq((-MaxLate - 1)..MaxDelay) /\ guards[p] \in Seq(Chans \cup {TIMER, SKIP})
        BY <1>1, <1>4 DEF TypeOK
      <4>2. Len(due[p]) = Len(guards[p]) /\ i \in DOMAIN guards[p]
        BY <1>1, <1>4, <2>3, <3>4 DEF Position, Offered, InAlt
      <4>3. i \in 1..Len(due[p])
        BY <4>1, <4>2
      <4>4. due[p][i] \in (-MaxLate - 1)..MaxDelay
        BY <4>1, <4>3, ElementOfSeq
      <4> QED
        BY <4>4, BoundsAssumption
    <3>6. Fires(p, i)'
      <4>1. ~(due[p][i] > 0)
        BY <1>5, <3>4, <3>5
      <4> QED
        BY <1>7, <1>8, <3>4, <4>1 DEF Fires, After
    <3>7. temp[p] # 0 => Chosen(p, temp[p])'
      <4>1. temp[p] # 0 => Chosen(p, temp[p])
        BY <1>1, <1>4, <2>3 DEF Selection
      <4> QED
        BY <1>7, <4>1 DEF Chosen, Ready
    <3>8. Selection(p)'
      BY <1>7, <1>8, <2>3, <3>2, <3>4, <3>6, <3>7 DEF Selection
    <3>9. Deadline(p)'
      BY <1>7, <1>8, <2>3 DEF Deadline
    <3> QED
      BY <2>3, <3>3, <3>8, <3>9
  <2> QED
    BY <1>6, <2>1, <2>2, <2>3
<1>15. Words'
  <2>1. ASSUME NEW d \in Chans, NEW r \in Procs, HasAlt(d, r) PROVE HasAlt(d, r)'
    <3>1. CASE r # p
      BY <1>13, <2>1, <3>1, AltSame
    <3>2. CASE r = p
      <4>1. pc[p] = "disable"
        BY <1>4, <1>6, <2>1, <3>2, NoOffer
      <4>2. \A i : i \in Offered(p)' <=> i \in Offered(p)
        BY <1>7, <4>1 DEF Offered
      <4> QED
        BY <1>7, <1>8, <2>1, <3>2, <4>2 DEF HasAlt
    <3> QED
      BY <3>1, <3>2
  <2>2. ASSUME NEW d \in Chans, NEW r \in Procs, HasWaiter(d, r) PROVE HasWaiter(d, r)'
    <3>1. r # p
      BY <1>6, <2>2 DEF HasWaiter
    <3> QED
      BY <1>13, <2>2, <3>1, WaiterSame
  <2> QED
    BY <1>1, <1>7, <1>10, <2>1, <2>2, WordsQuietly
<1> QED
  BY <1>1, <1>7, <1>9, <1>10, <1>11, <1>12, <1>14, <1>15 DEF TInv, Processes, NoErrors

-----------------------------------------------------------------------------
(* The clock *)

(* A timeout comes nearer as the time it is compared with does.             *)
LEMMA Aged ==
  ASSUME TypeOK, Tick, NEW r \in Procs, Position(r)
  PROVE  /\ due'[r] \in Seq((-MaxLate - 1)..MaxDelay) /\ Len(due'[r]) = Len(due[r])
         /\ time'[r] \in Times /\ time[r] \in Times /\ time'[r] <= time[r]
         /\ pc[r] \in InAlt =>
              \A i \in DOMAIN guards[r] : guards[r][i] = TIMER =>
                 /\ due[r][i] \in Int /\ due'[r][i] \in Int /\ due'[r][i] <= due[r][i]
                 /\ tlink[r] # "notset" => due'[r][i] - time'[r] = due[r][i] - time[r]
<1>1. /\ time[r] \in Times /\ due[r] \in Seq((-MaxLate - 1)..MaxDelay)
      /\ guards[r] \in Seq(Chans \cup {TIMER, SKIP}) /\ time[r] \in Int
      /\ MaxLate \in Nat /\ MaxDelay \in Nat
  BY BoundsAssumption DEF TypeOK, Times
<1>2. /\ Aging(r) => /\ tlink[r] # "notset" => time[r] > -MaxLate
                     /\ \A i \in Timers(r) : due[r][i] >= -MaxLate
      /\ time'[r] = IF Aging(r) /\ tlink[r] # "notset" THEN time[r] - 1 ELSE time[r]
      /\ due'[r] = [i \in DOMAIN due[r] |-> IF Aging(r) /\ i \in Timers(r) THEN due[r][i] - 1 ELSE due[r][i]]
  BY DEF Tick
<1>3. time'[r] \in Times /\ time'[r] <= time[r]
  BY <1>1, <1>2 DEF Times
<1>4. PICK n \in Nat : n = Len(due[r]) /\ DOMAIN due[r] = 1..n
  BY <1>1
<1>5. \A i \in 1..n : due[r][i] \in (-MaxLate - 1)..MaxDelay
  BY <1>1, <1>4, ElementOfSeq
<1>6. \A i \in 1..n : due'[r][i] = IF Aging(r) /\ i \in Timers(r) THEN due[r][i] - 1 ELSE due[r][i]
  BY <1>2, <1>4
<1>7. \A i \in 1..n : due'[r][i] \in (-MaxLate - 1)..MaxDelay /\ due'[r][i] <= due[r][i]
  BY <1>1, <1>2, <1>5, <1>6
<1>8. due'[r] \in Seq((-MaxLate - 1)..MaxDelay) /\ Len(due'[r]) = n
  <2>1. PICK f : f = due'[r]
    OBVIOUS
  <2>2. f \in [1..n -> (-MaxLate - 1)..MaxDelay]
    BY <1>2, <1>4, <1>7, <2>1
  <2>3. f \in Seq((-MaxLate - 1)..MaxDelay) /\ Len(f) = n
    BY ONLY <2>2, <1>4, FunctionIsSequence
  <2> QED
    BY <2>1, <2>3
<1>9. ASSUME pc[r] \in InAlt, NEW i \in DOMAIN guards[r], guards[r][i] = TIMER
      PROVE  /\ due[r][i] \in Int /\ due'[r][i] \in Int /\ due'[r][i] <= due[r][i]
             /\ tlink[r] # "notset" => due'[r][i] - time'[r] = due[r][i] - time[r]
  <2>1. Len(due[r]) = Len(guards[r]) /\ guards[r] # <<>>
    BY <1>9 DEF Position
  <2>2. i \in 1..n /\ due[r] # <<>>
    BY <1>1, <1>4, <1>9, <2>1
  <2>3. i \in Timers(r)
    BY <1>9, <2>2 DEF Timers
  <2>4. due[r][i] \in Int /\ due'[r][i] \in Int /\ due'[r][i] <= due[r][i]
    BY <1>1, <1>5, <1>7, <2>2
  <2>5. ASSUME tlink[r] # "notset" PROVE due'[r][i] - time'[r] = due[r][i] - time[r]
    <3>1. CASE Aging(r)
      <4>1. due'[r][i] = due[r][i] - 1 /\ time'[r] = time[r] - 1
        BY <1>2, <1>6, <2>2, <2>3, <2>5, <3>1
      <4> QED
        BY <1>1, <2>4, <4>1
    <3>2. CASE ~Aging(r)
      <4>1. due'[r][i] = due[r][i] /\ time'[r] = time[r]
        BY <1>2, <1>6, <2>2, <3>2
      <4> QED
        BY <4>1
    <3> QED
      BY <3>1, <3>2
  <2> QED
    BY <2>4, <2>5
<1> QED
  BY <1>1, <1>3, <1>4, <1>8, <1>9

LEMMA TickStep == ASSUME TInv, Tick PROVE TInv'
<1>1. /\ TypeOK /\ Turns /\ RunLists /\ TimerLists /\ Words /\ ~err
      /\ \A r \in Procs : Position(r) /\ Selection(r) /\ Deadline(r)
  BY DEF TInv, Processes, NoErrors
<1>2. /\ wrapper' = wrapper /\ alive' = alive /\ turn' = turn /\ mode' = mode /\ then' = then
      /\ wptr' = wptr /\ runq' = runq /\ tq' = tq /\ tlink' = tlink /\ sflag' = sflag /\ chan' = chan
      /\ slot' = slot /\ temp' = temp /\ pc' = pc /\ guards' = guards /\ idx' = idx /\ err' = err
      /\ mode # "walk" /\ itimer # 0
      /\ alarm' = [alarm EXCEPT !.at = IF alarm.set /\ alarm.at >= -MaxLate THEN alarm.at - 1 ELSE alarm.at]
      /\ itimer' = (IF itimer \in {Off, Far} THEN itimer ELSE itimer - 1)
  BY DEF Tick, loop, sched
<1>3. RunLists' /\ \A r \in Procs : CanRun(r)' <=> CanRun(r)
  BY <1>1, <1>2, ListsSame
<1>4. Turns'
  BY <1>1, <1>2 DEF Turns, Switching
<1>5. TypeOK'
  <2>1. alarm' \in [set: BOOLEAN, at: Int, t: {Off, Far} \cup 1..(MaxDelay + 1)]
    <3>1. alarm \in [set: BOOLEAN, at: Int, t: {Off, Far} \cup 1..(MaxDelay + 1)]
      BY <1>1 DEF TypeOK
    <3>2. PICK x : x = IF alarm.set /\ alarm.at >= -MaxLate THEN alarm.at - 1 ELSE alarm.at
      OBVIOUS
    <3>3. x \in Int /\ alarm.set \in BOOLEAN /\ alarm.t \in {Off, Far} \cup 1..(MaxDelay + 1)
      BY <3>1, <3>2
    <3>4. alarm' = [set |-> alarm.set, at |-> x, t |-> alarm.t]
      BY <1>2, <3>1, <3>2
    <3> QED
      BY <3>3, <3>4
  <2>2. itimer' \in {Off, Far} \cup 0..(MaxDelay + 1)
    <3>1. itimer \in {Off, Far} \cup 0..(MaxDelay + 1)
      BY <1>1 DEF TypeOK
    <3> QED
      BY <1>2, <3>1, BoundsAssumption
  <2>3. time' \in [Procs -> Times]
    <3>1. time' = [p \in Procs |-> time'[p]]
      BY DEF Tick
    <3>2. \A p \in Procs : time'[p] \in Times
      BY <1>1, Aged
    <3> QED
      BY <3>1, <3>2
  <2>4. due' \in [Procs -> Seq((-MaxLate - 1)..MaxDelay)]
    <3>1. due' = [p \in Procs |-> due'[p]]
      BY DEF Tick
    <3>2. \A p \in Procs : due'[p] \in Seq((-MaxLate - 1)..MaxDelay)
      BY <1>1, Aged
    <3> QED
      BY <3>1, <3>2
  <2> QED
    BY <1>1, <1>2, <2>1, <2>2, <2>3, <2>4 DEF TypeOK
<1>6. ASSUME NEW r \in Procs PROVE (Position(r) /\ Selection(r) /\ Deadline(r))'
  <2>1. /\ Position(r) /\ Selection(r) /\ Deadline(r)
        /\ Len(due'[r]) = Len(due[r])
        /\ time'[r] \in Int /\ time[r] \in Int /\ time'[r] <= time[r]
        /\ pc[r] \in InAlt =>
              \A i \in DOMAIN guards[r] : guards[r][i] = TIMER =>
                 /\ due[r][i] \in Int /\ due'[r][i] \in Int /\ due'[r][i] <= due[r][i]
                 /\ tlink[r] # "notset" => due'[r][i] - time'[r] = due[r][i] - time[r]
    BY <1>1, Aged, BoundsAssumption DEF Times
  <2>2. \A i : i \in Offered(r)' <=> i \in Offered(r)
    BY <1>2 DEF Offered
  <2>3. \A i \in Offered(r) : i \in DOMAIN guards[r]
    BY DEF Offered
  <2>4. Position(r)'
    BY <1>2, <1>3, <2>1 DEF Position, Held
  <2>5. ASSUME pc[r] \in InAlt, NEW i \in DOMAIN guards[r], Fires(r, i) PROVE Fires(r, i)'
    <3>1. CASE guards[r][i] = TIMER /\ tlink[r] = "set" /\ ~After(due[r][i], time[r])
      <4>1. ~(due'[r][i] > time'[r])
        BY <2>1, <2>5, <3>1 DEF After
      <4> QED
        BY <1>2, <3>1, <4>1 DEF Fires, After
    <3> QED
      BY <1>2, <2>5, <3>1 DEF Fires, Ready
  <2>6. ASSUME pc[r] \in InAlt, NEW i, Chosen(r, i) PROVE Chosen(r, i)'
    <3>1. i \in DOMAIN guards[r]
      BY <2>6 DEF Chosen
    <3>2. CASE guards[r][i] = TIMER /\ ~After(due[r][i], 0)
      <4>1. ~(due'[r][i] > 0)
        BY <2>1, <2>6, <3>1, <3>2 DEF After
      <4> QED
        BY <1>2, <3>1, <3>2, <4>1 DEF Chosen, After
    <3> QED
      BY <1>2, <2>6, <3>1, <3>2 DEF Chosen, Ready
  <2>7. Selection(r)'
    <3>1. ASSUME pc[r] \in {"enable", "wait", "disable"}, slot[r] = "ready", temp[r] = 0
          PROVE  \E i \in Offered(r)' : Fires(r, i)' /\ (pc[r] # "disable" => guards[r][i] # TIMER)
      <4>1. PICK i \in Offered(r) : Fires(r, i) /\ (pc[r] # "disable" => guards[r][i] # TIMER)
        BY <2>1, <3>1 DEF Selection
      <4>2. pc[r] \in InAlt
        BY <3>1 DEF InAlt
      <4> QED
        BY <2>2, <2>3, <2>5, <4>1, <4>2
    <3>2. ASSUME pc[r] \in {"disable", "end"}, temp[r] # 0 PROVE Chosen(r, temp[r])'
      <4>1. Chosen(r, temp[r]) /\ pc[r] \in InAlt
        BY <2>1, <3>2 DEF Selection, InAlt
      <4>2. PICK i : i = temp[r]
        OBVIOUS
      <4>3. Chosen(r, i)'
        BY <2>6, <4>1, <4>2
      <4> QED
        BY <1>2, <4>2, <4>3 DEF Chosen
    <3>3. /\ slot[r] \in {"enabling", "waiting"} =>
                \A i \in Offered(r)' : /\ guards[r][i] \in Chans => chan[guards[r][i]] = Word(r, TRUE)
                                       /\ guards[r][i] # SKIP
          /\ pc[r] = "end" => temp[r] # 0
          /\ pc[r] \in {"in", "xin", "xend"} /\ slot[r] # "waiting" => Ready(guards[r][temp[r]])
      BY <2>1, <2>2 DEF Selection
    <3> QED
      BY <1>2, <3>1, <3>2, <3>3 DEF Selection, Ready
  <2>8. Deadline(r)'
    <3>1. ASSUME pc[r] \in {"enable", "wait"}
          PROVE  \/ tlink[r] = "notset" /\ \A i \in Offered(r)' : guards[r][i] # TIMER
                 \/ tlink[r] = "set" /\ \E i \in Offered(r)' : guards[r][i] = TIMER /\ due'[r][i] = time'[r]
      <4>1. CASE tlink[r] = "notset" /\ \A i \in Offered(r) : guards[r][i] # TIMER
        BY <2>2, <4>1
      <4>2. CASE tlink[r] = "set" /\ \E i \in Offered(r) : guards[r][i] = TIMER /\ due[r][i] = time[r]
        <5>1. PICK i \in Offered(r) : guards[r][i] = TIMER /\ due[r][i] = time[r]
          BY <4>2
        <5>2. pc[r] \in InAlt /\ i \in DOMAIN guards[r]
          BY <2>3, <3>1 DEF InAlt
        <5>3. due'[r][i] = time'[r]
          BY <2>1, <4>2, <5>1, <5>2
        <5> QED
          BY <2>2, <4>2, <5>1, <5>3
      <4> QED
        BY <2>1, <3>1, <4>1, <4>2 DEF Deadline
    <3>2. ASSUME pc[r] = "disable"
          PROVE  /\ tlink[r] = "set" => time'[r] <= 0
                 /\ tlink[r] = "link" =>
                      /\ \A i \in DOMAIN guards[r] : guards[r][i] = TIMER => i \in Offered(r)'
                      /\ \E i \in Offered(r)' : guards[r][i] = TIMER /\ due'[r][i] + 1 = time'[r]
                 /\ slot[r] = "waiting" /\ tlink[r] # "link" =>
                      \A i \in DOMAIN guards[r] : guards[r][i] # TIMER
      <4>1. ASSUME tlink[r] = "link"
            PROVE  \E i \in Offered(r)' : guards[r][i] = TIMER /\ due'[r][i] + 1 = time'[r]
        <5>1. PICK i \in Offered(r) : guards[r][i] = TIMER /\ due[r][i] + 1 = time[r]
          BY <2>1, <3>2, <4>1 DEF Deadline
        <5>2. pc[r] \in InAlt /\ i \in DOMAIN guards[r]
          BY <2>3, <3>2 DEF InAlt
        <5>3. due'[r][i] + 1 = time'[r]
          BY <2>1, <4>1, <5>1, <5>2
        <5> QED
          BY <2>2, <5>1, <5>3
      <4>2. tlink[r] = "set" => time'[r] <= 0
        BY <2>1, <3>2 DEF Deadline
      <4> QED
        BY <2>1, <2>2, <3>2, <4>1, <4>2 DEF Deadline
    <3>3. tlink[r] = "link" => \/ pc[r] = "idle" /\ slot[r] = "none" /\ ~CanRun(r)
                               \/ pc[r] = "disable"
      BY <2>1 DEF Deadline
    <3> QED
      BY <1>2, <1>3, <3>1, <3>2, <3>3 DEF Deadline
  <2> QED
    BY <2>4, <2>7, <2>8
<1>7. Words'
  <2>1. ASSUME NEW d \in Chans, NEW r \in Procs, HasAlt(d, r) PROVE HasAlt(d, r)'
    <3>1. \A i : i \in Offered(r)' <=> i \in Offered(r)
      BY <1>2 DEF Offered
    <3> QED
      BY <1>2, <2>1, <3>1 DEF HasAlt
  <2>2. ASSUME NEW d \in Chans, NEW r \in Procs, HasWaiter(d, r) PROVE HasWaiter(d, r)'
    BY <1>2, <1>3, <2>2 DEF HasWaiter
  <2> QED
    BY <1>1, <1>2, <1>5, <2>1, <2>2, WordsQuietly
<1>8. TimerLists' /\ NoErrors'
  BY <1>1, <1>2, TimerListsSame DEF NoErrors
<1> QED
  BY <1>3, <1>4, <1>5, <1>6, <1>7, <1>8 DEF TInv, Processes

-----------------------------------------------------------------------------
(* The invariant *)

LEMMA InitTInv == Init => TInv
<1> SUFFICES ASSUME Init PROVE TInv
  OBVIOUS
<1>1. ASSUME NEW c \in Contexts
      PROVE  /\ runq[c] \in Seq(Procs) /\ IsInjective(runq[c])
             /\ \A r : r \in ToSet(runq[c]) <=> r \in Procs /\ Ctx[r] = c
  <2>1. PICK R : R = {p \in Procs : Ctx[p] = c}
    OBVIOUS
  <2>2. R \in SUBSET Procs /\ IsFiniteSet(R)
    <3>1. R \in SUBSET Procs
      BY <2>1
    <3> QED
      BY <3>1, ProcsAssumption, FS_Subset
  <2>3. PICK s : s = SetToSeq(R)
    OBVIOUS
  <2>4. s \in Seq(R) /\ IsInjective(s) /\ ToSet(s) = R
    BY <2>2, <2>3, Listing
  <2>5. s \in Seq(Procs)
    <3>1. Len(s) \in Nat /\ s \in [1..Len(s) -> R]
      BY <2>4
    <3>2. s \in [1..Len(s) -> Procs]
      BY <2>2, <3>1
    <3> QED
      BY <3>1, <3>2
  <2>6. runq[c] = s
    BY <2>1, <2>3 DEF Init
  <2> QED
    BY <2>1, <2>4, <2>5, <2>6
<1>2. /\ wrapper \in Wrappers /\ alive = TRUE /\ turn = "firmware" /\ mode = "sync" /\ then = "run"
      /\ wptr = [c \in Contexts |-> NULL] /\ tq = [c \in Contexts |-> <<>>]
      /\ sflag = [c \in Contexts |-> FALSE] /\ chan = [c \in Chans |-> Empty]
      /\ slot = [p \in Procs |-> "none"] /\ tlink = [p \in Procs |-> "notset"] /\ time = [p \in Procs |-> 0]
      /\ temp = [p \in Procs |-> 0] /\ idx = [p \in Procs |-> 0] /\ pc = [p \in Procs |-> "idle"]
      /\ guards = [p \in Procs |-> <<>>] /\ due = [p \in Procs |-> <<>>]
      /\ alarm = [set |-> FALSE, at |-> 0, t |-> Off] /\ itimer = Off /\ err = FALSE
      /\ runq = [c \in Contexts |-> runq[c]]
  BY DEF Init
<1>3. ToSet(<<>>) = {} /\ IsInjective(<<>>) /\ \A S : <<>> \in Seq(S)
  BY SetOfEmpty DEF IsInjective
<1>4. TypeOK
  <2>1. 0 \in Times
    BY BoundsAssumption DEF Times
  <2>2. Empty \in [who: Procs \cup {NULL}, alt: BOOLEAN]
    BY DEF Empty, Word
  <2>3. runq \in [Contexts -> Seq(Procs)]
    BY <1>1, <1>2
  <2>4. alarm \in [set: BOOLEAN, at: Int, t: {Off, Far} \cup 1..(MaxDelay + 1)]
    BY <1>2
  <2>5. /\ turn \in Contexts \cup {"sleep", "off"}
        /\ wptr \in [Contexts -> Procs \cup {NULL}] /\ tq \in [Contexts -> Seq(Procs)]
        /\ sflag \in [Contexts -> BOOLEAN]
    BY <1>2, <1>3 DEF Contexts
  <2> QED
    BY <1>2, <1>3, <2>1, <2>2, <2>3, <2>4, <2>5 DEF TypeOK
<1>5. Turns
  BY <1>2 DEF Turns
<1>6. RunLists
  BY <1>1, <1>2 DEF RunLists
<1>7. TimerLists
  BY <1>2, <1>3, CtxType DEF TimerLists, Timed
<1>8. Words
  <2>1. \A c \in Chans : chan[c].who = NULL
    BY <1>2 DEF Empty, Word
  <2> QED
    BY <2>1 DEF Words, Plain
<1>9. ASSUME NEW p \in Procs PROVE Position(p) /\ Selection(p) /\ Deadline(p)
  <2>1. /\ pc[p] = "idle" /\ guards[p] = <<>> /\ due[p] = <<>> /\ temp[p] = 0 /\ slot[p] = "none"
        /\ tlink[p] = "notset"
    BY <1>2
  <2>2. CanRun(p)
    BY <1>1, CtxType DEF CanRun, OnQueue
  <2>3. DOMAIN guards[p] = {} /\ Len(due[p]) = 0
    BY <2>1
  <2> QED
    BY <2>1, <2>2, <2>3 DEF Position, Selection, Deadline, InAlt
<1> QED
  BY <1>2, <1>4, <1>5, <1>6, <1>7, <1>8, <1>9 DEF TInv, NoErrors, Processes

LEMMA NextTInv == TInv /\ [Next]_vars => TInv'
<1> SUFFICES ASSUME TInv, [Next]_vars PROVE TInv'
  OBVIOUS
<1>1. ASSUME NEW p \in Procs, Instruction(p) PROVE TInv'
  BY <1>1, OutStep, InStep, XAbleStep, XInStep, XEndStep, AltStartStep, EnableStep, AltWaitStep,
     DisableStep, AltEndStep, TinStep, StopStep, KillUserStep DEF Instruction
<1>2. CASE Scheduler
  BY <1>2, SynchroniseStep, WalkTimerQueueStep, SetAlarmStep, SetItimerStep, PickNextStep,
     FirmwareStopsStep, UserStopsStep, UserBreaksDownStep, SliceStep DEF Scheduler
<1>3. CASE Slice
  BY <1>3, SliceStep
<1>4. CASE SigAlrm
  BY <1>4, SigAlrmStep
<1>5. CASE Tick
  BY <1>5, TickStep
<1>6. CASE UNCHANGED vars
  <2>1. UNCHANGED <<sched, timer, chan, slot, ws, err>>
    BY <1>6 DEF vars
  <2>2. Turns'
    <3>1. Turns
      BY DEF TInv
    <3> QED
      BY <1>6, <3>1 DEF vars, sched, timer, Turns, Switching, Expired, TNEXT
  <2>3. TypeOK'
    <3>1. TypeOK
      BY DEF TInv
    <3> QED
      BY <1>6, <3>1 DEF vars, sched, timer, ws, loop, os, TypeOK
  <2> QED
    BY <2>1, <2>2, <2>3, NothingMoves
<1> QED
  BY <1>1, <1>2, <1>3, <1>4, <1>5, <1>6 DEF Next

(* The invariant of the interpreter: channel words, run queues, timer       *)
(* queues and the state word of every process agree, through every          *)
(* instruction, signal, time slice and disconnection, in both wrappers.     *)
THEOREM TransterpreterInvariance == Spec => []TInv
<1>1. Init => TInv
  BY InitTInv
<1>2. TInv /\ [Next]_vars => TInv'
  BY NextTInv
<1> QED
  BY <1>1, <1>2, PTL DEF Spec

(* EFLAG_CHAN and EFLAG_ALT are never set, by chan_io, ins_xin or           *)
(* ins_altend.                                                              *)
THEOREM TransterpreterNeverFails == Spec => []NoErrors
<1>1. TInv => NoErrors
  BY DEF TInv
<1> QED
  BY <1>1, TransterpreterInvariance, PTL

LEMMA Queued ==
  ASSUME TInv
  PROVE  /\ \A c \in Contexts : IsInjective(runq[c]) /\ IsInjective(tq[c])
         /\ \A p \in Procs : OnQueue(p) \subseteq {Ctx[p]} /\ (wptr[Ctx[p]] = p => OnQueue(p) = {})
<1>1. RunLists /\ TimerLists
  BY DEF TInv
<1>2. ASSUME NEW p \in Procs PROVE OnQueue(p) \subseteq {Ctx[p]} /\ (wptr[Ctx[p]] = p => OnQueue(p) = {})
  <2>1. \A c \in OnQueue(p) : c \in Contexts /\ Ctx[p] = c
    BY <1>1 DEF RunLists, OnQueue
  <2>2. p # NULL
    BY NamesAssumption
  <2>3. wptr[Ctx[p]] = p => \A c \in OnQueue(p) : FALSE
    BY <1>1, <2>1, <2>2 DEF RunLists, OnQueue
  <2> QED
    BY <2>1, <2>3
<1> QED
  BY <1>1, <1>2 DEF RunLists, TimerLists

LEMMA CanRunApart ==
  ASSUME TInv, NEW p \in Procs, CanRun(p)
  PROVE  ~Held(p) /\ slot[p] # "waiting" /\ (Timed(p) => slot[p] = "ready")
<1>1. Position(p) /\ Deadline(p) /\ TimerLists
  BY DEF TInv, Processes
<1>2. ~Held(p)
  BY WaiterInWord DEF Held
<1>3. slot[p] # "waiting"
  BY <1>1 DEF Position
<1>4. Timed(p) => slot[p] = "ready"
  BY <1>1, <1>3 DEF TimerLists, Deadline, Position
<1> QED
  BY <1>2, <1>3, <1>4

LEMMA WaitsSomewhere ==
  ASSUME TInv, NEW p \in Procs, ~CanRun(p), pc[p] # "stopped"
  PROVE  \/ Held(p)
         \/ Timed(p) /\ slot[p] # "ready"
         \/ slot[p] = "waiting" /\ \E c \in Chans : chan[c] = Word(p, TRUE)
<1>1. Position(p) /\ Selection(p) /\ Deadline(p) /\ TimerLists /\ TypeOK
  BY DEF TInv, Processes
<1>2. CASE pc[p] = "idle"
  BY <1>1, <1>2 DEF Position, Deadline, TimerLists
<1>3. CASE pc[p] # "idle"
  <2>1. slot[p] = "waiting" /\ pc[p] \in {"disable", "xin"}
    <3>1. slot[p] = "waiting"
      BY <1>1, <1>3 DEF Position
    <3>2. pc[p] \in InAlt \cup {"idle", "in", "xin", "xend", "stopped"}
      BY <1>1 DEF TypeOK
    <3> QED
      BY <1>1, <1>3, <3>1, <3>2 DEF Position, InAlt
  <2>2. CASE \E i \in Offered(p) : guards[p][i] \in Chans
    BY <1>1, <2>1, <2>2 DEF Selection
  <2>3. CASE \A i \in Offered(p) : guards[p][i] \notin Chans
    <3>1. pc[p] = "disable"
      <4>1. pc[p] = "xin" => temp[p] \in Offered(p) /\ guards[p][temp[p]] \in Chans
        BY <1>1, <2>1 DEF Position, Offered
      <4> QED
        BY <2>1, <2>3, <4>1
    <3>2. idx[p] = 1 /\ 1 \in DOMAIN guards[p]
      BY <1>1, <2>1, <3>1 DEF Position
    <3>3. 1 \in Offered(p)
      BY <3>1, <3>2 DEF Offered
    <3>4. guards[p][1] = TIMER
      <4>1. guards[p][1] # SKIP /\ guards[p][1] \notin Chans
        BY <1>1, <2>1, <2>3, <3>3 DEF Selection
      <4>2. guards[p] \in Seq(Chans \cup {TIMER, SKIP})
        BY <1>1 DEF TypeOK
      <4>3. guards[p][1] \in Chans \cup {TIMER, SKIP}
        BY <3>2, <4>2
      <4> QED
        BY <4>1, <4>3
    <3>5. tlink[p] = "link"
      BY <1>1, <2>1, <3>1, <3>2, <3>4 DEF Deadline
    <3> QED
      BY <1>1, <2>1, <3>5 DEF TimerLists
  <2> QED
    BY <2>2, <2>3
<1> QED
  BY <1>2, <1>3

(* Nobody is lost or run twice: a process is on the run queue of its        *)
(* context, or the current one, or waits in a channel word or on a timer    *)
(* queue, which will resume it, whichever context put it there.             *)
THEOREM TransterpreterInOnePlace == Spec => []InOnePlace
<1>1. TInv => InOnePlace
  BY Queued, CanRunApart, WaitsSomewhere DEF InOnePlace
<1> QED
  BY <1>1, TransterpreterInvariance, PTL

(* ins_altend takes the branch of a guard that is ready, although channels, *)
(* the clock and disconnection change between enabling and disabling.       *)
THEOREM TransterpreterSelectsReady == Spec => []SelectedIsReady
<1>1. ASSUME TInv, NEW p \in Procs, pc[p] = "end", temp[p] # 0
      PROVE  CASE Selected(p) = TIMER -> ~After(due[p][temp[p]], 0)
               [] Selected(p) = SKIP  -> TRUE
               [] OTHER -> chan[Selected(p)] \in {Word(Writer[Selected(p)], FALSE), Cut}
  <2>1. Chosen(p, temp[p])
    BY <1>1 DEF TInv, Processes, Selection
  <2>2. CASE Selected(p) = TIMER
    BY <2>1, <2>2, NamesAssumption DEF Chosen, Selected
  <2>3. CASE Selected(p) = SKIP
    BY <2>3, NamesAssumption
  <2>4. CASE Selected(p) \notin {TIMER, SKIP}
    BY <2>1, <2>4 DEF Chosen, Selected, Ready
  <2> QED
    BY <2>2, <2>3, <2>4
<1>2. TInv => SelectedIsReady
  BY <1>1 DEF SelectedIsReady
<1> QED
  BY <1>2, TransterpreterInvariance, PTL

=============================================================================
