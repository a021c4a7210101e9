----------------------------- MODULE SeqLemmas -----------------------------
(***************************************************************************)
(* Facts about the sequence operators that stand for C linked lists:       *)
(* linking a new head, unlinking one element, and finding the first match; *)
(* about recursive functions on the first numbers; and about where in a    *)
(* concatenation its parts begin.                                          *)
(***************************************************************************)
EXTENDS Integers, Lists, SequenceTheorems, FiniteSetTheorems, WellFoundedInduction, TLAPS

(* A set of naturals that is not empty has a least element, and Min is it: *)
(* the first position a list traversal stops at.                           *)
LEMMA MinOfNat ==
  ASSUME NEW I \in SUBSET Nat, I # {}
  PROVE  Min(I) \in I /\ \A j \in I : Min(I) <= j
<1>1. PICK m \in I : \A j \in I : ~(<<j, m>> \in OpToRel(<, Nat))
  BY NatLessThanWellFounded, WFMin
<1>2. ASSUME NEW j \in I
      PROVE  m <= j
  <2>1. ~(j < m)
    BY <1>1 DEF OpToRel
  <2>2. QED
    BY <2>1
<1>3. QED
  BY <1>2 DEF Min

(* Linking a new head keeps the other elements, one place further on. *)
LEMMA ConsProperties ==
  ASSUME NEW S, NEW e \in S, NEW s \in Seq(S)
  PROVE  /\ Cons(e, s) \in Seq(S)
         /\ Len(Cons(e, s)) = Len(s) + 1
         /\ Cons(e, s)[1] = e
         /\ \A i \in 2..(Len(s) + 1) : Cons(e, s)[i] = s[i - 1]
<1>1. /\ <<e>> \in Seq(S)
      /\ Len(<<e>>) = 1
      /\ <<e>>[1] = e
  OBVIOUS
<1>2. Len(s) \in Nat
  BY LenProperties
<1>3. QED
  BY <1>1, <1>2, ConcatProperties DEF Cons

(* Unlinking the i-th element keeps all others in their order. *)
LEMMA RemoveAtProperties ==
  ASSUME NEW S, NEW s \in Seq(S), NEW i \in 1..Len(s)
  PROVE  /\ RemoveAt(s, i) \in Seq(S)
         /\ Len(RemoveAt(s, i)) = Len(s) - 1
         /\ \A j \in 1..(Len(s) - 1) :
              RemoveAt(s, i)[j] = IF j < i THEN s[j] ELSE s[j + 1]
<1> DEFINE left  == SubSeq(s, 1, i - 1)
           right == SubSeq(s, i + 1, Len(s))
<1>1. Len(s) \in Nat /\ i \in Nat /\ 1 <= i /\ i <= Len(s)
  BY LenProperties
<1>2. \A j \in 1..Len(s) : s[j] \in S
  BY ElementOfSeq
<1>3. /\ left \in Seq(S)
      /\ Len(left) = i - 1
      /\ \A j \in 1..(i - 1) : left[j] = s[j]
  <2>1. \A j \in 1..(i - 1) : s[j] \in S
    BY <1>1, <1>2
  <2>2. QED
    BY <2>1, <1>1, SubSeqProperties
<1>4. /\ right \in Seq(S)
      /\ Len(right) = Len(s) - i
      /\ \A j \in 1..(Len(s) - i) : right[j] = s[i + j]
  <2>1. \A j \in (i + 1)..Len(s) : s[j] \in S
    BY <1>1, <1>2
  <2>2. QED
    BY <2>1, <1>1, SubSeqProperties
<1>0. RemoveAt(s, i) = left \o right
  BY DEF RemoveAt
<1> HIDE DEF left, right
<1>5. /\ left \o right \in Seq(S)
      /\ Len(left \o right) = Len(s) - 1
  <2>1. left \o right \in Seq(S) /\ Len(left \o right) = Len(left) + Len(right)
    BY <1>3, <1>4, ConcatProperties
  <2>2. QED
    BY <2>1, <1>1, <1>3, <1>4
<1>6. ASSUME NEW j \in 1..(Len(s) - 1)
      PROVE  (left \o right)[j] = IF j < i THEN s[j] ELSE s[j + 1]
  <2>1. (left \o right)[j] = IF j <= i - 1 THEN left[j] ELSE right[j - (i - 1)]
    BY <1>1, <1>3, <1>4, ConcatProperties
  <2>2. CASE j < i
    BY <2>1, <2>2, <1>1, <1>3
  <2>3. CASE ~(j < i)
    <3>1. j - (i - 1) \in 1..(Len(s) - i)
      BY <2>3, <1>1
    <3>2. right[j - (i - 1)] = s[i + (j - (i - 1))]
      BY <3>1, <1>4
    <3>3. QED
      BY <2>1, <2>3, <3>2, <1>1
  <2>4. QED
    BY <2>2, <2>3
<1>7. QED
  BY <1>0, <1>5, <1>6

(* What holds of 0, and of n + 1 when it holds of n, holds of all numbers  *)
(* up to N: with a set for the property.                                   *)
LEMMA Upwards ==
  ASSUME NEW N \in Nat, NEW P, 0 \in P, \A n \in 0..(N - 1) : n \in P => n + 1 \in P
  PROVE  \A n \in 0..N : n \in P
<1> DEFINE Bad == {n \in 0..N : n \notin P}
<1>1. SUFFICES ASSUME Bad # {} PROVE FALSE
  OBVIOUS
<1>2. PICK m \in Bad : \A j \in Bad : m <= j
  <2>1. Bad \in SUBSET Nat
    OBVIOUS
  <2>2. QED
    BY <1>1, <2>1, MinOfNat
<1>3. m \in 0..N /\ m # 0 /\ m \notin P
  BY <1>2
<1>4. m - 1 \in 0..(N - 1) /\ m - 1 \in 0..N /\ ~(m <= m - 1) /\ (m - 1) + 1 = m
  BY <1>3
<1>5. m - 1 \in P
  BY <1>2, <1>4
<1>6. QED
  BY <1>3, <1>4, <1>5

(* Among is built up from the front of the list. *)
LEMMA AmongUpto ==
  ASSUME NEW X, NEW list \in Seq(X), NEW S
  PROVE  \E upto : /\ Among(list, S) = upto[Len(list)] /\ upto[0] = <<>>
                   /\ \A n \in 1..Len(list) :
                        upto[n] = IF list[n] \in S THEN Append(upto[n - 1], list[n])
                                  ELSE upto[n - 1]
<1> DEFINE N == Len(list)
           Step(f, n) == IF n = 0 THEN <<>>
                         ELSE IF list[n] \in S THEN Append(f[n - 1], list[n]) ELSE f[n - 1]
           Is(f, m) == f = [n \in 0..m |-> Step(f, n)]
           upto == CHOOSE f : Is(f, N)
<1>1. N \in Nat /\ list \in [1..N -> X]
  BY LenProperties
<1>2. \A m \in 0..N : \E f : Is(f, m)
  <2> DEFINE Bad == {m \in 0..N : ~\E f : Is(f, m)}
  <2>1. SUFFICES ASSUME Bad # {} PROVE FALSE
    OBVIOUS
  <2>2. PICK m \in Bad : \A j \in Bad : m <= j
    <3>1. Bad \in SUBSET Nat
      BY <1>1
    <3>2. QED
      BY <2>1, <3>1, MinOfNat
  <2>3. CASE m = 0
    <3>1. Is([n \in 0..0 |-> <<>>], 0)
      BY DEF Is
    <3>2. QED
      BY <2>2, <2>3, <3>1
  <2>4. CASE m # 0
    <3>0. m \in 0..N
      BY <2>2
    <3>1. m \in Nat /\ m - 1 \in 0..N /\ ~(m <= m - 1)
      BY <1>1, <2>4, <3>0
    <3> HIDE DEF Is
    <3>2. PICK f : Is(f, m - 1)
      BY <2>2, <3>1
    <3> USE DEF Is
    <3> DEFINE g == [n \in 0..m |-> IF n < m THEN f[n] ELSE Step(f, m)]
    <3>3. \A n \in 0..(m - 1) : f[n] = Step(f, n)
      BY <3>2
    <3>4. ASSUME NEW n \in 0..m PROVE g[n] = Step(g, n)
      <4>1. CASE n < m
        <5>1. g[n] = Step(f, n)
          <6>1. n \in 0..(m - 1)
            BY <3>1, <4>1
          <6>2. g[n] = f[n]
            BY <4>1
          <6>3. QED
            BY <3>3, <6>1, <6>2
        <5>2. n # 0 => g[n - 1] = f[n - 1]
          BY <3>1, <4>1
        <5>3. QED
          BY <5>1, <5>2
      <4>2. CASE n = m
        <5>1. g[n] = Step(f, m)
          BY <3>1, <4>2
        <5>2. g[m - 1] = f[m - 1]
          BY <2>4, <3>1
        <5>3. QED
          BY <4>2, <5>1, <5>2
      <4>3. QED
        BY <3>1, <4>1, <4>2
    <3>5. Is(g, m)
      BY <3>4
    <3>6. QED
      BY <2>2, <3>5
  <2>5. QED
    BY <2>3, <2>4
<1>3. Is(upto, N)
  <2> HIDE DEF Is
  <2>1. N \in 0..N
    BY <1>1
  <2>2. QED
    BY <1>2, <2>1
<1>4. Among(list, S) = upto[N]
  BY DEF Among
<1>5. \A n \in 0..N : upto[n] = Step(upto, n)
  BY <1>3
<1> HIDE DEF upto
<1>6. upto[0] = <<>>
  BY <1>1, <1>5
<1>7. \A n \in 1..N : n \in 0..N /\ n # 0
  BY <1>1
<1>8. \A n \in 1..N : upto[n] = IF list[n] \in S THEN Append(upto[n - 1], list[n]) ELSE upto[n - 1]
  BY <1>5, <1>7
<1>9. QED
  BY <1>4, <1>6, <1>8

(* A list and one more element. *)
LEMMA AppendedElement ==
  ASSUME NEW X, NEW u \in Seq(X), NEW e \in X
  PROVE  /\ Append(u, e) \in Seq(X) /\ Range(Append(u, e)) = Range(u) \cup {e}
         /\ IsInjective(u) /\ e \notin Range(u) => IsInjective(Append(u, e))
<1>1. /\ Append(u, e) \in Seq(X)
      /\ DOMAIN Append(u, e) = 1..(Len(u) + 1)
      /\ Append(u, e)[Len(u) + 1] = e
      /\ \A i \in 1..Len(u) : Append(u, e)[i] = u[i]
      /\ DOMAIN u = 1..Len(u) /\ Len(u) \in Nat
  BY AppendProperties, LenProperties
<1>2. DOMAIN Append(u, e) = DOMAIN u \cup {Len(u) + 1}
  BY <1>1
<1>3. Range(Append(u, e)) = Range(u) \cup {e}
  BY <1>1, <1>2 DEF Range
<1>4. ASSUME IsInjective(u), e \notin Range(u) PROVE IsInjective(Append(u, e))
  <2>1. \A i \in DOMAIN u : u[i] # e
    BY <1>4 DEF Range
  <2>2. QED
    BY <1>1, <1>2, <1>4, <2>1 DEF IsInjective
<1>5. QED
  BY <1>1, <1>3, <1>4

(* Among keeps of a list what is in S and nothing else, and puts nothing   *)
(* in two places that was in one.                                          *)
LEMMA AmongProperties ==
  ASSUME NEW X, NEW list \in Seq(X), NEW S
  PROVE  /\ Among(list, S) \in Seq(X) /\ Range(Among(list, S)) = Range(list) \cap S
         /\ IsInjective(list) => IsInjective(Among(list, S))
<1> DEFINE N == Len(list)
<1>1. N \in Nat /\ list \in [1..N -> X] /\ DOMAIN list = 1..N
  BY LenProperties
<1>2. PICK upto : /\ Among(list, S) = upto[N] /\ upto[0] = <<>>
                  /\ \A n \in 1..N : upto[n] = IF list[n] \in S THEN Append(upto[n - 1], list[n])
                                                ELSE upto[n - 1]
  BY AmongUpto
<1> HIDE DEF N
<1> DEFINE First(n) == {list[i] : i \in 1..n}
           Good(n)  == /\ upto[n] \in Seq(X) /\ Range(upto[n]) = First(n) \cap S
                       /\ IsInjective(list) => IsInjective(upto[n])
           P == {n \in 0..N : Good(n)}
<1>3. 0 \in P
  <2>1. First(0) = {} /\ Range(<<>>) = {} /\ <<>> \in Seq(X) /\ IsInjective(<<>>)
    BY EmptySeq DEF Range, IsInjective
  <2>2. upto[0] \in Seq(X) /\ Range(upto[0]) = {} /\ IsInjective(upto[0])
    BY <1>2, <2>1
  <2>3. Good(0)
    BY <2>1, <2>2
  <2>4. QED
    BY <1>1, <2>3
<1>4. ASSUME NEW n \in 0..(N - 1), n \in P PROVE n + 1 \in P
  <2>1. n + 1 \in 1..N /\ n + 1 \in 0..N /\ (n + 1) - 1 = n
    BY <1>1
  <2>2. First(n + 1) = First(n) \cup {list[n + 1]}
    <3>1. 1..(n + 1) = 1..n \cup {n + 1}
      BY <2>1
    <3>2. QED
      BY <3>1
  <2>3. list[n + 1] \in X
    BY <1>1, <2>1
  <2>4. Good(n)
    BY <1>4
  <2>5. CASE list[n + 1] \in S
    <3>1. upto[n + 1] = Append(upto[n], list[n + 1])
      BY <1>2, <2>1, <2>5
    <3>2. /\ Append(upto[n], list[n + 1]) \in Seq(X)
          /\ Range(Append(upto[n], list[n + 1])) = Range(upto[n]) \cup {list[n + 1]}
          /\ IsInjective(upto[n]) /\ list[n + 1] \notin Range(upto[n])
               => IsInjective(Append(upto[n], list[n + 1]))
      BY <2>3, <2>4, AppendedElement
    <3>3. ASSUME IsInjective(list) PROVE list[n + 1] \notin First(n)
      <4>1. \A i \in 1..n : i \in DOMAIN list /\ i # n + 1
        BY <1>1, <2>1
      <4>2. n + 1 \in DOMAIN list
        BY <1>1, <2>1
      <4>3. \A i \in 1..n : list[i] # list[n + 1]
        BY <3>3, <4>1, <4>2 DEF IsInjective
      <4>4. QED
        BY <4>3
    <3>4. Good(n + 1)
      BY <2>2, <2>4, <2>5, <3>1, <3>2, <3>3
    <3>5. QED
      BY <2>1, <3>4
  <2>6. CASE list[n + 1] \notin S
    <3>1. upto[n + 1] = upto[n]
      BY <1>2, <2>1, <2>6
    <3>2. Good(n + 1)
      BY <2>2, <2>4, <2>6, <3>1
    <3>3. QED
      BY <2>1, <3>2
  <2>7. QED
    BY <2>5, <2>6
<1>5. N \in 0..N /\ N \in P
  <2> HIDE DEF P
  <2>1. N \in 0..N
    BY <1>1
  <2>2. \A n \in 0..N : n \in P
    BY <1>1, <1>3, <1>4, Upwards
  <2>3. QED
    BY <2>1, <2>2
<1>6. First(N) = Range(list)
  BY <1>1 DEF Range
<1>7. QED
  BY <1>2, <1>5, <1>6

(* The elements of a list that something is put in front of. *)
LEMMA RangeOfCons ==
  ASSUME NEW X, NEW e \in X, NEW s \in Seq(X)
  PROVE  Range(Cons(e, s)) = {e} \cup Range(s)
<1> DEFINE c == Cons(e, s)
<1>1. /\ c \in Seq(X) /\ Len(c) = Len(s) + 1 /\ c[1] = e
      /\ \A j \in 2..(Len(s) + 1) : c[j] = s[j - 1]
  BY ConsProperties
<1> HIDE DEF c
<1>2. /\ Len(s) \in Nat /\ DOMAIN s = 1..Len(s) /\ DOMAIN c = 1..(Len(s) + 1)
  BY <1>1, LenProperties
<1>3. \A j \in 1..Len(s) : j + 1 \in 1..(Len(s) + 1) /\ c[j + 1] = s[j]
  BY <1>1, <1>2
<1>4. \A j \in 1..(Len(s) + 1) : j = 1 \/ (j - 1 \in 1..Len(s) /\ c[j] = s[j - 1])
  BY <1>1, <1>2
<1>5. 1 \in 1..(Len(s) + 1)
  BY <1>2
<1>6. Range(c) = {c[j] : j \in 1..(Len(s) + 1)} /\ Range(s) = {s[j] : j \in 1..Len(s)}
  BY <1>2 DEF Range
<1>7. Range(c) \subseteq {e} \cup Range(s)
  BY <1>1, <1>4, <1>6
<1>8. {e} \cup Range(s) \subseteq Range(c)
  BY <1>1, <1>3, <1>5, <1>6
<1>9. QED
  BY <1>7, <1>8 DEF c

(* An element that is not in the list may be put in front of it. *)
LEMMA ConsInjective ==
  ASSUME NEW X, NEW e \in X, NEW s \in Seq(X), IsInjective(s), e \notin Range(s)
  PROVE  IsInjective(Cons(e, s))
<1> DEFINE c == Cons(e, s)
<1>1. /\ c \in Seq(X) /\ Len(c) = Len(s) + 1 /\ c[1] = e
      /\ \A j \in 2..(Len(s) + 1) : c[j] = s[j - 1]
  BY ConsProperties
<1> HIDE DEF c
<1>2. Len(s) \in Nat /\ DOMAIN s = 1..Len(s) /\ DOMAIN c = 1..(Len(s) + 1)
  BY <1>1, LenProperties
<1>3. \A i \in DOMAIN c : i = 1 \/ (i - 1 \in DOMAIN s /\ c[i] = s[i - 1] /\ c[i] # e)
  <2>1. \A i \in DOMAIN s : s[i] # e
    BY DEF Range
  <2>2. QED
    BY <1>1, <1>2, <2>1
<1>4. ASSUME NEW i \in DOMAIN c, NEW j \in DOMAIN c, c[i] = c[j] PROVE i = j
  <2>1. (i = 1 <=> j = 1) /\ i \in Nat /\ j \in Nat
    BY <1>1, <1>2, <1>3, <1>4
  <2>2. CASE i # 1
    <3>1. i - 1 = j - 1
      BY <1>3, <1>4, <2>1, <2>2 DEF IsInjective
    <3>2. QED
      BY <2>1, <3>1
  <2>3. QED
    BY <2>1, <2>2
<1>5. QED
  BY <1>4 DEF IsInjective, c

(* The numbers of a finite set can be listed from the least one on, and    *)
(* Ascending lists them so.                                                *)
LEMMA AscendingProperties ==
  ASSUME NEW S \in SUBSET Nat, IsFiniteSet(S)
  PROVE  /\ Ascending(S) \in Seq(S)
         /\ DOMAIN Ascending(S) = 1..Cardinality(S)
         /\ \A i, j \in DOMAIN Ascending(S) : i < j => Ascending(S)[i] < Ascending(S)[j]
<1> DEFINE Lists(R) == {s \in [1..Cardinality(R) -> R] : \A i, j \in DOMAIN s : i < j => s[i] < s[j]}
           Good(n) == \A R \in SUBSET S : Cardinality(R) = n => Lists(R) # {}
<1>0. \A R \in SUBSET S : IsFiniteSet(R) /\ Cardinality(R) \in Nat
  BY FS_Subset, FS_CardinalityType
<1>1. ASSUME NEW n \in Nat, Good(n) PROVE Good(n + 1)
  <2>1. SUFFICES ASSUME NEW R \in SUBSET S, Cardinality(R) = n + 1 PROVE Lists(R) # {}
    OBVIOUS
  <2>2. R # {} /\ R \in SUBSET Nat /\ IsFiniteSet(R)
    BY <1>0, <2>1, FS_EmptySet
  <2>3. PICK m \in R : \A r \in R : m <= r
    BY <2>2, MinOfNat
  <2>4. R \ {m} \in SUBSET S /\ Cardinality(R \ {m}) = n
    <3>1. Cardinality(R \ {m}) = Cardinality(R) - 1
      BY <2>2, FS_RemoveElement
    <3>2. QED
      BY <2>1, <3>1
  <2>5. PICK s \in Lists(R \ {m}) : TRUE
    BY <1>1, <2>4
  <2> DEFINE t == [i \in 1..(n + 1) |-> IF i = 1 THEN m ELSE s[i - 1]]
  <2>6. s \in [1..n -> R \ {m}] /\ \A i, j \in 1..n : i < j => s[i] < s[j]
    BY <2>4, <2>5
  <2>7. \A i \in 1..(n + 1) : i = 1 \/ i - 1 \in 1..n
    OBVIOUS
  <2>8. t \in [1..(n + 1) -> R]
    BY <2>3, <2>6, <2>7
  <2>9. ASSUME NEW i \in 1..(n + 1), NEW j \in 1..(n + 1), i < j PROVE t[i] < t[j]
    <3>1. j - 1 \in 1..n /\ t[j] = s[j - 1]
      BY <2>9
    <3>2. CASE i = 1
      <4>1. s[j - 1] \in R \ {m} /\ t[i] = m
        BY <2>6, <3>1, <3>2
      <4>2. m <= s[j - 1] /\ m # s[j - 1] /\ m \in Nat /\ s[j - 1] \in Nat
        BY <2>2, <2>3, <4>1
      <4>3. QED
        BY <3>1, <4>1, <4>2
    <3>3. CASE i # 1
      <4>1. i - 1 \in 1..n /\ i - 1 < j - 1 /\ t[i] = s[i - 1]
        BY <2>9, <3>3
      <4>2. QED
        BY <2>6, <3>1, <4>1
    <3>4. QED
      BY <3>2, <3>3
  <2> HIDE DEF t
  <2>10. t \in Lists(R)
    BY <2>1, <2>8, <2>9
  <2>11. QED
    BY <2>10
<1>2. Good(0)
  <2>1. SUFFICES ASSUME NEW R \in SUBSET S, Cardinality(R) = 0 PROVE Lists(R) # {}
    OBVIOUS
  <2>2. [i \in 1..0 |-> 0] \in Lists(R)
    BY <2>1
  <2>3. QED
    BY <2>2
<1>3. \A n \in Nat : Good(n)
  <2> DEFINE Bad == {n \in Nat : ~Good(n)}
  <2> HIDE DEF Good
  <2>1. SUFFICES ASSUME Bad # {} PROVE FALSE
    OBVIOUS
  <2>2. PICK m \in Bad : \A j \in Bad : m <= j
    <3>1. Bad \in SUBSET Nat
      OBVIOUS
    <3>2. QED
      BY <2>1, <3>1, MinOfNat
  <2>3. m # 0 /\ m \in Nat
    BY <1>2, <2>2
  <2>4. m - 1 \in Nat /\ (m - 1) + 1 = m /\ ~(m <= m - 1)
    BY <2>3
  <2>5. Good(m - 1)
    BY <2>2, <2>4
  <2>6. Good((m - 1) + 1)
    BY <1>1, <2>4, <2>5
  <2>7. QED
    BY <2>2, <2>4, <2>6
<1>4. Lists(S) # {}
  BY <1>0, <1>3
<1>5. Ascending(S) \in Lists(S)
  <2>1. \E s \in [1..Cardinality(S) -> S] : \A i, j \in DOMAIN s : i < j => s[i] < s[j]
    BY <1>4
  <2>2. QED
    BY <2>1 DEF Ascending
<1>6. Cardinality(S) \in Nat
  BY <1>0
<1>7. QED
  BY <1>5, <1>6, IsASeq

(* Nothing is left out of it. *)
LEMMA AscendingAll ==
  ASSUME NEW S \in SUBSET Nat, IsFiniteSet(S), NEW e \in S
  PROVE  \E i \in DOMAIN Ascending(S) : Ascending(S)[i] = e
<1> DEFINE s == Ascending(S)
           N == Cardinality(S)
<1>1. N \in Nat
  BY FS_CardinalityType
<1>2. s \in Seq(S) /\ DOMAIN s = 1..N /\ \A i, j \in DOMAIN s : i < j => s[i] < s[j]
  BY AscendingProperties
<1> HIDE DEF s, N
<1>3. s \in [1..N -> S]
  BY <1>2, LenProperties
<1>4. \A i, j \in 1..N : s[i] = s[j] => i = j
  <2>1. \A i, j \in 1..N : i < j \/ j < i \/ i = j
    BY <1>1
  <2>2. \A i \in 1..N : s[i] \in Nat
    BY <1>3
  <2>3. \A i \in 1..N : ~(s[i] < s[i])
    BY <2>2
  <2>4. QED
    BY <1>2, <2>1, <2>3
<1>5. s \in Injection(1..N, S)
  BY <1>3, <1>4 DEF Injection, IsInjective
<1>6. Cardinality(1..N) = Cardinality(S)
  BY <1>1, FS_Interval DEF N
<1>7. s \in Surjection(1..N, S)
  BY <1>5, <1>6, FS_Injection
<1>8. QED
  BY <1>2, <1>7 DEF Surjection, s

(* FlattenSeq puts the lists behind each other, from the first one on. *)
LEMMA FlattenUpto ==
  ASSUME NEW X, NEW seqs \in Seq(Seq(X))
  PROVE  \E upto : /\ FlattenSeq(seqs) = IF Len(seqs) = 0 THEN <<>> ELSE upto[Len(seqs)]
                   /\ \A n \in 1..Len(seqs) :
                        upto[n] = IF n = 1 THEN seqs[n] ELSE upto[n - 1] \o seqs[n]
<1> DEFINE N == Len(seqs)
           Step(f, n) == IF n = 1 THEN seqs[n] ELSE f[n - 1] \o seqs[n]
           Is(f, m) == f = [n \in 1..m |-> Step(f, n)]
           flat == CHOOSE f : Is(f, N)
<1>1. N \in Nat /\ seqs \in [1..N -> Seq(X)]
  BY LenProperties
<1>2. \A m \in 0..N : \E f : Is(f, m)
  <2> DEFINE Bad == {m \in 0..N : ~\E f : Is(f, m)}
  <2>1. SUFFICES ASSUME Bad # {} PROVE FALSE
    OBVIOUS
  <2>2. PICK m \in Bad : \A j \in Bad : m <= j
    <3> HIDE DEF Is
    <3>1. 0..N \subseteq Nat /\ Bad \subseteq 0..N
      BY <1>1
    <3>2. Bad \in SUBSET Nat
      BY <3>1
    <3>3. QED
      BY <2>1, <3>2, MinOfNat
  <2>3. CASE m = 0
    <3>1. Is([n \in 1..0 |-> <<>>], 0)
      BY DEF Is
    <3>2. QED
      BY <2>2, <2>3, <3>1
  <2>4. CASE m # 0
    <3>0. m \in 0..N
      BY <2>2
    <3>1. m \in Nat /\ m - 1 \in 0..N /\ ~(m <= m - 1)
      BY <1>1, <2>4, <3>0
    <3> HIDE DEF Is
    <3>2. PICK f : Is(f, m - 1)
      BY <2>2, <3>1
    <3> USE DEF Is
    <3> DEFINE g == [n \in 1..m |-> IF n < m THEN f[n] ELSE Step(f, m)]
    <3>3. \A n \in 1..(m - 1) : f[n] = Step(f, n)
      BY <3>2
    <3>4. ASSUME NEW n \in 1..m PROVE g[n] = Step(g, n)
      <4>1. CASE n < m
        <5>1. n \in 1..(m - 1) /\ g[n] = f[n]
          BY <3>1, <4>1
        <5>2. n # 1 => g[n - 1] = f[n - 1]
          BY <3>1, <4>1
        <5>3. f[n] = Step(f, n)
          BY <3>3, <5>1
        <5>4. QED
          BY <5>1, <5>2, <5>3
      <4>2. CASE n = m
        <5>1. g[n] = Step(f, m)
          BY <3>1, <4>2
        <5>2. m # 1 => g[m - 1] = f[m - 1]
          BY <2>4, <3>1
        <5>3. QED
          BY <4>2, <5>1, <5>2
      <4>3. QED
        BY <3>1, <4>1, <4>2
    <3>5. Is(g, m)
      BY <3>4
    <3>6. QED
      BY <2>2, <3>5
  <2>5. QED
    BY <2>3, <2>4
<1>3. Is(flat, N)
  <2> HIDE DEF Is
  <2>1. N \in 0..N
    BY <1>1
  <2>2. QED
    BY <1>2, <2>1
<1>4. N = 0 => FlattenSeq(seqs) = <<>>
  <2>1. N = 0 => FlattenSeq(seqs) = seqs /\ seqs = <<>>
    BY <1>1, EmptySeq DEF FlattenSeq
  <2>2. QED
    BY <2>1
<1>5. N # 0 => FlattenSeq(seqs) = flat[N]
  BY DEF FlattenSeq
<1>6. \A n \in 1..N : flat[n] = Step(flat, n)
  BY <1>3
<1> HIDE DEF flat
<1>7. QED
  BY <1>4, <1>5, <1>6

(* Lists that are put behind each other have the elements they had. *)
LEMMA FlattenProperties ==
  ASSUME NEW X, NEW seqs \in Seq(Seq(X))
  PROVE  FlattenSeq(seqs) \in Seq(X)
<1> DEFINE N == Len(seqs)
<1>1. N \in Nat /\ seqs \in [1..N -> Seq(X)] /\ <<>> \in Seq(X)
  BY LenProperties, EmptySeq
<1>2. PICK upto : /\ FlattenSeq(seqs) = IF N = 0 THEN <<>> ELSE upto[N]
                  /\ \A n \in 1..N : upto[n] = IF n = 1 THEN seqs[n] ELSE upto[n - 1] \o seqs[n]
  BY FlattenUpto
<1> HIDE DEF N
<1> DEFINE P == {n \in 0..N : n # 0 => upto[n] \in Seq(X)}
<1>3. 0 \in P
  BY <1>1
<1>4. ASSUME NEW n \in 0..(N - 1), n \in P PROVE n + 1 \in P
  <2>1. n + 1 \in 1..N /\ n + 1 \in 0..N /\ (n + 1) - 1 = n /\ seqs[n + 1] \in Seq(X)
    BY <1>1
  <2>2. upto[n + 1] = IF n + 1 = 1 THEN seqs[n + 1] ELSE upto[n] \o seqs[n + 1]
    BY <1>2, <2>1
  <2>3. n # 0 => upto[n] \in Seq(X)
    BY <1>4
  <2>4. upto[n + 1] \in Seq(X)
    BY <2>1, <2>2, <2>3, ConcatProperties
  <2>5. QED
    BY <2>1, <2>4
<1>5. N \in P
  <2> HIDE DEF P
  <2>1. N \in 0..N
    BY <1>1
  <2>2. QED
    BY <1>1, <1>3, <1>4, <2>1, Upwards
<1>6. QED
  BY <1>1, <1>2, <1>5

(* e is in one place of the list, or in none. *)
InOnePlace(list, e) == \E q \in DOMAIN list : \A r \in DOMAIN list : list[r] = e <=> r = q
InNone(list, e)     == \A r \in DOMAIN list : list[r] # e

(* Where e is when one list is put behind another. *)
LEMMA ConcatPlaces ==
  ASSUME NEW X, NEW u \in Seq(X), NEW v \in Seq(X), NEW e
  PROVE  /\ InNone(u, e) /\ InNone(v, e) => InNone(u \o v, e)
         /\ InOnePlace(u, e) /\ InNone(v, e) => InOnePlace(u \o v, e)
         /\ InNone(u, e) /\ InOnePlace(v, e) => InOnePlace(u \o v, e)
<1> DEFINE w == u \o v
<1>1. /\ w \in Seq(X) /\ Len(w) = Len(u) + Len(v) /\ Len(u) \in Nat /\ Len(v) \in Nat
      /\ \A i \in 1..Len(u) : w[i] = u[i]
      /\ \A i \in 1..Len(v) : w[Len(u) + i] = v[i]
      /\ DOMAIN w = 1..Len(w) /\ DOMAIN u = 1..Len(u) /\ DOMAIN v = 1..Len(v)
  BY ConcatProperties, LenProperties
<1> HIDE DEF w
<1>2. \A i \in DOMAIN w :
        \/ i \in DOMAIN u /\ w[i] = u[i]
        \/ i - Len(u) \in DOMAIN v /\ w[i] = v[i - Len(u)] /\ i \notin DOMAIN u
  <2>1. ASSUME NEW i \in DOMAIN w, i \notin DOMAIN u
        PROVE  i - Len(u) \in DOMAIN v /\ w[i] = v[i - Len(u)]
    <3>1. i - Len(u) \in 1..Len(v) /\ Len(u) + (i - Len(u)) = i
      BY <1>1, <2>1
    <3>2. QED
      BY <1>1, <3>1
  <2>2. QED
    BY <1>1, <2>1
<1>3. (\A i \in DOMAIN u : i \in DOMAIN w) /\ \A i \in DOMAIN v : Len(u) + i \in DOMAIN w
  BY <1>1
<1>4. InNone(u, e) /\ InNone(v, e) => InNone(w, e)
  BY <1>2 DEF InNone
<1>5. ASSUME InOnePlace(u, e), InNone(v, e) PROVE InOnePlace(w, e)
  <2>1. PICK q \in DOMAIN u : \A r \in DOMAIN u : u[r] = e <=> r = q
    BY <1>5 DEF InOnePlace
  <2>2. \A r \in DOMAIN w : w[r] = e <=> r = q
    BY <1>2, <1>5, <2>1 DEF InNone
  <2>3. QED
    BY <1>3, <2>1, <2>2 DEF InOnePlace
<1>6. ASSUME InNone(u, e), InOnePlace(v, e) PROVE InOnePlace(w, e)
  <2>1. PICK q \in DOMAIN v : \A r \in DOMAIN v : v[r] = e <=> r = q
    BY <1>6 DEF InOnePlace
  <2>2. Len(u) + q \in DOMAIN w /\ Len(u) + q \notin DOMAIN u
    BY <1>1, <1>3
  <2>3. ASSUME NEW r \in DOMAIN w PROVE w[r] = e <=> r = Len(u) + q
    <3>1. CASE r \in DOMAIN u
      BY <1>1, <1>6, <2>2, <3>1 DEF InNone
    <3>2. CASE r \notin DOMAIN u
      <4>1. r - Len(u) \in DOMAIN v /\ w[r] = v[r - Len(u)]
        BY <1>2, <3>2
      <4>2. r - Len(u) = q <=> r = Len(u) + q
        BY <1>1
      <4>3. QED
        BY <2>1, <4>1, <4>2
    <3>3. QED
      BY <3>1, <3>2
  <2>4. QED
    BY <2>2, <2>3 DEF InOnePlace
<1>7. QED
  BY <1>4, <1>5, <1>6 DEF w

(* What is in one place of one of the lists, and in none of the others, is *)
(* in one place of all of them behind each other.                          *)
LEMMA FlattenPlaces ==
  ASSUME NEW X, NEW seqs \in Seq(Seq(X)), NEW k \in 1..Len(seqs), NEW e,
         InOnePlace(seqs[k], e), \A i \in 1..Len(seqs) : i # k => InNone(seqs[i], e)
  PROVE  InOnePlace(FlattenSeq(seqs), e)
<1> DEFINE N == Len(seqs)
<1>1. N \in Nat /\ seqs \in [1..N -> Seq(X)] /\ k \in 1..N
  BY LenProperties
<1>2. PICK upto : /\ FlattenSeq(seqs) = IF N = 0 THEN <<>> ELSE upto[N]
                  /\ \A n \in 1..N : upto[n] = IF n = 1 THEN seqs[n] ELSE upto[n - 1] \o seqs[n]
  BY FlattenUpto
<1>3. \A i \in 1..N : i # k => InNone(seqs[i], e)
  OBVIOUS
<1> HIDE DEF N
<1> DEFINE Good(n) == /\ upto[n] \in Seq(X)
                      /\ n < k => InNone(upto[n], e)
                      /\ n >= k => InOnePlace(upto[n], e)
           P == {n \in 0..N : n # 0 => Good(n)}
<1>4. 0 \in P
  BY <1>1
<1>5. ASSUME NEW n \in 0..(N - 1), n \in P PROVE n + 1 \in P
  <2>1. n + 1 \in 1..N /\ n + 1 \in 0..N /\ (n + 1) - 1 = n /\ seqs[n + 1] \in Seq(X)
    BY <1>1
  <2>2. upto[n + 1] = IF n + 1 = 1 THEN seqs[n + 1] ELSE upto[n] \o seqs[n + 1]
    BY <1>2, <2>1
  <2>3. CASE n = 0
    <3>1. upto[n + 1] = seqs[n + 1] /\ n + 1 = 1
      BY <2>2, <2>3
    <3>2. Good(n + 1)
      BY <1>1, <1>3, <2>1, <3>1
    <3>3. QED
      BY <2>1, <3>2
  <2>4. CASE n # 0
    <3>0. Good(n)
      BY <1>5, <2>4
    <3>6. n + 1 # 1
      BY <1>1, <2>4
    <3>1. upto[n + 1] = upto[n] \o seqs[n + 1] /\ upto[n] \in Seq(X)
      <4> HIDE DEF P
      <4>1. upto[n] \in Seq(X)
        BY <3>0
      <4>2. QED
        BY <2>2, <3>6, <4>1
    <3>2. upto[n + 1] \in Seq(X)
      BY <2>1, <3>1, ConcatProperties
    <3>3. ASSUME n + 1 < k PROVE InNone(upto[n + 1], e)
      <4>1. InNone(upto[n], e) /\ InNone(seqs[n + 1], e)
        BY <1>1, <1>3, <1>5, <2>1, <2>4, <3>3
      <4>2. QED
        BY <2>1, <3>1, <4>1, ConcatPlaces
    <3>4. ASSUME n + 1 >= k PROVE InOnePlace(upto[n + 1], e)
      <4>1. CASE n + 1 = k
        <5>1. InNone(upto[n], e) /\ InOnePlace(seqs[n + 1], e)
          BY <1>1, <1>5, <2>4, <4>1
        <5>2. QED
          BY <2>1, <3>1, <5>1, ConcatPlaces
      <4>2. CASE n + 1 # k
        <5>1. InOnePlace(upto[n], e) /\ InNone(seqs[n + 1], e)
          BY <1>1, <1>3, <1>5, <2>1, <2>4, <3>4, <4>2
        <5>2. QED
          BY <2>1, <3>1, <5>1, ConcatPlaces
      <4>3. QED
        BY <4>1, <4>2
    <3>5. QED
      BY <2>1, <3>2, <3>3, <3>4
  <2>5. QED
    BY <2>3, <2>4
<1>6. N \in P
  <2> HIDE DEF P
  <2>1. N \in 0..N
    BY <1>1
  <2>2. QED
    BY <1>1, <1>4, <1>5, <2>1, Upwards
<1>7. N # 0 /\ N >= k
  BY <1>1
<1>8. QED
  BY <1>2, <1>6, <1>7

(* A list of which every element is in S is kept whole. *)
LEMMA AmongAll ==
  ASSUME NEW X, NEW list \in Seq(X), NEW S, \A i \in 1..Len(list) : list[i] \in S
  PROVE  Among(list, S) = list
<1> DEFINE N == Len(list)
<1>1. N \in Nat /\ \A i \in 1..N : list[i] \in X
  OBVIOUS
<1>2. PICK upto : /\ Among(list, S) = upto[N] /\ upto[0] = <<>>
                  /\ \A n \in 1..N : upto[n] = IF list[n] \in S THEN Append(upto[n - 1], list[n])
                                               ELSE upto[n - 1]
  BY AmongUpto
<1> DEFINE Good(u, n) == u \in Seq(X) /\ Len(u) = n /\ \A i \in 1..n : u[i] = list[i]
           P == {n \in 0..N : Good(upto[n], n)}
<1>3. 0 \in P
  <2>1. Good(<<>>, 0)
    BY EmptySeq
  <2> HIDE DEF Good
  <2>2. QED
    BY <1>1, <1>2, <2>1
<1>4. ASSUME NEW n \in 0..(N - 1), n \in P PROVE n + 1 \in P
  <2>1. n + 1 \in 1..N /\ n + 1 \in 0..N /\ (n + 1) - 1 = n
    BY <1>1
  <2>2. upto[n + 1] = Append(upto[n], list[n + 1])
    BY <1>2, <2>1
  <2>3. Good(upto[n], n)
    <3> HIDE DEF Good
    <3>1. QED
      BY <1>4
  <2> DEFINE u == upto[n]
             e == list[n + 1]
  <2>4. u \in Seq(X) /\ Len(u) = n /\ e \in X /\ \A i \in 1..n : u[i] = list[i]
    BY <1>1, <2>1, <2>3
  <2> HIDE DEF u
  <2>5. /\ Append(u, e) \in Seq(X) /\ Len(Append(u, e)) = n + 1
        /\ \A i \in 1..n : Append(u, e)[i] = u[i]
        /\ Append(u, e)[n + 1] = e
    BY <2>4, AppendProperties
  <2>6. Good(Append(u, e), n + 1)
    BY <2>1, <2>4, <2>5
  <2>7. Good(upto[n + 1], n + 1)
    <3> HIDE DEF Good
    <3>1. QED
      BY <2>2, <2>6 DEF u
  <2> HIDE DEF Good
  <2>8. QED
    BY <2>1, <2>7
<1>5. N \in P
  <2>1. \A n \in 0..N : n \in P
    <3> HIDE DEF P
    <3>1. QED
      BY <1>1, <1>3, <1>4, Upwards
  <2>2. N \in 0..N
    BY <1>1
  <2> HIDE DEF P
  <2>3. QED
    BY <2>1, <2>2
<1>6. Among(list, S) \in Seq(X) /\ Len(Among(list, S)) = N
      /\ \A i \in 1..N : Among(list, S)[i] = list[i]
  BY <1>2, <1>5
<1>7. QED
  BY <1>6, SeqEqual

(* What a recursive function makes, at each of N places, of the value      *)
(* before; and that f is this function, from the value b on.               *)
StepsOf(N, S) == [1..N -> [S -> S]]

Recurs(f, N, S, b, g) ==
  f \in [0..N -> S] /\ f[0] = b /\ \A i \in 1..N : f[i] = g[i][f[i - 1]]

(* A function that is given at 0, and at i by its value before, exists.    *)
LEMMA Recursion ==
  ASSUME NEW N \in Nat, NEW S, NEW b \in S, NEW g \in StepsOf(N, S)
  PROVE  \E f : Recurs(f, N, S, b, g)
<1>0. g \in [1..N -> [S -> S]]
  BY DEF StepsOf
<1> DEFINE Upto(f, m) == f[0] = b /\ \A i \in 1..m : f[i] = g[i][f[i - 1]]
           P == {m \in 0..N : \E f \in [0..m -> S] : Upto(f, m)}
<1>1. 0 \in P
  <2>1. [i \in 0..0 |-> b] \in [0..0 -> S] /\ Upto([i \in 0..0 |-> b], 0)
    OBVIOUS
  <2> HIDE DEF Upto
  <2>2. 0 \in 0..N
    OBVIOUS
  <2>3. QED
    BY <2>1, <2>2
<1>2. ASSUME NEW n \in 0..(N - 1), n \in P PROVE n + 1 \in P
  <2>1. n \in Nat /\ n + 1 \in 0..N /\ n + 1 \in 1..N
    OBVIOUS
  <2>2. PICK f \in [0..n -> S] : Upto(f, n)
    BY <1>2
  <2> DEFINE h == [i \in 0..(n + 1) |-> IF i = n + 1 THEN g[n + 1][f[n]] ELSE f[i]]
  <2>3. f[n] \in S /\ g[n + 1][f[n]] \in S
    BY <1>0, <2>1, <2>2
  <2>4. h \in [0..(n + 1) -> S]
    <3>1. \A i \in 0..(n + 1) : i = n + 1 \/ i \in 0..n
      BY <2>1
    <3>2. QED
      BY <2>2, <2>3, <3>1
  <2>5. ASSUME NEW i \in 1..(n + 1) PROVE h[i] = g[i][h[i - 1]]
    <3>1. i - 1 \in 0..n /\ i - 1 \in 0..(n + 1) /\ i - 1 # n + 1
      BY <2>1
    <3>2. h[i - 1] = f[i - 1]
      BY <3>1
    <3>3. CASE i = n + 1
      <4>1. h[i] = g[n + 1][f[n]] /\ i - 1 = n
        BY <2>1, <3>3
      <4>2. QED
        BY <3>2, <3>3, <4>1
    <3>4. CASE i # n + 1
      <4>1. i \in 1..n /\ h[i] = f[i]
        BY <2>1, <3>4
      <4>2. QED
        BY <2>2, <3>2, <4>1
    <3>5. QED
      BY <3>3, <3>4
  <2>6. h[0] = b
    BY <2>1, <2>2
  <2> HIDE DEF h
  <2>7. QED
    BY <2>1, <2>4, <2>5, <2>6
<1>3. N \in P
  <2> HIDE DEF P
  <2>1. N \in 0..N
    OBVIOUS
  <2>2. QED
    BY <1>1, <1>2, <2>1, Upwards
<1>4. QED
  BY <1>3 DEF Recurs

(* The offsets in a concatenation at which its parts begin and end. *)
Begins(seqs, off) ==
  /\ off \in [0..Len(seqs) -> Nat] /\ off[0] = 0
  /\ \A k \in 1..Len(seqs) : off[k] = off[k - 1] + Len(seqs[k])

(* There are such offsets. *)
LEMMA BeginsExists ==
  ASSUME NEW X, NEW seqs \in Seq(Seq(X))
  PROVE  \E off : Begins(seqs, off)
<1> DEFINE N == Len(seqs)
           g == [i \in 1..N |-> [x \in Nat |-> x + Len(seqs[i])]]
<1>1. N \in Nat /\ \A i \in 1..N : Len(seqs[i]) \in Nat
  <2>1. N \in Nat /\ \A i \in 1..N : seqs[i] \in Seq(X)
    OBVIOUS
  <2>2. QED
    BY <2>1
<1> HIDE DEF N
<1>2. g \in [1..N -> [Nat -> Nat]]
  BY <1>1
<1>3. PICK f : Recurs(f, N, Nat, 0, g)
  <2>1. g \in StepsOf(N, Nat)
    BY <1>2 DEF StepsOf
  <2> HIDE DEF g
  <2>2. QED
    BY <1>1, <2>1, Recursion
<1>4. f \in [0..N -> Nat] /\ f[0] = 0 /\ \A i \in 1..N : f[i] = g[i][f[i - 1]]
  <2> HIDE DEF g
  <2>1. QED
    BY <1>3 DEF Recurs
<1>5. ASSUME NEW i \in 1..N PROVE f[i] = f[i - 1] + Len(seqs[i])
  <2>1. i - 1 \in 0..N /\ f[i - 1] \in Nat
    BY <1>1, <1>4
  <2>2. QED
    BY <1>4, <2>1
<1>6. QED
  BY <1>4, <1>5 DEF Begins, N

(* Later parts end further on. *)
LEMMA BeginsOrdered ==
  ASSUME NEW X, NEW seqs \in Seq(Seq(X)), NEW off, Begins(seqs, off),
         NEW k \in 0..Len(seqs), NEW m \in 0..Len(seqs), k <= m
  PROVE  off[k] <= off[m] /\ off[k] \in Nat /\ off[m] \in Nat
<1> DEFINE N == Len(seqs)
           P == {n \in 0..N : k <= n => off[k] <= off[n]}
<1>1. N \in Nat /\ \A i \in 1..N : Len(seqs[i]) \in Nat
  <2>1. N \in Nat /\ \A i \in 1..N : seqs[i] \in Seq(X)
    OBVIOUS
  <2>2. QED
    BY <2>1
<1>2. /\ off \in [0..N -> Nat] /\ \A i \in 1..N : off[i] = off[i - 1] + Len(seqs[i])
      /\ k \in 0..N /\ m \in 0..N
  BY DEF Begins
<1> HIDE DEF N
<1>3. 0 \in P
  BY <1>1, <1>2
<1>4. ASSUME NEW n \in 0..(N - 1), n \in P PROVE n + 1 \in P
  <2>1. n + 1 \in 1..N /\ n + 1 \in 0..N /\ (n + 1) - 1 = n /\ n \in 0..N
    BY <1>1
  <2>2. off[n + 1] = off[n] + Len(seqs[n + 1]) /\ Len(seqs[n + 1]) \in Nat /\ off[n] \in Nat
    BY <1>1, <1>2, <2>1
  <2>3. off[n] <= off[n + 1]
    BY <2>2
  <2>4. CASE k = n + 1
    <3>1. off[n + 1] \in Nat /\ off[k] = off[n + 1]
      BY <1>2, <2>1, <2>4
    <3>2. QED
      BY <2>1, <3>1
  <2>5. CASE k # n + 1
    <3>1. off[k] \in Nat /\ off[n + 1] \in Nat
      BY <1>2, <2>1
    <3>2. k <= n + 1 => off[k] <= off[n]
      BY <1>2, <1>4, <2>1, <2>5
    <3>3. QED
      BY <2>1, <2>2, <2>3, <3>1, <3>2
  <2>6. QED
    BY <2>4, <2>5
<1>5. \A n \in 0..N : n \in P
  <2> HIDE DEF P
  <2>1. QED
    BY <1>1, <1>3, <1>4, Upwards
<1>6. QED
  BY <1>2, <1>5

(* The first n parts of two lists are the same. *)
SameUpto(s, t, n) == \A i \in 1..n : s[i] = t[i]

(* The offsets are the same for as long as the parts are. *)
LEMMA BeginsSame ==
  ASSUME NEW X, NEW s \in Seq(Seq(X)), NEW t \in Seq(Seq(X)), NEW off, NEW oft,
         Begins(s, off), Begins(t, oft), NEW n \in 0..Len(s), n <= Len(t),
         SameUpto(s, t, n)
  PROVE  \A i \in 0..n : off[i] = oft[i]
<1> DEFINE P == {i \in 0..n : off[i] = oft[i]}
<1>1. n \in Nat /\ 0..n \subseteq 0..Len(s) /\ 0..n \subseteq 0..Len(t)
      /\ 1..n \subseteq 1..Len(s) /\ 1..n \subseteq 1..Len(t)
  OBVIOUS
<1>2. off[0] = 0 /\ oft[0] = 0
  BY DEF Begins
<1>3. ASSUME NEW i \in 1..n PROVE off[i] = off[i - 1] + Len(s[i]) /\ oft[i] = oft[i - 1] + Len(s[i])
  BY <1>1 DEF Begins, SameUpto
<1>4. 0 \in P
  BY <1>1, <1>2
<1>5. ASSUME NEW m \in 0..(n - 1), m \in P PROVE m + 1 \in P
  <2>1. m + 1 \in 1..n /\ m + 1 \in 0..n /\ (m + 1) - 1 = m
    BY <1>1
  <2>2. QED
    BY <1>3, <1>5, <2>1
<1>6. \A i \in 0..n : i \in P
  <2> HIDE DEF P
  <2>1. QED
    BY <1>1, <1>4, <1>5, Upwards
<1>7. QED
  BY <1>6

(* Each part is found in the concatenation, where its offset says. *)
LEMMA FlattenAt ==
  ASSUME NEW X, NEW seqs \in Seq(Seq(X)), NEW off, Begins(seqs, off)
  PROVE  /\ FlattenSeq(seqs) \in Seq(X) /\ Len(FlattenSeq(seqs)) = off[Len(seqs)]
         /\ \A k \in 1..Len(seqs) : \A j \in 1..Len(seqs[k]) :
              /\ off[k - 1] + j \in 1..Len(FlattenSeq(seqs))
              /\ FlattenSeq(seqs)[off[k - 1] + j] = seqs[k][j]
<1> DEFINE N == Len(seqs)
<1>1. /\ N \in Nat /\ off \in [0..N -> Nat] /\ off[0] = 0
      /\ \A i \in 1..N : off[i] = off[i - 1] + Len(seqs[i])
  BY DEF Begins
<1>2. PICK upto : /\ FlattenSeq(seqs) = IF N = 0 THEN <<>> ELSE upto[N]
                  /\ \A n \in 1..N : upto[n] = IF n = 1 THEN seqs[n] ELSE upto[n - 1] \o seqs[n]
  BY FlattenUpto
<1>3. \A i \in 1..N : seqs[i] \in Seq(X) /\ Len(seqs[i]) \in Nat
  <2>1. \A i \in 1..N : seqs[i] \in Seq(X)
    OBVIOUS
  <2>2. QED
    BY <2>1
<1> DEFINE Good(s, n) == /\ s \in Seq(X) /\ Len(s) = off[n]
                         /\ \A k \in 1..n : \A j \in 1..Len(seqs[k]) :
                              off[k - 1] + j \in 1..Len(s) /\ s[off[k - 1] + j] = seqs[k][j]
           P == {n \in 0..N : n = 0 \/ Good(upto[n], n)}
<1>4. ASSUME NEW s \in Seq(X), NEW n \in 0..(N - 1), Good(s, n)
      PROVE  Good(s \o seqs[n + 1], n + 1)
  <2>1. n + 1 \in 1..N /\ (n + 1) - 1 = n
    BY <1>1
  <2> DEFINE t == seqs[n + 1]
             w == s \o t
  <2>2. t \in Seq(X) /\ Len(t) \in Nat /\ Len(s) \in Nat
    BY <1>3, <2>1
  <2>3. off[n + 1] = off[n] + Len(t)
    BY <1>1, <2>1
  <2>4. Len(s) = off[n]
    BY <1>4
  <2> HIDE DEF t
  <2>5. /\ w \in Seq(X) /\ Len(w) = Len(s) + Len(t)
        /\ \A i \in 1..(Len(s) + Len(t)) : w[i] = IF i <= Len(s) THEN s[i] ELSE t[i - Len(s)]
    BY <2>2, ConcatProperties
  <2> HIDE DEF w
  <2>6. Len(w) = off[n + 1]
    BY <2>3, <2>4, <2>5
  <2>7. ASSUME NEW k \in 1..(n + 1), NEW j \in 1..Len(seqs[k])
        PROVE  off[k - 1] + j \in 1..Len(w) /\ w[off[k - 1] + j] = seqs[k][j]
    <3>1. CASE k \in 1..n
      <4>1. off[k - 1] + j \in 1..Len(s) /\ s[off[k - 1] + j] = seqs[k][j]
        BY <1>4, <3>1
      <4> DEFINE x == off[k - 1] + j
      <4>2. x \in 1..Len(s) /\ s[x] = seqs[k][j]
        BY <4>1
      <4> HIDE DEF x
      <4>3. x \in 1..(Len(s) + Len(t)) /\ x <= Len(s)
        BY <2>2, <4>2
      <4>4. x \in 1..Len(w) /\ w[x] = seqs[k][j]
        BY <2>5, <4>2, <4>3
      <4>5. QED
        BY <4>4 DEF x
    <3>2. CASE k = n + 1
      <4>1. j \in 1..Len(t) /\ off[k - 1] = Len(s) /\ seqs[k] = t
        BY <2>1, <2>4, <3>2 DEF t
      <4>2. Len(s) + j \in 1..(Len(s) + Len(t)) /\ ~(Len(s) + j <= Len(s)) /\ (Len(s) + j) - Len(s) = j
        BY <2>2, <4>1
      <4>3. QED
        BY <2>5, <4>1, <4>2
    <3>3. k \in 1..n \/ k = n + 1
      BY <1>1
    <3>4. QED
      BY <3>1, <3>2, <3>3
  <2>8. QED
    BY <2>5, <2>6, <2>7 DEF w, t
<1>5. <<>> \in Seq(X) /\ Len(<<>>) = 0 /\ Good(<<>>, 0)
  BY <1>1, EmptySeq
<1>6. 0 \in P
  BY <1>1
<1>7. ASSUME NEW n \in 0..(N - 1), n \in P PROVE n + 1 \in P
  <2>1. n + 1 \in 1..N /\ n + 1 \in 0..N /\ (n + 1) - 1 = n /\ n \in Nat
    BY <1>1
  <2>2. CASE n = 0
    <3>1. upto[1] = seqs[1] /\ 1 \in 1..N /\ seqs[1] \in Seq(X)
      BY <1>2, <1>3, <2>1, <2>2
    <3>2. <<>> \o seqs[1] = seqs[1]
      BY <3>1, ConcatEmptySeq
    <3>3. Good(<<>> \o seqs[0 + 1], 0 + 1)
      <4> HIDE DEF Good
      <4>1. QED
        BY <1>4, <1>5, <2>2
    <3>4. Good(upto[n + 1], n + 1)
      <4> HIDE DEF Good
      <4>1. 0 + 1 = 1
        OBVIOUS
      <4>2. QED
        BY <2>2, <3>1, <3>2, <3>3, <4>1
    <3>5. QED
      <4> HIDE DEF Good
      <4>1. QED
        BY <2>1, <3>4
  <2>3. CASE n # 0
    <3>1. upto[n + 1] = upto[n] \o seqs[n + 1]
      <4>1. n + 1 # 1
        BY <2>1, <2>3
      <4>2. upto[n + 1] = upto[(n + 1) - 1] \o seqs[n + 1]
        BY <1>2, <2>1, <4>1
      <4>3. QED
        BY <2>1, <4>2
    <3>4. Good(upto[n], n)
      <4> HIDE DEF Good
      <4>1. QED
        BY <1>7, <2>3
    <3>2. Good(upto[n], n) /\ upto[n] \in Seq(X)
      BY <3>4
    <3>3. Good(upto[n + 1], n + 1)
      <4> HIDE DEF Good
      <4>1. QED
        BY <1>4, <3>1, <3>2
    <3>5. QED
      <4> HIDE DEF Good
      <4>1. QED
        BY <2>1, <3>3
  <2>4. QED
    BY <2>2, <2>3
<1>8. \A n \in 0..N : n \in P
  <2> HIDE DEF P
  <2>1. QED
    BY <1>1, <1>6, <1>7, Upwards
<1>9. Good(FlattenSeq(seqs), N)
  <2>1. CASE N = 0
    <3>1. FlattenSeq(seqs) = <<>>
      BY <1>2, <2>1
    <3> HIDE DEF Good
    <3>2. QED
      BY <1>5, <2>1, <3>1
  <2>2. CASE N # 0
    <3>1. FlattenSeq(seqs) = upto[N] /\ N \in P
      BY <1>1, <1>2, <1>8, <2>2
    <3> HIDE DEF Good
    <3>2. QED
      BY <2>2, <3>1
  <2>3. QED
    BY <2>1, <2>2
<1>10. QED
  BY <1>9

(* A stretch of n elements behind a place in a part is within this part. *)
InPart(seqs, k, at, n) ==
  k \in 1..Len(seqs) /\ at \in Nat /\ n \in Nat /\ at + n <= Len(seqs[k])

(* It is in the concatenation, behind the offset of the part. *)
FoundAt(flat, seqs, off, k, at, n) ==
  SubSeq(flat, off[k - 1] + at + 1, off[k - 1] + at + n) = SubSeq(seqs[k], at + 1, at + n)

(* Such a stretch of the concatenation is the one of the part. *)
LEMMA FlattenPart ==
  ASSUME NEW X, NEW seqs \in Seq(Seq(X)), NEW off, Begins(seqs, off),
         NEW k, NEW at, NEW n, InPart(seqs, k, at, n)
  PROVE  FoundAt(FlattenSeq(seqs), seqs, off, k, at, n)
<1> DEFINE flat == FlattenSeq(seqs)
           part == seqs[k]
           b == off[k - 1]
<1>0. k \in 1..Len(seqs) /\ at \in Nat /\ n \in Nat /\ at + n <= Len(seqs[k])
  BY DEF InPart
<1>1. /\ flat \in Seq(X) /\ part \in Seq(X) /\ b \in Nat
      /\ \A j \in 1..Len(part) : b + j \in 1..Len(flat) /\ flat[b + j] = part[j]
  <2>1. part \in Seq(X)
    BY <1>0
  <2>2. k - 1 \in 0..Len(seqs)
    BY <1>0
  <2>3. b \in Nat
    BY <2>2 DEF Begins
  <2>4. /\ FlattenSeq(seqs) \in Seq(X)
        /\ \A m \in 1..Len(seqs) : \A j \in 1..Len(seqs[m]) :
             /\ off[m - 1] + j \in 1..Len(FlattenSeq(seqs))
             /\ FlattenSeq(seqs)[off[m - 1] + j] = seqs[m][j]
    BY FlattenAt
  <2>5. QED
    BY <1>0, <2>1, <2>3, <2>4
<1>2. Len(part) \in Nat /\ Len(flat) \in Nat /\ at + n <= Len(part)
  BY <1>0, <1>1
<1> HIDE DEF flat, part, b
<1>3. n # 0 => b + at + n \in 1..Len(flat)
  <2>1. n # 0 => at + n \in 1..Len(part)
    BY <1>0, <1>2
  <2>2. b + at + n = b + (at + n)
    BY <1>0, <1>1
  <2>3. QED
    BY <1>0, <1>1, <2>1, <2>2
<1> DEFINE u == SubSeq(flat, b + at + 1, b + at + n)
           v == SubSeq(part, at + 1, at + n)
<1>4. u \in Seq(X) /\ Len(u) = n /\ \A i \in 1..n : u[i] = flat[b + at + i]
  <2>1. b + at + 1 \in Int /\ b + at + n \in Int /\ (b + at + n) - (b + at + 1) + 1 = n
    BY <1>0, <1>1
  <2>2. ASSUME NEW i \in (b + at + 1)..(b + at + n) PROVE flat[i] \in X
    <3>1. i \in 1..Len(flat)
      BY <1>0, <1>1, <1>2, <1>3
    <3>2. QED
      BY <1>0, <1>1, <3>1
  <2>3. /\ u \in Seq(X) /\ Len(u) = IF b + at + 1 <= b + at + n THEN (b + at + n) - (b + at + 1) + 1 ELSE 0
        /\ \A i \in 1..((b + at + n) - (b + at + 1) + 1) : u[i] = flat[(b + at + 1) + i - 1]
    BY <2>1, <2>2, SubSeqProperties
  <2>4. Len(u) = n
    BY <1>0, <1>1, <2>1, <2>3
  <2>5. \A i \in 1..n : (b + at + 1) + i - 1 = b + at + i
    BY <1>0, <1>1
  <2>6. QED
    BY <2>1, <2>3, <2>4, <2>5
<1>5. v \in Seq(X) /\ Len(v) = n /\ \A i \in 1..n : v[i] = part[at + i]
  <2>1. at + 1 \in Int /\ at + n \in Int /\ (at + n) - (at + 1) + 1 = n
    BY <1>0, <1>1
  <2>2. ASSUME NEW i \in (at + 1)..(at + n) PROVE part[i] \in X
    <3>1. i \in 1..Len(part)
      BY <1>0, <1>1, <1>2
    <3>2. QED
      BY <1>0, <1>1, <3>1
  <2>3. /\ v \in Seq(X) /\ Len(v) = IF at + 1 <= at + n THEN (at + n) - (at + 1) + 1 ELSE 0
        /\ \A i \in 1..((at + n) - (at + 1) + 1) : v[i] = part[(at + 1) + i - 1]
    BY <2>1, <2>2, SubSeqProperties
  <2>4. Len(v) = n
    BY <1>0, <1>1, <2>1, <2>3
  <2>5. \A i \in 1..n : (at + 1) + i - 1 = at + i
    BY <1>0, <1>1
  <2>6. QED
    BY <2>1, <2>3, <2>4, <2>5
<1>6. ASSUME NEW i \in 1..n PROVE flat[b + at + i] = part[at + i]
  <2>1. at + i \in 1..Len(part) /\ b + at + i = b + (at + i)
    BY <1>0, <1>1, <1>2
  <2>2. QED
    BY <1>0, <1>1, <2>1
<1>7. u = v
  BY <1>4, <1>5, <1>6, SeqEqual
<1>8. QED
  BY <1>7 DEF u, v, flat, part, b, FoundAt

(* What the reader has of a packet, and a part of it that goes on there. *)
LEMMA PartsJoin ==
  ASSUME NEW X, NEW f \in Seq(X), NEW a \in Nat, NEW n \in Nat, a + n <= Len(f)
  PROVE  /\ SubSeq(f, 1, a) \o SubSeq(f, a + 1, a + n) = SubSeq(f, 1, a + n)
         /\ SubSeq(f, 1, a + n) \in Seq(X) /\ Len(SubSeq(f, 1, a + n)) = a + n
         /\ DOMAIN SubSeq(f, 1, a + n) = 1..(a + n)
         /\ \A j \in 1..(a + n) : SubSeq(f, 1, a + n)[j] = f[j]
<1> DEFINE u == SubSeq(f, 1, a)
           v == SubSeq(f, a + 1, a + n)
           w == SubSeq(f, 1, a + n)
<1>1. Len(f) \in Nat /\ \A i \in 1..Len(f) : f[i] \in X
  OBVIOUS
<1>2. u \in Seq(X) /\ Len(u) = a /\ \A j \in 1..a : u[j] = f[j]
  <2>1. \A i \in 1..a : f[i] \in X
    BY <1>1
  <2>2. /\ u \in Seq(X) /\ Len(u) = IF 1 <= a THEN a - 1 + 1 ELSE 0
        /\ \A i \in 1..(a - 1 + 1) : u[i] = f[1 + i - 1]
    BY <2>1, SubSeqProperties
  <2>3. QED
    BY <2>2
<1>3. w \in Seq(X) /\ Len(w) = a + n /\ \A j \in 1..(a + n) : w[j] = f[j]
  <2>1. \A i \in 1..(a + n) : f[i] \in X
    BY <1>1
  <2>2. /\ w \in Seq(X) /\ Len(w) = IF 1 <= a + n THEN (a + n) - 1 + 1 ELSE 0
        /\ \A i \in 1..((a + n) - 1 + 1) : w[i] = f[1 + i - 1]
    BY <2>1, SubSeqProperties
  <2>3. QED
    BY <2>2
<1>4. v \in Seq(X) /\ Len(v) = n /\ \A j \in 1..n : v[j] = f[a + j]
  <2>1. \A i \in (a + 1)..(a + n) : f[i] \in X
    <3>1. \A i \in (a + 1)..(a + n) : i \in 1..Len(f)
      BY <1>1
    <3>2. QED
      BY <1>1, <3>1
  <2>2. /\ v \in Seq(X) /\ Len(v) = IF a + 1 <= a + n THEN (a + n) - (a + 1) + 1 ELSE 0
        /\ \A i \in 1..((a + n) - (a + 1) + 1) : v[i] = f[(a + 1) + i - 1]
    BY <2>1, SubSeqProperties
  <2>3. (a + n) - (a + 1) + 1 = n /\ \A i \in 1..n : (a + 1) + i - 1 = a + i
    OBVIOUS
  <2>4. Len(v) = n
    BY <2>2, <2>3
  <2>5. QED
    BY <2>2, <2>3, <2>4
<1> HIDE DEF u, v, w
<1>5. /\ u \o v \in Seq(X) /\ Len(u \o v) = a + n
      /\ \A i \in 1..(a + n) : (u \o v)[i] = IF i <= a THEN u[i] ELSE v[i - a]
  BY <1>2, <1>4, ConcatProperties
<1>6. ASSUME NEW i \in 1..(a + n) PROVE (u \o v)[i] = w[i]
  <2>1. CASE i <= a
    BY <1>2, <1>3, <1>5, <2>1
  <2>2. CASE ~(i <= a)
    <3>1. i - a \in 1..n /\ a + (i - a) = i
      BY <2>2
    <3>2. QED
      BY <1>3, <1>4, <1>5, <2>2, <3>1
  <2>3. QED
    BY <2>1, <2>2
<1>7. u \o v = w
  BY <1>3, <1>5, <1>6, SeqEqual
<1>8. DOMAIN w = 1..(a + n)
  BY <1>3
<1>9. QED
  BY <1>3, <1>7, <1>8 DEF u, v, w
=============================================================================
