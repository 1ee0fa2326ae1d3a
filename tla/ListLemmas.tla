------------------------------ MODULE ListLemmas ------------------------------
(***************************************************************************)
(* Facts about the sequence operators that model the state lists: what     *)
(* appending, removing and concatenating do to the elements of a list      *)
(* without repetitions.                                                    *)
(***************************************************************************)
EXTENDS Lists, TLAPS

(* Membership and repetition in terms of places.                           *)
LEMMA RangeIs ==
  ASSUME NEW S, NEW s \in Seq(S)
  PROVE  /\ DOMAIN s = 1 .. Len(s)
         /\ Len(s) \in Nat
         /\ \A i \in 1 .. Len(s) : s[i] \in S /\ s[i] \in Range(s)
         /\ \A x : x \in Range(s) <=> \E i \in 1 .. Len(s) : s[i] = x
         /\ IsInjective(s) <=>
              \A i, j \in 1 .. Len(s) : s[i] = s[j] => i = j
  BY DEF Range, IsInjective

(* Removing the element at place k closes the gap it leaves.               *)
LEMMA WithoutIs ==
  ASSUME NEW S, NEW s \in Seq(S), IsInjective(s), NEW k \in 1 .. Len(s)
  PROVE  /\ Without(s, s[k]) \in Seq(S)
         /\ Len(Without(s, s[k])) = Len(s) - 1
         /\ \A j \in 1 .. Len(s) - 1 :
              Without(s, s[k])[j] = IF j < k THEN s[j] ELSE s[j + 1]
<1>1. \A i, j \in 1 .. Len(s) : s[i] = s[j] => i = j
  BY DEF IsInjective
<1>2. k = CHOOSE i \in 1 .. Len(s) : s[i] = s[k] /\ \A j \in 1 .. i - 1 : s[j] # s[k]
  BY <1>1
<1>3. Without(s, s[k]) = [j \in 1 .. Len(s) - 1 |-> IF j < k THEN s[j] ELSE s[j + 1]]
  BY <1>2 DEF Without
<1>4. \A j \in 1 .. Len(s) - 1 : (IF j < k THEN s[j] ELSE s[j + 1]) \in S
  OBVIOUS
<1> QED
  BY <1>3, <1>4

(* The same in terms of the elements.                                      *)
LEMMA WithoutRange ==
  ASSUME NEW S, NEW s \in Seq(S), IsInjective(s), NEW p \in Range(s)
  PROVE  /\ Without(s, p) \in Seq(S)
         /\ IsInjective(Without(s, p))
         /\ Range(Without(s, p)) = Range(s) \ {p}
<1>1. PICK k \in 1 .. Len(s) : s[k] = p
  BY DEF Range
<1> DEFINE t == Without(s, p)
<1>2. /\ t \in Seq(S)
      /\ Len(t) = Len(s) - 1
      /\ \A j \in 1 .. Len(s) - 1 : t[j] = IF j < k THEN s[j] ELSE s[j + 1]
  BY <1>1, WithoutIs
<1> HIDE DEF t
<1>3. IsInjective(t)
  <2> SUFFICES ASSUME NEW i \in 1 .. Len(t), NEW j \in 1 .. Len(t), t[i] = t[j]
               PROVE  i = j
    BY <1>2, RangeIs
  <2>1. \A a, b \in 1 .. Len(s) : s[a] = s[b] => a = b
    BY RangeIs
  <2>2. /\ t[i] = IF i < k THEN s[i] ELSE s[i + 1]
        /\ t[j] = IF j < k THEN s[j] ELSE s[j + 1]
        /\ {i, i + 1, j, j + 1} \subseteq 1 .. Len(s)
    BY <1>2
  <2>3. CASE i < k /\ j < k
    BY <2>1, <2>2, <2>3
  <2>4. CASE i < k /\ ~(j < k)
    <3>1. s[i] = s[j + 1]
      BY <2>2, <2>4
    <3>2. i # j + 1
      BY <2>4
    <3> QED BY <2>1, <2>2, <3>1, <3>2
  <2>5. CASE ~(i < k) /\ j < k
    <3>1. s[i + 1] = s[j]
      BY <2>2, <2>5
    <3>2. i + 1 # j
      BY <2>5
    <3> QED BY <2>1, <2>2, <3>1, <3>2
  <2>6. CASE ~(i < k) /\ ~(j < k)
    <3>1. s[i + 1] = s[j + 1]
      BY <2>2, <2>6
    <3>2. i + 1 = j + 1
      BY <2>1, <2>2, <3>1
    <3> QED BY <3>2
  <2> QED BY <2>3, <2>4, <2>5, <2>6
<1>4. ASSUME NEW j \in 1 .. Len(t) PROVE t[j] \in Range(s) \ {p}
  <2>1. PICK i \in 1 .. Len(s) : i # k /\ t[j] = s[i]
    <3>1. CASE j < k
      BY <1>1, <1>2, <3>1
    <3>2. CASE ~(j < k)
      BY <1>1, <1>2, <3>2
    <3> QED BY <3>1, <3>2
  <2>2. s[i] # p
    BY <1>1, <2>1 DEF IsInjective
  <2>3. s[i] \in Range(s)
    BY <1>1, RangeIs, Zenon
  <2> QED BY <2>1, <2>2, <2>3
<1>5. ASSUME NEW i \in 1 .. Len(s), s[i] # p PROVE \E j \in 1 .. Len(t) : t[j] = s[i]
  <2>1. CASE i < k
    BY <1>1, <1>2, <2>1
  <2>2. CASE i > k
    <3>1. i - 1 \in 1 .. Len(t) /\ t[i - 1] = s[i]
      BY <1>1, <1>2, <2>2
    <3> QED BY <3>1
  <2> QED BY <1>1, <1>5, <2>1, <2>2
<1>6. ASSUME NEW x PROVE x \in Range(t) <=> x \in Range(s) \ {p}
  <2>1. x \in Range(t) <=> \E j \in 1 .. Len(t) : t[j] = x
    BY <1>2, RangeIs
  <2>2. x \in Range(s) <=> \E i \in 1 .. Len(s) : s[i] = x
    BY RangeIs
  <2> QED BY <1>4, <1>5, <2>1, <2>2
<1>7. Range(t) = Range(s) \ {p}
  BY <1>6
<1> QED
  BY <1>2, <1>3, <1>7 DEF t

(* Removing what is not there changes nothing.                             *)
LEMMA WithoutAbsent ==
  ASSUME NEW S, NEW s \in Seq(S), NEW p, p \notin Range(s)
  PROVE  Without(s, p) = s
  BY DEF Without, Range

(* What appending adds to the elements of a sequence.                      *)
LEMMA AppendRange ==
  ASSUME NEW S, NEW s \in Seq(S), NEW p \in S
  PROVE  /\ Append(s, p) \in Seq(S)
         /\ Range(Append(s, p)) = Range(s) \cup {p}
         /\ IsInjective(s) /\ p \notin Range(s) => IsInjective(Append(s, p))
<1> DEFINE t == Append(s, p)
<1>1. /\ t \in Seq(S)
      /\ Len(t) = Len(s) + 1
      /\ \A i \in 1 .. Len(s) : t[i] = s[i]
      /\ t[Len(s) + 1] = p
      /\ Len(s) \in Nat
  OBVIOUS
<1> HIDE DEF t
<1>2. ASSUME NEW x PROVE x \in Range(t) <=> x \in Range(s) \cup {p}
  <2>1. x \in Range(t) <=> \E i \in 1 .. Len(t) : t[i] = x
    BY <1>1, RangeIs
  <2>2. x \in Range(s) <=> \E i \in 1 .. Len(s) : s[i] = x
    BY RangeIs
  <2> QED BY <1>1, <2>1, <2>2
<1>3. ASSUME IsInjective(s), p \notin Range(s) PROVE IsInjective(t)
  <2>1. \A i, j \in 1 .. Len(s) : s[i] = s[j] => i = j
    BY <1>3, RangeIs
  <2>2. \A i \in 1 .. Len(s) : s[i] # p
    BY <1>3, RangeIs
  <2>3. \A i, j \in 1 .. Len(t) : t[i] = t[j] => i = j
    BY <1>1, <2>1, <2>2
  <2> QED BY <1>1, <2>3, RangeIs
<1> QED
  BY <1>1, <1>2, <1>3 DEF t

(* What Tail takes from the elements of a sequence.                        *)
LEMMA TailRange ==
  ASSUME NEW S, NEW s \in Seq(S), s # <<>>, IsInjective(s)
  PROVE  /\ Head(s) \in Range(s)
         /\ Head(s) \in S
         /\ Tail(s) \in Seq(S)
         /\ IsInjective(Tail(s))
         /\ Range(Tail(s)) = Range(s) \ {Head(s)}
<1> DEFINE t == Tail(s)
<1>1. /\ t \in Seq(S)
      /\ Len(s) \in Nat
      /\ Len(s) >= 1
      /\ Len(t) = Len(s) - 1
      /\ \A i \in 1 .. Len(s) - 1 : t[i] = s[i + 1]
      /\ Head(s) = s[1]
  OBVIOUS
<1> HIDE DEF t
<1>2. \A i, j \in 1 .. Len(s) : s[i] = s[j] => i = j
  BY RangeIs
<1>3. ASSUME NEW x PROVE x \in Range(t) <=> x \in Range(s) \ {Head(s)}
  <2>1. x \in Range(t) <=> \E i \in 1 .. Len(t) : t[i] = x
    BY <1>1, RangeIs
  <2>2. x \in Range(s) <=> \E i \in 1 .. Len(s) : s[i] = x
    BY RangeIs
  <2>3. ASSUME NEW i \in 1 .. Len(s), s[i] = x, x # Head(s)
        PROVE  i - 1 \in 1 .. Len(t) /\ t[i - 1] = x
    BY <1>1, <2>3
  <2>4. ASSUME NEW i \in 1 .. Len(t), t[i] = x
        PROVE  i + 1 \in 1 .. Len(s) /\ s[i + 1] = x /\ x # Head(s)
    BY <1>1, <1>2, <2>4
  <2> QED BY <2>1, <2>2, <2>3, <2>4
<1>4. \A i, j \in 1 .. Len(t) : t[i] = t[j] => i = j
  BY <1>1, <1>2
<1>5. IsInjective(t)
  BY <1>1, <1>4, RangeIs
<1>6. Head(s) \in Range(s) /\ Head(s) \in S
  BY <1>1, RangeIs
<1> QED
  BY <1>1, <1>3, <1>5, <1>6 DEF t

(* What concatenation does to the elements of two sequences.               *)
LEMMA ConcatRange ==
  ASSUME NEW S, NEW s \in Seq(S), NEW t \in Seq(S),
         IsInjective(s), IsInjective(t), Range(s) \cap Range(t) = {}
  PROVE  /\ s \o t \in Seq(S)
         /\ IsInjective(s \o t)
         /\ Range(s \o t) = Range(s) \cup Range(t)
<1> DEFINE u == s \o t
<1>1. /\ u \in Seq(S)
      /\ Len(u) = Len(s) + Len(t)
      /\ Len(s) \in Nat
      /\ Len(t) \in Nat
      /\ \A i \in 1 .. Len(s) + Len(t) :
           u[i] = IF i <= Len(s) THEN s[i] ELSE t[i - Len(s)]
  OBVIOUS
<1> HIDE DEF u
<1>2. /\ \A i, j \in 1 .. Len(s) : s[i] = s[j] => i = j
      /\ \A i, j \in 1 .. Len(t) : t[i] = t[j] => i = j
      /\ \A i \in 1 .. Len(s), j \in 1 .. Len(t) : s[i] # t[j]
  BY RangeIs
<1>3. ASSUME NEW i \in 1 .. Len(u), NEW j \in 1 .. Len(u), u[i] = u[j]
      PROVE  i = j
  <2>1. CASE i <= Len(s) /\ j <= Len(s)
    BY <1>1, <1>2, <1>3, <2>1
  <2>2. CASE i > Len(s) /\ j > Len(s)
    <3>1. i - Len(s) \in 1 .. Len(t) /\ j - Len(s) \in 1 .. Len(t)
      BY <1>1, <2>2
    <3>2. u[i] = t[i - Len(s)] /\ u[j] = t[j - Len(s)]
      BY <1>1, <2>2
    <3>3. i - Len(s) = j - Len(s)
      BY <1>2, <1>3, <3>1, <3>2, Zenon
    <3> QED BY <1>1, <3>3
  <2>3. CASE i <= Len(s) /\ j > Len(s)
    <3>1. i \in 1 .. Len(s) /\ j - Len(s) \in 1 .. Len(t)
      BY <1>1, <2>3
    <3>2. u[i] = s[i] /\ u[j] = t[j - Len(s)]
      BY <1>1, <2>3
    <3> QED BY <1>2, <1>3, <3>1, <3>2, Zenon
  <2>4. CASE i > Len(s) /\ j <= Len(s)
    <3>1. j \in 1 .. Len(s) /\ i - Len(s) \in 1 .. Len(t)
      BY <1>1, <2>4
    <3>2. u[j] = s[j] /\ u[i] = t[i - Len(s)]
      BY <1>1, <2>4
    <3> QED BY <1>2, <1>3, <3>1, <3>2, Zenon
  <2> QED BY <1>1, <2>1, <2>2, <2>3, <2>4
<1>4. IsInjective(u)
  BY <1>1, <1>3, RangeIs
<1>5. ASSUME NEW x PROVE x \in Range(u) <=> x \in Range(s) \cup Range(t)
  <2>1. /\ x \in Range(u) <=> \E i \in 1 .. Len(u) : u[i] = x
        /\ x \in Range(s) <=> \E i \in 1 .. Len(s) : s[i] = x
        /\ x \in Range(t) <=> \E i \in 1 .. Len(t) : t[i] = x
    BY <1>1, RangeIs
  <2>2. ASSUME NEW i \in 1 .. Len(t), t[i] = x
        PROVE  i + Len(s) \in 1 .. Len(u) /\ u[i + Len(s)] = x
    <3>1. /\ i + Len(s) \in 1 .. Len(s) + Len(t)
          /\ ~(i + Len(s) <= Len(s))
          /\ (i + Len(s)) - Len(s) = i
      BY <1>1
    <3> QED BY <1>1, <2>2, <3>1
  <2>3. ASSUME NEW i \in 1 .. Len(u), u[i] = x, i > Len(s)
        PROVE  i - Len(s) \in 1 .. Len(t) /\ t[i - Len(s)] = x
    BY <1>1, <2>3
  <2>4. ASSUME NEW i \in 1 .. Len(s), s[i] = x
        PROVE  i \in 1 .. Len(u) /\ u[i] = x
    BY <1>1, <2>4
  <2>5. ASSUME NEW i \in 1 .. Len(u), u[i] = x, i <= Len(s)
        PROVE  i \in 1 .. Len(s) /\ s[i] = x
    BY <1>1, <2>5
  <2>6. \A i \in 1 .. Len(u) : i > Len(s) \/ i <= Len(s)
    BY <1>1
  <2>7. ASSUME x \in Range(u) PROVE x \in Range(s) \cup Range(t)
    BY <2>1, <2>3, <2>5, <2>6, <2>7, Zenon
  <2>8. ASSUME x \in Range(s) \cup Range(t) PROVE x \in Range(u)
    BY <2>1, <2>2, <2>4, <2>8, Zenon
  <2> QED BY <2>7, <2>8
<1> QED
  BY <1>1, <1>4, <1>5 DEF u

(* The empty list holds nothing.                                           *)
LEMMA EmptyRange ==
  Range(<<>>) = {} /\ IsInjective(<<>>)
  BY DEF Range, IsInjective

(* The elements of a sequence over S are in S.                             *)
LEMMA RangeSubset ==
  ASSUME NEW S, NEW s \in Seq(S)
  PROVE  Range(s) \subseteq S
  BY DEF Range
==============================================================================
