-------------------------- MODULE DraftEditingProofs --------------------------
(***************************************************************************)
(* DraftEditing for every set of parameters, groups, conditions and values *)
(* and every number of edits: what editing and merging do to references,   *)
(* homes, groups, managed values and the order of conditions.              *)
(***************************************************************************)
EXTENDS DraftEditing, FiniteSetTheorems, SequenceTheorems, WellFoundedInduction, TLAPS

-----------------------------------------------------------------------------
(***************************************************************************)
(* Kept, which filters an order of conditions: the table it computes is    *)
(* there and unique, by induction on its bound; what follows of Kept is by *)
(* induction over sequences.                                               *)
(***************************************************************************)

LEMMA LeastNumber ==
    ASSUME NEW T \in SUBSET Nat, T # {}
    PROVE  \E x \in T : \A y \in T : ~(y < x)
<1> DEFINE R == OpToRel(<, Nat)
<1>1. IsWellFoundedOn(R, Nat)
    BY NatLessThanWellFounded
<1> HIDE DEF R
<1>2. \E x \in T : \A y \in T : ~ (<<y, x>> \in R)
    BY <1>1, WFMin, Zenon
<1>3. R = {ss \in Nat \X Nat : ss[1] < ss[2]}
    BY DEF R, OpToRel
<1> QED
    BY <1>2, <1>3

LEMMA CountUp ==
    ASSUME NEW S, 0 \in S, \A n \in Nat : n \in S => n + 1 \in S
    PROVE  \A n \in Nat : n \in S
<1> DEFINE T == Nat \ S
<1> SUFFICES ASSUME T # {} PROVE FALSE
    OBVIOUS
<1>1. PICK x \in T : \A y \in T : ~(y < x)
    BY LeastNumber
<1>2. x # 0 /\ x - 1 \in Nat
    OBVIOUS
<1>3. x - 1 \in S
    BY <1>1, <1>2
<1>4. (x - 1) + 1 \in S
    BY <1>2, <1>3
<1> QED
    BY <1>4

\* f is the table Kept computes, up to n.
Filters(f, s, K, n) ==
    f = [i \in 0..n |-> IF i = 0 THEN <<>>
                        ELSE IF s[i] \in K THEN Append(f[i - 1], s[i]) ELSE f[i - 1]]

LEMMA FilterStep ==
    ASSUME NEW f, NEW s, NEW K, NEW n \in Nat, Filters(f, s, K, n)
    PROVE  /\ f[0] = <<>>
           /\ \A i \in 1..n : f[i] = IF s[i] \in K THEN Append(f[i - 1], s[i]) ELSE f[i - 1]
<1>1. \A i \in 0..n : f[i] = IF i = 0 THEN <<>>
                             ELSE IF s[i] \in K THEN Append(f[i - 1], s[i]) ELSE f[i - 1]
    BY DEF Filters
<1> QED
    BY <1>1

LEMMA FilterExists ==
    ASSUME NEW s, NEW K
    PROVE  \A n \in Nat : \E f : Filters(f, s, K, n)
<1> DEFINE S == {n \in Nat : \E f : Filters(f, s, K, n)}
<1>1. 0 \in S
    <2> DEFINE f == [i \in 0..0 |-> <<>>]
    <2>1. Filters(f, s, K, 0)
        BY DEF Filters
    <2> QED
        BY <2>1
<1>2. ASSUME NEW n \in Nat, n \in S PROVE n + 1 \in S
    <2>1. PICK f : Filters(f, s, K, n)
        BY <1>2
    <2> DEFINE last == IF s[n + 1] \in K THEN Append(f[n], s[n + 1]) ELSE f[n]
               g == [i \in 0..(n + 1) |-> IF i <= n THEN f[i] ELSE last]
    <2>2. ASSUME NEW i \in 0..(n + 1)
          PROVE  g[i] = IF i = 0 THEN <<>> ELSE IF s[i] \in K THEN Append(g[i - 1], s[i]) ELSE g[i - 1]
        <3>1. CASE i = 0
            <4>1. f[0] = <<>>
                BY <2>1 DEF Filters
            <4> QED BY <3>1, <4>1
        <3>2. CASE i \in 1..n
            <4>1. f[i] = IF s[i] \in K THEN Append(f[i - 1], s[i]) ELSE f[i - 1]
                BY <2>1, <3>2, FilterStep
            <4>2. g[i] = f[i] /\ g[i - 1] = f[i - 1] /\ i # 0
                BY <3>2
            <4> QED BY <4>1, <4>2
        <3>3. CASE i = n + 1
            <4>1. g[i] = last /\ g[i - 1] = f[n] /\ i # 0
                BY <3>3
            <4> QED BY <3>3, <4>1
        <3> QED BY <3>1, <3>2, <3>3
    <2>3. g = [i \in 0..(n + 1) |-> g[i]]
        OBVIOUS
    <2> HIDE DEF g
    <2>4. Filters(g, s, K, n + 1)
        BY <2>2, <2>3 DEF Filters
    <2> QED
        BY <2>4
<1> HIDE DEF S
<1>3. \A n \in Nat : n \in S
    BY <1>1, <1>2, CountUp
<1> QED
    BY <1>3 DEF S

LEMMA FilterAgrees ==
    ASSUME NEW f, NEW g, NEW s, NEW t, NEW K, NEW n \in Nat, NEW m \in Nat, n <= m,
           Filters(f, s, K, n), Filters(g, t, K, m), \A i \in 1..n : s[i] = t[i]
    PROVE  f[n] = g[n]
<1> DEFINE S == {k \in Nat : k <= n => f[k] = g[k]}
<1>1. 0 \in S
    BY FilterStep
<1>2. ASSUME NEW k \in Nat, k \in S PROVE k + 1 \in S
    <2> SUFFICES ASSUME k + 1 <= n PROVE f[k + 1] = g[k + 1]
        OBVIOUS
    <2>1. f[k] = g[k] /\ k + 1 \in 1..n /\ k + 1 \in 1..m /\ (k + 1) - 1 = k
        BY <1>2
    <2>2. f[k + 1] = IF s[k + 1] \in K THEN Append(f[k], s[k + 1]) ELSE f[k]
        BY <2>1, FilterStep
    <2>3. g[k + 1] = IF t[k + 1] \in K THEN Append(g[k], t[k + 1]) ELSE g[k]
        BY <2>1, FilterStep
    <2> QED
        BY <2>1, <2>2, <2>3
<1> HIDE DEF S
<1>3. n \in S
    BY <1>1, <1>2, CountUp
<1> QED
    BY <1>3 DEF S

LEMMA KeptIsTable ==
    ASSUME NEW s, NEW K, Len(s) \in Nat
    PROVE  \E f : Filters(f, s, K, Len(s)) /\ Kept(s, K) = f[Len(s)]
<1> DEFINE f == CHOOSE f : Filters(f, s, K, Len(s))
<1>1. Kept(s, K) = f[Len(s)]
    BY Zenon DEF Kept, Filters
<1>2. \E h : Filters(h, s, K, Len(s))
    BY FilterExists
<1>3. Filters(f, s, K, Len(s))
    BY <1>2, Zenon
<1> QED
    BY <1>1, <1>3

LEMMA KeptEmpty == \A K : Kept(<<>>, K) = <<>>
<1> SUFFICES ASSUME NEW K PROVE Kept(<<>>, K) = <<>>
    OBVIOUS
<1>1. Len(<<>>) = 0 /\ 0 \in Nat
    OBVIOUS
<1>2. PICK f : Filters(f, <<>>, K, 0) /\ Kept(<<>>, K) = f[0]
    BY <1>1, KeptIsTable
<1> QED
    BY <1>1, <1>2, FilterStep

LEMMA KeptAppend ==
    ASSUME NEW A, NEW s \in Seq(A), NEW e \in A, NEW K
    PROVE  Kept(Append(s, e), K) = IF e \in K THEN Append(Kept(s, K), e) ELSE Kept(s, K)
<1> DEFINE t == Append(s, e)
           n == Len(s)
<1>1. /\ n \in Nat /\ Len(t) = n + 1 /\ t[n + 1] = e
      /\ \A i \in 1..n : s[i] = t[i]
    BY AppendProperties, LenProperties
<1> HIDE DEF t, n
<1>2. PICK f : Filters(f, s, K, n) /\ Kept(s, K) = f[n]
    BY <1>1, KeptIsTable DEF n
<1>3. PICK g : Filters(g, t, K, n + 1) /\ Kept(t, K) = g[n + 1]
    BY <1>1, KeptIsTable
<1>4. f[n] = g[n]
    <2>1. n + 1 \in Nat /\ n <= n + 1
        BY <1>1
    <2> QED
        BY <1>1, <1>2, <1>3, <2>1, FilterAgrees
<1>5. g[n + 1] = IF t[n + 1] \in K THEN Append(g[n], t[n + 1]) ELSE g[n]
    BY <1>1, <1>3, FilterStep
<1> QED
    BY <1>1, <1>2, <1>3, <1>4, <1>5 DEF t

\* Induction over sequences that grow at their end.
LEMMA GrowSequence ==
    ASSUME NEW A, NEW S, <<>> \in S, \A s \in Seq(A), e \in A : s \in S => Append(s, e) \in S
    PROVE  \A s \in Seq(A) : s \in S
<1> DEFINE T == {n \in Nat : \A s \in Seq(A) : Len(s) = n => s \in S}
<1>1. 0 \in T
    BY EmptySeq
<1>2. ASSUME NEW n \in Nat, n \in T PROVE n + 1 \in T
    <2> SUFFICES ASSUME NEW s \in Seq(A), Len(s) = n + 1 PROVE s \in S
        OBVIOUS
    <2>1. s # <<>>
        BY EmptySeq
    <2>2. PICK t \in Seq(A), e \in A : s = Append(t, e)
        BY <2>1, SequenceEmptyOrAppend
    <2>3. Len(t) = n
        BY <2>2, AppendProperties, LenProperties
    <2> QED
        BY <1>2, <2>2, <2>3
<1> HIDE DEF T
<1>3. \A n \in Nat : n \in T
    BY <1>1, <1>2, CountUp
<1> QED
    BY <1>3, LenProperties DEF T

LEMMA RangeOfAppend ==
    ASSUME NEW A, NEW s \in Seq(A), NEW e \in A
    PROVE  Range(Append(s, e)) = Range(s) \cup {e}
<1> DEFINE t == Append(s, e)
           n == Len(s)
<1>1. /\ n \in Nat /\ Len(t) = n + 1 /\ t[n + 1] = e /\ \A i \in 1..n : s[i] = t[i]
      /\ DOMAIN s = 1..n /\ DOMAIN t = 1..(n + 1)
    BY AppendProperties, LenProperties
<1> HIDE DEF t, n
<1>2. 1..(n + 1) = 1..n \cup {n + 1}
    BY <1>1
<1>3. Range(t) = Range(s) \cup {e}
    BY <1>1, <1>2 DEF Range
<1> QED
    BY <1>3 DEF t

LEMMA RangeOfEmpty == Range(<<>>) = {}
BY DEF Range

LEMMA KeptType ==
    ASSUME NEW A, NEW s \in Seq(A), NEW K
    PROVE  Kept(s, K) \in Seq(A) /\ Range(Kept(s, K)) = Range(s) \cap K
<1> DEFINE S == {t \in Seq(A) : Kept(t, K) \in Seq(A) /\ Range(Kept(t, K)) = Range(t) \cap K}
<1>1. <<>> \in S
    BY KeptEmpty, RangeOfEmpty, EmptySeq
<1>2. ASSUME NEW t \in Seq(A), NEW e \in A, t \in S PROVE Append(t, e) \in S
    <2>1. Append(t, e) \in Seq(A) /\ Range(Append(t, e)) = Range(t) \cup {e}
        BY RangeOfAppend, AppendProperties
    <2>2. Kept(Append(t, e), K) = IF e \in K THEN Append(Kept(t, K), e) ELSE Kept(t, K)
        BY KeptAppend
    <2>3. Kept(t, K) \in Seq(A) /\ Range(Kept(t, K)) = Range(t) \cap K
        BY <1>2
    <2>4. Append(Kept(t, K), e) \in Seq(A) /\ Range(Append(Kept(t, K), e)) = Range(Kept(t, K)) \cup {e}
        BY <2>3, RangeOfAppend, AppendProperties
    <2>5. CASE e \in K
        BY <2>1, <2>2, <2>3, <2>4, <2>5
    <2>6. CASE e \notin K
        BY <2>1, <2>2, <2>3, <2>6
    <2> QED
        BY <2>5, <2>6
<1> HIDE DEF S
<1>3. s \in S
    BY <1>1, <1>2, GrowSequence
<1> QED
    BY <1>3 DEF S

LEMMA InjectiveAppend ==
    ASSUME NEW A, NEW s \in Seq(A), NEW e \in A
    PROVE  IsInjective(Append(s, e)) <=> IsInjective(s) /\ e \notin Range(s)
<1> DEFINE t == Append(s, e)
           n == Len(s)
<1>1. /\ n \in Nat /\ Len(t) = n + 1 /\ t[n + 1] = e /\ \A i \in 1..n : s[i] = t[i]
      /\ DOMAIN s = 1..n /\ DOMAIN t = 1..(n + 1)
    BY AppendProperties, LenProperties
<1> HIDE DEF t, n
<1>2. 1..(n + 1) = 1..n \cup {n + 1} /\ n + 1 \notin 1..n
    BY <1>1
<1>3. ASSUME IsInjective(t) PROVE IsInjective(s) /\ e \notin Range(s)
    BY <1>1, <1>2, <1>3 DEF IsInjective, Range
<1>4. ASSUME IsInjective(s), e \notin Range(s) PROVE IsInjective(t)
    BY <1>1, <1>2, <1>4 DEF IsInjective, Range
<1> QED
    BY <1>3, <1>4 DEF t

LEMMA KeptInjective ==
    ASSUME NEW A, NEW s \in Seq(A), IsInjective(s), NEW K
    PROVE  IsInjective(Kept(s, K))
<1> DEFINE S == {t \in Seq(A) : IsInjective(t) => IsInjective(Kept(t, K))}
<1>1. <<>> \in S
    BY KeptEmpty, EmptySeq
<1>2. ASSUME NEW t \in Seq(A), NEW e \in A, t \in S PROVE Append(t, e) \in S
    <2> SUFFICES ASSUME IsInjective(Append(t, e)) PROVE IsInjective(Kept(Append(t, e), K))
        BY AppendProperties
    <2>1. IsInjective(t) /\ e \notin Range(t)
        BY InjectiveAppend
    <2>2. /\ IsInjective(Kept(t, K)) /\ Kept(t, K) \in Seq(A) /\ e \notin Range(Kept(t, K))
        BY <1>2, <2>1, KeptType
    <2>3. IsInjective(Append(Kept(t, K), e))
        BY <2>2, InjectiveAppend
    <2> QED
        BY <2>2, <2>3, KeptAppend
<1> HIDE DEF S
<1>3. s \in S
    BY <1>1, <1>2, GrowSequence
<1> QED
    BY <1>3 DEF S

\* Only what is in the sequence matters.
LEMMA KeptSame ==
    ASSUME NEW A, NEW s \in Seq(A), NEW K, NEW L, Range(s) \cap K = Range(s) \cap L
    PROVE  Kept(s, K) = Kept(s, L)
<1> DEFINE S == {t \in Seq(A) : Range(t) \cap K = Range(t) \cap L => Kept(t, K) = Kept(t, L)}
<1>1. <<>> \in S
    BY KeptEmpty, EmptySeq
<1>2. ASSUME NEW t \in Seq(A), NEW e \in A, t \in S PROVE Append(t, e) \in S
    <2> SUFFICES ASSUME Range(Append(t, e)) \cap K = Range(Append(t, e)) \cap L
                 PROVE  Kept(Append(t, e), K) = Kept(Append(t, e), L)
        BY AppendProperties
    <2>1. Range(t) \cap K = Range(t) \cap L /\ (e \in K <=> e \in L)
        BY RangeOfAppend
    <2>2. Kept(t, K) = Kept(t, L)
        BY <1>2, <2>1
    <2>3. Kept(Append(t, e), K) = IF e \in K THEN Append(Kept(t, K), e) ELSE Kept(t, K)
        BY KeptAppend
    <2>4. Kept(Append(t, e), L) = IF e \in L THEN Append(Kept(t, L), e) ELSE Kept(t, L)
        BY KeptAppend
    <2> QED
        BY <2>1, <2>2, <2>3, <2>4
<1> HIDE DEF S
<1>3. s \in S
    BY <1>1, <1>2, GrowSequence
<1> QED
    BY <1>3 DEF S

LEMMA KeptAll ==
    ASSUME NEW A, NEW s \in Seq(A), NEW K, Range(s) \subseteq K
    PROVE  Kept(s, K) = s
<1> DEFINE S == {t \in Seq(A) : Range(t) \subseteq K => Kept(t, K) = t}
<1>1. <<>> \in S
    BY KeptEmpty, EmptySeq
<1>2. ASSUME NEW t \in Seq(A), NEW e \in A, t \in S PROVE Append(t, e) \in S
    BY <1>2, RangeOfAppend, KeptAppend, AppendProperties
<1> HIDE DEF S
<1>3. s \in S
    BY <1>1, <1>2, GrowSequence
<1> QED
    BY <1>3 DEF S

LEMMA KeptNone ==
    ASSUME NEW A, NEW s \in Seq(A), NEW K, Range(s) \cap K = {}
    PROVE  Kept(s, K) = <<>>
<1>1. Kept(s, K) \in Seq(A) /\ Range(Kept(s, K)) = {}
    BY KeptType
<1>2. ASSUME Kept(s, K) # <<>> PROVE FALSE
    <2>1. Len(Kept(s, K)) \in Nat \ {0} /\ DOMAIN Kept(s, K) = 1..Len(Kept(s, K))
        BY <1>1, <1>2, EmptySeq, LenProperties
    <2>2. 1 \in DOMAIN Kept(s, K)
        BY <2>1
    <2> QED
        BY <1>1, <2>2 DEF Range
<1> QED
    BY <1>2

LEMMA KeptTwice ==
    ASSUME NEW A, NEW s \in Seq(A), NEW K, NEW L
    PROVE  Kept(Kept(s, K), L) = Kept(s, K \cap L)
<1> DEFINE S == {t \in Seq(A) : Kept(Kept(t, K), L) = Kept(t, K \cap L)}
<1>1. <<>> \in S
    BY KeptEmpty, EmptySeq
<1>2. ASSUME NEW t \in Seq(A), NEW e \in A, t \in S PROVE Append(t, e) \in S
    <2> SUFFICES Kept(Kept(Append(t, e), K), L) = Kept(Append(t, e), K \cap L)
        BY AppendProperties
    <2>1. Kept(t, K) \in Seq(A) /\ Append(t, e) \in Seq(A)
        BY KeptType, AppendProperties
    <2>2. Kept(Append(Kept(t, K), e), L) = IF e \in L THEN Append(Kept(Kept(t, K), L), e) ELSE Kept(Kept(t, K), L)
        BY <2>1, KeptAppend
    <2>3. Kept(Append(t, e), K) = IF e \in K THEN Append(Kept(t, K), e) ELSE Kept(t, K)
        BY KeptAppend
    <2>4. Kept(Append(t, e), K \cap L)
            = IF e \in K \cap L THEN Append(Kept(t, K \cap L), e) ELSE Kept(t, K \cap L)
        BY KeptAppend
    <2>5. Kept(Kept(t, K), L) = Kept(t, K \cap L)
        BY <1>2
    <2>6. CASE e \in K
        <3>1. Kept(Append(t, e), K) = Append(Kept(t, K), e) /\ (e \in K \cap L <=> e \in L)
            BY <2>3, <2>6
        <3>2. CASE e \in L
            <4>1. Kept(Append(Kept(t, K), e), L) = Append(Kept(Kept(t, K), L), e)
                BY <2>2, <3>2
            <4>2. Kept(Append(t, e), K \cap L) = Append(Kept(t, K \cap L), e)
                BY <2>4, <3>1, <3>2
            <4> QED BY <2>5, <3>1, <4>1, <4>2, Zenon
        <3>3. CASE e \notin L
            <4>1. Kept(Append(Kept(t, K), e), L) = Kept(Kept(t, K), L)
                BY <2>2, <3>3
            <4>2. Kept(Append(t, e), K \cap L) = Kept(t, K \cap L)
                BY <2>4, <3>1, <3>3
            <4> QED BY <2>5, <3>1, <4>1, <4>2, Zenon
        <3> QED BY <3>2, <3>3
    <2>7. CASE e \notin K
        BY <2>3, <2>4, <2>5, <2>7, Zenon
    <2> QED
        BY <2>6, <2>7
<1> HIDE DEF S
<1>3. s \in S
    BY <1>1, <1>2, GrowSequence
<1> QED
    BY <1>3 DEF S

LEMMA AppendConcat ==
    ASSUME NEW A, NEW s \in Seq(A), NEW t \in Seq(A), NEW e \in A
    PROVE  s \o Append(t, e) = Append(s \o t, e)
<1>1. s \o t \in Seq(A) /\ <<e>> \in Seq(A)
    BY ConcatProperties
<1> QED
    BY <1>1, AppendIsConcat, ConcatAssociative

LEMMA KeptConcat ==
    ASSUME NEW A, NEW s \in Seq(A), NEW t \in Seq(A), NEW K
    PROVE  Kept(s \o t, K) = Kept(s, K) \o Kept(t, K)
<1> DEFINE S == {u \in Seq(A) : Kept(s \o u, K) = Kept(s, K) \o Kept(u, K)}
<1>1. <<>> \in S
    BY KeptEmpty, KeptType, EmptySeq, ConcatEmptySeq
<1>2. ASSUME NEW u \in Seq(A), NEW e \in A, u \in S PROVE Append(u, e) \in S
    <2>1. /\ s \o u \in Seq(A) /\ Append(u, e) \in Seq(A)
          /\ Kept(s, K) \in Seq(A) /\ Kept(u, K) \in Seq(A)
        BY KeptType, AppendProperties, ConcatProperties
    <2>2. s \o Append(u, e) = Append(s \o u, e)
        BY AppendConcat
    <2>3. Kept(s \o Append(u, e), K) = IF e \in K THEN Append(Kept(s \o u, K), e) ELSE Kept(s \o u, K)
        BY <2>1, <2>2, KeptAppend
    <2>4. Kept(Append(u, e), K) = IF e \in K THEN Append(Kept(u, K), e) ELSE Kept(u, K)
        BY KeptAppend
    <2>5. Kept(s, K) \o Append(Kept(u, K), e) = Append(Kept(s, K) \o Kept(u, K), e)
        BY <2>1, AppendConcat
    <2>6. Kept(s \o Append(u, e), K) = Kept(s, K) \o Kept(Append(u, e), K)
        BY <1>2, <2>3, <2>4, <2>5
    <2> QED
        BY <2>1, <2>6
<1> HIDE DEF S
<1>3. t \in S
    BY <1>1, <1>2, GrowSequence
<1> QED
    BY <1>3 DEF S

-----------------------------------------------------------------------------
(***************************************************************************)
(* An element put into an order, taken out of it or renamed in it.         *)
(***************************************************************************)

LEMMA ConcatRange ==
    ASSUME NEW A, NEW s \in Seq(A), NEW t \in Seq(A)
    PROVE  /\ s \o t \in Seq(A)
           /\ Range(s \o t) = Range(s) \cup Range(t)
           /\ IsInjective(s \o t)
                <=> IsInjective(s) /\ IsInjective(t) /\ Range(s) \cap Range(t) = {}
<1> DEFINE u == s \o t
           n == Len(s)
           k == Len(t)
<1>1. n \in Nat /\ k \in Nat /\ DOMAIN s = 1..n /\ DOMAIN t = 1..k
    BY LenProperties
<1>2. /\ u \in Seq(A) /\ DOMAIN u = 1..(n + k)
      /\ \A j \in 1..(n + k) : u[j] = IF j <= n THEN s[j] ELSE t[j - n]
    BY ConcatProperties, LenProperties
<1> HIDE DEF u, n, k
<1>3. /\ \A j \in 1..(n + k) : (j <= n => j \in 1..n) /\ (~(j <= n) => j - n \in 1..k)
      /\ \A j \in 1..n : j \in 1..(n + k) /\ j <= n
      /\ \A j \in 1..k : j + n \in 1..(n + k) /\ ~(j + n <= n) /\ (j + n) - n = j
    BY <1>1
<1>4. /\ \A j \in 1..n : u[j] = s[j]
      /\ \A j \in 1..k : u[j + n] = t[j]
    BY <1>2, <1>3
<1>5. Range(u) = Range(s) \cup Range(t)
    <2>1. ASSUME NEW j \in 1..(n + k) PROVE u[j] \in Range(s) \cup Range(t)
        <3>1. CASE j <= n
            <4>1. u[j] = s[j] /\ j \in DOMAIN s
                BY <1>1, <1>3, <1>4, <3>1
            <4> QED
                BY <4>1 DEF Range
        <3>2. CASE ~(j <= n)
            <4>1. u[j] = t[j - n] /\ j - n \in DOMAIN t
                BY <1>1, <1>2, <1>3, <3>2
            <4> QED
                BY <4>1 DEF Range
        <3> QED
            BY <3>1, <3>2
    <2>2. ASSUME NEW j \in 1..n PROVE s[j] \in Range(u)
        BY <1>2, <1>3, <1>4 DEF Range
    <2>3. ASSUME NEW j \in 1..k PROVE t[j] \in Range(u)
        <3>1. u[j + n] = t[j] /\ j + n \in DOMAIN u
            BY <1>2, <1>3, <1>4
        <3> QED
            BY <3>1 DEF Range
    <2> QED
        BY <1>1, <1>2, <2>1, <2>2, <2>3 DEF Range
<1>6. ASSUME IsInjective(s), IsInjective(t), Range(s) \cap Range(t) = {}
      PROVE  IsInjective(u)
    <2> SUFFICES ASSUME NEW a \in 1..(n + k), NEW b \in 1..(n + k), u[a] = u[b] PROVE a = b
        BY <1>2 DEF IsInjective
    <2>1. /\ \A i, j \in 1..n : s[i] = s[j] => i = j
          /\ \A i, j \in 1..k : t[i] = t[j] => i = j
        BY <1>1, <1>6 DEF IsInjective
    <2>2. \A i \in 1..n, j \in 1..k : s[i] # t[j]
        BY <1>1, <1>6 DEF Range
    <2>3. CASE a <= n /\ b <= n
        BY <1>2, <1>3, <2>1, <2>3
    <2>4. CASE a <= n /\ ~(b <= n)
        BY <1>2, <1>3, <2>2, <2>4
    <2>5. CASE ~(a <= n) /\ b <= n
        BY <1>2, <1>3, <2>2, <2>5
    <2>6. CASE ~(a <= n) /\ ~(b <= n)
        <3>1. a - n \in 1..k /\ b - n \in 1..k /\ t[a - n] = t[b - n]
            BY <1>2, <1>3, <2>6
        <3>2. a - n = b - n
            BY <2>1, <3>1
        <3> QED
            BY <1>1, <3>2
    <2> QED
        BY <2>3, <2>4, <2>5, <2>6
<1>7. ASSUME IsInjective(u)
      PROVE  IsInjective(s) /\ IsInjective(t) /\ Range(s) \cap Range(t) = {}
    <2>0. \A a, b \in 1..(n + k) : u[a] = u[b] => a = b
        BY <1>2, <1>7 DEF IsInjective
    <2>1. IsInjective(s)
        BY <1>1, <1>3, <1>4, <2>0 DEF IsInjective
    <2>2. IsInjective(t)
        <3> SUFFICES ASSUME NEW a \in 1..k, NEW b \in 1..k, t[a] = t[b] PROVE a = b
            BY <1>1 DEF IsInjective
        <3>1. a + n = b + n
            BY <1>3, <1>4, <2>0
        <3> QED
            BY <1>1, <3>1
    <2>3. ASSUME NEW a \in 1..n, NEW b \in 1..k, s[a] = t[b] PROVE FALSE
        <3>1. a = b + n
            BY <1>3, <1>4, <2>0, <2>3
        <3> QED
            BY <1>1, <3>1
    <2> QED
        BY <1>1, <2>1, <2>2, <2>3 DEF Range
<1> QED
    BY <1>2, <1>5, <1>6, <1>7 DEF u

LEMMA OneElement ==
    ASSUME NEW A, NEW e \in A
    PROVE  <<e>> \in Seq(A) /\ Range(<<e>>) = {e} /\ IsInjective(<<e>>) /\ Len(<<e>>) = 1
BY DEF Range, IsInjective

\* An order cut before position i.
LEMMA CutOrder ==
    ASSUME NEW A, NEW s \in Seq(A), NEW i \in 1..(Len(s) + 1)
    PROVE  LET x == SubSeq(s, 1, i - 1)
               y == SubSeq(s, i, Len(s))
           IN  x \in Seq(A) /\ y \in Seq(A) /\ Len(x) = i - 1 /\ Len(y) = Len(s) - (i - 1) /\ s = x \o y
<1>1. Len(s) \in Nat /\ \A j \in 1..Len(s) : s[j] \in A
    BY LenProperties, ElementOfSeq
<1>2. i - 1 \in 0..Len(s) /\ (i - 1) + 1 = i /\ i \in Int
    BY <1>1
<1>3. SubSeq(s, 1, i - 1) \o SubSeq(s, i, Len(s)) = SubSeq(s, 1, Len(s))
    <2>1. SubSeq(s, 1, i - 1) \o SubSeq(s, (i - 1) + 1, Len(s)) = SubSeq(s, 1, Len(s))
        <3>1. 1 \in 1..(Len(s) + 1) /\ i - 1 \in (1 - 1)..Len(s) /\ Len(s) \in (i - 1)..Len(s)
            BY <1>1, <1>2
        <3> QED
            BY <3>1, ConcatAdjacentSubSeq, Zenon
    <2> QED
        BY <1>2, <2>1
<1>4. SubSeq(s, 1, i - 1) \in Seq(A) /\ Len(SubSeq(s, 1, i - 1)) = i - 1
    <2>1. \A j \in 1..(i - 1) : s[j] \in A
        BY <1>1
    <2> QED
        BY <1>1, <1>2, <2>1, SubSeqProperties
<1>5. SubSeq(s, i, Len(s)) \in Seq(A) /\ Len(SubSeq(s, i, Len(s))) = Len(s) - (i - 1)
    <2>1. \A j \in i..Len(s) : s[j] \in A
        BY <1>1
    <2> QED
        BY <1>1, <1>2, <2>1, SubSeqProperties
<1> QED
    BY <1>3, <1>4, <1>5, SubSeqFull

LEMMA InsertKeepsOrder ==
    ASSUME NEW A, NEW s \in Seq(A), IsInjective(s), NEW e \in A, e \notin Range(s),
           NEW i \in 1..(Len(s) + 1)
    PROVE  LET t == InsertAt(s, i, e)
           IN  t \in Seq(A) /\ IsInjective(t) /\ Range(t) = Range(s) \cup {e}
<1> DEFINE x == SubSeq(s, 1, i - 1)
           y == SubSeq(s, i, Len(s))
           z == <<e>>
<1>1. x \in Seq(A) /\ y \in Seq(A) /\ s = x \o y
    BY CutOrder
<1>2. z \in Seq(A) /\ Range(z) = {e} /\ IsInjective(z)
    BY OneElement
<1>3. InsertAt(s, i, e) = (x \o z) \o y
    BY DEF InsertAt
<1> HIDE DEF x, y, z
<1>4. /\ IsInjective(x) /\ IsInjective(y) /\ Range(x) \cap Range(y) = {}
      /\ Range(s) = Range(x) \cup Range(y)
    BY <1>1, ConcatRange
<1>5. x \o z \in Seq(A) /\ IsInjective(x \o z) /\ Range(x \o z) = Range(x) \cup {e}
    BY <1>1, <1>2, <1>4, ConcatRange
<1>6. (Range(x) \cup {e}) \cap Range(y) = {}
    BY <1>4
<1>7. /\ (x \o z) \o y \in Seq(A) /\ IsInjective((x \o z) \o y)
      /\ Range((x \o z) \o y) = Range(x \o z) \cup Range(y)
    BY <1>1, <1>4, <1>5, <1>6, ConcatRange
<1> QED
    BY <1>3, <1>4, <1>5, <1>7

LEMMA RemoveKeepsOrder ==
    ASSUME NEW A, NEW s \in Seq(A), IsInjective(s), NEW i \in 1..Len(s)
    PROVE  LET t == RemoveAt(s, i)
           IN  /\ t \in Seq(A) /\ Len(t) = Len(s) - 1
               /\ IsInjective(t) /\ Range(t) = Range(s) \ {s[i]}
<1> DEFINE x == SubSeq(s, 1, i - 1)
           y == SubSeq(s, i, Len(s))
           w == SubSeq(s, i + 1, Len(s))
           z == <<s[i]>>
<1>0. Len(s) \in Nat /\ s[i] \in A /\ i \in 1..(Len(s) + 1) /\ i + 1 \in 1..(Len(s) + 1) /\ (i + 1) - 1 = i
    BY LenProperties, ElementOfSeq
<1>1. x \in Seq(A) /\ y \in Seq(A) /\ s = x \o y /\ Len(x) = i - 1
    BY <1>0, CutOrder
<1>2. z \in Seq(A) /\ Range(z) = {s[i]} /\ IsInjective(z)
    BY <1>0, OneElement
<1>3. w \in Seq(A) /\ Len(w) = Len(s) - i
    BY <1>0, CutOrder
<1>4. y = z \o w
    BY <1>0, SubSeqRecursiveFirst
<1>5. RemoveAt(s, i) = x \o w
    BY DEF RemoveAt
<1> HIDE DEF x, y, w, z
<1>6. /\ IsInjective(x) /\ IsInjective(y) /\ Range(x) \cap Range(y) = {}
      /\ Range(s) = Range(x) \cup Range(y)
    BY <1>1, ConcatRange
<1>7. IsInjective(w) /\ s[i] \notin Range(w) /\ Range(y) = {s[i]} \cup Range(w)
    BY <1>2, <1>3, <1>4, <1>6, ConcatRange
<1>8. x \o w \in Seq(A) /\ IsInjective(x \o w) /\ Range(x \o w) = Range(x) \cup Range(w)
    BY <1>1, <1>3, <1>6, <1>7, ConcatRange
<1>9. Len(x \o w) = Len(s) - 1
    <2>1. Len(x \o w) = Len(x) + Len(w)
        BY <1>1, <1>3, ConcatProperties
    <2> QED
        BY <1>0, <1>1, <1>3, <2>1
<1> QED
    BY <1>5, <1>6, <1>7, <1>8, <1>9

LEMMA ReplaceKeepsOrder ==
    ASSUME NEW A, NEW s \in Seq(A), IsInjective(s), NEW c \in Range(s), NEW d \in A, d \notin Range(s)
    PROVE  LET t == ReplaceAll(s, c, d)
           IN  t \in Seq(A) /\ IsInjective(t) /\ Range(t) = (Range(s) \ {c}) \cup {d}
<1> DEFINE t == ReplaceAll(s, c, d)
           n == Len(s)
<1>1. n \in Nat /\ DOMAIN s = 1..n /\ \A j \in 1..n : s[j] \in A
    BY LenProperties, ElementOfSeq
<1>2. t = [j \in 1..n |-> IF s[j] = c THEN d ELSE s[j]]
    BY DEF ReplaceAll
<1> HIDE DEF t, n
<1>3. t \in Seq(A) /\ DOMAIN t = 1..n
    BY <1>1, <1>2
<1>4. IsInjective(t)
    BY <1>1, <1>2 DEF IsInjective, Range
<1>5. Range(t) = (Range(s) \ {c}) \cup {d}
    BY <1>1, <1>2 DEF Range
<1> QED
    BY <1>3, <1>4, <1>5 DEF t

-----------------------------------------------------------------------------
(***************************************************************************)
(* What the proofs need to know of a template.                             *)
(***************************************************************************)

Typed(cfg) ==
    /\ cfg = [slots |-> cfg.slots, groups |-> cfg.groups, exprs |-> cfg.exprs, order |-> cfg.order]
    /\ cfg.slots \in [Slots -> ParamStates \cup {None}]
    /\ cfg.groups \in [Groups -> Descs \cup {None}]
    /\ cfg.exprs \in [Conds -> Exprs \cup {None}]

\* Every conditional value is of a condition the template defines.
Resolved(cfg) ==
    \A s \in Slots : cfg.slots[s] # None =>
        \A c \in Conds : cfg.slots[s].cond[c] # None => c \in Defined(cfg)

\* No parameter is in two places.
SingleHomes(cfg) ==
    \A p \in Params, x, y \in Places :
        cfg.slots[<<x, p>>] # None /\ cfg.slots[<<y, p>>] # None => x = y

\* A parameter of a group has its group; the order lists the defined conditions once.
Housed(cfg) == \A g \in Groups, p \in Params : cfg.slots[<<g, p>>] # None => cfg.groups[g] # None
Ordered(cfg) == cfg.order \in Seq(Conds) /\ Range(cfg.order) = Defined(cfg) /\ IsInjective(cfg.order)
Shaped(cfg) == Housed(cfg) /\ Ordered(cfg)

LEMMA ShapedIsWellFormed ==
    ASSUME NEW cfg
    PROVE  Typed(cfg) /\ Shaped(cfg) <=> cfg \in RemoteConfigs /\ WellFormed(cfg)
<1>1. cfg \in RemoteConfigs <=> Typed(cfg) /\ cfg.order \in Seq(Conds)
    BY DEF Typed, RemoteConfigs
<1>2. Shaped(cfg) <=> cfg.order \in Seq(Conds) /\ WellFormed(cfg)
    BY DEF Shaped, Housed, Ordered, WellFormed, InSlot
<1> QED
    BY <1>1, <1>2

\* No parameter is left without a value.
Valued(cfg) == \A s \in Slots : cfg.slots[s] # None => HasValues(cfg.slots[s])

\* What became of the template old: its shape stayed, its conditions stayed, no
\* group went, no parameter appeared.
KeepsShape(old, new) == Shaped(old) => Shaped(new)
SameConditions(old, new) == new.exprs = old.exprs /\ new.order = old.order
KeepsGroups(old, new) == \A g \in Groups : old.groups[g] # None => new.groups[g] # None
NoNewHomes(old, new) == \A s \in Slots : new.slots[s] # None => old.slots[s] # None

\* SingleHomes is what the check of the update payload tests.
LEMMA ValidIsSingle ==
    ASSUME NEW cfg
    PROVE  ValidForUpdate(cfg) <=> SingleHomes(cfg)
<1>1. IsFiniteSet(Places)
    BY GroupsAreFinite, FS_AddElement DEF Places
<1>2. ASSUME NEW p \in Params
      PROVE  Cardinality(Homes(cfg, p)) <= 1 <=>
                \A x, y \in Places : cfg.slots[<<x, p>>] # None /\ cfg.slots[<<y, p>>] # None => x = y
    <2>1. IsFiniteSet(Homes(cfg, p))
        BY <1>1, FS_Subset DEF Homes
    <2>2. Cardinality(Homes(cfg, p)) \in Nat
        BY <2>1, FS_CardinalityType
    <2>3. Cardinality(Homes(cfg, p)) = 0 <=> Homes(cfg, p) = {}
        BY <2>1, FS_EmptySet
    <2>4. Cardinality(Homes(cfg, p)) = 1 <=> \E x : Homes(cfg, p) = {x}
        BY <2>1, FS_Singleton
    <2>5. Cardinality(Homes(cfg, p)) <= 1 <=> (Homes(cfg, p) = {} \/ \E x : Homes(cfg, p) = {x})
        BY <2>2, <2>3, <2>4
    <2>6. (Homes(cfg, p) = {} \/ \E x : Homes(cfg, p) = {x})
            <=> \A x, y \in Homes(cfg, p) : x = y
        OBVIOUS
    <2> QED
        BY <2>5, <2>6 DEF Homes, InSlot
<1> QED
    BY <1>2 DEF ValidForUpdate, SingleHomes

\* A template in which nothing appeared has single homes if the old one had.
LEMMA SingleKept ==
    ASSUME NEW old, NEW new, SingleHomes(old), NoNewHomes(old, new)
    PROVE  SingleHomes(new)
BY DEF SingleHomes, NoNewHomes, Slots

\* With the groups it had, such a template is housed if the old one was.
LEMMA StaysHoused ==
    ASSUME NEW old, NEW new, NoNewHomes(old, new), new.groups = old.groups
    PROVE  Housed(old) => Housed(new)
BY DEF Housed, NoNewHomes, Slots, Places

-----------------------------------------------------------------------------
(***************************************************************************)
(* Replacing one field of a template.                                      *)
(***************************************************************************)

WithSlots(cfg, x) == [cfg EXCEPT !.slots = x]
WithGroups(cfg, x) == [cfg EXCEPT !.groups = x]
WithExprs(cfg, x) == [cfg EXCEPT !.exprs = x]
WithOrder(cfg, x) == [cfg EXCEPT !.order = x]

LEMMA NewSlots ==
    ASSUME NEW cfg, Typed(cfg), NEW x \in [Slots -> ParamStates \cup {None}]
    PROVE  LET new == WithSlots(cfg, x)
           IN  Typed(new) /\ new.slots = x /\ new.groups = cfg.groups /\ SameConditions(cfg, new)
BY DEF Typed, WithSlots, SameConditions

LEMMA NewGroups ==
    ASSUME NEW cfg, Typed(cfg), NEW x \in [Groups -> Descs \cup {None}]
    PROVE  LET new == WithGroups(cfg, x)
           IN  Typed(new) /\ new.slots = cfg.slots /\ new.groups = x /\ SameConditions(cfg, new)
BY DEF Typed, WithGroups, SameConditions

LEMMA NewExprs ==
    ASSUME NEW cfg, Typed(cfg), NEW x \in [Conds -> Exprs \cup {None}]
    PROVE  LET new == WithExprs(cfg, x)
           IN  /\ Typed(new) /\ new.slots = cfg.slots /\ new.groups = cfg.groups
               /\ new.exprs = x /\ new.order = cfg.order
BY DEF Typed, WithExprs

LEMMA NewOrder ==
    ASSUME NEW cfg, Typed(cfg), NEW x
    PROVE  LET new == WithOrder(cfg, x)
           IN  /\ Typed(new) /\ new.slots = cfg.slots /\ new.groups = cfg.groups
               /\ new.exprs = cfg.exprs /\ new.order = x
BY DEF Typed, WithOrder

\* Conditions that stayed are ordered as they were.
LEMMA SameStaysOrdered ==
    ASSUME NEW old, NEW new, SameConditions(old, new)
    PROVE  Defined(new) = Defined(old) /\ (Ordered(old) => Ordered(new))
BY DEF SameConditions, Ordered, Defined

-----------------------------------------------------------------------------
(***************************************************************************)
(* The helpers of the editing operations.                                  *)
(***************************************************************************)

LEMMA SetSlot ==
    ASSUME NEW cfg, Typed(cfg), NEW place \in Places, NEW p \in Params,
           NEW param \in ParamStates \cup {None}
    PROVE  LET new == SetParamSlot(cfg, place, p, param)
           IN  /\ Typed(new) /\ KeepsGroups(cfg, new) /\ KeepsShape(cfg, new)
               /\ new.slots = [cfg.slots EXCEPT ![<<place, p>>] = param]
               /\ SameConditions(cfg, new)
<1> DEFINE x == [cfg.slots EXCEPT ![<<place, p>>] = param]
           y == [g \in Groups |-> IF g = place /\ cfg.groups[g] = None THEN EmptyDesc ELSE cfg.groups[g]]
           new == SetParamSlot(cfg, place, p, param)
<1>1. x \in [Slots -> ParamStates \cup {None}]
    BY DEF Typed
<1>2. y \in [Groups -> Descs \cup {None}]
    BY EmptyDescIsDesc DEF Typed
<1>3. /\ \A g \in Groups : cfg.groups[g] # None => y[g] # None
      /\ place \in Groups => y[place] # None
    BY EmptyDescIsDesc, NoneIsNoData
<1>4. new = WithGroups(WithSlots(cfg, x), y)
    BY Zenon DEF SetParamSlot, WithGroups, WithSlots
<1>5. \A g \in Groups, q \in Params : x[<<g, q>>] # None => g = place \/ cfg.slots[<<g, q>>] # None
    BY DEF Typed, Slots, Places
<1> HIDE DEF x, y, new
<1>6. Typed(new) /\ new.slots = x /\ new.groups = y /\ SameConditions(cfg, new)
    <2>1. Typed(WithSlots(cfg, x)) /\ WithSlots(cfg, x).slots = x /\ SameConditions(cfg, WithSlots(cfg, x))
        BY <1>1, NewSlots
    <2> QED
        BY <1>2, <1>4, <2>1, NewGroups DEF SameConditions
<1>7. KeepsGroups(cfg, new)
    BY <1>3, <1>6 DEF KeepsGroups
<1>8. KeepsShape(cfg, new)
    <2>1. Housed(cfg) => Housed(new)
        BY <1>3, <1>5, <1>6 DEF Housed
    <2> QED
        BY <1>6, <2>1, SameStaysOrdered DEF KeepsShape, Shaped
<1> QED
    BY <1>6, <1>7, <1>8, Zenon DEF new, x

LEMMA RemoveSlot ==
    ASSUME NEW cfg, Typed(cfg), NEW place \in Places, NEW p \in Params
    PROVE  LET new == RemoveParamSlot(cfg, place, p)
           IN  /\ Typed(new) /\ KeepsGroups(cfg, new) /\ KeepsShape(cfg, new)
               /\ new.slots = [cfg.slots EXCEPT ![<<place, p>>] = None]
               /\ new.groups = cfg.groups /\ SameConditions(cfg, new)
<1> DEFINE x == [cfg.slots EXCEPT ![<<place, p>>] = None]
           new == RemoveParamSlot(cfg, place, p)
<1>1. x \in [Slots -> ParamStates \cup {None}]
    BY DEF Typed
<1>2. new = WithSlots(cfg, x)
    BY Zenon DEF RemoveParamSlot, WithSlots
<1>3. \A s \in Slots : x[s] # None => cfg.slots[s] # None
    BY DEF Typed
<1> HIDE DEF x, new
<1>4. Typed(new) /\ new.slots = x /\ new.groups = cfg.groups /\ SameConditions(cfg, new)
    BY <1>1, <1>2, NewSlots
<1>5. KeepsGroups(cfg, new)
    BY <1>4 DEF KeepsGroups
<1>6. KeepsShape(cfg, new)
    BY <1>3, <1>4, StaysHoused, SameStaysOrdered DEF KeepsShape, Shaped, NoNewHomes
<1> QED
    BY <1>4, <1>5, <1>6, Zenon DEF new, x

\* The cleanup: what is left is resolved, and nothing appeared.
LEMMA DropCleans ==
    ASSUME NEW cfg, Typed(cfg)
    PROVE  LET new == DropUnknownConditionReferences(cfg)
           IN  /\ Typed(new) /\ Resolved(new) /\ Valued(new)
               /\ NoNewHomes(cfg, new) /\ KeepsShape(cfg, new)
               /\ new.groups = cfg.groups /\ SameConditions(cfg, new)
               /\ \A s \in Slots : new.slots[s] =
                    IF cfg.slots[s] = None THEN None ELSE StripUnknown(cfg.slots[s], Defined(cfg))
<1> DEFINE new == DropUnknownConditionReferences(cfg)
           Left(s) == [cfg.slots[s] EXCEPT !.cond = [c \in Conds |-> IF c \in Defined(cfg) THEN @[c] ELSE None]]
<1>1. /\ new.slots = [s \in Slots |-> IF cfg.slots[s] = None THEN None
                                      ELSE StripUnknown(cfg.slots[s], Defined(cfg))]
      /\ new.groups = cfg.groups
      /\ SameConditions(cfg, new)
      /\ new = [slots |-> new.slots, groups |-> new.groups, exprs |-> new.exprs, order |-> new.order]
    BY DEF Typed, DropUnknownConditionReferences, SameConditions
<1>2. ASSUME NEW s \in Slots, cfg.slots[s] # None
      PROVE  /\ Left(s) \in ParamStates
             /\ \A c \in Conds : c \notin Defined(cfg) => Left(s).cond[c] = None
    BY <1>2 DEF Typed, ParamStates
<1>3. ASSUME NEW s \in Slots, cfg.slots[s] # None
      PROVE  StripUnknown(cfg.slots[s], Defined(cfg)) \in {Left(s), None}
    BY DEF StripUnknown
<1>7. ASSUME NEW s \in Slots, cfg.slots[s] # None, StripUnknown(cfg.slots[s], Defined(cfg)) # None
      PROVE  HasValues(StripUnknown(cfg.slots[s], Defined(cfg)))
    BY <1>7, Zenon DEF StripUnknown
<1> HIDE DEF new, Left
<1>4. Typed(new)
    BY <1>1, <1>2, <1>3 DEF Typed, SameConditions
<1>5. Resolved(new)
    <2> SUFFICES ASSUME NEW s \in Slots, new.slots[s] # None, NEW c \in Conds, c \notin Defined(cfg)
                 PROVE  new.slots[s].cond[c] = None
        BY <1>1, SameStaysOrdered DEF Resolved
    <2> QED
        BY <1>1, <1>2, <1>3
<1>6. NoNewHomes(cfg, new)
    BY <1>1 DEF NoNewHomes
<1>8. Valued(new)
    BY <1>1, <1>7 DEF Valued
<1>9. KeepsShape(cfg, new)
    BY <1>1, <1>6, StaysHoused, SameStaysOrdered DEF KeepsShape, Shaped
<1> QED
    BY <1>1, <1>4, <1>5, <1>6, <1>8, <1>9 DEF new

\* A parameter put where no other place has it has one home.
LEMMA SingleSet ==
    ASSUME NEW cfg, Typed(cfg), SingleHomes(cfg), NEW place \in Places, NEW p \in Params,
           \A x \in Places \ {place} : cfg.slots[<<x, p>>] = None,
           NEW param, NEW new, new.slots = [cfg.slots EXCEPT ![<<place, p>>] = param]
    PROVE  SingleHomes(new)
<1> SUFFICES ASSUME NEW q \in Params, NEW x \in Places, NEW y \in Places,
                    new.slots[<<x, q>>] # None, new.slots[<<y, q>>] # None
             PROVE  x = y
    BY DEF SingleHomes
<1>1. /\ <<x, q>> \in Slots /\ <<y, q>> \in Slots /\ <<place, p>> \in Slots
      /\ cfg.slots \in [Slots -> ParamStates \cup {None}]
    BY DEF Slots, Typed
<1>2. CASE q = p
    BY <1>1, <1>2
<1>3. CASE q # p
    BY <1>1, <1>3 DEF SingleHomes
<1> QED
    BY <1>2, <1>3

-----------------------------------------------------------------------------
(***************************************************************************)
(* The operations on parameters.                                           *)
(***************************************************************************)

\* What an operation that removes no group does to a template: it keeps its shape.
Safe(cfg, new) == Typed(new) /\ KeepsGroups(cfg, new) /\ KeepsShape(cfg, new)
KeepsSingle(cfg, new) == SingleHomes(cfg) => SingleHomes(new)

LEMMA OccupiedSlot ==
    ASSUME NEW cfg, Typed(cfg), NEW s \in Occupied(cfg)
    PROVE  /\ s \in Slots /\ s[1] \in Places /\ s[2] \in Params /\ s = <<s[1], s[2]>>
           /\ cfg.slots[s] \in ParamStates
BY DEF Occupied, Slots, Typed

LEMMA FreeName ==
    ASSUME NEW cfg, NEW q \in FreeNames(cfg)
    PROVE  q \in Params /\ \A x \in Places : cfg.slots[<<x, q>>] = None
BY DEF FreeNames, LookupAny, Homes, InSlot

LEMMA ValueTyped ==
    ASSUME NEW cfg, NEW param \in ParamStates, NEW x \in SetParamValue(cfg, param)
    PROVE  x \in ParamStates
BY DEF SetParamValue, ParamStates, Defined

LEMMA DeleteParameterSafe ==
    ASSUME NEW cfg, Typed(cfg), NEW new \in DeleteParameter(cfg)
    PROVE  Safe(cfg, new) /\ KeepsSingle(cfg, new)
<1>1. PICK s \in Occupied(cfg) : new = RemoveParamSlot(cfg, s[1], s[2])
    BY DEF DeleteParameter
<1>2. /\ Typed(new) /\ KeepsGroups(cfg, new) /\ KeepsShape(cfg, new)
      /\ new.slots = [cfg.slots EXCEPT ![<<s[1], s[2]>>] = None]
    BY <1>1, OccupiedSlot, RemoveSlot
<1>3. NoNewHomes(cfg, new)
    BY <1>2 DEF NoNewHomes, Typed
<1> QED
    BY <1>2, <1>3, SingleKept DEF Safe, KeepsSingle

\* A slot removed and a parameter set, as renames and moves do.
LEMMA RemoveAndSet ==
    ASSUME NEW cfg, Typed(cfg), NEW s \in Occupied(cfg), NEW place \in Places, NEW q \in Params,
           NEW param \in ParamStates
    PROVE  LET new == SetParamSlot(RemoveParamSlot(cfg, s[1], s[2]), place, q, param)
           IN  /\ Safe(cfg, new)
               /\ new.slots = [[cfg.slots EXCEPT ![s] = None] EXCEPT ![<<place, q>>] = param]
<1> DEFINE mid == RemoveParamSlot(cfg, s[1], s[2])
           new == SetParamSlot(mid, place, q, param)
<1>1. s[1] \in Places /\ s[2] \in Params /\ s = <<s[1], s[2]>>
    BY OccupiedSlot
<1>2. Typed(mid) /\ KeepsGroups(cfg, mid) /\ KeepsShape(cfg, mid) /\ mid.slots = [cfg.slots EXCEPT ![s] = None]
    BY <1>1, RemoveSlot
<1> HIDE DEF mid
<1>3. Typed(new) /\ KeepsGroups(mid, new) /\ KeepsShape(mid, new) /\ new.slots = [mid.slots EXCEPT ![<<place, q>>] = param]
    BY <1>2, SetSlot
<1> HIDE DEF new
<1>4. Safe(cfg, new)
    BY <1>2, <1>3 DEF Safe, KeepsGroups, KeepsShape
<1>5. new.slots = [[cfg.slots EXCEPT ![s] = None] EXCEPT ![<<place, q>>] = param]
    BY <1>2, <1>3, Zenon
<1> QED
    BY <1>4, <1>5, Zenon DEF new, mid

LEMMA RenameParameterSafe ==
    ASSUME NEW cfg, Typed(cfg), NEW new \in RenameParameter(cfg)
    PROVE  Safe(cfg, new)
<1>1. PICK s \in Occupied(cfg), q \in FreeNames(cfg) :
        new = SetParamSlot(RemoveParamSlot(cfg, s[1], s[2]), s[1], q, cfg.slots[s])
    BY DEF RenameParameter
<1> QED
    BY <1>1, OccupiedSlot, FreeName, RemoveAndSet

LEMMA DuplicateParameterSafe ==
    ASSUME NEW cfg, Typed(cfg), NEW new \in DuplicateParameter(cfg)
    PROVE  Safe(cfg, new)
<1>1. PICK s \in Occupied(cfg), q \in FreeNames(cfg) : new = SetParamSlot(cfg, s[1], q, cfg.slots[s])
    BY DEF DuplicateParameter
<1> QED
    BY <1>1, OccupiedSlot, FreeName, SetSlot DEF Safe

LEMMA MoveParameterSafe ==
    ASSUME NEW cfg, Typed(cfg), NEW new \in MoveParameter(cfg)
    PROVE  Safe(cfg, new) /\ KeepsSingle(cfg, new)
<1>1. PICK m \in Occupied(cfg) \X Places :
        /\ m[1][1] # m[2]
        /\ new = SetParamSlot(RemoveParamSlot(cfg, m[1][1], m[1][2]), m[2], m[1][2], cfg.slots[m[1]])
    BY DEF MoveParameter
<1> DEFINE s == m[1]
           to == m[2]
<1>2. s \in Occupied(cfg) /\ to \in Places /\ s[1] # to
    BY <1>1
<1>3. new = SetParamSlot(RemoveParamSlot(cfg, s[1], s[2]), to, s[2], cfg.slots[s])
    BY <1>1
<1> HIDE DEF s, to
<1>4. s \in Slots /\ s[1] \in Places /\ s[2] \in Params /\ s = <<s[1], s[2]>> /\ cfg.slots[s] \in ParamStates
    BY <1>2, OccupiedSlot
<1>5. /\ Safe(cfg, new)
      /\ new.slots = [[cfg.slots EXCEPT ![s] = None] EXCEPT ![<<to, s[2]>>] = cfg.slots[s]]
    BY <1>2, <1>3, <1>4, RemoveAndSet
<1>6. ASSUME SingleHomes(cfg) PROVE SingleHomes(new)
    <2> DEFINE mid == RemoveParamSlot(cfg, s[1], s[2])
    <2>1. Typed(mid) /\ mid.slots = [cfg.slots EXCEPT ![s] = None]
        BY <1>4, RemoveSlot
    <2> HIDE DEF mid
    <2>2. SingleHomes(mid)
        <3>1. NoNewHomes(cfg, mid)
            BY <2>1 DEF NoNewHomes, Typed
        <3> QED
            BY <1>6, <3>1, SingleKept
    <2>3. ASSUME NEW x \in Places PROVE mid.slots[<<x, s[2]>>] = None
        <3>1. <<x, s[2]>> \in Slots
            BY <1>4 DEF Slots
        <3>2. CASE x = s[1]
            BY <1>4, <2>1, <3>2 DEF Typed
        <3>3. CASE x # s[1]
            BY <1>2, <1>4, <1>6, <2>1, <3>1, <3>3 DEF SingleHomes, Occupied, Typed
        <3> QED
            BY <3>2, <3>3
    <2>4. new.slots = [mid.slots EXCEPT ![<<to, s[2]>>] = cfg.slots[s]]
        BY <1>5, <2>1, Zenon
    <2> DEFINE p == s[2]
               param == cfg.slots[s]
    <2>5. /\ p \in Params /\ new.slots = [mid.slots EXCEPT ![<<to, p>>] = param]
          /\ \A x \in Places \ {to} : mid.slots[<<x, p>>] = None
        BY <1>4, <2>3, <2>4
    <2>6. to \in Places /\ Typed(mid)
        BY <1>2, <2>1
    <2> HIDE DEF p, param
    <2> QED
        BY <2>2, <2>5, <2>6, SingleSet
<1> QED
    BY <1>5, <1>6 DEF KeepsSingle

LEMMA CreateParameterSafe ==
    ASSUME NEW cfg, Typed(cfg), NEW new \in CreateParameter(cfg)
    PROVE  Safe(cfg, new) /\ KeepsSingle(cfg, new)
<1> DEFINE plain == {[default |-> v, cond |-> NoValues] : v \in PlainValues \cup {InAppDefault}}
<1>1. PICK place \in Places, p \in FreeNames(cfg), param \in plain \cup UNION {SetParamValue(cfg, x) : x \in plain} :
        new = SetParamSlot(cfg, place, p, param)
    BY DEF CreateParameter
<1>2. plain \subseteq ParamStates
    BY DEF ParamStates, NoValues, Values
<1>3. param \in ParamStates
    BY <1>1, <1>2, ValueTyped
<1>4. /\ Typed(new) /\ KeepsGroups(cfg, new) /\ KeepsShape(cfg, new)
      /\ new.slots = [cfg.slots EXCEPT ![<<place, p>>] = param]
    BY <1>1, <1>3, FreeName, SetSlot
<1>5. SingleHomes(cfg) => SingleHomes(new)
    BY <1>4, FreeName, SingleSet
<1> QED
    BY <1>4, <1>5 DEF Safe, KeepsSingle

LEMMA EditParameterDetailsSafe ==
    ASSUME NEW cfg, Typed(cfg), NEW new \in EditParameterDetails(cfg)
    PROVE  Safe(cfg, new)
<1>1. PICK s \in Occupied(cfg) : new \in
        {SetParamSlot(RemoveParamSlot(cfg, s[1], s[2]), place, q, param) :
            place \in Places, q \in FreeNames(cfg) \cup {s[2]},
            param \in SetParamValue(cfg, cfg.slots[s]) \cup {cfg.slots[s]}}
    BY DEF EditParameterDetails
<1>2. PICK place \in Places, q \in FreeNames(cfg) \cup {s[2]},
           param \in SetParamValue(cfg, cfg.slots[s]) \cup {cfg.slots[s]} :
        new = SetParamSlot(RemoveParamSlot(cfg, s[1], s[2]), place, q, param)
    BY <1>1
<1>3. q \in Params
    BY OccupiedSlot, FreeName
<1>4. param \in ParamStates
    BY OccupiedSlot, ValueTyped
<1> QED
    BY <1>2, <1>3, <1>4, RemoveAndSet

LEMMA SetValueSafe ==
    ASSUME NEW cfg, Typed(cfg), NEW new \in SetValue(cfg)
    PROVE  Safe(cfg, new) /\ KeepsSingle(cfg, new)
<1> DEFINE edits(param) ==
            {[param EXCEPT !.default = v] : v \in {x \in PlainValues : param.default \in PlainValues}}
            \cup {[param EXCEPT !.cond[cv[1]] = cv[2]] :
                    cv \in {x \in Conds \X PlainValues : param.cond[x[1]] \in PlainValues}}
<1>1. PICK s \in Occupied(cfg) :
        new \in {SetParamSlot(cfg, s[1], s[2], param) : param \in edits(cfg.slots[s]) \ {cfg.slots[s]}}
    BY DEF SetValue
<1>2. PICK param \in edits(cfg.slots[s]) : new = SetParamSlot(cfg, s[1], s[2], param)
    BY <1>1
<1>3. /\ s \in Slots /\ s[1] \in Places /\ s[2] \in Params /\ s = <<s[1], s[2]>>
      /\ cfg.slots[s] \in ParamStates
    BY OccupiedSlot
<1>4. param \in ParamStates
    BY <1>3 DEF ParamStates, Values
<1> HIDE DEF edits
<1>5. /\ Typed(new) /\ KeepsGroups(cfg, new) /\ KeepsShape(cfg, new)
      /\ new.slots = [cfg.slots EXCEPT ![s] = param]
    BY <1>2, <1>3, <1>4, SetSlot
<1>6. NoNewHomes(cfg, new)
    BY <1>3, <1>5 DEF NoNewHomes, Typed, Occupied
<1> QED
    BY <1>5, <1>6, SingleKept DEF Safe, KeepsSingle

LEMMA DeleteConditionalValueSafe ==
    ASSUME NEW cfg, Typed(cfg), NEW new \in DeleteConditionalValue(cfg)
    PROVE  Safe(cfg, new)
<1>1. PICK x \in Occupied(cfg) \X Conds :
        new = SetParamSlot(cfg, x[1][1], x[1][2], [cfg.slots[x[1]] EXCEPT !.cond[x[2]] = None])
    BY DEF DeleteConditionalValue
<1> DEFINE s == x[1]
<1>2. s \in Occupied(cfg) /\ x[2] \in Conds
    OBVIOUS
<1>3. /\ s[1] \in Places /\ s[2] \in Params /\ cfg.slots[s] \in ParamStates
    BY <1>2, OccupiedSlot
<1>4. [cfg.slots[s] EXCEPT !.cond[x[2]] = None] \in ParamStates
    BY <1>2, <1>3 DEF ParamStates
<1> QED
    BY <1>1, <1>3, <1>4, SetSlot DEF Safe

-----------------------------------------------------------------------------
(***************************************************************************)
(* The operations on groups.                                               *)
(***************************************************************************)

LEMMA AddGroupSafe ==
    ASSUME NEW cfg, Typed(cfg), NEW new \in AddGroup(cfg)
    PROVE  Safe(cfg, new) /\ KeepsSingle(cfg, new)
<1>1. PICK g \in Groups, d \in Descs : new = [cfg EXCEPT !.groups[g] = d]
    BY DEF AddGroup
<1>2. /\ Typed(new) /\ new.slots = cfg.slots /\ new.groups = [cfg.groups EXCEPT ![g] = d]
      /\ SameConditions(cfg, new)
    BY <1>1 DEF Typed, SameConditions
<1>3. KeepsGroups(cfg, new)
    BY <1>2, NoneIsNoData DEF KeepsGroups, Typed
<1>4. Housed(cfg) => Housed(new)
    BY <1>2, <1>3 DEF Housed, KeepsGroups
<1>5. KeepsShape(cfg, new)
    BY <1>2, <1>4, SameStaysOrdered DEF KeepsShape, Shaped
<1> QED
    BY <1>2, <1>3, <1>5 DEF Safe, KeepsSingle, SingleHomes

LEMMA EditGroupMetadataSafe ==
    ASSUME NEW cfg, Typed(cfg), NEW new \in EditGroupMetadata(cfg)
    PROVE  Safe(cfg, new) /\ KeepsSingle(cfg, new)
<1>1. PICK g \in Groups, d \in Descs : new = [cfg EXCEPT !.groups[g] = d]
    BY DEF EditGroupMetadata, Existing
<1>2. /\ Typed(new) /\ new.slots = cfg.slots /\ new.groups = [cfg.groups EXCEPT ![g] = d]
      /\ SameConditions(cfg, new)
    BY <1>1 DEF Typed, SameConditions
<1>3. KeepsGroups(cfg, new)
    BY <1>2, NoneIsNoData DEF KeepsGroups, Typed
<1>4. Housed(cfg) => Housed(new)
    BY <1>2, <1>3 DEF Housed, KeepsGroups
<1>5. KeepsShape(cfg, new)
    BY <1>2, <1>4, SameStaysOrdered DEF KeepsShape, Shaped
<1> QED
    BY <1>2, <1>3, <1>5 DEF Safe, KeepsSingle, SingleHomes

LEMMA CarryTyped ==
    ASSUME NEW slots \in [Slots -> ParamStates \cup {None}], NEW from \in Places, NEW to \in Places
    PROVE  Carry(slots, from, to) \in [Slots -> ParamStates \cup {None}]
<1>1. \A s \in Slots : <<from, s[2]>> \in Slots
    BY DEF Slots
<1> QED
    BY <1>1 DEF Carry

LEMMA RenameGroupToShape ==
    ASSUME NEW cfg, Typed(cfg), NEW g \in Groups, NEW h \in Groups, NEW d \in Descs
    PROVE  LET new == RenameGroupTo(cfg, g, h, d)
           IN  Typed(new) /\ KeepsShape(cfg, new)
<1> DEFINE x == Carry(cfg.slots, g, h)
           y == [cfg.groups EXCEPT ![g] = None, ![h] = d]
           mid == WithGroups(cfg, y)
           new == RenameGroupTo(cfg, g, h, d)
<1>1. x \in [Slots -> ParamStates \cup {None}]
    BY CarryTyped DEF Typed, Places
<1>2. y \in [Groups -> Descs \cup {None}]
    BY DEF Typed
<1>3. new = WithSlots(mid, x)
    BY Zenon DEF RenameGroupTo, WithSlots, WithGroups
<1>4. /\ \A k \in Groups : k # g /\ cfg.groups[k] # None => y[k] # None
      /\ y[h] # None
    BY NoneIsNoData DEF Typed
<1>5. \A k \in Groups, p \in Params : x[<<k, p>>] # None =>
        k # g /\ (k = h \/ cfg.slots[<<k, p>>] # None)
    BY DEF Carry, Slots, Places
<1> HIDE DEF x, y, mid, new
<1>6. Typed(mid) /\ mid.groups = y /\ SameConditions(cfg, mid)
    BY <1>2, NewGroups DEF mid
<1>7. Typed(new) /\ new.slots = x /\ new.groups = y /\ SameConditions(cfg, new)
    BY <1>1, <1>3, <1>6, NewSlots DEF SameConditions
<1>8. Housed(cfg) => Housed(new)
    BY <1>4, <1>5, <1>7 DEF Housed
<1>9. KeepsShape(cfg, new)
    BY <1>7, <1>8, SameStaysOrdered DEF KeepsShape, Shaped
<1> QED
    BY <1>7, <1>9 DEF new

LEMMA RenameGroupShape ==
    ASSUME NEW cfg, Typed(cfg), NEW new \in RenameGroup(cfg)
    PROVE  Typed(new) /\ KeepsShape(cfg, new)
<1>1. PICK g \in Groups, h \in Groups :
        cfg.groups[g] # None /\ new = RenameGroupTo(cfg, g, h, cfg.groups[g])
    BY DEF RenameGroup, Existing
<1>2. cfg.groups[g] \in Descs
    BY <1>1 DEF Typed
<1> QED
    BY <1>1, <1>2, RenameGroupToShape

LEMMA EditGroupDetailsShape ==
    ASSUME NEW cfg, Typed(cfg), NEW new \in EditGroupDetails(cfg)
    PROVE  Typed(new) /\ KeepsShape(cfg, new)
<1>1. CASE new \in AddGroup(cfg) \cup EditGroupMetadata(cfg)
    BY <1>1, AddGroupSafe, EditGroupMetadataSafe DEF Safe
<1>2. CASE new \notin AddGroup(cfg) \cup EditGroupMetadata(cfg)
    <2>1. PICK g \in Groups, h \in Groups, d \in Descs : new = RenameGroupTo(cfg, g, h, d)
        BY <1>2 DEF EditGroupDetails, Existing
    <2> QED
        BY <2>1, RenameGroupToShape
<1> QED
    BY <1>1, <1>2

LEMMA DeleteGroupSafe ==
    ASSUME NEW cfg, Typed(cfg), NEW new \in DeleteGroup(cfg)
    PROVE  Typed(new) /\ KeepsShape(cfg, new) /\ KeepsSingle(cfg, new)
<1>1. PICK g \in Groups :
        new = [cfg EXCEPT !.groups = [@ EXCEPT ![g] = None],
                          !.slots = [s \in Slots |-> IF s[1] = g THEN None ELSE @[s]]]
    BY DEF DeleteGroup, Existing
<1> DEFINE x == [s \in Slots |-> IF s[1] = g THEN None ELSE cfg.slots[s]]
           y == [cfg.groups EXCEPT ![g] = None]
           mid == WithGroups(cfg, y)
<1>2. x \in [Slots -> ParamStates \cup {None}]
    BY DEF Typed
<1>3. y \in [Groups -> Descs \cup {None}] /\ \A h \in Groups : h # g => y[h] = cfg.groups[h]
    BY DEF Typed
<1>4. new = WithSlots(mid, x)
    BY <1>1, Zenon DEF WithSlots, WithGroups
<1>5. \A s \in Slots : x[s] # None => s[1] # g /\ cfg.slots[s] # None
    OBVIOUS
<1> HIDE DEF x, y, mid
<1>6. Typed(mid) /\ mid.groups = y /\ SameConditions(cfg, mid)
    BY <1>3, NewGroups DEF mid
<1>7. Typed(new) /\ new.slots = x /\ new.groups = y /\ SameConditions(cfg, new)
    BY <1>2, <1>4, <1>6, NewSlots DEF SameConditions
<1>8. NoNewHomes(cfg, new)
    BY <1>5, <1>7 DEF NoNewHomes
<1>9. Housed(cfg) => Housed(new)
    BY <1>3, <1>5, <1>7 DEF Housed, Slots, Places
<1>10. KeepsShape(cfg, new)
    BY <1>7, <1>9, SameStaysOrdered DEF KeepsShape, Shaped
<1> QED
    BY <1>7, <1>8, <1>10, SingleKept DEF KeepsSingle

LEMMA MoveGroupShape ==
    ASSUME NEW cfg, Typed(cfg), NEW new \in MoveGroup(cfg)
    PROVE  Typed(new) /\ KeepsShape(cfg, new)
<1>1. PICK m \in Places \X Places : new = MoveGroupTo(cfg, m[1], m[2])
    BY DEF MoveGroup, Existing, Places
<1> DEFINE from == m[1]
           to == m[2]
           moved == \E p \in Params : InSlot(cfg, from, p) # None
           x == Carry(cfg.slots, from, to)
           y == [g \in Groups |-> IF g = from THEN None
                                  ELSE IF g = to /\ moved /\ cfg.groups[g] = None THEN EmptyDesc
                                  ELSE cfg.groups[g]]
           mid == WithSlots(cfg, x)
<1>2. x \in [Slots -> ParamStates \cup {None}]
    BY CarryTyped DEF Typed
<1>3. y \in [Groups -> Descs \cup {None}]
    BY EmptyDescIsDesc DEF Typed
<1>4. new = WithGroups(mid, y)
    BY <1>1, Zenon DEF MoveGroupTo, WithSlots, WithGroups
<1>5. \A k \in Groups, p \in Params : x[<<k, p>>] # None =>
        k # from /\ ((k = to /\ moved) \/ cfg.slots[<<k, p>>] # None)
    BY DEF Carry, Slots, Places, InSlot
<1>6. \A k \in Groups : k # from /\ ((k = to /\ moved) \/ cfg.groups[k] # None) => y[k] # None
    BY EmptyDescIsDesc, NoneIsNoData
<1> HIDE DEF x, y, mid, moved
<1>7. Typed(mid) /\ mid.slots = x /\ SameConditions(cfg, mid)
    BY <1>2, NewSlots DEF mid
<1>8. Typed(new) /\ new.slots = x /\ new.groups = y /\ SameConditions(cfg, new)
    BY <1>3, <1>4, <1>7, NewGroups DEF SameConditions
<1>9. Housed(cfg) => Housed(new)
    BY <1>5, <1>6, <1>8 DEF Housed
<1> QED
    BY <1>8, <1>9, SameStaysOrdered DEF KeepsShape, Shaped

-----------------------------------------------------------------------------
(***************************************************************************)
(* The operations on conditions: groups stay, and no parameter appears.    *)
(***************************************************************************)

InPlace(cfg, new) ==
    /\ Typed(new) /\ new.groups = cfg.groups /\ NoNewHomes(cfg, new)
    /\ Ordered(cfg) => Ordered(new)

LEMMA InPlaceIsSafe ==
    ASSUME NEW cfg, NEW new, InPlace(cfg, new)
    PROVE  Safe(cfg, new) /\ KeepsSingle(cfg, new)
<1>1. KeepsShape(cfg, new)
    BY StaysHoused DEF InPlace, KeepsShape, Shaped
<1> QED
    BY <1>1, SingleKept DEF InPlace, Safe, KeepsGroups, KeepsSingle

LEMMA InPlaceTwice ==
    ASSUME NEW cfg, NEW mid, NEW new, InPlace(cfg, mid), InPlace(mid, new)
    PROVE  InPlace(cfg, new)
BY DEF InPlace, NoNewHomes

LEMMA AddConditionInPlace ==
    ASSUME NEW cfg, Typed(cfg), NEW new \in AddCondition(cfg)
    PROVE  InPlace(cfg, new)
<1>1. PICK c \in Conds \ Defined(cfg), e \in Exprs, i \in 1..(Len(cfg.order) + 1) :
        new = AddConditionAt(cfg, c, e, i)
    BY DEF AddCondition
<1> DEFINE x == [cfg.exprs EXCEPT ![c] = e]
           y == InsertAt(cfg.order, i, c)
           mid == WithExprs(cfg, x)
<1>2. x \in [Conds -> Exprs \cup {None}]
    BY DEF Typed
<1>3. new = WithOrder(mid, y)
    BY <1>1, Zenon DEF AddConditionAt, WithOrder, WithExprs
<1>4. {k \in Conds : x[k] # None} = Defined(cfg) \cup {c}
    BY NoneIsNoData DEF Typed, Defined
<1>5. ASSUME Ordered(cfg)
      PROVE  y \in Seq(Conds) /\ IsInjective(y) /\ Range(y) = Defined(cfg) \cup {c}
    BY <1>5, InsertKeepsOrder DEF Ordered
<1> HIDE DEF x, y, mid
<1>6. /\ Typed(mid) /\ mid.slots = cfg.slots /\ mid.groups = cfg.groups /\ mid.exprs = x
    BY <1>2, NewExprs DEF mid
<1>7. /\ Typed(new) /\ new.slots = cfg.slots /\ new.groups = cfg.groups
      /\ new.exprs = x /\ new.order = y
    BY <1>3, <1>6, NewOrder
<1>8. Ordered(cfg) => Ordered(new)
    BY <1>4, <1>5, <1>7 DEF Ordered, Defined
<1> QED
    BY <1>7, <1>8 DEF InPlace, NoNewHomes

\* A new expression for a defined condition.
LEMMA RedefineInPlace ==
    ASSUME NEW cfg, Typed(cfg), NEW c \in Defined(cfg), NEW e \in Exprs
    PROVE  LET new == Redefine(cfg, c, e)
           IN  InPlace(cfg, new) /\ Defined(new) = Defined(cfg) /\ new.order = cfg.order
<1> DEFINE new == Redefine(cfg, c, e)
           x == [cfg.exprs EXCEPT ![c] = e]
<1>0. x \in [Conds -> Exprs \cup {None}] /\ new = WithExprs(cfg, x)
    BY DEF Typed, Redefine, Defined, WithExprs
<1>1. /\ Typed(new) /\ new.slots = cfg.slots /\ new.groups = cfg.groups /\ new.order = cfg.order
      /\ new.exprs = [cfg.exprs EXCEPT ![c] = e]
    BY <1>0, NewExprs
<1> HIDE DEF new, x
<1>2. Defined(new) = Defined(cfg)
    <2>1. c \in Conds /\ cfg.exprs[c] # None /\ e # None
        BY NoneIsNoData DEF Defined
    <2>2. \A k \in Conds : new.exprs[k] # None <=> cfg.exprs[k] # None
        BY <1>1, <2>1 DEF Typed
    <2> QED
        BY <2>2 DEF Defined
<1> QED
    BY <1>1, <1>2 DEF InPlace, NoNewHomes, Ordered, new

LEMMA EditConditionInPlace ==
    ASSUME NEW cfg, Typed(cfg), NEW new \in EditCondition(cfg)
    PROVE  InPlace(cfg, new)
BY RedefineInPlace DEF EditCondition

LEMMA MoveConditionToInPlace ==
    ASSUME NEW cfg, Typed(cfg), NEW c \in Defined(cfg), NEW i \in 1..Len(cfg.order)
    PROVE  LET new == MoveConditionTo(cfg, c, i)
           IN  InPlace(cfg, new) /\ Defined(new) = Defined(cfg)
<1> DEFINE k == PositionOf(cfg, c)
           x == InsertAt(RemoveAt(cfg.order, k), i, c)
           new == MoveConditionTo(cfg, c, i)
<1>1. new = WithOrder(cfg, x)
    BY Zenon DEF MoveConditionTo, WithOrder
<1>2. ASSUME Ordered(cfg)
      PROVE  x \in Seq(Conds) /\ IsInjective(x) /\ Range(x) = Defined(cfg)
    <2>1. cfg.order \in Seq(Conds) /\ Range(cfg.order) = Defined(cfg) /\ IsInjective(cfg.order)
        BY <1>2 DEF Ordered
    <2>2. k \in 1..Len(cfg.order) /\ cfg.order[k] = c
        <3>1. \E j \in 1..Len(cfg.order) : cfg.order[j] = c
            BY <2>1 DEF Range
        <3> QED
            BY <3>1 DEF PositionOf
    <2> DEFINE y == RemoveAt(cfg.order, k)
    <2>3. /\ y \in Seq(Conds) /\ Len(y) = Len(cfg.order) - 1
          /\ IsInjective(y) /\ Range(y) = Defined(cfg) \ {c}
        BY <2>1, <2>2, RemoveKeepsOrder
    <2>4. i \in 1..(Len(y) + 1) /\ c \in Conds
        BY <2>1, <2>3, LenProperties DEF Defined
    <2> HIDE DEF y, k
    <2>5. InsertAt(y, i, c) \in Seq(Conds) /\ IsInjective(InsertAt(y, i, c))
          /\ Range(InsertAt(y, i, c)) = Range(y) \cup {c}
        BY <2>3, <2>4, InsertKeepsOrder
    <2> QED
        BY <2>3, <2>5 DEF y
<1> HIDE DEF x, new
<1>3. /\ Typed(new) /\ new.slots = cfg.slots /\ new.groups = cfg.groups
      /\ new.exprs = cfg.exprs /\ new.order = x
    BY <1>1, NewOrder
<1>4. Defined(new) = Defined(cfg)
    BY <1>3 DEF Defined
<1>5. InPlace(cfg, new)
    BY <1>2, <1>3, <1>4 DEF InPlace, NoNewHomes, Ordered
<1> QED
    BY <1>4, <1>5 DEF new

LEMMA MoveConditionInPlace ==
    ASSUME NEW cfg, Typed(cfg), NEW new \in MoveCondition(cfg)
    PROVE  InPlace(cfg, new)
BY MoveConditionToInPlace DEF MoveCondition

LEMMA RenameConditionToInPlace ==
    ASSUME NEW cfg, Typed(cfg), NEW c \in Defined(cfg), NEW d \in Conds \ Defined(cfg)
    PROVE  InPlace(cfg, RenameConditionTo(cfg, c, d))
<1> DEFINE x == RenamedKey(cfg.exprs, c, d)
           y == ReplaceAll(cfg.order, c, d)
           z == [s \in Slots |->
                    IF cfg.slots[s] = None \/ cfg.slots[s].cond[c] = None THEN cfg.slots[s]
                    ELSE RenamedValue(cfg.slots[s], c, d)]
           new == RenameConditionTo(cfg, c, d)
<1>0. c \in Conds /\ c # d
    BY DEF Defined
<1>1. /\ x \in [Conds -> Exprs \cup {None}]
      /\ {k \in Conds : x[k] # None} = (Defined(cfg) \ {c}) \cup {d}
    BY <1>0 DEF Typed, RenamedKey, Defined
<1>2. ASSUME NEW s \in Slots PROVE z[s] \in ParamStates \cup {None}
    <2>1. cfg.slots[s] \in ParamStates \cup {None}
        BY DEF Typed
    <2>2. CASE cfg.slots[s] = None \/ cfg.slots[s].cond[c] = None
        BY <2>1, <2>2
    <2>3. CASE ~(cfg.slots[s] = None \/ cfg.slots[s].cond[c] = None)
        <3> DEFINE f == cfg.slots[s].cond
        <3>1. f \in [Conds -> Values \cup {None}]
            BY <2>1, <2>3 DEF ParamStates
        <3>2. RenamedKey(f, c, d) \in [Conds -> Values \cup {None}]
            BY <1>0, <3>1 DEF RenamedKey
        <3>3. RenamedValue(cfg.slots[s], c, d) \in ParamStates
            BY <2>1, <2>3, <3>2 DEF ParamStates, RenamedValue
        <3> QED
            BY <2>3, <3>3
    <2> QED
        BY <2>2, <2>3
<1>3. z \in [Slots -> ParamStates \cup {None}]
    BY <1>2
<1>4. \A s \in Slots : z[s] # None => cfg.slots[s] # None
    OBVIOUS
<1> DEFINE k1 == WithExprs(cfg, x)
           k2 == WithOrder(k1, y)
<1>5. new = WithSlots(k2, z)
    BY Zenon DEF RenameConditionTo, WithSlots, WithOrder, WithExprs
<1>6. ASSUME Ordered(cfg)
      PROVE  y \in Seq(Conds) /\ IsInjective(y) /\ Range(y) = (Defined(cfg) \ {c}) \cup {d}
    BY <1>6, ReplaceKeepsOrder DEF Ordered
<1> HIDE DEF x, y, z, new, k1, k2
<1>7. Typed(k1) /\ k1.groups = cfg.groups /\ k1.exprs = x
    BY <1>1, NewExprs DEF k1
<1>8. Typed(k2) /\ k2.groups = cfg.groups /\ k2.exprs = x /\ k2.order = y
    BY <1>7, NewOrder DEF k2
<1>9. Typed(new) /\ new.slots = z /\ new.groups = cfg.groups /\ new.exprs = x /\ new.order = y
    BY <1>3, <1>5, <1>8, NewSlots DEF SameConditions
<1>10. Ordered(cfg) => Ordered(new)
    BY <1>1, <1>6, <1>9 DEF Ordered, Defined
<1>11. InPlace(cfg, new)
    BY <1>4, <1>9, <1>10 DEF InPlace, NoNewHomes
<1> QED
    BY <1>11, Zenon DEF new

LEMMA RenameConditionInPlace ==
    ASSUME NEW cfg, Typed(cfg), NEW new \in RenameCondition(cfg)
    PROVE  InPlace(cfg, new)
BY RenameConditionToInPlace DEF RenameCondition

LEMMA EditUsageValuesInPlace ==
    ASSUME NEW cfg, Typed(cfg), NEW c \in Conds, NEW new \in EditUsageValues(cfg, c)
    PROVE  InPlace(cfg, new) /\ SameConditions(cfg, new)
<1> DEFINE used == {s \in Occupied(cfg) : cfg.slots[s].cond[c] \in PlainValues}
<1>1. PICK f \in [used -> PlainValues] :
        new = [cfg EXCEPT !.slots = [s \in Slots |->
                IF s \in used THEN [@[s] EXCEPT !.cond[c] = f[s]] ELSE @[s]]]
    BY DEF EditUsageValues
<1> DEFINE x == [s \in Slots |-> IF s \in used THEN [cfg.slots[s] EXCEPT !.cond[c] = f[s]] ELSE cfg.slots[s]]
<1>2. ASSUME NEW s \in Slots PROVE x[s] \in ParamStates \cup {None}
    <2>1. CASE s \in used
        <3>1. cfg.slots[s] \in ParamStates /\ f[s] \in Values
            BY <2>1, OccupiedSlot DEF Values
        <3>2. [cfg.slots[s] EXCEPT !.cond[c] = f[s]] \in ParamStates
            BY <3>1 DEF ParamStates
        <3> QED
            BY <2>1, <3>2
    <2>2. CASE s \notin used
        BY <2>2 DEF Typed
    <2> QED
        BY <2>1, <2>2
<1>3. x \in [Slots -> ParamStates \cup {None}]
    BY <1>2
<1>4. \A s \in Slots : x[s] # None => cfg.slots[s] # None
    BY DEF Occupied
<1>5. new = WithSlots(cfg, x)
    BY <1>1, Zenon DEF WithSlots
<1> HIDE DEF x
<1> QED
    BY <1>3, <1>4, <1>5, NewSlots, SameStaysOrdered DEF InPlace, NoNewHomes

LEMMA EditedInPlaceInPlace ==
    ASSUME NEW cfg, Typed(cfg), NEW c \in Defined(cfg), NEW new \in EditedInPlace(cfg, c)
    PROVE  InPlace(cfg, new) /\ Defined(new) = Defined(cfg)
<1>1. PICK u \in EditUsageValues(cfg, c), e \in Exprs, i \in 1..Len(cfg.order) :
        new = MoveConditionTo(Redefine(u, c, e), c, i)
    BY DEF EditedInPlace
<1> DEFINE w == Redefine(u, c, e)
<1>2. InPlace(cfg, u) /\ Defined(u) = Defined(cfg) /\ u.order = cfg.order
    BY EditUsageValuesInPlace, SameStaysOrdered DEF Defined, SameConditions
<1>3. InPlace(u, w) /\ Defined(w) = Defined(u) /\ w.order = u.order
    BY <1>2, RedefineInPlace DEF InPlace
<1> HIDE DEF w
<1>4. InPlace(w, new) /\ Defined(new) = Defined(w)
    BY <1>1, <1>2, <1>3, MoveConditionToInPlace DEF InPlace, w
<1> QED
    BY <1>2, <1>3, <1>4, InPlaceTwice

LEMMA EditConditionDetailsInPlace ==
    ASSUME NEW cfg, Typed(cfg), NEW new \in EditConditionDetails(cfg)
    PROVE  InPlace(cfg, new)
<1>1. PICK c \in Defined(cfg) :
        new \in EditedInPlace(cfg, c)
            \cup {RenameConditionTo(u, c, d) : u \in EditedInPlace(cfg, c), d \in Conds \ Defined(cfg)}
    BY DEF EditConditionDetails
<1>2. CASE new \in EditedInPlace(cfg, c)
    BY <1>2, EditedInPlaceInPlace
<1>3. CASE new \notin EditedInPlace(cfg, c)
    <2>1. PICK u \in EditedInPlace(cfg, c), d \in Conds \ Defined(cfg) : new = RenameConditionTo(u, c, d)
        BY <1>1, <1>3
    <2>2. InPlace(cfg, u) /\ Defined(u) = Defined(cfg)
        BY EditedInPlaceInPlace
    <2>3. InPlace(u, new)
        BY <2>1, <2>2, RenameConditionToInPlace DEF InPlace
    <2> QED
        BY <2>2, <2>3, InPlaceTwice
<1> QED
    BY <1>2, <1>3

LEMMA DeleteConditionInPlace ==
    ASSUME NEW cfg, Typed(cfg), NEW new \in DeleteCondition(cfg)
    PROVE  InPlace(cfg, new)
<1>1. PICK c \in Conds : new = DropUnknownConditionReferences(
        [cfg EXCEPT !.exprs = [@ EXCEPT ![c] = None], !.order = Kept(@, Conds \ {c})])
    BY DEF DeleteCondition, Defined
<1> DEFINE x == [cfg.exprs EXCEPT ![c] = None]
           y == Kept(cfg.order, Conds \ {c})
           k1 == WithExprs(cfg, x)
           mid == [cfg EXCEPT !.exprs = x, !.order = y]
<1>2. /\ x \in [Conds -> Exprs \cup {None}]
      /\ {k \in Conds : x[k] # None} = Defined(cfg) \ {c}
    BY DEF Typed, Defined
<1>3. mid = WithOrder(k1, y)
    BY Zenon DEF WithOrder, WithExprs
<1>4. new = DropUnknownConditionReferences(mid)
    BY <1>1, Zenon
<1>5. ASSUME Ordered(cfg)
      PROVE  y \in Seq(Conds) /\ IsInjective(y) /\ Range(y) = Defined(cfg) \ {c}
    <2>1. Range(y) = Range(cfg.order) \cap (Conds \ {c})
        BY <1>5, KeptType DEF Ordered
    <2> QED
        BY <1>5, <2>1, KeptType, KeptInjective DEF Ordered, Defined
<1> HIDE DEF x, y, k1, mid
<1>6. Typed(k1) /\ k1.slots = cfg.slots /\ k1.groups = cfg.groups /\ k1.exprs = x
    BY <1>2, NewExprs DEF k1
<1>7. /\ Typed(mid) /\ mid.slots = cfg.slots /\ mid.groups = cfg.groups
      /\ mid.exprs = x /\ mid.order = y
    BY <1>3, <1>6, NewOrder
<1>8. Ordered(cfg) => Ordered(mid)
    BY <1>2, <1>5, <1>7 DEF Ordered, Defined
<1>9. InPlace(cfg, mid)
    BY <1>7, <1>8 DEF InPlace, NoNewHomes
<1>10. InPlace(mid, new)
    BY <1>4, <1>7, DropCleans, SameStaysOrdered DEF InPlace
<1> QED
    BY <1>9, <1>10, InPlaceTwice

\* BuildMutatedRemoteConfig cleans up what the operations produce.
LEMMA BuildCleans ==
    ASSUME NEW cfg, NEW mutated, \A m \in mutated : Typed(m),
           NEW next \in BuildMutatedRemoteConfig(cfg, mutated)
    PROVE  /\ Typed(next) /\ Resolved(next) /\ Valued(next)
           /\ \E m \in mutated : next.groups = m.groups /\ NoNewHomes(m, next) /\ KeepsShape(m, next)
<1>1. PICK m \in mutated : next = DropUnknownConditionReferences(m)
    BY DEF BuildMutatedRemoteConfig
<1> QED
    BY <1>1, DropCleans

-----------------------------------------------------------------------------
(***************************************************************************)
(* The three-way merge.                                                    *)
(***************************************************************************)

\* The draft's own change writes a parameter into the group.
Written(b, d, l, g) == \E p \in Params :
    /\ b.slots[<<g, p>>] # d.slots[<<g, p>>]
    /\ b.slots[<<g, p>>] = l.slots[<<g, p>>]
    /\ d.slots[<<g, p>>] # None

LEMMA MergeSlotsFields ==
    ASSUME NEW b, NEW d, NEW l, Typed(b), Typed(d), Typed(l)
    PROVE  LET m == MergeSlots(b, d, l)
           IN  /\ Typed(m) /\ SameConditions(l, m)
               /\ \A s \in Slots : m.slots[s] = ThreeWay(b.slots[s], d.slots[s], l.slots[s])
               /\ \A g \in Groups : m.groups[g] =
                    IF l.groups[g] = None /\ Written(b, d, l, g) THEN EmptyDesc ELSE l.groups[g]
<1> DEFINE x == [s \in Slots |-> ThreeWay(b.slots[s], d.slots[s], l.slots[s])]
           y == [g \in Groups |-> IF l.groups[g] = None /\ Written(b, d, l, g) THEN EmptyDesc ELSE l.groups[g]]
           mid == WithSlots(l, x)
           m == MergeSlots(b, d, l)
<1>1. x \in [Slots -> ParamStates \cup {None}]
    BY DEF Typed, ThreeWay
<1>2. y \in [Groups -> Descs \cup {None}]
    BY EmptyDescIsDesc DEF Typed
<1>3. \A g \in Groups : y[g] = IF l.groups[g] = None /\ Written(b, d, l, g) THEN EmptyDesc ELSE l.groups[g]
    OBVIOUS
<1>4. m = WithGroups(mid, y)
    BY Zenon DEF MergeSlots, WithGroups, WithSlots, Written
<1>5. \A s \in Slots : x[s] = ThreeWay(b.slots[s], d.slots[s], l.slots[s])
    OBVIOUS
<1> HIDE DEF x, y, mid, m
<1>6. Typed(mid) /\ mid.slots = x /\ SameConditions(l, mid)
    BY <1>1, NewSlots DEF mid
<1>7. Typed(m) /\ m.slots = x /\ m.groups = y /\ SameConditions(l, m)
    BY <1>2, <1>4, <1>6, NewGroups DEF SameConditions
<1> QED
    BY <1>3, <1>5, <1>7, Zenon DEF m

DeletedGroups(b, d) == {g \in Groups : b.groups[g] # None /\ d.groups[g] = None}

LEMMA MergeGroupsFields ==
    ASSUME NEW b, NEW d, NEW k, Typed(b), Typed(d), Typed(k)
    PROVE  LET m == MergeGroups(b, d, k)
           IN  /\ Typed(m) /\ SameConditions(k, m)
               /\ \A s \in Slots : m.slots[s] = IF s[1] \in DeletedGroups(b, d) THEN None ELSE k.slots[s]
               /\ \A g \in Groups : m.groups[g] = ThreeWay(b.groups[g], d.groups[g], k.groups[g])
<1> DEFINE x == [s \in Slots |-> IF s[1] \in DeletedGroups(b, d) THEN None ELSE k.slots[s]]
           y == [g \in Groups |-> ThreeWay(b.groups[g], d.groups[g], k.groups[g])]
           mid == WithGroups(k, y)
           m == MergeGroups(b, d, k)
<1>1. x \in [Slots -> ParamStates \cup {None}]
    BY DEF Typed
<1>2. y \in [Groups -> Descs \cup {None}]
    BY DEF Typed, ThreeWay
<1>3. m = WithSlots(mid, x)
    BY Zenon DEF MergeGroups, WithGroups, WithSlots, DeletedGroups
<1>4. /\ \A s \in Slots : x[s] = IF s[1] \in DeletedGroups(b, d) THEN None ELSE k.slots[s]
      /\ \A g \in Groups : y[g] = ThreeWay(b.groups[g], d.groups[g], k.groups[g])
    OBVIOUS
<1> HIDE DEF x, y, mid, m
<1>5. Typed(mid) /\ mid.groups = y /\ SameConditions(k, mid)
    BY <1>2, NewGroups DEF mid
<1>6. Typed(m) /\ m.slots = x /\ m.groups = y /\ SameConditions(k, m)
    BY <1>1, <1>3, <1>5, NewSlots DEF SameConditions
<1> QED
    BY <1>4, <1>6, Zenon DEF m

\* The order of a merge whose defined conditions are "defined".
MergedOrder(b, d, l, defined) ==
    LET order == ThreeWay(b.order, d.order, l.order)
    IN  Kept(order, defined) \o Kept(CondSeq, defined \ Range(order))

LEMMA MergeConditionsFields ==
    ASSUME NEW b, NEW d, NEW k, Typed(b), Typed(d), Typed(k)
    PROVE  LET m == MergeConditions(b, d, k)
           IN  /\ Typed(m) /\ m.slots = k.slots /\ m.groups = k.groups
               /\ \A c \in Conds : m.exprs[c] = ThreeWay(b.exprs[c], d.exprs[c], k.exprs[c])
               /\ m.order = MergedOrder(b, d, k, Defined(m))
<1> DEFINE x == [c \in Conds |-> ThreeWay(b.exprs[c], d.exprs[c], k.exprs[c])]
           y == MergedOrder(b, d, k, {c \in Conds : x[c] # None})
           mid == WithExprs(k, x)
           m == MergeConditions(b, d, k)
<1>1. /\ x \in [Conds -> Exprs \cup {None}]
      /\ \A c \in Conds : x[c] = ThreeWay(b.exprs[c], d.exprs[c], k.exprs[c])
    BY DEF Typed, ThreeWay
<1>2. m = WithOrder(mid, y)
    BY Zenon DEF MergeConditions, WithExprs, WithOrder, MergedOrder
<1> HIDE DEF x, mid, m
<1>3. /\ Typed(mid) /\ mid.slots = k.slots /\ mid.groups = k.groups /\ mid.exprs = x
    BY <1>1, NewExprs DEF mid
<1>4. /\ Typed(m) /\ m.slots = k.slots /\ m.groups = k.groups /\ m.exprs = x
      /\ m.order = y
    BY <1>2, <1>3, NewOrder
<1>5. {c \in Conds : x[c] # None} = Defined(m)
    BY <1>4, Zenon DEF Defined
<1>6. m.order = MergedOrder(b, d, k, Defined(m))
    BY <1>4, <1>5, Zenon
<1> QED
    BY <1>1, <1>4, <1>6, Zenon DEF m

\* What a merge does to every slot, group and condition.
LEMMA MergeFields ==
    ASSUME NEW b, NEW d, NEW l, Typed(b), Typed(d), Typed(l)
    PROVE  LET m == MergeWithLatest(b, d, l)
           IN  /\ Typed(m) /\ Resolved(m) /\ Valued(m)
               /\ \A s \in Slots :
                    LET item == ThreeWay(b.slots[s], d.slots[s], l.slots[s])
                    IN  m.slots[s] = IF s[1] \in DeletedGroups(b, d) \/ item = None THEN None
                                     ELSE StripUnknown(item, Defined(m))
               /\ \A g \in Groups : m.groups[g] = ThreeWay(b.groups[g], d.groups[g],
                    IF l.groups[g] = None /\ Written(b, d, l, g) THEN EmptyDesc ELSE l.groups[g])
               /\ \A c \in Conds : m.exprs[c] = ThreeWay(b.exprs[c], d.exprs[c], l.exprs[c])
               /\ m.order = MergedOrder(b, d, l, Defined(m))
<1> DEFINE k1 == MergeSlots(b, d, l)
           k2 == MergeGroups(b, d, k1)
           k3 == MergeConditions(b, d, k2)
           m == DropUnknownConditionReferences(k3)
<1>1. /\ Typed(k1) /\ SameConditions(l, k1)
      /\ \A s \in Slots : k1.slots[s] = ThreeWay(b.slots[s], d.slots[s], l.slots[s])
      /\ \A g \in Groups : k1.groups[g] =
            IF l.groups[g] = None /\ Written(b, d, l, g) THEN EmptyDesc ELSE l.groups[g]
    BY MergeSlotsFields
<1> HIDE DEF k1
<1>2. /\ Typed(k2) /\ SameConditions(k1, k2)
      /\ \A s \in Slots : k2.slots[s] = IF s[1] \in DeletedGroups(b, d) THEN None ELSE k1.slots[s]
      /\ \A g \in Groups : k2.groups[g] = ThreeWay(b.groups[g], d.groups[g], k1.groups[g])
    BY <1>1, MergeGroupsFields
<1> HIDE DEF k2
<1>3. /\ Typed(k3) /\ k3.slots = k2.slots /\ k3.groups = k2.groups
      /\ \A c \in Conds : k3.exprs[c] = ThreeWay(b.exprs[c], d.exprs[c], k2.exprs[c])
      /\ k3.order = MergedOrder(b, d, k2, Defined(k3))
    BY <1>2, MergeConditionsFields
<1> HIDE DEF k3
<1>4. /\ Typed(m) /\ Resolved(m) /\ Valued(m) /\ m.groups = k3.groups /\ SameConditions(k3, m)
      /\ \A s \in Slots : m.slots[s] =
            IF k3.slots[s] = None THEN None ELSE StripUnknown(k3.slots[s], Defined(k3))
    BY <1>3, DropCleans
<1>5. m = MergeWithLatest(b, d, l)
    BY Zenon DEF MergeWithLatest, k1, k2, k3
<1> HIDE DEF m
<1>6. Defined(m) = Defined(k3) /\ k2.exprs = l.exprs /\ k2.order = l.order
    BY <1>1, <1>2, <1>4, SameStaysOrdered DEF SameConditions
<1>7. ASSUME NEW s \in Slots
      PROVE  LET item == ThreeWay(b.slots[s], d.slots[s], l.slots[s])
             IN  m.slots[s] = IF s[1] \in DeletedGroups(b, d) \/ item = None THEN None
                              ELSE StripUnknown(item, Defined(m))
    BY <1>1, <1>2, <1>3, <1>4, <1>6
<1>8. ASSUME NEW g \in Groups
      PROVE  m.groups[g] = ThreeWay(b.groups[g], d.groups[g],
                IF l.groups[g] = None /\ Written(b, d, l, g) THEN EmptyDesc ELSE l.groups[g])
    BY <1>1, <1>2, <1>3, <1>4
<1>9. \A c \in Conds : m.exprs[c] = ThreeWay(b.exprs[c], d.exprs[c], l.exprs[c])
    BY <1>3, <1>4, <1>6 DEF SameConditions
<1>10. m.order = MergedOrder(b, d, l, Defined(m))
    BY <1>3, <1>4, <1>6 DEF SameConditions, MergedOrder
<1> QED
    BY <1>4, <1>5, <1>7, <1>8, <1>9, <1>10

\* A merge loses a group of the latest template only where the draft deleted it.
LEMMA MergeLosesGroups ==
    ASSUME NEW b, NEW d, NEW l, Typed(b), Typed(d), Typed(l), NEW g \in Groups,
           l.groups[g] # None, MergeWithLatest(b, d, l).groups[g] = None
    PROVE  g \in DeletedGroups(b, d)
<1>1. MergeWithLatest(b, d, l).groups[g] = ThreeWay(b.groups[g], d.groups[g], l.groups[g])
    BY MergeFields
<1> QED
    BY <1>1 DEF ThreeWay, DeletedGroups

\* Conditions: the merged order lists what the merge defines, once each.
LEMMA MergeIsOrdered ==
    ASSUME NEW b, NEW d, NEW l, Typed(b), Typed(d), Typed(l), Ordered(d), Ordered(l)
    PROVE  Ordered(MergeWithLatest(b, d, l))
<1> DEFINE m == MergeWithLatest(b, d, l)
           order == ThreeWay(b.order, d.order, l.order)
           x == Kept(order, Defined(m))
           y == Kept(CondSeq, Defined(m) \ Range(order))
<1>1. m.order = x \o y
    <2>1. m.order = MergedOrder(b, d, l, Defined(m))
        BY MergeFields
    <2> QED
        BY <2>1, Zenon DEF MergedOrder
<1>2. Defined(m) \subseteq Conds
    BY DEF Defined
<1>3. order \in Seq(Conds) /\ IsInjective(order)
    BY DEF ThreeWay, Ordered
<1>4. CondSeq \in Seq(Conds) /\ IsInjective(CondSeq) /\ Range(CondSeq) = Conds
    BY CondSeqIsSeq DEF Conds
<1> HIDE DEF m, order
<1>5. x \in Seq(Conds) /\ Range(x) = Range(order) \cap Defined(m) /\ IsInjective(x)
    BY <1>3, KeptType, KeptInjective
<1>6. y \in Seq(Conds) /\ Range(y) = Conds \cap (Defined(m) \ Range(order)) /\ IsInjective(y)
    BY <1>4, KeptType, KeptInjective
<1> HIDE DEF x, y
<1>7. x \o y \in Seq(Conds) /\ Range(x \o y) = Range(x) \cup Range(y) /\ IsInjective(x \o y)
    <2>1. Range(x) \cap Range(y) = {}
        BY <1>5, <1>6
    <2> QED
        BY <1>5, <1>6, <2>1, ConcatRange
<1>8. Range(x) \cup Range(y) = Defined(m)
    BY <1>2, <1>5, <1>6
<1> QED
    BY <1>1, <1>7, <1>8 DEF Ordered, m

\* Groups: where no parameter is in conflict, those the merge has live in its groups.
LEMMA MergeIsHoused ==
    ASSUME NEW b, NEW d, NEW l, Typed(b), Typed(d), Typed(l), Housed(d), Housed(l),
           ~SlotConflict(b, d, l)
    PROVE  Housed(MergeWithLatest(b, d, l))
<1> DEFINE m == MergeWithLatest(b, d, l)
<1> SUFFICES ASSUME NEW g \in Groups, NEW p \in Params, m.slots[<<g, p>>] # None
             PROVE  m.groups[g] # None
    BY DEF Housed
<1> DEFINE s == <<g, p>>
<1>1. s \in Slots /\ s[1] = g
    BY DEF Slots, Places
<1>2. g \notin DeletedGroups(b, d) /\ ThreeWay(b.slots[s], d.slots[s], l.slots[s]) # None
    BY <1>1, MergeFields
<1>3. m.groups[g] = ThreeWay(b.groups[g], d.groups[g],
        IF l.groups[g] = None /\ Written(b, d, l, g) THEN EmptyDesc ELSE l.groups[g])
    BY MergeFields
<1>4. /\ d.slots[s] # None => d.groups[g] # None
      /\ l.slots[s] # None => l.groups[g] # None
    BY DEF Housed
<1>5. ~(b.slots[s] # d.slots[s] /\ b.slots[s] # l.slots[s] /\ d.slots[s] # l.slots[s])
    BY <1>1 DEF SlotConflict, Clash
<1>6. EmptyDesc # None
    BY EmptyDescIsDesc, NoneIsNoData
<1>7. b.slots[s] # d.slots[s] /\ b.slots[s] = l.slots[s] /\ d.slots[s] # None => Written(b, d, l, g)
    BY DEF Written
<1> HIDE DEF m, s
<1>8. CASE b.slots[s] # d.slots[s]
    BY <1>2, <1>3, <1>4, <1>5, <1>6, <1>7, <1>8 DEF ThreeWay
<1>9. CASE b.slots[s] = d.slots[s]
    BY <1>2, <1>3, <1>4, <1>9 DEF ThreeWay, DeletedGroups
<1> QED
    BY <1>8, <1>9

\* A slot of the merge is filled only if its item is.
LEMMA MergeFillsItems ==
    ASSUME NEW b, NEW d, NEW l, Typed(b), Typed(d), Typed(l), NEW s \in Slots,
           MergeWithLatest(b, d, l).slots[s] # None
    PROVE  ThreeWay(b.slots[s], d.slots[s], l.slots[s]) # None
BY MergeFields

\* Templates that agree in every slot, group and condition and in their order are one.
LEMMA SameTemplate ==
    ASSUME NEW x, NEW y, Typed(x), Typed(y),
           \A s \in Slots : x.slots[s] = y.slots[s],
           \A g \in Groups : x.groups[g] = y.groups[g],
           \A c \in Conds : x.exprs[c] = y.exprs[c],
           x.order = y.order
    PROVE  x = y
<1>1. x.slots = y.slots
    BY DEF Typed
<1>2. x.groups = y.groups
    BY DEF Typed
<1>3. x.exprs = y.exprs
    BY DEF Typed
<1>4. /\ x = [slots |-> x.slots, groups |-> x.groups, exprs |-> x.exprs, order |-> x.order]
      /\ y = [slots |-> y.slots, groups |-> y.groups, exprs |-> y.exprs, order |-> y.order]
    BY DEF Typed
<1> QED
    BY <1>1, <1>2, <1>3, <1>4, Zenon

\* Nothing is stripped from a parameter whose conditions are all known.
LEMMA StripKeeps ==
    ASSUME NEW param \in ParamStates, NEW known, HasValues(param),
           \A c \in Conds : param.cond[c] # None => c \in known
    PROVE  StripUnknown(param, known) = param
<1> DEFINE kept == [param EXCEPT !.cond = [c \in Conds |-> IF c \in known THEN @[c] ELSE None]]
<1>1. kept.cond = param.cond
    BY DEF ParamStates
<1>2. kept = param
    BY <1>1 DEF ParamStates
<1> HIDE DEF kept
<1> QED
    BY <1>2, Zenon DEF StripUnknown, kept

\* The order of a template is what merging it with itself gives.
LEMMA OrderRestored ==
    ASSUME NEW cfg, Ordered(cfg)
    PROVE  Kept(cfg.order, Defined(cfg)) \o Kept(CondSeq, Defined(cfg) \ Range(cfg.order)) = cfg.order
<1>1. cfg.order \in Seq(Conds) /\ Range(cfg.order) = Defined(cfg)
    BY DEF Ordered
<1>2. Kept(cfg.order, Defined(cfg)) = cfg.order
    BY <1>1, KeptAll
<1>3. Kept(CondSeq, Defined(cfg) \ Range(cfg.order)) = <<>>
    <2>1. CondSeq \in Seq(Conds) /\ Range(CondSeq) \cap (Defined(cfg) \ Range(cfg.order)) = {}
        BY <1>1, CondSeqIsSeq DEF Conds
    <2> QED
        BY <2>1, KeptNone
<1> QED
    BY <1>1, <1>2, <1>3, ConcatEmptySeq

\* A draft merged with its own base is the draft.
LEMMA MergeWithBase ==
    ASSUME NEW b, NEW d, Typed(b), Typed(d), Shaped(d), Resolved(d), Valued(d)
    PROVE  MergeWithLatest(b, d, b) = d
<1> DEFINE m == MergeWithLatest(b, d, b)
<1>1. /\ Typed(m)
      /\ \A s \in Slots :
            LET item == ThreeWay(b.slots[s], d.slots[s], b.slots[s])
            IN  m.slots[s] = IF s[1] \in DeletedGroups(b, d) \/ item = None THEN None
                             ELSE StripUnknown(item, Defined(m))
      /\ \A g \in Groups : m.groups[g] = ThreeWay(b.groups[g], d.groups[g],
            IF b.groups[g] = None /\ Written(b, d, b, g) THEN EmptyDesc ELSE b.groups[g])
      /\ \A c \in Conds : m.exprs[c] = ThreeWay(b.exprs[c], d.exprs[c], b.exprs[c])
      /\ m.order = MergedOrder(b, d, b, Defined(m))
    BY MergeFields
<1> HIDE DEF m
<1>2. \A x, y : ThreeWay(x, y, x) = y
    BY DEF ThreeWay
<1>3. \A c \in Conds : m.exprs[c] = d.exprs[c]
    BY <1>1, <1>2
<1>4. Defined(m) = Defined(d)
    BY <1>3 DEF Defined
<1>5. ASSUME NEW s \in Slots PROVE m.slots[s] = d.slots[s]
    <2>1. m.slots[s] = IF s[1] \in DeletedGroups(b, d) \/ d.slots[s] = None THEN None
                       ELSE StripUnknown(d.slots[s], Defined(d))
        BY <1>1, <1>2, <1>4
    <2>2. s[1] \in DeletedGroups(b, d) => d.slots[s] = None
        BY DEF DeletedGroups, Shaped, Housed, Slots
    <2>3. d.slots[s] # None => StripUnknown(d.slots[s], Defined(d)) = d.slots[s]
        BY StripKeeps DEF Typed, Resolved, Valued
    <2> QED
        BY <2>1, <2>2, <2>3
<1>6. ASSUME NEW g \in Groups PROVE m.groups[g] = d.groups[g]
    <2>1. Written(b, d, b, g) => d.groups[g] # None
        BY DEF Written, Shaped, Housed
    <2> QED
        BY <1>1, <2>1 DEF ThreeWay
<1>7. m.order = d.order
    <2>1. m.order = Kept(d.order, Defined(d)) \o Kept(CondSeq, Defined(d) \ Range(d.order))
        BY <1>1, <1>2, <1>4 DEF MergedOrder
    <2> QED
        BY <2>1, OrderRestored DEF Shaped
<1>8. m = d
    BY <1>1, <1>3, <1>5, <1>6, <1>7, SameTemplate
<1> QED
    BY <1>8 DEF m

\* The conditions a merge keeps are in the order of the side whose order it took.
LEMMA MergeKeepsOrder ==
    ASSUME NEW b, NEW d, NEW l, Typed(b), Typed(d), Typed(l), Ordered(d), Ordered(l)
    PROVE  LET m == MergeWithLatest(b, d, l)
               chosen == ThreeWay(b.order, d.order, l.order)
               both == Range(chosen) \cap Defined(m)
           IN  Kept(m.order, both) = Kept(chosen, both)
<1> DEFINE m == MergeWithLatest(b, d, l)
           chosen == ThreeWay(b.order, d.order, l.order)
           D == Defined(m)
           both == Range(chosen) \cap D
<1>1. m.order = MergedOrder(b, d, l, D)
    BY MergeFields
<1>2. m.order = Kept(chosen, D) \o Kept(CondSeq, D \ Range(chosen))
    BY <1>1, Zenon DEF MergedOrder
<1>3. chosen \in Seq(Conds)
    BY DEF ThreeWay, Ordered
<1>4. CondSeq \in Seq(Conds)
    BY CondSeqIsSeq DEF Conds
<1> HIDE DEF m, chosen, D
<1> DEFINE x == Kept(chosen, D)
           y == Kept(CondSeq, D \ Range(chosen))
<1>5. x \in Seq(Conds) /\ y \in Seq(Conds) /\ Range(y) \cap both = {}
    BY <1>3, <1>4, KeptType
<1>6. Kept(x, both) = Kept(chosen, both)
    <2>1. Kept(x, both) = Kept(chosen, D \cap both)
        BY <1>3, KeptTwice
    <2>2. D \cap both = both
        OBVIOUS
    <2> QED
        BY <2>1, <2>2, Zenon
<1>7. m.order = x \o y
    BY <1>2
<1> HIDE DEF x, y, both
<1>8. Kept(y, both) = <<>>
    BY <1>5, KeptNone
<1>9. Kept(x \o y, both) = Kept(x, both) \o Kept(y, both)
    BY <1>5, KeptConcat
<1>10. Kept(x, both) \in Seq(Conds)
    BY <1>5, KeptType
<1>11. Kept(m.order, both) = Kept(chosen, both)
    BY <1>6, <1>7, <1>8, <1>9, <1>10, ConcatEmptySeq
<1> QED
    BY <1>11, Zenon DEF m, chosen, D, both

\* What the draft changed is in its candidate as the draft has it, provided
\* the conditions of its values are.
LEMMA CandidateHasChanges ==
    ASSUME NEW b, NEW d, NEW l, Typed(b), Typed(d), Typed(l),
           Shaped(b), Shaped(d), Shaped(l), Valued(d), ~Conflict(b, d, l),
           \A s \in Slots : d.slots[s] # None =>
              \A c \in Conds : d.slots[s].cond[c] # None => c \in Defined(MergeWithLatest(b, d, l))
    PROVE  LET m == MergeWithLatest(b, d, l)
           IN  /\ \A s \in Slots : b.slots[s] # d.slots[s] => m.slots[s] = d.slots[s]
               /\ \A g \in Groups : b.groups[g] # d.groups[g] => m.groups[g] = d.groups[g]
               /\ \A c \in Conds : b.exprs[c] # d.exprs[c] => m.exprs[c] = d.exprs[c]
               /\ b.order # d.order => m.order = d.order /\ Defined(m) = Defined(d)
<1> DEFINE m == MergeWithLatest(b, d, l)
           D == Defined(m)
<1>1. /\ \A s \in Slots :
            LET item == ThreeWay(b.slots[s], d.slots[s], l.slots[s])
            IN  m.slots[s] = IF s[1] \in DeletedGroups(b, d) \/ item = None THEN None
                             ELSE StripUnknown(item, D)
      /\ \A g \in Groups : m.groups[g] = ThreeWay(b.groups[g], d.groups[g],
            IF l.groups[g] = None /\ Written(b, d, l, g) THEN EmptyDesc ELSE l.groups[g])
      /\ \A c \in Conds : m.exprs[c] = ThreeWay(b.exprs[c], d.exprs[c], l.exprs[c])
      /\ m.order = MergedOrder(b, d, l, D)
    BY MergeFields
<1>2. \A s \in Slots : d.slots[s] # None => \A c \in Conds : d.slots[s].cond[c] # None => c \in D
    OBVIOUS
<1>3. D = {c \in Conds : m.exprs[c] # None}
    BY DEF Defined
<1> HIDE DEF m, D
<1>4. ASSUME NEW s \in Slots, b.slots[s] # d.slots[s] PROVE m.slots[s] = d.slots[s]
    <2>1. m.slots[s] = IF s[1] \in DeletedGroups(b, d) \/ d.slots[s] = None THEN None
                       ELSE StripUnknown(d.slots[s], D)
        BY <1>1, <1>4 DEF ThreeWay
    <2>2. s[1] \in DeletedGroups(b, d) => d.slots[s] = None
        BY DEF DeletedGroups, Shaped, Housed, Slots
    <2>3. d.slots[s] # None => StripUnknown(d.slots[s], D) = d.slots[s]
        BY <1>2, StripKeeps DEF Typed, Valued
    <2> QED
        BY <2>1, <2>2, <2>3
<1>5. ASSUME b.order # d.order PROVE m.order = d.order /\ D = Defined(d)
    <2>1. l.order = b.order \/ l.order = d.order
        BY <1>5 DEF Conflict, ConditionConflict, Clash
    <2>2. Defined(l) = Defined(b) \/ Defined(l) = Defined(d)
        BY <2>1 DEF Shaped, Ordered
    <2>3. ASSUME NEW c \in Conds PROVE m.exprs[c] # None <=> d.exprs[c] # None
        <3>1. \/ l.exprs[c] # None <=> b.exprs[c] # None
              \/ l.exprs[c] # None <=> d.exprs[c] # None
            BY <2>2 DEF Defined
        <3>2. m.exprs[c] = IF b.exprs[c] # d.exprs[c] THEN d.exprs[c] ELSE l.exprs[c]
            BY <1>1 DEF ThreeWay
        <3> QED
            BY <3>1, <3>2
    <2>4. D = Defined(d)
        BY <1>3, <2>3 DEF Defined
    <2>5. m.order = Kept(d.order, D) \o Kept(CondSeq, D \ Range(d.order))
        BY <1>1, <1>5 DEF MergedOrder, ThreeWay
    <2> QED
        BY <2>4, <2>5, OrderRestored DEF Shaped
<1>6. \A g \in Groups : b.groups[g] # d.groups[g] => m.groups[g] = d.groups[g]
    BY <1>1 DEF ThreeWay
<1>7. \A c \in Conds : b.exprs[c] # d.exprs[c] => m.exprs[c] = d.exprs[c]
    BY <1>1 DEF ThreeWay
<1> QED
    BY <1>4, <1>5, <1>6, <1>7 DEF m, D

\* A draft merges with the candidate made from it without conflict and without changes.
LEMMA MergeWithCandidate ==
    ASSUME NEW b, NEW d, NEW l, Typed(b), Typed(d), Typed(l),
           Shaped(b), Shaped(d), Shaped(l), Valued(d), ~Conflict(b, d, l),
           \A s \in Slots : d.slots[s] # None =>
              \A c \in Conds : d.slots[s].cond[c] # None => c \in Defined(MergeWithLatest(b, d, l))
    PROVE  LET m == MergeWithLatest(b, d, l)
           IN  ~Conflict(b, d, m) /\ MergeWithLatest(b, d, m) = m
<1> DEFINE m == MergeWithLatest(b, d, l)
           n == MergeWithLatest(b, d, m)
<1>1. Typed(m) /\ Resolved(m) /\ Valued(m)
    BY MergeFields
<1>2. Ordered(m)
    BY MergeIsOrdered DEF Shaped
<1>3. \A s \in Slots : s[1] \in DeletedGroups(b, d) => m.slots[s] = None
    BY MergeFields
<1>4. /\ \A s \in Slots : b.slots[s] # d.slots[s] => m.slots[s] = d.slots[s]
      /\ \A g \in Groups : b.groups[g] # d.groups[g] => m.groups[g] = d.groups[g]
      /\ \A c \in Conds : b.exprs[c] # d.exprs[c] => m.exprs[c] = d.exprs[c]
      /\ b.order # d.order => m.order = d.order /\ Defined(m) = Defined(d)
    BY CandidateHasChanges
<1> HIDE DEF m
<1>5. /\ Typed(n)
      /\ \A s \in Slots :
            LET item == ThreeWay(b.slots[s], d.slots[s], m.slots[s])
            IN  n.slots[s] = IF s[1] \in DeletedGroups(b, d) \/ item = None THEN None
                             ELSE StripUnknown(item, Defined(n))
      /\ \A g \in Groups : n.groups[g] = ThreeWay(b.groups[g], d.groups[g],
            IF m.groups[g] = None /\ Written(b, d, m, g) THEN EmptyDesc ELSE m.groups[g])
      /\ \A c \in Conds : n.exprs[c] = ThreeWay(b.exprs[c], d.exprs[c], m.exprs[c])
      /\ n.order = MergedOrder(b, d, m, Defined(n))
    BY <1>1, MergeFields
<1> HIDE DEF n
<1>6. ~Conflict(b, d, m)
    BY <1>4 DEF Conflict, SlotConflict, GroupConflict, ConditionConflict, Clash
<1>7. \A c \in Conds : n.exprs[c] = m.exprs[c]
    BY <1>4, <1>5 DEF ThreeWay
<1>8. Defined(n) = Defined(m)
    BY <1>7 DEF Defined
<1>9. ASSUME NEW s \in Slots PROVE n.slots[s] = m.slots[s]
    <2>1. ThreeWay(b.slots[s], d.slots[s], m.slots[s]) = m.slots[s]
        BY <1>4 DEF ThreeWay
    <2>2. n.slots[s] = IF s[1] \in DeletedGroups(b, d) \/ m.slots[s] = None THEN None
                       ELSE StripUnknown(m.slots[s], Defined(m))
        BY <1>5, <1>8, <2>1
    <2>3. m.slots[s] # None => StripUnknown(m.slots[s], Defined(m)) = m.slots[s]
        BY <1>1, StripKeeps DEF Typed, Resolved, Valued
    <2> QED
        BY <1>3, <2>2, <2>3
<1>10. ASSUME NEW g \in Groups PROVE n.groups[g] = m.groups[g]
    <2>1. ~Written(b, d, m, g)
        BY <1>4 DEF Written, Slots, Places
    <2> QED
        BY <1>4, <1>5, <2>1 DEF ThreeWay
<1>11. n.order = m.order
    <2>1. ThreeWay(b.order, d.order, m.order) = m.order
        BY <1>4 DEF ThreeWay
    <2>2. n.order = Kept(m.order, Defined(m)) \o Kept(CondSeq, Defined(m) \ Range(m.order))
        BY <1>5, <1>8, <2>1 DEF MergedOrder
    <2> QED
        BY <1>2, <2>2, OrderRestored
<1>12. n = m
    BY <1>1, <1>5, <1>7, <1>9, <1>10, <1>11, SameTemplate
<1> QED
    BY <1>6, <1>12, Zenon DEF m, n

-----------------------------------------------------------------------------
(***************************************************************************)
(* The invariant: the server's template is accepted, a draft is resolved,  *)
(* and it lacks a group of its base only if the user asked for that.       *)
(***************************************************************************)

DInv ==
    /\ Typed(latest) /\ Shaped(latest) /\ Resolved(latest) /\ SingleHomes(latest)
    /\ HasDraft => /\ Typed(draft) /\ Shaped(draft) /\ Resolved(draft) /\ Valued(draft)
                   /\ Typed(base) /\ Shaped(base)
                   /\ DeletedGroups(base, draft) \subseteq asked
    /\ ~HasDraft => base = None
    /\ asked \subseteq Groups
    /\ locals \in 0..MaxLocal
    /\ remotes \in 0..MaxRemote

LEMMA InitDInv == Init => DInv
<1> SUFFICES ASSUME Init PROVE DInv
    OBVIOUS
<1>1. latest \in RemoteConfigs /\ WellFormed(latest) /\ ValidForUpdate(latest) /\ Resolved(latest)
    BY SeedsAreAccepted DEF Init, Resolved
<1>2. Typed(latest) /\ Shaped(latest)
    BY <1>1, ShapedIsWellFormed
<1>3. SingleHomes(latest)
    BY <1>1, ValidIsSingle
<1> QED
    BY <1>1, <1>2, <1>3, BoundsAreNaturals DEF Init, DInv, HasDraft

\* A local edit keeps the invariant whatever it does, provided it keeps the shape
\* of the template and removes no group without saying so.
LEMMA SaveDraftInv ==
    ASSUME DInv, NEW mutated, NEW removed, SaveDraft(mutated, removed),
           \A m \in mutated : /\ Typed(m)
                             /\ KeepsShape(Current, m)
                             /\ (KeepsGroups(Current, m) \/ removed = Groups)
    PROVE  DInv' /\ locals' # locals /\ latest' = latest
<1>1. PICK next \in BuildMutatedRemoteConfig(Current, mutated) :
        /\ draft' = next
        /\ base' = IF HasDraft THEN base ELSE latest
        /\ asked' = asked \cup (removed \cap (Existing(Current) \ Existing(next)))
    BY DEF SaveDraft
<1>2. PICK m \in mutated :
        /\ next.groups = m.groups /\ KeepsShape(m, next)
        /\ Typed(next) /\ Resolved(next) /\ Valued(next)
    BY BuildCleans
<1>3. Typed(base') /\ Shaped(base')
    BY <1>1 DEF DInv
<1>4. Shaped(next)
    <2>1. Shaped(Current)
        BY DEF DInv, Current
    <2>2. KeepsShape(Current, m)
        OBVIOUS
    <2> QED
        BY <1>2, <2>1, <2>2 DEF KeepsShape
<1>5. DeletedGroups(base', draft') \subseteq asked'
    <2> SUFFICES ASSUME NEW g \in Groups, base'.groups[g] # None, next.groups[g] = None
                 PROVE  g \in asked'
        BY <1>1 DEF DeletedGroups
    <2>1. CASE Current.groups[g] # None
        <3>1. removed = Groups
            BY <1>2, <2>1 DEF KeepsGroups
        <3> QED
            BY <1>1, <2>1, <3>1 DEF Existing
    <2>2. CASE Current.groups[g] = None
        BY <1>1, <2>2 DEF Current, DInv, DeletedGroups
    <2> QED
        BY <2>1, <2>2
<1>6. asked' \subseteq Groups
    BY <1>1 DEF DInv, Existing
<1>7. draft' # None
    <2>1. next \in RemoteConfigs
        BY <1>2, <1>4, ShapedIsWellFormed
    <2> QED
        BY <1>1, <2>1, NoneIsNoTemplate
<1>8. locals' = locals + 1 /\ latest' = latest /\ remotes' = remotes /\ locals < MaxLocal
    BY DEF SaveDraft
<1>9. locals' \in 0..MaxLocal /\ locals' # locals
    BY <1>8, BoundsAreNaturals DEF DInv
<1> QED
    BY <1>1, <1>2, <1>3, <1>4, <1>5, <1>6, <1>7, <1>8, <1>9 DEF DInv, HasDraft

LEMMA CurrentTyped ==
    ASSUME DInv
    PROVE  Typed(Current)
BY DEF DInv, Current

\* What every step of the user's editing does.
Edited == DInv' /\ locals' # locals /\ latest' = latest

LEMMA EditParameterInv == DInv /\ EditParameter => Edited
<1> SUFFICES ASSUME DInv, EditParameter PROVE Edited
    OBVIOUS
<1>1. Typed(Current)
    BY CurrentTyped
<1>2. CASE SaveDraft(SetValue(Current), {})
    BY <1>1, <1>2, SetValueSafe, SaveDraftInv DEF Safe, Edited
<1>3. CASE SaveDraft(CreateParameter(Current), {})
    BY <1>1, <1>3, CreateParameterSafe, SaveDraftInv DEF Safe, Edited
<1>4. CASE SaveDraft(EditParameterDetails(Current), {})
    BY <1>1, <1>4, EditParameterDetailsSafe, SaveDraftInv DEF Safe, Edited
<1>5. CASE SaveDraft(DeleteConditionalValue(Current), {})
    BY <1>1, <1>5, DeleteConditionalValueSafe, SaveDraftInv DEF Safe, Edited
<1>6. CASE SaveDraft(DuplicateParameter(Current), {})
    BY <1>1, <1>6, DuplicateParameterSafe, SaveDraftInv DEF Safe, Edited
<1>7. CASE SaveDraft(RenameParameter(Current), {})
    BY <1>1, <1>7, RenameParameterSafe, SaveDraftInv DEF Safe, Edited
<1>8. CASE SaveDraft(MoveParameter(Current), {})
    BY <1>1, <1>8, MoveParameterSafe, SaveDraftInv DEF Safe, Edited
<1>9. CASE SaveDraft(DeleteParameter(Current), {})
    BY <1>1, <1>9, DeleteParameterSafe, SaveDraftInv DEF Safe, Edited
<1> QED
    BY <1>2, <1>3, <1>4, <1>5, <1>6, <1>7, <1>8, <1>9 DEF EditParameter

LEMMA EditGroupInv == DInv /\ EditGroup => Edited
<1> SUFFICES ASSUME DInv, EditGroup PROVE Edited
    OBVIOUS
<1>1. Typed(Current)
    BY CurrentTyped
<1>2. CASE SaveDraft(AddGroup(Current), {})
    BY <1>1, <1>2, AddGroupSafe, SaveDraftInv DEF Safe, Edited
<1>3. CASE SaveDraft(EditGroupMetadata(Current), {})
    BY <1>1, <1>3, EditGroupMetadataSafe, SaveDraftInv DEF Safe, Edited
<1>4. CASE SaveDraft(RenameGroup(Current), Groups)
    BY <1>1, <1>4, RenameGroupShape, SaveDraftInv DEF Edited
<1>5. CASE SaveDraft(EditGroupDetails(Current), Groups)
    BY <1>1, <1>5, EditGroupDetailsShape, SaveDraftInv DEF Edited
<1>6. CASE SaveDraft(MoveGroup(Current), Groups)
    BY <1>1, <1>6, MoveGroupShape, SaveDraftInv DEF Edited
<1>7. CASE SaveDraft(DeleteGroup(Current), Groups)
    BY <1>1, <1>7, DeleteGroupSafe, SaveDraftInv DEF Edited
<1> QED
    BY <1>2, <1>3, <1>4, <1>5, <1>6, <1>7 DEF EditGroup

LEMMA EditConditionsInv == DInv /\ EditConditions => Edited
<1> SUFFICES ASSUME DInv, EditConditions PROVE Edited
    OBVIOUS
<1>1. Typed(Current)
    BY CurrentTyped
<1>2. CASE SaveDraft(AddCondition(Current), {})
    BY <1>1, <1>2, AddConditionInPlace, InPlaceIsSafe, SaveDraftInv DEF Safe, Edited
<1>3. CASE SaveDraft(EditCondition(Current), {})
    BY <1>1, <1>3, EditConditionInPlace, InPlaceIsSafe, SaveDraftInv DEF Safe, Edited
<1>4. CASE SaveDraft(EditConditionDetails(Current), {})
    BY <1>1, <1>4, EditConditionDetailsInPlace, InPlaceIsSafe, SaveDraftInv DEF Safe, Edited
<1>5. CASE SaveDraft(RenameCondition(Current), {})
    BY <1>1, <1>5, RenameConditionInPlace, InPlaceIsSafe, SaveDraftInv DEF Safe, Edited
<1>6. CASE SaveDraft(MoveCondition(Current), {})
    BY <1>1, <1>6, MoveConditionInPlace, InPlaceIsSafe, SaveDraftInv DEF Safe, Edited
<1>7. CASE SaveDraft(DeleteCondition(Current), {})
    BY <1>1, <1>7, DeleteConditionInPlace, InPlaceIsSafe, SaveDraftInv DEF Safe, Edited
<1> QED
    BY <1>2, <1>3, <1>4, <1>5, <1>6, <1>7 DEF EditConditions

LEMMA RemoteEditsSafe ==
    ASSUME NEW cfg, Typed(cfg), NEW new \in RemoteEdits(cfg)
    PROVE  Typed(new) /\ KeepsShape(cfg, new) /\ KeepsSingle(cfg, new)
<1>1. CASE new \in SetValue(cfg) \cup CreateParameter(cfg) \cup MoveParameter(cfg) \cup DeleteParameter(cfg)
    BY <1>1, SetValueSafe, CreateParameterSafe, MoveParameterSafe, DeleteParameterSafe DEF Safe
<1>2. CASE new \in AddGroup(cfg) \cup EditGroupMetadata(cfg) \cup DeleteGroup(cfg)
    BY <1>2, AddGroupSafe, EditGroupMetadataSafe, DeleteGroupSafe DEF Safe
<1>3. CASE new \in AddCondition(cfg) \cup EditCondition(cfg) \cup MoveCondition(cfg)
                    \cup RenameCondition(cfg) \cup DeleteCondition(cfg)
    BY <1>3, AddConditionInPlace, EditConditionInPlace, MoveConditionInPlace, RenameConditionInPlace,
       DeleteConditionInPlace, InPlaceIsSafe DEF Safe
<1> QED
    BY <1>1, <1>2, <1>3 DEF RemoteEdits

LEMMA ManagedValueChangesSafe ==
    ASSUME NEW cfg, Typed(cfg), Resolved(cfg), NEW new \in ManagedValueChanges(cfg)
    PROVE  Typed(new) /\ KeepsShape(cfg, new) /\ Resolved(new) /\ KeepsSingle(cfg, new)
<1> DEFINE given(old) == {v \in PlainValues \cup OpaqueValues : v # old /\ {v, old} \cap OpaqueValues # {}}
<1>1. PICK s \in Occupied(cfg) : new \in
        {[cfg EXCEPT !.slots[s].default = v] :
            v \in {x \in given(cfg.slots[s].default) : cfg.slots[s].default # None}}
        \cup {[cfg EXCEPT !.slots[s].cond[cv[1]] = cv[2]] :
            cv \in {x \in Defined(cfg) \X Values : x[2] \in given(cfg.slots[s].cond[x[1]])}}
    BY DEF ManagedValueChanges
<1>2. s \in Slots /\ cfg.slots[s] \in ParamStates /\ cfg.slots[s] # None
    BY OccupiedSlot DEF Occupied
<1>3. PICK param \in ParamStates :
        /\ Typed(new) /\ new.groups = cfg.groups /\ SameConditions(cfg, new)
        /\ new.slots = [cfg.slots EXCEPT ![s] = param]
        /\ \A c \in Conds : param.cond[c] = cfg.slots[s].cond[c] \/ c \in Defined(cfg)
    <2>1. CASE \E v \in Values : new = [cfg EXCEPT !.slots[s].default = v]
        <3>1. PICK v \in Values : new = [cfg EXCEPT !.slots[s].default = v]
            BY <2>1
        <3> DEFINE param == [cfg.slots[s] EXCEPT !.default = v]
        <3>2. param \in ParamStates /\ param.cond = cfg.slots[s].cond
            BY <1>2 DEF ParamStates
        <3>3. /\ Typed(new) /\ new.groups = cfg.groups /\ SameConditions(cfg, new)
              /\ new.slots = [cfg.slots EXCEPT ![s] = param]
            BY <1>2, <3>1, <3>2 DEF Typed, SameConditions
        <3> QED
            BY <3>2, <3>3
    <2>2. CASE \E c \in Defined(cfg), v \in Values : new = [cfg EXCEPT !.slots[s].cond[c] = v]
        <3>1. PICK c \in Defined(cfg), v \in Values : new = [cfg EXCEPT !.slots[s].cond[c] = v]
            BY <2>2
        <3> DEFINE param == [cfg.slots[s] EXCEPT !.cond[c] = v]
        <3>2. /\ param \in ParamStates
              /\ \A e \in Conds : param.cond[e] = cfg.slots[s].cond[e] \/ e = c
            BY <1>2 DEF ParamStates, Defined
        <3>3. /\ Typed(new) /\ new.groups = cfg.groups /\ SameConditions(cfg, new)
              /\ new.slots = [cfg.slots EXCEPT ![s] = param]
            BY <1>2, <3>1, <3>2 DEF Typed, SameConditions
        <3> QED
            BY <3>2, <3>3
    <2> QED
        BY <1>1, <2>1, <2>2 DEF Values
<1>4. Resolved(new)
    BY <1>2, <1>3, SameStaysOrdered DEF Resolved, Typed
<1>5. NoNewHomes(cfg, new)
    BY <1>2, <1>3 DEF NoNewHomes, Typed
<1>6. KeepsShape(cfg, new)
    BY <1>3, <1>5, StaysHoused, SameStaysOrdered DEF KeepsShape, Shaped
<1> QED
    BY <1>3, <1>4, <1>5, <1>6, SingleKept DEF KeepsSingle

LEMMA RemotePublishInv ==
    ASSUME DInv, RemotePublish
    PROVE  DInv' /\ remotes' # remotes /\ draft' = draft
<1>1. /\ latest' \in BuildMutatedRemoteConfig(latest, RemoteEdits(latest)) \cup ManagedValueChanges(latest)
      /\ remotes < MaxRemote /\ remotes' = remotes + 1 /\ UNCHANGED <<draft, base, asked, locals>>
    BY DEF RemotePublish
<1>0. remotes' \in 0..MaxRemote /\ remotes' # remotes
    BY <1>1, BoundsAreNaturals DEF DInv
<1>2. CASE latest' \in BuildMutatedRemoteConfig(latest, RemoteEdits(latest))
    <2>1. \A m \in RemoteEdits(latest) : Typed(m) /\ Shaped(m) /\ SingleHomes(m)
        BY RemoteEditsSafe DEF DInv, KeepsSingle, KeepsShape
    <2>2. PICK m \in RemoteEdits(latest) :
            NoNewHomes(m, latest') /\ Typed(latest') /\ Resolved(latest') /\ KeepsShape(m, latest')
        BY <1>2, <2>1, BuildCleans
    <2>3. SingleHomes(latest')
        BY <2>1, <2>2, SingleKept
    <2> QED
        BY <1>0, <1>1, <2>1, <2>2, <2>3 DEF DInv, HasDraft, KeepsShape
<1>3. CASE latest' \in ManagedValueChanges(latest)
    <2>1. Typed(latest') /\ Shaped(latest') /\ Resolved(latest') /\ SingleHomes(latest')
        BY <1>3, ManagedValueChangesSafe DEF DInv, KeepsSingle, KeepsShape
    <2> QED
        BY <1>0, <1>1, <2>1 DEF DInv, HasDraft
<1> QED
    BY <1>0, <1>1, <1>2, <1>3

\* The merge of a state that satisfies the invariant.
LEMMA MergedFacts ==
    ASSUME DInv, HasDraft
    PROVE  /\ Typed(Merged) /\ Resolved(Merged) /\ Valued(Merged)
           /\ Mergeable => Shaped(Merged)
           /\ Existing(latest) \ Existing(Merged) \subseteq asked
           /\ DeletedGroups(latest, Merged) \subseteq asked
<1>1. /\ Typed(Merged) /\ Resolved(Merged) /\ Valued(Merged)
      /\ \A g \in Groups : latest.groups[g] # None /\ Merged.groups[g] = None => g \in DeletedGroups(base, draft)
    BY MergeFields, MergeLosesGroups DEF DInv, Merged
<1>2. DeletedGroups(base, draft) \subseteq asked
    BY DEF DInv
<1>3. Mergeable => Shaped(Merged)
    BY MergeIsOrdered, MergeIsHoused DEF DInv, Shaped, Mergeable, Conflict, Merged
<1> QED
    BY <1>1, <1>2, <1>3 DEF Existing, DeletedGroups

LEMMA RefreshInv == DInv /\ Refresh => DInv'
<1> SUFFICES ASSUME DInv, Refresh PROVE DInv'
    OBVIOUS
<1>1. HasDraft /\ Mergeable /\ UNCHANGED <<latest, locals, remotes>>
    BY DEF Refresh, Mergeable
<1>2. CASE HasChanges
    <2>1. draft' = Merged /\ base' = latest /\ asked' = asked
        BY <1>2 DEF Refresh
    <2>2. Merged # None
        BY <1>1, MergedFacts, ShapedIsWellFormed, NoneIsNoTemplate
    <2> QED
        BY <1>1, <2>1, <2>2, MergedFacts DEF DInv, HasDraft
<1>3. CASE ~HasChanges
    BY <1>1, <1>3 DEF Refresh, DropDraft, DInv, HasDraft
<1> QED
    BY <1>2, <1>3

\* A publication leaves the latest template or replaces it by a valid merge.
LEMMA PublishDraftInv ==
    ASSUME DInv, PublishDraft
    PROVE  /\ DInv'
           /\ latest' # latest => latest' = Merged /\ HasDraft
           /\ \/ draft' = draft
              \/ draft' = None
<1>1. HasDraft /\ Mergeable /\ UNCHANGED <<locals, remotes>>
    BY DEF PublishDraft, PreparePublish, Mergeable
<1>2. \/ draft' = draft /\ base' = base /\ asked' = asked
      \/ draft' = None /\ base' = None /\ asked' = {}
    BY DEF PublishDraft, DropDraft
<1>3. CASE HasChanges
    <2>1. ValidForUpdate(Merged) /\ latest' = Merged
        BY <1>3 DEF PublishDraft
    <2>2. Typed(latest') /\ Shaped(latest') /\ Resolved(latest') /\ SingleHomes(latest')
        BY <1>1, <2>1, MergedFacts, ValidIsSingle
    <2> QED
        BY <1>1, <1>2, <2>1, <2>2 DEF DInv, HasDraft
<1>4. CASE ~HasChanges
    BY <1>1, <1>2, <1>4 DEF PublishDraft, DInv, HasDraft
<1> QED
    BY <1>3, <1>4

LEMMA StepDInv == DInv /\ [Next]_vars => DInv'
<1> SUFFICES ASSUME DInv, [Next]_vars PROVE DInv'
    OBVIOUS
<1>1. CASE EditParameter \/ EditGroup \/ EditConditions
    BY <1>1, EditParameterInv, EditGroupInv, EditConditionsInv DEF Edited
<1>2. CASE RemotePublish
    BY <1>2, RemotePublishInv
<1>3. CASE Discard
    BY <1>3 DEF Discard, DropDraft, DInv, HasDraft
<1>4. CASE Refresh
    BY <1>4, RefreshInv
<1>5. CASE PublishDraft
    BY <1>5, PublishDraftInv
<1>6. CASE UNCHANGED vars
    BY <1>6 DEF vars, DInv, HasDraft
<1> QED
    BY <1>1, <1>2, <1>3, <1>4, <1>5, <1>6 DEF Next

\* The server's template and every draft stay typed and resolved, the server's
\* parameters have one home each, and a draft lacks a group of its base only
\* where the user asked for that.
THEOREM DraftInvariant == Spec => []DInv
BY InitDInv, StepDInv, PTL DEF Spec

-----------------------------------------------------------------------------
(***************************************************************************)
(* The properties of the runs.                                             *)
(***************************************************************************)

LEMMA InvTypeOK == DInv => TypeOK
<1> SUFFICES ASSUME DInv PROVE TypeOK
    OBVIOUS
<1>1. latest \in RemoteConfigs /\ WellFormed(latest)
    BY ShapedIsWellFormed DEF DInv
<1>2. HasDraft => /\ draft \in RemoteConfigs /\ WellFormed(draft)
                  /\ base \in RemoteConfigs /\ WellFormed(base) /\ base # None
    BY ShapedIsWellFormed, NoneIsNoTemplate DEF DInv
<1> QED
    BY <1>1, <1>2 DEF DInv, HasDraft, TypeOK

\* Every template held anywhere is typed, its groups are there where parameters
\* live, and its order lists its conditions once each.
THEOREM TemplatesAreWellFormed == Spec => []TypeOK
BY DraftInvariant, InvTypeOK, PTL

LEMMA InvNoDangling == DInv => NoDanglingCondition
<1> SUFFICES ASSUME DInv PROVE NoDanglingCondition
    OBVIOUS
<1> DEFINE resolved(cfg) == \A s \in Occupied(cfg), c \in Conds :
                cfg.slots[s].cond[c] # None => c \in Defined(cfg)
<1>1. ASSUME NEW cfg, Resolved(cfg) PROVE resolved(cfg)
    BY <1>1 DEF Resolved, Occupied
<1>2. Resolved(latest) /\ (HasDraft => Resolved(draft))
    BY DEF DInv
<1>3. Mergeable => Resolved(Merged)
    BY MergedFacts DEF Mergeable
<1>4. \A cfg \in {latest} \cup ({draft} \ {None}) : resolved(cfg)
    BY <1>1, <1>2 DEF HasDraft
<1>5. Mergeable => resolved(Merged)
    BY <1>1, <1>3
<1> QED
    BY <1>4, <1>5 DEF NoDanglingCondition

\* No conditional value of the server's template, of a draft or of a merge
\* refers to a condition that template does not define.
THEOREM ReferencesResolve == Spec => []NoDanglingCondition
BY DraftInvariant, InvNoDangling, PTL

LEMMA InvOneHome == DInv => OneHomePerParameter
<1> SUFFICES ASSUME DInv PROVE OneHomePerParameter
    OBVIOUS
<1>1. ServerOneHome
    BY ValidIsSingle DEF DInv, ServerOneHome
<1>2. TwoHomesOnlyByBothSides
    <2> SUFFICES ASSUME Mergeable, SingleHomes(draft), NEW p \in Params, Cardinality(Homes(Merged, p)) > 1
                 PROVE  \E x, y \in Places :
                            /\ x # y
                            /\ InSlot(base, x, p) # InSlot(draft, x, p)
                            /\ InSlot(base, y, p) # InSlot(latest, y, p)
        BY ValidIsSingle DEF TwoHomesOnlyByBothSides
    <2>1. Typed(base) /\ Typed(draft) /\ Typed(latest) /\ SingleHomes(latest)
        BY DEF DInv, Mergeable
    <2>2. PICK x \in Places, y \in Places :
            x # y /\ Merged.slots[<<x, p>>] # None /\ Merged.slots[<<y, p>>] # None
        <3>1. IsFiniteSet(Places)
            BY GroupsAreFinite, FS_AddElement DEF Places
        <3>2. IsFiniteSet(Homes(Merged, p))
            BY <3>1, FS_Subset DEF Homes
        <3>3. Cardinality(Homes(Merged, p)) \in Nat
            BY <3>2, FS_CardinalityType
        <3>4. Homes(Merged, p) # {}
            BY FS_EmptySet, <3>2
        <3>5. ~ \E z : Homes(Merged, p) = {z}
            BY FS_Singleton, <3>2
        <3>6. PICK u \in Homes(Merged, p) : TRUE
            BY <3>4
        <3>7. PICK v \in Homes(Merged, p) : u # v
            BY <3>5
        <3> QED
            BY <3>6, <3>7 DEF Homes, InSlot
    <2>3. <<x, p>> \in Slots /\ <<y, p>> \in Slots
        BY DEF Slots
    <2>4. /\ ThreeWay(base.slots[<<x, p>>], draft.slots[<<x, p>>], latest.slots[<<x, p>>]) # None
          /\ ThreeWay(base.slots[<<y, p>>], draft.slots[<<y, p>>], latest.slots[<<y, p>>]) # None
        BY <2>1, <2>2, <2>3, MergeFillsItems DEF Merged
    <2>5. ~(draft.slots[<<x, p>>] # None /\ draft.slots[<<y, p>>] # None)
        BY <2>2 DEF SingleHomes
    <2>6. ~(latest.slots[<<x, p>>] # None /\ latest.slots[<<y, p>>] # None)
        BY <2>1, <2>2 DEF SingleHomes
    <2> QED
        BY <2>2, <2>4, <2>5, <2>6 DEF ThreeWay, InSlot
<1> QED
    BY <1>1, <1>2 DEF OneHomePerParameter

\* Every parameter has one home on the server, and a merge gives one a second
\* home only if both sides gave it a new one.
THEOREM HomesAreSingle == Spec => []OneHomePerParameter
BY DraftInvariant, InvOneHome, PTL

LEMMA InvItemwise == DInv => MergeIsItemwise
<1> SUFFICES ASSUME DInv, Mergeable, NEW s \in Slots
             PROVE  LET item == ThreeWay(base.slots[s], draft.slots[s], latest.slots[s])
                        groupDeleted == /\ s[1] # Root
                                        /\ base.groups[s[1]] # None
                                        /\ draft.groups[s[1]] = None
                    IN  Merged.slots[s] =
                            IF groupDeleted \/ item = None THEN None
                            ELSE StripUnknown(item, Defined(Merged))
    BY DEF MergeIsItemwise
<1>1. s[1] \in DeletedGroups(base, draft)
        <=> s[1] # Root /\ base.groups[s[1]] # None /\ draft.groups[s[1]] = None
    BY RootIsNoGroup DEF DeletedGroups, Slots, Places
<1> QED
    BY <1>1, MergeFields DEF DInv, Mergeable, Merged

LEMMA InvFastForward == DInv => FastForward
<1> SUFFICES ASSUME DInv, HasDraft
             PROVE  ~Conflict(base, draft, base) /\ MergeWithLatest(base, draft, base) = draft
    BY DEF FastForward
<1>1. ~Conflict(base, draft, base)
    BY DEF Conflict, SlotConflict, GroupConflict, ConditionConflict, Clash
<1>2. MergeWithLatest(base, draft, base) = draft
    BY MergeWithBase DEF DInv
<1> QED
    BY <1>1, <1>2

\* A merge keeps the changes of both sides item by item, and where nobody else
\* edited the template it is the draft the user saw.
THEOREM NothingIsLostInMerges == Spec => []MergeKeepsBothSides
<1>1. DInv => MergeKeepsBothSides
    BY InvFastForward, InvItemwise DEF MergeKeepsBothSides
<1> QED
    BY <1>1, DraftInvariant, PTL

LEMMA InvOrder == DInv => OrderIsSomeones
<1> SUFFICES ASSUME DInv, Mergeable
             PROVE  LET chosen == IF base.order # draft.order THEN draft.order ELSE latest.order
                        both == Range(chosen) \cap Defined(Merged)
                    IN  /\ Kept(Merged.order, both) = Kept(chosen, both)
                        /\ WellFormed(Merged)
    BY DEF OrderIsSomeones
<1>1. /\ Typed(base) /\ Typed(draft) /\ Typed(latest) /\ Ordered(draft) /\ Ordered(latest)
      /\ HasDraft
    BY DEF DInv, Mergeable, Shaped
<1>2. WellFormed(Merged)
    BY <1>1, MergedFacts, ShapedIsWellFormed
<1>3. LET chosen == ThreeWay(base.order, draft.order, latest.order)
          both == Range(chosen) \cap Defined(Merged)
      IN  Kept(Merged.order, both) = Kept(chosen, both)
    BY <1>1, MergeKeepsOrder DEF Merged
<1> QED
    BY <1>2, <1>3 DEF ThreeWay

\* The evaluation order of the conditions of a merge is one side's order.
THEOREM OrderIsNeverSorted == Spec => []OrderIsSomeones
BY DraftInvariant, InvOrder, PTL

LEMMA InvRetry == DInv => RetryIsIdempotent
<1> SUFFICES ASSUME DInv, Mergeable, ValuesResolved(draft, Defined(Merged))
             PROVE  RetryRecognised(Merged)
    BY DEF RetryIsIdempotent
<1>1. /\ Typed(base) /\ Typed(draft) /\ Typed(latest) /\ Valued(draft)
      /\ Shaped(base) /\ Shaped(draft) /\ Shaped(latest) /\ ~Conflict(base, draft, latest)
    BY DEF DInv, Mergeable
<1>2. \A s \in Slots : draft.slots[s] # None =>
        \A c \in Conds : draft.slots[s].cond[c] # None => c \in Defined(MergeWithLatest(base, draft, latest))
    BY DEF ValuesResolved, Occupied, Merged
<1> QED
    BY <1>1, <1>2, MergeWithCandidate DEF RetryRecognised, Merged

\* A publication repeated after its candidate was accepted finds no conflict and
\* nothing to publish, unless the draft gives a value to a condition that is gone.
THEOREM RetriesFindNothing == Spec => []RetryIsIdempotent
BY DraftInvariant, InvRetry, PTL

LEMMA StepGroups ==
    DInv /\ [Next]_vars =>
        [ /\ (latest' # latest /\ remotes' = remotes)
                => Existing(latest) \ Existing(latest') \subseteq asked
          /\ (HasDraft /\ draft' # None /\ locals' = locals)
                => (Existing(draft) \cap Existing(latest)) \ Existing(draft') \subseteq asked ]_vars
<1> SUFFICES ASSUME DInv, [Next]_vars
             PROVE  /\ (latest' # latest /\ remotes' = remotes)
                        => Existing(latest) \ Existing(latest') \subseteq asked
                    /\ (HasDraft /\ draft' # None /\ locals' = locals)
                        => (Existing(draft) \cap Existing(latest)) \ Existing(draft') \subseteq asked
    OBVIOUS
<1>1. CASE EditParameter \/ EditGroup \/ EditConditions
    BY <1>1, EditParameterInv, EditGroupInv, EditConditionsInv DEF Edited
<1>2. CASE RemotePublish
    BY <1>2, RemotePublishInv
<1>3. CASE Discard
    BY <1>3 DEF Discard, DropDraft
<1>4. CASE Refresh
    <2>1. HasDraft /\ latest' = latest /\ (draft' = Merged \/ draft' = None)
        BY <1>4 DEF Refresh, Mergeable, DropDraft
    <2> QED
        BY <2>1, MergedFacts
<1>5. CASE PublishDraft
    BY <1>5, PublishDraftInv, MergedFacts
<1>6. CASE UNCHANGED vars
    BY <1>6 DEF vars
<1> QED
    BY <1>1, <1>2, <1>3, <1>4, <1>5, <1>6 DEF Next

\* A publication or a refresh removes only groups the user asked to remove.
THEOREM GroupsAreKept == Spec => GroupsGoByRequest
BY DraftInvariant, StepGroups, PTL DEF Spec, GroupsGoByRequest

-----------------------------------------------------------------------------
(***************************************************************************)
(* Managed values.  A draft holds no managed value its base does not hold: *)
(* an edit leaves them as they are, and a refresh takes the latest ones.   *)
(* Of the three templates of a merge only the latest can thus bring one in.*)
(***************************************************************************)

\* The entry m of OpaqueIn is about a value of the parameter.
ManagedIn(m, param) ==
    \/ param.default \in OpaqueValues /\ m = <<m[1], None, param.default>>
    \/ \E c \in Conds : param.cond[c] \in OpaqueValues /\ m = <<m[1], c, param.cond[c]>>

LEMMA OpaqueBySlot ==
    ASSUME NEW cfg, NEW m
    PROVE  m \in OpaqueIn(cfg)
               <=> m[1] \in Slots /\ cfg.slots[m[1]] # None /\ ManagedIn(m, cfg.slots[m[1]])
<1> DEFINE opaqueDefault == {s \in Slots : cfg.slots[s] # None /\ cfg.slots[s].default \in OpaqueValues}
           opaqueCond == {sc \in Slots \X Conds : /\ cfg.slots[sc[1]] # None
                                                 /\ cfg.slots[sc[1]].cond[sc[2]] \in OpaqueValues}
<1>1. m \in OpaqueIn(cfg) <=> \/ \E s \in opaqueDefault : m = <<s, None, cfg.slots[s].default>>
                              \/ \E sc \in opaqueCond : m = <<sc[1], sc[2], cfg.slots[sc[1]].cond[sc[2]]>>
    BY DEF OpaqueIn
<1>2. ASSUME m \in OpaqueIn(cfg)
      PROVE  m[1] \in Slots /\ cfg.slots[m[1]] # None /\ ManagedIn(m, cfg.slots[m[1]])
    <2>1. CASE \E s \in opaqueDefault : m = <<s, None, cfg.slots[s].default>>
        BY <2>1 DEF ManagedIn
    <2>2. CASE \E sc \in opaqueCond : m = <<sc[1], sc[2], cfg.slots[sc[1]].cond[sc[2]]>>
        BY <2>2 DEF ManagedIn
    <2> QED
        BY <1>1, <1>2, <2>1, <2>2
<1>3. ASSUME m[1] \in Slots, cfg.slots[m[1]] # None, ManagedIn(m, cfg.slots[m[1]])
      PROVE  m \in OpaqueIn(cfg)
    <2>1. CASE /\ cfg.slots[m[1]].default \in OpaqueValues
               /\ m = <<m[1], None, cfg.slots[m[1]].default>>
        BY <1>1, <1>3, <2>1
    <2>2. ASSUME NEW c \in Conds, cfg.slots[m[1]].cond[c] \in OpaqueValues,
                 m = <<m[1], c, cfg.slots[m[1]].cond[c]>>
          PROVE  m \in OpaqueIn(cfg)
        <3>1. <<m[1], c>> \in opaqueCond
            BY <1>3, <2>2
        <3> QED
            BY <1>1, <2>2, <3>1
    <2> QED
        BY <1>3, <2>1, <2>2 DEF ManagedIn
<1> QED
    BY <1>2, <1>3

\* Stripping a parameter changes no managed value; it drops those of unknown conditions.
LEMMA StripManaged ==
    ASSUME NEW param \in ParamStates, NEW known, NEW m
    PROVE  LET kept == StripUnknown(param, known)
           IN  /\ kept # None /\ ManagedIn(m, kept) => ManagedIn(m, param)
               /\ ManagedIn(m, param) => \/ kept # None /\ ManagedIn(m, kept)
                                         \/ m[2] \in Conds \ known
<1> DEFINE k == [param EXCEPT !.cond = [c \in Conds |-> IF c \in known THEN @[c] ELSE None]]
<1>1. /\ k.default = param.default
      /\ \A c \in Conds : k.cond[c] = IF c \in known THEN param.cond[c] ELSE None
    BY DEF ParamStates
<1>2. StripUnknown(param, known) = IF HasValues(k) THEN k ELSE None
    BY DEF StripUnknown
<1>3. k # None
    <2>1. k \in ParamStates
        BY DEF ParamStates
    <2> QED
        BY <2>1, NoneIsNoEntry
<1> HIDE DEF k
<1>4. None \notin OpaqueValues
    BY NoneIsNoData
<1>5. ManagedIn(m, k) => ManagedIn(m, param)
    BY <1>1, <1>4 DEF ManagedIn
<1>6. ManagedIn(m, k) => HasValues(k)
    BY <1>4 DEF ManagedIn, HasValues
<1>7. ManagedIn(m, param) => ManagedIn(m, k) \/ m[2] \in Conds \ known
    BY <1>1 DEF ManagedIn
<1> QED
    BY <1>2, <1>3, <1>5, <1>6, <1>7

\* A managed value of a condition belongs to a condition the template defines.
LEMMA ManagedResolved ==
    ASSUME NEW cfg, Typed(cfg), Resolved(cfg), NEW v, v[1] \in Slots, cfg.slots[v[1]] # None,
           ManagedIn(v, cfg.slots[v[1]]), v[2] \in Conds
    PROVE  v[2] \in Defined(cfg)
<1>1. PICK c \in Conds : cfg.slots[v[1]].cond[c] \in OpaqueValues /\ v = <<v[1], c, cfg.slots[v[1]].cond[c]>>
    BY NoneIsNoEntry DEF ManagedIn
<1> QED
    BY <1>1, NoneIsNoData DEF Resolved

\* What a merge does to managed values when the draft holds none of its own.
LEMMA MergeManaged ==
    ASSUME NEW b, NEW d, NEW l, Typed(b), Typed(d), Typed(l),
           Resolved(d), Resolved(l), Housed(d), ~SlotConflict(b, d, l),
           OpaqueIn(d) \subseteq OpaqueIn(b)
    PROVE  LET m == MergeWithLatest(b, d, l)
           IN  /\ OpaqueIn(m) \subseteq OpaqueIn(l)
               /\ \A v \in OpaqueIn(l) \ OpaqueIn(m) :
                     \/ v \in OpaqueIn(b) \ OpaqueIn(d)
                     \/ v[1][1] \in Existing(b) \ Existing(d)
                     \/ v[2] \in Defined(b) \ Defined(d)
<1> DEFINE m == MergeWithLatest(b, d, l)
           item(s) == ThreeWay(b.slots[s], d.slots[s], l.slots[s])
<1>1. /\ \A s \in Slots : m.slots[s] = IF s[1] \in DeletedGroups(b, d) \/ item(s) = None THEN None
                                        ELSE StripUnknown(item(s), Defined(m))
      /\ \A c \in Conds : m.exprs[c] = ThreeWay(b.exprs[c], d.exprs[c], l.exprs[c])
    BY MergeFields
<1> HIDE DEF m
<1>2. ASSUME NEW s \in Slots
      PROVE  /\ item(s) \in ParamStates \cup {None}
             /\ item(s) = l.slots[s] \/ (item(s) = d.slots[s] /\ l.slots[s] = b.slots[s])
    BY DEF Typed, ThreeWay, SlotConflict, Clash
<1>3. ASSUME NEW v \in OpaqueIn(m) PROVE v \in OpaqueIn(l)
    <2>1. v[1] \in Slots /\ m.slots[v[1]] # None /\ ManagedIn(v, m.slots[v[1]])
        BY <1>3, OpaqueBySlot
    <2>2. item(v[1]) # None /\ m.slots[v[1]] = StripUnknown(item(v[1]), Defined(m))
        BY <1>1, <2>1
    <2>3. ManagedIn(v, item(v[1]))
        BY <1>2, <2>1, <2>2, StripManaged
    <2>4. CASE item(v[1]) = l.slots[v[1]]
        BY <2>1, <2>2, <2>3, <2>4, OpaqueBySlot
    <2>5. CASE item(v[1]) = d.slots[v[1]] /\ l.slots[v[1]] = b.slots[v[1]]
        <3>1. v \in OpaqueIn(b)
            BY <2>1, <2>2, <2>3, <2>5, OpaqueBySlot
        <3> QED
            BY <2>5, <3>1, OpaqueBySlot
    <2> QED
        BY <1>2, <2>1, <2>4, <2>5
<1>4. ASSUME NEW v \in OpaqueIn(l), v \notin OpaqueIn(m),
             ~(v \in OpaqueIn(b) \ OpaqueIn(d)), v[1][1] \notin Existing(b) \ Existing(d)
      PROVE  v[2] \in Defined(b) \ Defined(d)
    <2>1. v[1] \in Slots /\ l.slots[v[1]] # None /\ ManagedIn(v, l.slots[v[1]])
        BY <1>4, OpaqueBySlot
    <2>2. item(v[1]) # None /\ ManagedIn(v, item(v[1]))
        <3>1. CASE item(v[1]) = l.slots[v[1]]
            BY <2>1, <3>1
        <3>2. CASE item(v[1]) = d.slots[v[1]] /\ l.slots[v[1]] = b.slots[v[1]]
            <4>1. v \in OpaqueIn(b)
                BY <2>1, <3>2, OpaqueBySlot
            <4>2. v \in OpaqueIn(d)
                BY <1>4, <4>1
            <4> QED
                BY <3>2, <4>2, OpaqueBySlot
        <3> QED
            BY <1>2, <2>1, <3>1, <3>2
    <2>3. v[1][1] \notin DeletedGroups(b, d)
        BY <1>4 DEF DeletedGroups, Existing
    <2>4. m.slots[v[1]] = StripUnknown(item(v[1]), Defined(m))
        BY <1>1, <2>1, <2>2, <2>3
    <2>5. v[2] \in Conds \ Defined(m)
        <3>1. ~(m.slots[v[1]] # None /\ ManagedIn(v, m.slots[v[1]]))
            BY <1>4, <2>1, OpaqueBySlot
        <3> QED
            BY <1>2, <2>1, <2>2, <2>4, <3>1, StripManaged
    <2>6. v[2] \in Defined(l)
        BY <2>1, <2>5, ManagedResolved
    <2> QED
        BY <1>1, <2>5, <2>6 DEF Defined, ThreeWay
<1> QED
    BY <1>3, <1>4 DEF m

ManagedInv == HasDraft => OpaqueIn(draft) \subseteq OpaqueIn(base)

LEMMA InvManaged == DInv /\ ManagedInv => ManagedValuesFollowLatest
BY MergeManaged DEF DInv, ManagedInv, Mergeable, Conflict, Shaped, ManagedValuesFollowLatest, Merged

LEMMA SaveDraftManaged ==
    ASSUME ManagedInv, NEW mutated, NEW removed, SaveDraft(mutated, removed)
    PROVE  ManagedInv'
<1>1. PICK next \in BuildMutatedRemoteConfig(Current, mutated) :
        draft' = next /\ base' = IF HasDraft THEN base ELSE latest
    BY DEF SaveDraft
<1>2. OpaqueIn(next) = OpaqueIn(Current)
    BY DEF BuildMutatedRemoteConfig, EnsureOpaqueValuesUnchanged
<1>3. OpaqueIn(Current) \subseteq OpaqueIn(base')
    BY <1>1 DEF ManagedInv, Current
<1>4. OpaqueIn(draft') \subseteq OpaqueIn(base')
    BY <1>1, <1>2, <1>3
<1> QED
    BY <1>4 DEF ManagedInv, OpaqueIn

LEMMA StepManagedInv == DInv /\ ManagedInv /\ [Next]_vars => ManagedInv'
<1> SUFFICES ASSUME DInv, ManagedInv, [Next]_vars PROVE ManagedInv'
    OBVIOUS
<1>1. CASE EditParameter \/ EditGroup \/ EditConditions
    BY <1>1, SaveDraftManaged DEF EditParameter, EditGroup, EditConditions
<1>2. CASE RemotePublish \/ UNCHANGED vars
    BY <1>2 DEF RemotePublish, vars, ManagedInv, HasDraft
<1>3. CASE Discard
    BY <1>3 DEF Discard, DropDraft, ManagedInv, HasDraft
<1>4. CASE Refresh
    <2>1. CASE draft' = Merged /\ base' = latest
        <3>1. OpaqueIn(Merged) \subseteq OpaqueIn(latest)
            BY <1>4, InvManaged DEF Refresh, ManagedValuesFollowLatest
        <3> QED
            BY <2>1, <3>1 DEF ManagedInv
    <2>2. CASE draft' = None
        BY <2>2 DEF ManagedInv, HasDraft
    <2> QED
        BY <1>4, <2>1, <2>2 DEF Refresh, DropDraft
<1>5. CASE PublishDraft
    BY <1>5 DEF PublishDraft, DropDraft, ManagedInv, HasDraft
<1> QED
    BY <1>1, <1>2, <1>3, <1>4, <1>5 DEF Next

\* A merge brings back, adds and moves no managed value, and one it loses goes with
\* what the draft removed or was lost by an earlier refresh.
THEOREM ManagedValuesAreTheLatest == Spec => []ManagedValuesFollowLatest
<1>1. Init => ManagedInv
    BY DEF Init, ManagedInv, HasDraft
<1>2. Spec => []ManagedInv
    BY <1>1, DraftInvariant, StepManagedInv, PTL DEF Spec
<1> QED
    BY <1>2, DraftInvariant, InvManaged, PTL
=============================================================================
