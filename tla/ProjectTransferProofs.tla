------------------------ MODULE ProjectTransferProofs ------------------------
(***************************************************************************)
(* The diff of two templates is empty exactly when they are the same, and  *)
(* its preview can be read back; what an operation gets accepted is what   *)
(* it makes of the template it replaces, and what its review showed; every *)
(* template held is well-formed; a promotion is its selection and nothing  *)
(* else, in the source's order; an import resolves each item as chosen;    *)
(* and doing either again changes nothing.                                 *)
(***************************************************************************)
EXTENDS ProjectTransfer, FiniteSetTheorems, SequenceTheorems, WellFoundedInduction, TLAPS

-----------------------------------------------------------------------------
(***************************************************************************)
(* Kept, which filters an order of conditions: the table it computes is    *)
(* there and unique, by induction on its bound; what follows of Kept is by *)
(* induction over sequences.                                               *)
(***************************************************************************)

LEMMA LeastNumber ==
    ASSUME NEW T \in SUBSET Nat, T # {}
    PROVE  \E x \in T : \A y \in T : ~(y < x)
<1> DEFINE R == OpToRel(<, Nat)
<1>1. IsWellFoundedOn(R, Nat)
    BY NatLessThanWellFounded
<1> HIDE DEF R
<1>2. \E x \in T : \A y \in T : ~ (<<y, x>> \in R)
    BY <1>1, WFMin, Zenon
<1>3. R = {ss \in Nat \X Nat : ss[1] < ss[2]}
    BY DEF R, OpToRel
<1> QED
    BY <1>2, <1>3

LEMMA CountUp ==
    ASSUME NEW S, 0 \in S, \A n \in Nat : n \in S => n + 1 \in S
    PROVE  \A n \in Nat : n \in S
<1> DEFINE T == Nat \ S
<1> SUFFICES ASSUME T # {} PROVE FALSE
    OBVIOUS
<1>1. PICK x \in T : \A y \in T : ~(y < x)
    BY LeastNumber
<1>2. x # 0 /\ x - 1 \in Nat
    OBVIOUS
<1>3. x - 1 \in S
    BY <1>1, <1>2
<1>4. (x - 1) + 1 \in S
    BY <1>2, <1>3
<1> QED
    BY <1>4

\* f is the table Kept computes, up to n.
Filters(f, s, K, n) ==
    f = [i \in 0..n |-> IF i = 0 THEN <<>>
                        ELSE IF s[i] \in K THEN Append(f[i - 1], s[i]) ELSE f[i - 1]]

LEMMA FilterStep ==
    ASSUME NEW f, NEW s, NEW K, NEW n \in Nat, Filters(f, s, K, n)
    PROVE  /\ f[0] = <<>>
           /\ \A i \in 1..n : f[i] = IF s[i] \in K THEN Append(f[i - 1], s[i]) ELSE f[i - 1]
<1>1. \A i \in 0..n : f[i] = IF i = 0 THEN <<>>
                             ELSE IF s[i] \in K THEN Append(f[i - 1], s[i]) ELSE f[i - 1]
    BY DEF Filters
<1> QED
    BY <1>1

LEMMA FilterExists ==
    ASSUME NEW s, NEW K
    PROVE  \A n \in Nat : \E f : Filters(f, s, K, n)
<1> DEFINE S == {n \in Nat : \E f : Filters(f, s, K, n)}
<1>1. 0 \in S
    <2> DEFINE f == [i \in 0..0 |-> <<>>]
    <2>1. Filters(f, s, K, 0)
        BY DEF Filters
    <2> QED
        BY <2>1
<1>2. ASSUME NEW n \in Nat, n \in S PROVE n + 1 \in S
    <2>1. PICK f : Filters(f, s, K, n)
        BY <1>2
    <2> DEFINE last == IF s[n + 1] \in K THEN Append(f[n], s[n + 1]) ELSE f[n]
               g == [i \in 0..(n + 1) |-> IF i <= n THEN f[i] ELSE last]
    <2>2. ASSUME NEW i \in 0..(n + 1)
          PROVE  g[i] = IF i = 0 THEN <<>> ELSE IF s[i] \in K THEN Append(g[i - 1], s[i]) ELSE g[i - 1]
        <3>1. CASE i = 0
            <4>1. f[0] = <<>>
                BY <2>1 DEF Filters
            <4> QED BY <3>1, <4>1
        <3>2. CASE i \in 1..n
            <4>1. f[i] = IF s[i] \in K THEN Append(f[i - 1], s[i]) ELSE f[i - 1]
                BY <2>1, <3>2, FilterStep
            <4>2. g[i] = f[i] /\ g[i - 1] = f[i - 1] /\ i # 0
                BY <3>2
            <4> QED BY <4>1, <4>2
        <3>3. CASE i = n + 1
            <4>1. g[i] = last /\ g[i - 1] = f[n] /\ i # 0
                BY <3>3
            <4> QED BY <3>3, <4>1
        <3> QED BY <3>1, <3>2, <3>3
    <2>3. g = [i \in 0..(n + 1) |-> g[i]]
        OBVIOUS
    <2> HIDE DEF g
    <2>4. Filters(g, s, K, n + 1)
        BY <2>2, <2>3 DEF Filters
    <2> QED
        BY <2>4
<1> HIDE DEF S
<1>3. \A n \in Nat : n \in S
    BY <1>1, <1>2, CountUp
<1> QED
    BY <1>3 DEF S

LEMMA FilterAgrees ==
    ASSUME NEW f, NEW g, NEW s, NEW t, NEW K, NEW n \in Nat, NEW m \in Nat, n <= m,
           Filters(f, s, K, n), Filters(g, t, K, m), \A i \in 1..n : s[i] = t[i]
    PROVE  f[n] = g[n]
<1> DEFINE S == {k \in Nat : k <= n => f[k] = g[k]}
<1>1. 0 \in S
    BY FilterStep
<1>2. ASSUME NEW k \in Nat, k \in S PROVE k + 1 \in S
    <2> SUFFICES ASSUME k + 1 <= n PROVE f[k + 1] = g[k + 1]
        OBVIOUS
    <2>1. f[k] = g[k] /\ k + 1 \in 1..n /\ k + 1 \in 1..m /\ (k + 1) - 1 = k
        BY <1>2
    <2>2. f[k + 1] = IF s[k + 1] \in K THEN Append(f[k], s[k + 1]) ELSE f[k]
        BY <2>1, FilterStep
    <2>3. g[k + 1] = IF t[k + 1] \in K THEN Append(g[k], t[k + 1]) ELSE g[k]
        BY <2>1, FilterStep
    <2> QED
        BY <2>1, <2>2, <2>3
<1> HIDE DEF S
<1>3. n \in S
    BY <1>1, <1>2, CountUp
<1> QED
    BY <1>3 DEF S

LEMMA KeptIsTable ==
    ASSUME NEW s, NEW K, Len(s) \in Nat
    PROVE  \E f : Filters(f, s, K, Len(s)) /\ Kept(s, K) = f[Len(s)]
<1> DEFINE f == CHOOSE f : Filters(f, s, K, Len(s))
<1>1. Kept(s, K) = f[Len(s)]
    BY Zenon DEF Kept, Filters
<1>2. \E h : Filters(h, s, K, Len(s))
    BY FilterExists
<1>3. Filters(f, s, K, Len(s))
    BY <1>2, Zenon
<1> QED
    BY <1>1, <1>3

LEMMA KeptEmpty == \A K : Kept(<<>>, K) = <<>>
<1> SUFFICES ASSUME NEW K PROVE Kept(<<>>, K) = <<>>
    OBVIOUS
<1>1. Len(<<>>) = 0 /\ 0 \in Nat
    OBVIOUS
<1>2. PICK f : Filters(f, <<>>, K, 0) /\ Kept(<<>>, K) = f[0]
    BY <1>1, KeptIsTable
<1> QED
    BY <1>1, <1>2, FilterStep

LEMMA KeptAppend ==
    ASSUME NEW A, NEW s \in Seq(A), NEW e \in A, NEW K
    PROVE  Kept(Append(s, e), K) = IF e \in K THEN Append(Kept(s, K), e) ELSE Kept(s, K)
<1> DEFINE t == Append(s, e)
           n == Len(s)
<1>1. /\ n \in Nat /\ Len(t) = n + 1 /\ t[n + 1] = e
      /\ \A i \in 1..n : s[i] = t[i]
    BY AppendProperties, LenProperties
<1> HIDE DEF t, n
<1>2. PICK f : Filters(f, s, K, n) /\ Kept(s, K) = f[n]
    BY <1>1, KeptIsTable DEF n
<1>3. PICK g : Filters(g, t, K, n + 1) /\ Kept(t, K) = g[n + 1]
    BY <1>1, KeptIsTable
<1>4. f[n] = g[n]
    <2>1. n + 1 \in Nat /\ n <= n + 1
        BY <1>1
    <2> QED
        BY <1>1, <1>2, <1>3, <2>1, FilterAgrees
<1>5. g[n + 1] = IF t[n + 1] \in K THEN Append(g[n], t[n + 1]) ELSE g[n]
    BY <1>1, <1>3, FilterStep
<1> QED
    BY <1>1, <1>2, <1>3, <1>4, <1>5 DEF t

\* Induction over sequences that grow at their end.
LEMMA GrowSequence ==
    ASSUME NEW A, NEW S, <<>> \in S, \A s \in Seq(A), e \in A : s \in S => Append(s, e) \in S
    PROVE  \A s \in Seq(A) : s \in S
<1> DEFINE T == {n \in Nat : \A s \in Seq(A) : Len(s) = n => s \in S}
<1>1. 0 \in T
    BY EmptySeq
<1>2. ASSUME NEW n \in Nat, n \in T PROVE n + 1 \in T
    <2> SUFFICES ASSUME NEW s \in Seq(A), Len(s) = n + 1 PROVE s \in S
        OBVIOUS
    <2>1. s # <<>>
        BY EmptySeq
    <2>2. PICK t \in Seq(A), e \in A : s = Append(t, e)
        BY <2>1, SequenceEmptyOrAppend
    <2>3. Len(t) = n
        BY <2>2, AppendProperties, LenProperties
    <2> QED
        BY <1>2, <2>2, <2>3
<1> HIDE DEF T
<1>3. \A n \in Nat : n \in T
    BY <1>1, <1>2, CountUp
<1> QED
    BY <1>3, LenProperties DEF T

LEMMA RangeOfAppend ==
    ASSUME NEW A, NEW s \in Seq(A), NEW e \in A
    PROVE  Range(Append(s, e)) = Range(s) \cup {e}
<1> DEFINE t == Append(s, e)
           n == Len(s)
<1>1. /\ n \in Nat /\ Len(t) = n + 1 /\ t[n + 1] = e /\ \A i \in 1..n : s[i] = t[i]
      /\ DOMAIN s = 1..n /\ DOMAIN t = 1..(n + 1)
    BY AppendProperties, LenProperties
<1> HIDE DEF t, n
<1>2. 1..(n + 1) = 1..n \cup {n + 1}
    BY <1>1
<1>3. Range(t) = Range(s) \cup {e}
    BY <1>1, <1>2 DEF Range
<1> QED
    BY <1>3 DEF t

LEMMA RangeOfEmpty == Range(<<>>) = {}
BY DEF Range

LEMMA KeptType ==
    ASSUME NEW A, NEW s \in Seq(A), NEW K
    PROVE  Kept(s, K) \in Seq(A) /\ Range(Kept(s, K)) = Range(s) \cap K
<1> DEFINE S == {t \in Seq(A) : Kept(t, K) \in Seq(A) /\ Range(Kept(t, K)) = Range(t) \cap K}
<1>1. <<>> \in S
    BY KeptEmpty, RangeOfEmpty, EmptySeq
<1>2. ASSUME NEW t \in Seq(A), NEW e \in A, t \in S PROVE Append(t, e) \in S
    <2>1. Append(t, e) \in Seq(A) /\ Range(Append(t, e)) = Range(t) \cup {e}
        BY RangeOfAppend, AppendProperties
    <2>2. Kept(Append(t, e), K) = IF e \in K THEN Append(Kept(t, K), e) ELSE Kept(t, K)
        BY KeptAppend
    <2>3. Kept(t, K) \in Seq(A) /\ Range(Kept(t, K)) = Range(t) \cap K
        BY <1>2
    <2>4. Append(Kept(t, K), e) \in Seq(A) /\ Range(Append(Kept(t, K), e)) = Range(Kept(t, K)) \cup {e}
        BY <2>3, RangeOfAppend, AppendProperties
    <2>5. CASE e \in K
        BY <2>1, <2>2, <2>3, <2>4, <2>5
    <2>6. CASE e \notin K
        BY <2>1, <2>2, <2>3, <2>6
    <2> QED
        BY <2>5, <2>6
<1> HIDE DEF S
<1>3. s \in S
    BY <1>1, <1>2, GrowSequence
<1> QED
    BY <1>3 DEF S

LEMMA InjectiveAppend ==
    ASSUME NEW A, NEW s \in Seq(A), NEW e \in A
    PROVE  IsInjective(Append(s, e)) <=> IsInjective(s) /\ e \notin Range(s)
<1> DEFINE t == Append(s, e)
           n == Len(s)
<1>1. /\ n \in Nat /\ Len(t) = n + 1 /\ t[n + 1] = e /\ \A i \in 1..n : s[i] = t[i]
      /\ DOMAIN s = 1..n /\ DOMAIN t = 1..(n + 1)
    BY AppendProperties, LenProperties
<1> HIDE DEF t, n
<1>2. 1..(n + 1) = 1..n \cup {n + 1} /\ n + 1 \notin 1..n
    BY <1>1
<1>3. ASSUME IsInjective(t) PROVE IsInjective(s) /\ e \notin Range(s)
    BY <1>1, <1>2, <1>3 DEF IsInjective, Range
<1>4. ASSUME IsInjective(s), e \notin Range(s) PROVE IsInjective(t)
    BY <1>1, <1>2, <1>4 DEF IsInjective, Range
<1> QED
    BY <1>3, <1>4 DEF t

LEMMA KeptInjective ==
    ASSUME NEW A, NEW s \in Seq(A), IsInjective(s), NEW K
    PROVE  IsInjective(Kept(s, K))
<1> DEFINE S == {t \in Seq(A) : IsInjective(t) => IsInjective(Kept(t, K))}
<1>1. <<>> \in S
    BY KeptEmpty, EmptySeq
<1>2. ASSUME NEW t \in Seq(A), NEW e \in A, t \in S PROVE Append(t, e) \in S
    <2> SUFFICES ASSUME IsInjective(Append(t, e)) PROVE IsInjective(Kept(Append(t, e), K))
        BY AppendProperties
    <2>1. IsInjective(t) /\ e \notin Range(t)
        BY InjectiveAppend
    <2>2. /\ IsInjective(Kept(t, K)) /\ Kept(t, K) \in Seq(A) /\ e \notin Range(Kept(t, K))
        BY <1>2, <2>1, KeptType
    <2>3. IsInjective(Append(Kept(t, K), e))
        BY <2>2, InjectiveAppend
    <2> QED
        BY <2>2, <2>3, KeptAppend
<1> HIDE DEF S
<1>3. s \in S
    BY <1>1, <1>2, GrowSequence
<1> QED
    BY <1>3 DEF S

\* Only what is in the sequence matters.
LEMMA KeptSame ==
    ASSUME NEW A, NEW s \in Seq(A), NEW K, NEW L, Range(s) \cap K = Range(s) \cap L
    PROVE  Kept(s, K) = Kept(s, L)
<1> DEFINE S == {t \in Seq(A) : Range(t) \cap K = Range(t) \cap L => Kept(t, K) = Kept(t, L)}
<1>1. <<>> \in S
    BY KeptEmpty, EmptySeq
<1>2. ASSUME NEW t \in Seq(A), NEW e \in A, t \in S PROVE Append(t, e) \in S
    <2> SUFFICES ASSUME Range(Append(t, e)) \cap K = Range(Append(t, e)) \cap L
                 PROVE  Kept(Append(t, e), K) = Kept(Append(t, e), L)
        BY AppendProperties
    <2>1. Range(t) \cap K = Range(t) \cap L /\ (e \in K <=> e \in L)
        BY RangeOfAppend
    <2>2. Kept(t, K) = Kept(t, L)
        BY <1>2, <2>1
    <2>3. Kept(Append(t, e), K) = IF e \in K THEN Append(Kept(t, K), e) ELSE Kept(t, K)
        BY KeptAppend
    <2>4. Kept(Append(t, e), L) = IF e \in L THEN Append(Kept(t, L), e) ELSE Kept(t, L)
        BY KeptAppend
    <2> QED
        BY <2>1, <2>2, <2>3, <2>4
<1> HIDE DEF S
<1>3. s \in S
    BY <1>1, <1>2, GrowSequence
<1> QED
    BY <1>3 DEF S

LEMMA KeptAll ==
    ASSUME NEW A, NEW s \in Seq(A), NEW K, Range(s) \subseteq K
    PROVE  Kept(s, K) = s
<1> DEFINE S == {t \in Seq(A) : Range(t) \subseteq K => Kept(t, K) = t}
<1>1. <<>> \in S
    BY KeptEmpty, EmptySeq
<1>2. ASSUME NEW t \in Seq(A), NEW e \in A, t \in S PROVE Append(t, e) \in S
    BY <1>2, RangeOfAppend, KeptAppend, AppendProperties
<1> HIDE DEF S
<1>3. s \in S
    BY <1>1, <1>2, GrowSequence
<1> QED
    BY <1>3 DEF S

LEMMA KeptNone ==
    ASSUME NEW A, NEW s \in Seq(A), NEW K, Range(s) \cap K = {}
    PROVE  Kept(s, K) = <<>>
<1>1. Kept(s, K) \in Seq(A) /\ Range(Kept(s, K)) = {}
    BY KeptType
<1>2. ASSUME Kept(s, K) # <<>> PROVE FALSE
    <2>1. Len(Kept(s, K)) \in Nat \ {0} /\ DOMAIN Kept(s, K) = 1..Len(Kept(s, K))
        BY <1>1, <1>2, EmptySeq, LenProperties
    <2>2. 1 \in DOMAIN Kept(s, K)
        BY <2>1
    <2> QED
        BY <1>1, <2>2 DEF Range
<1> QED
    BY <1>2

LEMMA KeptTwice ==
    ASSUME NEW A, NEW s \in Seq(A), NEW K, NEW L
    PROVE  Kept(Kept(s, K), L) = Kept(s, K \cap L)
<1> DEFINE S == {t \in Seq(A) : Kept(Kept(t, K), L) = Kept(t, K \cap L)}
<1>1. <<>> \in S
    BY KeptEmpty, EmptySeq
<1>2. ASSUME NEW t \in Seq(A), NEW e \in A, t \in S PROVE Append(t, e) \in S
    <2> SUFFICES Kept(Kept(Append(t, e), K), L) = Kept(Append(t, e), K \cap L)
        BY AppendProperties
    <2>1. Kept(t, K) \in Seq(A) /\ Append(t, e) \in Seq(A)
        BY KeptType, AppendProperties
    <2>2. Kept(Append(Kept(t, K), e), L) = IF e \in L THEN Append(Kept(Kept(t, K), L), e) ELSE Kept(Kept(t, K), L)
        BY <2>1, KeptAppend
    <2>3. Kept(Append(t, e), K) = IF e \in K THEN Append(Kept(t, K), e) ELSE Kept(t, K)
        BY KeptAppend
    <2>4. Kept(Append(t, e), K \cap L)
            = IF e \in K \cap L THEN Append(Kept(t, K \cap L), e) ELSE Kept(t, K \cap L)
        BY KeptAppend
    <2>5. Kept(Kept(t, K), L) = Kept(t, K \cap L)
        BY <1>2
    <2>6. CASE e \in K
        <3>1. Kept(Append(t, e), K) = Append(Kept(t, K), e) /\ (e \in K \cap L <=> e \in L)
            BY <2>3, <2>6
        <3>2. CASE e \in L
            <4>1. Kept(Append(Kept(t, K), e), L) = Append(Kept(Kept(t, K), L), e)
                BY <2>2, <3>2
            <4>2. Kept(Append(t, e), K \cap L) = Append(Kept(t, K \cap L), e)
                BY <2>4, <3>1, <3>2
            <4> QED BY <2>5, <3>1, <4>1, <4>2, Zenon
        <3>3. CASE e \notin L
            <4>1. Kept(Append(Kept(t, K), e), L) = Kept(Kept(t, K), L)
                BY <2>2, <3>3
            <4>2. Kept(Append(t, e), K \cap L) = Kept(t, K \cap L)
                BY <2>4, <3>1, <3>3
            <4> QED BY <2>5, <3>1, <4>1, <4>2, Zenon
        <3> QED BY <3>2, <3>3
    <2>7. CASE e \notin K
        BY <2>3, <2>4, <2>5, <2>7, Zenon
    <2> QED
        BY <2>6, <2>7
<1> HIDE DEF S
<1>3. s \in S
    BY <1>1, <1>2, GrowSequence
<1> QED
    BY <1>3 DEF S

LEMMA AppendConcat ==
    ASSUME NEW A, NEW s \in Seq(A), NEW t \in Seq(A), NEW e \in A
    PROVE  s \o Append(t, e) = Append(s \o t, e)
<1>1. s \o t \in Seq(A) /\ <<e>> \in Seq(A)
    BY ConcatProperties
<1> QED
    BY <1>1, AppendIsConcat, ConcatAssociative

LEMMA KeptConcat ==
    ASSUME NEW A, NEW s \in Seq(A), NEW t \in Seq(A), NEW K
    PROVE  Kept(s \o t, K) = Kept(s, K) \o Kept(t, K)
<1> DEFINE S == {u \in Seq(A) : Kept(s \o u, K) = Kept(s, K) \o Kept(u, K)}
<1>1. <<>> \in S
    BY KeptEmpty, KeptType, EmptySeq, ConcatEmptySeq
<1>2. ASSUME NEW u \in Seq(A), NEW e \in A, u \in S PROVE Append(u, e) \in S
    <2>1. /\ s \o u \in Seq(A) /\ Append(u, e) \in Seq(A)
          /\ Kept(s, K) \in Seq(A) /\ Kept(u, K) \in Seq(A)
        BY KeptType, AppendProperties, ConcatProperties
    <2>2. s \o Append(u, e) = Append(s \o u, e)
        BY AppendConcat
    <2>3. Kept(s \o Append(u, e), K) = IF e \in K THEN Append(Kept(s \o u, K), e) ELSE Kept(s \o u, K)
        BY <2>1, <2>2, KeptAppend
    <2>4. Kept(Append(u, e), K) = IF e \in K THEN Append(Kept(u, K), e) ELSE Kept(u, K)
        BY KeptAppend
    <2>5. Kept(s, K) \o Append(Kept(u, K), e) = Append(Kept(s, K) \o Kept(u, K), e)
        BY <2>1, AppendConcat
    <2>6. Kept(s \o Append(u, e), K) = Kept(s, K) \o Kept(Append(u, e), K)
        BY <1>2, <2>3, <2>4, <2>5
    <2> QED
        BY <2>1, <2>6
<1> HIDE DEF S
<1>3. t \in S
    BY <1>1, <1>2, GrowSequence
<1> QED
    BY <1>3 DEF S

-----------------------------------------------------------------------------
(***************************************************************************)
(* An element put into an order.                                            *)
(***************************************************************************)

LEMMA ConcatRange ==
    ASSUME NEW A, NEW s \in Seq(A), NEW t \in Seq(A)
    PROVE  /\ s \o t \in Seq(A)
           /\ Range(s \o t) = Range(s) \cup Range(t)
           /\ IsInjective(s \o t)
                <=> IsInjective(s) /\ IsInjective(t) /\ Range(s) \cap Range(t) = {}
<1> DEFINE u == s \o t
           n == Len(s)
           k == Len(t)
<1>1. n \in Nat /\ k \in Nat /\ DOMAIN s = 1..n /\ DOMAIN t = 1..k
    BY LenProperties
<1>2. /\ u \in Seq(A) /\ DOMAIN u = 1..(n + k)
      /\ \A j \in 1..(n + k) : u[j] = IF j <= n THEN s[j] ELSE t[j - n]
    BY ConcatProperties, LenProperties
<1> HIDE DEF u, n, k
<1>3. /\ \A j \in 1..(n + k) : (j <= n => j \in 1..n) /\ (~(j <= n) => j - n \in 1..k)
      /\ \A j \in 1..n : j \in 1..(n + k) /\ j <= n
      /\ \A j \in 1..k : j + n \in 1..(n + k) /\ ~(j + n <= n) /\ (j + n) - n = j
    BY <1>1
<1>4. /\ \A j \in 1..n : u[j] = s[j]
      /\ \A j \in 1..k : u[j + n] = t[j]
    BY <1>2, <1>3
<1>5. Range(u) = Range(s) \cup Range(t)
    <2>1. ASSUME NEW j \in 1..(n + k) PROVE u[j] \in Range(s) \cup Range(t)
        <3>1. CASE j <= n
            <4>1. u[j] = s[j] /\ j \in DOMAIN s
                BY <1>1, <1>3, <1>4, <3>1
            <4> QED
                BY <4>1 DEF Range
        <3>2. CASE ~(j <= n)
            <4>1. u[j] = t[j - n] /\ j - n \in DOMAIN t
                BY <1>1, <1>2, <1>3, <3>2
            <4> QED
                BY <4>1 DEF Range
        <3> QED
            BY <3>1, <3>2
    <2>2. ASSUME NEW j \in 1..n PROVE s[j] \in Range(u)
        BY <1>2, <1>3, <1>4 DEF Range
    <2>3. ASSUME NEW j \in 1..k PROVE t[j] \in Range(u)
        <3>1. u[j + n] = t[j] /\ j + n \in DOMAIN u
            BY <1>2, <1>3, <1>4
        <3> QED
            BY <3>1 DEF Range
    <2> QED
        BY <1>1, <1>2, <2>1, <2>2, <2>3 DEF Range
<1>6. ASSUME IsInjective(s), IsInjective(t), Range(s) \cap Range(t) = {}
      PROVE  IsInjective(u)
    <2> SUFFICES ASSUME NEW a \in 1..(n + k), NEW b \in 1..(n + k), u[a] = u[b] PROVE a = b
        BY <1>2 DEF IsInjective
    <2>1. /\ \A i, j \in 1..n : s[i] = s[j] => i = j
          /\ \A i, j \in 1..k : t[i] = t[j] => i = j
        BY <1>1, <1>6 DEF IsInjective
    <2>2. \A i \in 1..n, j \in 1..k : s[i] # t[j]
        BY <1>1, <1>6 DEF Range
    <2>3. CASE a <= n /\ b <= n
        BY <1>2, <1>3, <2>1, <2>3
    <2>4. CASE a <= n /\ ~(b <= n)
        BY <1>2, <1>3, <2>2, <2>4
    <2>5. CASE ~(a <= n) /\ b <= n
        BY <1>2, <1>3, <2>2, <2>5
    <2>6. CASE ~(a <= n) /\ ~(b <= n)
        <3>1. a - n \in 1..k /\ b - n \in 1..k /\ t[a - n] = t[b - n]
            BY <1>2, <1>3, <2>6
        <3>2. a - n = b - n
            BY <2>1, <3>1
        <3> QED
            BY <1>1, <3>2
    <2> QED
        BY <2>3, <2>4, <2>5, <2>6
<1>7. ASSUME IsInjective(u)
      PROVE  IsInjective(s) /\ IsInjective(t) /\ Range(s) \cap Range(t) = {}
    <2>0. \A a, b \in 1..(n + k) : u[a] = u[b] => a = b
        BY <1>2, <1>7 DEF IsInjective
    <2>1. IsInjective(s)
        BY <1>1, <1>3, <1>4, <2>0 DEF IsInjective
    <2>2. IsInjective(t)
        <3> SUFFICES ASSUME NEW a \in 1..k, NEW b \in 1..k, t[a] = t[b] PROVE a = b
            BY <1>1 DEF IsInjective
        <3>1. a + n = b + n
            BY <1>3, <1>4, <2>0
        <3> QED
            BY <1>1, <3>1
    <2>3. ASSUME NEW a \in 1..n, NEW b \in 1..k, s[a] = t[b] PROVE FALSE
        <3>1. a = b + n
            BY <1>3, <1>4, <2>0, <2>3
        <3> QED
            BY <1>1, <3>1
    <2> QED
        BY <1>1, <2>1, <2>2, <2>3 DEF Range
<1> QED
    BY <1>2, <1>5, <1>6, <1>7 DEF u

LEMMA OneElement ==
    ASSUME NEW A, NEW e \in A
    PROVE  <<e>> \in Seq(A) /\ Range(<<e>>) = {e} /\ IsInjective(<<e>>) /\ Len(<<e>>) = 1
BY DEF Range, IsInjective

\* An order cut before position i.
LEMMA CutOrder ==
    ASSUME NEW A, NEW s \in Seq(A), NEW i \in 1..(Len(s) + 1)
    PROVE  LET x == SubSeq(s, 1, i - 1)
               y == SubSeq(s, i, Len(s))
           IN  x \in Seq(A) /\ y \in Seq(A) /\ Len(x) = i - 1 /\ Len(y) = Len(s) - (i - 1) /\ s = x \o y
<1>1. Len(s) \in Nat /\ \A j \in 1..Len(s) : s[j] \in A
    BY LenProperties, ElementOfSeq
<1>2. i - 1 \in 0..Len(s) /\ (i - 1) + 1 = i /\ i \in Int
    BY <1>1
<1>3. SubSeq(s, 1, i - 1) \o SubSeq(s, i, Len(s)) = SubSeq(s, 1, Len(s))
    <2>1. SubSeq(s, 1, i - 1) \o SubSeq(s, (i - 1) + 1, Len(s)) = SubSeq(s, 1, Len(s))
        <3>1. 1 \in 1..(Len(s) + 1) /\ i - 1 \in (1 - 1)..Len(s) /\ Len(s) \in (i - 1)..Len(s)
            BY <1>1, <1>2
        <3> QED
            BY <3>1, ConcatAdjacentSubSeq, Zenon
    <2> QED
        BY <1>2, <2>1
<1>4. SubSeq(s, 1, i - 1) \in Seq(A) /\ Len(SubSeq(s, 1, i - 1)) = i - 1
    <2>1. \A j \in 1..(i - 1) : s[j] \in A
        BY <1>1
    <2> QED
        BY <1>1, <1>2, <2>1, SubSeqProperties
<1>5. SubSeq(s, i, Len(s)) \in Seq(A) /\ Len(SubSeq(s, i, Len(s))) = Len(s) - (i - 1)
    <2>1. \A j \in i..Len(s) : s[j] \in A
        BY <1>1
    <2> QED
        BY <1>1, <1>2, <2>1, SubSeqProperties
<1> QED
    BY <1>3, <1>4, <1>5, SubSeqFull

LEMMA InsertKeepsOrder ==
    ASSUME NEW A, NEW s \in Seq(A), IsInjective(s), NEW e \in A, e \notin Range(s),
           NEW i \in 1..(Len(s) + 1)
    PROVE  LET t == InsertAt(s, i, e)
           IN  t \in Seq(A) /\ IsInjective(t) /\ Range(t) = Range(s) \cup {e}
<1> DEFINE x == SubSeq(s, 1, i - 1)
           y == SubSeq(s, i, Len(s))
           z == <<e>>
<1>1. x \in Seq(A) /\ y \in Seq(A) /\ s = x \o y
    BY CutOrder
<1>2. z \in Seq(A) /\ Range(z) = {e} /\ IsInjective(z)
    BY OneElement
<1>3. InsertAt(s, i, e) = (x \o z) \o y
    BY DEF InsertAt
<1> HIDE DEF x, y, z
<1>4. /\ IsInjective(x) /\ IsInjective(y) /\ Range(x) \cap Range(y) = {}
      /\ Range(s) = Range(x) \cup Range(y)
    BY <1>1, ConcatRange
<1>5. x \o z \in Seq(A) /\ IsInjective(x \o z) /\ Range(x \o z) = Range(x) \cup {e}
    BY <1>1, <1>2, <1>4, ConcatRange
<1>6. (Range(x) \cup {e}) \cap Range(y) = {}
    BY <1>4
<1>7. /\ (x \o z) \o y \in Seq(A) /\ IsInjective((x \o z) \o y)
      /\ Range((x \o z) \o y) = Range(x \o z) \cup Range(y)
    BY <1>1, <1>4, <1>5, <1>6, ConcatRange
<1> QED
    BY <1>3, <1>4, <1>5, <1>7

-----------------------------------------------------------------------------
(***************************************************************************)
(* What comes before what in an order, and what comes next.                *)
(***************************************************************************)

Before(s, a, b) == \E i, j \in DOMAIN s : i < j /\ s[i] = a /\ s[j] = b
Adjacent(s, a, b) == \E i \in DOMAIN s : i + 1 \in DOMAIN s /\ s[i] = a /\ s[i + 1] = b

LEMMA BeforeIsInRange ==
    ASSUME NEW s, NEW a, NEW b, Before(s, a, b)
    PROVE  a \in Range(s) /\ b \in Range(s)
BY DEF Before, Range

LEMMA AdjacentIsInRange ==
    ASSUME NEW s, NEW a, NEW b, Adjacent(s, a, b)
    PROVE  a \in Range(s) /\ b \in Range(s)
BY DEF Adjacent, Range

LEMMA BeforeConcat ==
    ASSUME NEW A, NEW s \in Seq(A), NEW t \in Seq(A), NEW a, NEW b
    PROVE  Before(s \o t, a, b) <=>
              Before(s, a, b) \/ Before(t, a, b) \/ (a \in Range(s) /\ b \in Range(t))
<1> DEFINE u == s \o t
           n == Len(s)
           k == Len(t)
<1>1. n \in Nat /\ k \in Nat /\ DOMAIN s = 1..n /\ DOMAIN t = 1..k
    BY LenProperties
<1>2. /\ DOMAIN u = 1..(n + k)
      /\ \A j \in 1..(n + k) : u[j] = IF j <= n THEN s[j] ELSE t[j - n]
    BY ConcatProperties, LenProperties
<1> HIDE DEF u, n, k
<1>3. /\ \A j \in 1..(n + k) : (j <= n => j \in 1..n) /\ (~(j <= n) => j - n \in 1..k)
      /\ \A j \in 1..n : j \in 1..(n + k) /\ j <= n
      /\ \A j \in 1..k : j + n \in 1..(n + k) /\ ~(j + n <= n) /\ (j + n) - n = j
    BY <1>1
<1>4. /\ \A j \in 1..n : u[j] = s[j]
      /\ \A j \in 1..k : u[j + n] = t[j]
    BY <1>2, <1>3
<1>5. ASSUME Before(u, a, b)
      PROVE  Before(s, a, b) \/ Before(t, a, b) \/ (a \in Range(s) /\ b \in Range(t))
    <2>1. PICK i, j \in 1..(n + k) : i < j /\ u[i] = a /\ u[j] = b
        BY <1>2, <1>5 DEF Before
    <2>2. CASE j <= n
        <3>1. i \in 1..n /\ j \in 1..n
            BY <1>1, <2>1, <2>2
        <3> QED
            BY <1>1, <1>4, <2>1, <3>1 DEF Before
    <2>3. CASE ~(i <= n)
        <3>1. i - n \in 1..k /\ j - n \in 1..k /\ i - n < j - n
            BY <1>1, <2>1, <2>3
        <3>2. t[i - n] = a /\ t[j - n] = b
            BY <1>1, <1>2, <2>1, <2>3
        <3> QED
            BY <1>1, <3>1, <3>2 DEF Before
    <2>4. CASE i <= n /\ ~(j <= n)
        <3>1. i \in 1..n /\ j - n \in 1..k /\ s[i] = a /\ t[j - n] = b
            BY <1>1, <1>2, <2>1, <2>4
        <3> QED
            BY <1>1, <3>1 DEF Range
    <2> QED
        BY <2>2, <2>3, <2>4
<1>6. ASSUME Before(s, a, b) PROVE Before(u, a, b)
    BY <1>1, <1>2, <1>3, <1>4, <1>6 DEF Before
<1>7. ASSUME Before(t, a, b) PROVE Before(u, a, b)
    <2>1. PICK i, j \in 1..k : i < j /\ t[i] = a /\ t[j] = b
        BY <1>1, <1>7 DEF Before
    <2>2. i + n \in 1..(n + k) /\ j + n \in 1..(n + k) /\ i + n < j + n /\ u[i + n] = a /\ u[j + n] = b
        BY <1>1, <1>4, <2>1
    <2> QED
        BY <1>2, <2>2 DEF Before
<1>8. ASSUME a \in Range(s), b \in Range(t) PROVE Before(u, a, b)
    <2>1. PICK i \in 1..n : s[i] = a
        BY <1>1, <1>8 DEF Range
    <2>2. PICK j \in 1..k : t[j] = b
        BY <1>1, <1>8 DEF Range
    <2>3. i \in 1..(n + k) /\ j + n \in 1..(n + k) /\ i < j + n /\ u[i] = a /\ u[j + n] = b
        BY <1>1, <1>4, <2>1, <2>2
    <2> QED
        BY <1>2, <2>3 DEF Before
<1> QED
    BY <1>5, <1>6, <1>7, <1>8 DEF u

LEMMA AdjacentConcat ==
    ASSUME NEW A, NEW s \in Seq(A), NEW t \in Seq(A), NEW a, NEW b
    PROVE  Adjacent(s \o t, a, b) <=>
              \/ Adjacent(s, a, b)
              \/ Adjacent(t, a, b)
              \/ s # <<>> /\ t # <<>> /\ s[Len(s)] = a /\ t[1] = b
<1> DEFINE u == s \o t
           n == Len(s)
           k == Len(t)
<1>1. /\ n \in Nat /\ k \in Nat /\ DOMAIN s = 1..n /\ DOMAIN t = 1..k
      /\ (s # <<>> <=> n # 0) /\ (t # <<>> <=> k # 0)
    BY LenProperties, EmptySeq
<1>2. /\ DOMAIN u = 1..(n + k)
      /\ \A j \in 1..(n + k) : u[j] = IF j <= n THEN s[j] ELSE t[j - n]
    BY ConcatProperties, LenProperties
<1> HIDE DEF u
<1>3. ASSUME Adjacent(u, a, b)
      PROVE  Adjacent(s, a, b) \/ Adjacent(t, a, b) \/ (s # <<>> /\ t # <<>> /\ s[n] = a /\ t[1] = b)
    <2>1. PICK i \in 1..(n + k) : i + 1 \in 1..(n + k) /\ u[i] = a /\ u[i + 1] = b
        BY <1>2, <1>3 DEF Adjacent
    <2> HIDE DEF n, k
    <2>2. CASE i + 1 <= n
        <3>1. i \in 1..n /\ i + 1 \in 1..n /\ s[i] = a /\ s[i + 1] = b
            BY <1>1, <1>2, <2>1, <2>2
        <3> QED
            BY <1>1, <3>1 DEF Adjacent
    <2>3. CASE i = n
        <3>1. /\ i \in 1..(n + k) /\ i <= n /\ ~(i + 1 <= n) /\ (i + 1) - n = 1 /\ n # 0 /\ k # 0
            BY <1>1, <2>1, <2>3
        <3>2. s[i] = a /\ t[(i + 1) - n] = b
            BY <1>2, <2>1, <3>1
        <3> QED
            BY <1>1, <2>3, <3>1, <3>2
    <2>4. CASE ~(i <= n)
        <3>1. i - n \in 1..k /\ (i - n) + 1 \in 1..k /\ (i + 1) - n = (i - n) + 1 /\ ~(i + 1 <= n)
            BY <1>1, <2>1, <2>4
        <3>2. t[i - n] = a /\ t[(i + 1) - n] = b
            BY <1>2, <2>1, <2>4, <3>1
        <3>3. t[(i - n) + 1] = b
            BY <3>1, <3>2
        <3> QED
            BY <1>1, <3>1, <3>2, <3>3 DEF Adjacent
    <2> QED
        BY <1>1, <2>1, <2>2, <2>3, <2>4
<1>4. ASSUME Adjacent(s, a, b) PROVE Adjacent(u, a, b)
    <2>1. PICK i \in 1..n : i + 1 \in 1..n /\ s[i] = a /\ s[i + 1] = b
        BY <1>1, <1>4 DEF Adjacent
    <2> HIDE DEF n, k
    <2>2. i \in 1..(n + k) /\ i + 1 \in 1..(n + k) /\ i <= n /\ i + 1 <= n
        BY <1>1, <2>1
    <2> QED
        BY <1>2, <2>1, <2>2 DEF Adjacent
<1>5. ASSUME Adjacent(t, a, b) PROVE Adjacent(u, a, b)
    <2>1. PICK i \in 1..k : i + 1 \in 1..k /\ t[i] = a /\ t[i + 1] = b
        BY <1>1, <1>5 DEF Adjacent
    <2> HIDE DEF n, k
    <2>2. /\ i + n \in 1..(n + k) /\ (i + n) + 1 \in 1..(n + k) /\ ~(i + n <= n) /\ ~((i + n) + 1 <= n)
          /\ (i + n) - n = i /\ ((i + n) + 1) - n = i + 1
        BY <1>1, <2>1
    <2>3. u[i + n] = a /\ u[(i + n) + 1] = b
        BY <1>2, <2>1, <2>2
    <2> QED
        BY <1>2, <2>2, <2>3 DEF Adjacent
<1>6. ASSUME s # <<>>, t # <<>>, s[n] = a, t[1] = b PROVE Adjacent(u, a, b)
    <2> HIDE DEF n, k
    <2>1. n \in 1..(n + k) /\ n + 1 \in 1..(n + k) /\ n <= n /\ ~(n + 1 <= n) /\ (n + 1) - n = 1
        BY <1>1, <1>6
    <2>2. u[n] = a /\ u[n + 1] = b
        BY <1>2, <1>6, <2>1
    <2> QED
        BY <1>2, <2>1, <2>2 DEF Adjacent
<1> QED
    BY <1>3, <1>4, <1>5, <1>6 DEF u

LEMMA AloneInOrder == \A e, a, b : ~Before(<<e>>, a, b) /\ ~Adjacent(<<e>>, a, b)
BY DEF Before, Adjacent

LEMMA BeforeAppend ==
    ASSUME NEW A, NEW s \in Seq(A), NEW e \in A, NEW a, NEW b
    PROVE  Before(Append(s, e), a, b) <=> Before(s, a, b) \/ (a \in Range(s) /\ b = e)
<1>1. <<e>> \in Seq(A) /\ Range(<<e>>) = {e} /\ Append(s, e) = s \o <<e>>
    BY OneElement, AppendIsConcat
<1>2. Before(s \o <<e>>, a, b) <=>
        Before(s, a, b) \/ Before(<<e>>, a, b) \/ (a \in Range(s) /\ b \in Range(<<e>>))
    BY <1>1, BeforeConcat
<1>3. ~Before(<<e>>, a, b)
    BY AloneInOrder
<1>4. b \in Range(<<e>>) <=> b = e
    BY <1>1
<1> QED
    BY <1>1, <1>2, <1>3, <1>4, Zenon

\* Filtering an order keeps what comes before what.
LEMMA KeptBefore ==
    ASSUME NEW A, NEW s \in Seq(A), NEW K, NEW a, NEW b
    PROVE  Before(Kept(s, K), a, b) <=> Before(s, a, b) /\ a \in K /\ b \in K
<1> DEFINE S == {t \in Seq(A) : Before(Kept(t, K), a, b) <=> Before(t, a, b) /\ a \in K /\ b \in K}
<1>1. <<>> \in S
    BY KeptEmpty, EmptySeq, RangeOfEmpty, BeforeIsInRange
<1>2. ASSUME NEW t \in Seq(A), NEW e \in A, t \in S PROVE Append(t, e) \in S
    <2>1. Kept(t, K) \in Seq(A) /\ Range(Kept(t, K)) = Range(t) \cap K /\ Append(t, e) \in Seq(A)
        BY KeptType, AppendProperties
    <2>2. Before(Append(t, e), a, b) <=> Before(t, a, b) \/ (a \in Range(t) /\ b = e)
        BY BeforeAppend
    <2>3. Before(Append(Kept(t, K), e), a, b) <=> Before(Kept(t, K), a, b) \/ (a \in Range(Kept(t, K)) /\ b = e)
        BY <2>1, BeforeAppend
    <2>4. Kept(Append(t, e), K) = IF e \in K THEN Append(Kept(t, K), e) ELSE Kept(t, K)
        BY KeptAppend
    <2>5. Before(Kept(t, K), a, b) <=> Before(t, a, b) /\ a \in K /\ b \in K
        BY <1>2
    <2>6. CASE e \in K
        BY <2>1, <2>2, <2>3, <2>4, <2>5, <2>6
    <2>7. CASE e \notin K
        BY <2>1, <2>2, <2>4, <2>5, <2>7
    <2> QED
        BY <2>6, <2>7
<1> HIDE DEF S
<1>3. s \in S
    BY <1>1, <1>2, GrowSequence
<1> QED
    BY <1>3 DEF S

\* An order around one of its elements, and that element taken out.
SplitsAt(s, x, d, y) == s = (x \o <<d>>) \o y

LEMMA SplitAround ==
    ASSUME NEW A, NEW s \in Seq(A), NEW d \in Range(s)
    PROVE  \E x, y \in Seq(A) : SplitsAt(s, x, d, y)
<1> DEFINE S == {t \in Seq(A) : d \in Range(t) => \E x, y \in Seq(A) : t = (x \o <<d>>) \o y}
<1>1. <<>> \in S
    BY EmptySeq, RangeOfEmpty
<1>2. ASSUME NEW t \in Seq(A), NEW e \in A, t \in S PROVE Append(t, e) \in S
    <2>1. Append(t, e) \in Seq(A) /\ Range(Append(t, e)) = Range(t) \cup {e}
        BY RangeOfAppend, AppendProperties
    <2>2. CASE d = e
        <3>1. t \o <<d>> \in Seq(A) /\ <<>> \in Seq(A) /\ Append(t, e) = t \o <<d>>
            BY <2>2, OneElement, AppendIsConcat, EmptySeq, ConcatProperties
        <3>2. Append(t, e) = (t \o <<d>>) \o <<>>
            BY <3>1, ConcatEmptySeq
        <3> QED
            BY <2>1, <3>1, <3>2
    <2>3. CASE d # e /\ d \in Range(t)
        <3>1. PICK x, y \in Seq(A) : t = (x \o <<d>>) \o y
            BY <1>2, <2>3
        <3>2. d \in A
            BY <2>3 DEF Range
        <3>3. x \o <<d>> \in Seq(A)
            BY <3>2, OneElement, ConcatProperties
        <3>4. (x \o <<d>>) \o Append(y, e) = Append((x \o <<d>>) \o y, e) /\ Append(y, e) \in Seq(A)
            BY <3>3, AppendConcat, AppendProperties
        <3> QED
            BY <2>1, <3>1, <3>4
    <2> QED
        BY <2>1, <2>2, <2>3
<1> HIDE DEF S
<1>3. s \in S
    BY <1>1, <1>2, GrowSequence
<1> QED
    BY <1>3 DEF S, SplitsAt

LEMMA AroundElement ==
    ASSUME NEW A, NEW x \in Seq(A), NEW y \in Seq(A), NEW d \in A
    PROVE  LET s == (x \o <<d>>) \o y
           IN  /\ s \in Seq(A) /\ x \o y \in Seq(A)
               /\ Range(s) = Range(x) \cup {d} \cup Range(y)
               /\ Range(x \o y) = Range(x) \cup Range(y)
               /\ IsInjective(s) <=> IsInjective(x \o y) /\ d \notin Range(x \o y)
               /\ \A a, b : Before(s, a, b) <=>
                    \/ Before(x \o y, a, b)
                    \/ a \in Range(x) /\ b = d
                    \/ a = d /\ b \in Range(y)
               /\ \A a, b : Adjacent(s, a, b) <=>
                    \/ Adjacent(x, a, b) \/ Adjacent(y, a, b)
                    \/ x # <<>> /\ x[Len(x)] = a /\ b = d
                    \/ y # <<>> /\ y[1] = b /\ a = d
<1> DEFINE z == <<d>>
           w == x \o z
<1>1. z \in Seq(A) /\ Range(z) = {d} /\ IsInjective(z) /\ Len(z) = 1 /\ z[1] = d /\ z # <<>>
    BY OneElement
<1> HIDE DEF z
<1>2. w \in Seq(A) /\ Range(w) = Range(x) \cup {d}
      /\ (IsInjective(w) <=> IsInjective(x) /\ d \notin Range(x))
    BY <1>1, ConcatRange
<1>3. w # <<>> /\ w[Len(w)] = d
    <2>1. w = Append(x, d)
        BY AppendIsConcat DEF z
    <2> QED
        BY <2>1, AppendProperties, LenProperties
<1>4. \A a, b : Before(w, a, b) <=> Before(x, a, b) \/ (a \in Range(x) /\ b = d)
    BY <1>1, BeforeConcat, AloneInOrder DEF z
<1>5. ASSUME NEW a, NEW b
      PROVE  Adjacent(w, a, b) <=> Adjacent(x, a, b) \/ (x # <<>> /\ x[Len(x)] = a /\ b = d)
    <2>1. Adjacent(w, a, b) <=>
            \/ Adjacent(x, a, b) \/ Adjacent(z, a, b)
            \/ x # <<>> /\ z # <<>> /\ x[Len(x)] = a /\ z[1] = b
        BY <1>1, AdjacentConcat
    <2>2. ~Adjacent(z, a, b)
        BY AloneInOrder DEF z
    <2> QED
        BY <1>1, <2>1, <2>2
<1> HIDE DEF w
<1>6. /\ w \o y \in Seq(A) /\ Range(w \o y) = Range(x) \cup {d} \cup Range(y)
      /\ (IsInjective(w \o y) <=> IsInjective(w) /\ IsInjective(y) /\ Range(w) \cap Range(y) = {})
    BY <1>2, ConcatRange
<1>7. /\ x \o y \in Seq(A) /\ Range(x \o y) = Range(x) \cup Range(y)
      /\ (IsInjective(x \o y) <=> IsInjective(x) /\ IsInjective(y) /\ Range(x) \cap Range(y) = {})
    BY ConcatRange
<1>8. IsInjective(w \o y) <=> IsInjective(x \o y) /\ d \notin Range(x \o y)
    BY <1>2, <1>6, <1>7
<1>9. ASSUME NEW a, NEW b
      PROVE  Before(w \o y, a, b) <=>
                Before(x \o y, a, b) \/ (a \in Range(x) /\ b = d) \/ (a = d /\ b \in Range(y))
    <2>1. Before(w \o y, a, b) <=> Before(w, a, b) \/ Before(y, a, b) \/ (a \in Range(w) /\ b \in Range(y))
        BY <1>2, BeforeConcat
    <2>2. Before(x \o y, a, b) <=> Before(x, a, b) \/ Before(y, a, b) \/ (a \in Range(x) /\ b \in Range(y))
        BY BeforeConcat
    <2> QED
        BY <1>2, <1>4, <2>1, <2>2
<1>10. ASSUME NEW a, NEW b
       PROVE  Adjacent(w \o y, a, b) <=>
                \/ Adjacent(x, a, b) \/ Adjacent(y, a, b)
                \/ x # <<>> /\ x[Len(x)] = a /\ b = d
                \/ y # <<>> /\ y[1] = b /\ a = d
    <2>1. Adjacent(w \o y, a, b) <=>
            \/ Adjacent(w, a, b) \/ Adjacent(y, a, b)
            \/ w # <<>> /\ y # <<>> /\ w[Len(w)] = a /\ y[1] = b
        BY <1>2, AdjacentConcat
    <2> QED
        BY <1>3, <1>5, <2>1
<1> QED
    BY <1>6, <1>7, <1>8, <1>9, <1>10 DEF w, z

-----------------------------------------------------------------------------
\* Positions are positive, and two orders of the same conditions that give each
\* the same position are the same.
LEMMA RankPositive ==
    ASSUME NEW order \in Seq(Conds), NEW c \in Range(order)
    PROVE  /\ Rank(order, c) \in DOMAIN order
           /\ order[Rank(order, c)] = c
           /\ Rank(order, c) # 0
<1>1. \E i \in DOMAIN order : order[i] = c
    BY DEF Range
<1>2. DOMAIN order = 1..Len(order) /\ Len(order) \in Nat
    OBVIOUS
<1> QED
    BY <1>1, <1>2 DEF Rank

LEMMA SameRanksSameOrder ==
    ASSUME NEW one \in Seq(Conds), NEW other \in Seq(Conds),
           IsInjective(one), IsInjective(other), Range(one) = Range(other),
           \A c \in Range(one) : Rank(one, c) = Rank(other, c)
    PROVE  one = other
<1>1. \A i \in DOMAIN one : i \in DOMAIN other /\ other[i] = one[i]
    <2> SUFFICES ASSUME NEW i \in DOMAIN one
                 PROVE  i \in DOMAIN other /\ other[i] = one[i]
        OBVIOUS
    <2>1. one[i] \in Range(one)
        BY DEF Range
    <2>2. Rank(one, one[i]) = i
        BY <2>1, RankPositive DEF IsInjective
    <2> QED
        BY <2>1, <2>2, RankPositive
<1>2. \A i \in DOMAIN other : i \in DOMAIN one
    <2> SUFFICES ASSUME NEW i \in DOMAIN other
                 PROVE  i \in DOMAIN one
        OBVIOUS
    <2>1. other[i] \in Range(other)
        BY DEF Range
    <2>2. Rank(other, other[i]) = i
        BY <2>1, RankPositive DEF IsInjective
    <2> QED
        BY <2>1, <2>2, RankPositive
<1>3. Len(one) = Len(other)
    <2>1. 1..Len(one) = 1..Len(other) /\ Len(one) \in Nat /\ Len(other) \in Nat
        BY <1>1, <1>2
    <2> QED
        BY <2>1
<1> QED
    BY <1>1, <1>3

-----------------------------------------------------------------------------
(***************************************************************************)
(* InsertAllBySourceOrder inserts one condition after the other: its table *)
(* is there and unique, as for Kept.                                       *)
(***************************************************************************)

Inserts(f, o, s, so, n) ==
    f = [i \in 0..n |-> IF i = 0 THEN o ELSE InsertBySourceOrder(f[i - 1], s[i], so)]

LEMMA InsertStep ==
    ASSUME NEW f, NEW o, NEW s, NEW so, NEW n \in Nat, Inserts(f, o, s, so, n)
    PROVE  /\ f[0] = o
           /\ \A i \in 1..n : f[i] = InsertBySourceOrder(f[i - 1], s[i], so)
<1>1. \A i \in 0..n : f[i] = IF i = 0 THEN o ELSE InsertBySourceOrder(f[i - 1], s[i], so)
    BY DEF Inserts
<1> QED
    BY <1>1

LEMMA InsertsExist ==
    ASSUME NEW o, NEW s, NEW so
    PROVE  \A n \in Nat : \E f : Inserts(f, o, s, so, n)
<1> DEFINE S == {n \in Nat : \E f : Inserts(f, o, s, so, n)}
<1>1. 0 \in S
    <2> DEFINE f == [i \in 0..0 |-> o]
    <2>1. Inserts(f, o, s, so, 0)
        BY DEF Inserts
    <2> QED
        BY <2>1
<1>2. ASSUME NEW n \in Nat, n \in S PROVE n + 1 \in S
    <2>1. PICK f : Inserts(f, o, s, so, n)
        BY <1>2
    <2> DEFINE last == InsertBySourceOrder(f[n], s[n + 1], so)
               g == [i \in 0..(n + 1) |-> IF i <= n THEN f[i] ELSE last]
    <2>2. ASSUME NEW i \in 0..(n + 1)
          PROVE  g[i] = IF i = 0 THEN o ELSE InsertBySourceOrder(g[i - 1], s[i], so)
        <3>1. CASE i = 0
            <4>1. f[0] = o
                BY <2>1, InsertStep
            <4> QED BY <3>1, <4>1
        <3>2. CASE i \in 1..n
            <4>1. f[i] = InsertBySourceOrder(f[i - 1], s[i], so)
                BY <2>1, <3>2, InsertStep
            <4>2. g[i] = f[i] /\ g[i - 1] = f[i - 1] /\ i # 0
                BY <3>2
            <4> QED BY <4>1, <4>2
        <3>3. CASE i = n + 1
            <4>1. g[i] = last /\ g[i - 1] = f[n] /\ i # 0
                BY <3>3
            <4> QED BY <3>3, <4>1
        <3> QED BY <3>1, <3>2, <3>3
    <2>3. g = [i \in 0..(n + 1) |-> g[i]]
        OBVIOUS
    <2> HIDE DEF g
    <2>4. Inserts(g, o, s, so, n + 1)
        BY <2>2, <2>3 DEF Inserts
    <2> QED
        BY <2>4
<1> HIDE DEF S
<1>3. \A n \in Nat : n \in S
    BY <1>1, <1>2, CountUp
<1> QED
    BY <1>3 DEF S

LEMMA InsertsAgree ==
    ASSUME NEW f, NEW g, NEW o, NEW s, NEW t, NEW so, NEW n \in Nat, NEW m \in Nat, n <= m,
           Inserts(f, o, s, so, n), Inserts(g, o, t, so, m), \A i \in 1..n : s[i] = t[i]
    PROVE  f[n] = g[n]
<1> DEFINE S == {k \in Nat : k <= n => f[k] = g[k]}
<1>1. 0 \in S
    BY InsertStep
<1>2. ASSUME NEW k \in Nat, k \in S PROVE k + 1 \in S
    <2> SUFFICES ASSUME k + 1 <= n PROVE f[k + 1] = g[k + 1]
        OBVIOUS
    <2>1. f[k] = g[k] /\ k + 1 \in 1..n /\ k + 1 \in 1..m /\ (k + 1) - 1 = k
        BY <1>2
    <2>2. f[k + 1] = InsertBySourceOrder(f[k], s[k + 1], so)
        BY <2>1, InsertStep
    <2>3. g[k + 1] = InsertBySourceOrder(g[k], t[k + 1], so)
        BY <2>1, InsertStep
    <2> QED
        BY <2>1, <2>2, <2>3
<1> HIDE DEF S
<1>3. n \in S
    BY <1>1, <1>2, CountUp
<1> QED
    BY <1>3 DEF S

LEMMA InsertAllIsTable ==
    ASSUME NEW o, NEW s, NEW so, Len(s) \in Nat
    PROVE  \E f : Inserts(f, o, s, so, Len(s)) /\ InsertAllBySourceOrder(o, s, so) = f[Len(s)]
<1> DEFINE f == CHOOSE f : Inserts(f, o, s, so, Len(s))
<1>1. InsertAllBySourceOrder(o, s, so) = f[Len(s)]
    BY Zenon DEF InsertAllBySourceOrder, Inserts
<1>2. \E h : Inserts(h, o, s, so, Len(s))
    BY InsertsExist
<1>3. Inserts(f, o, s, so, Len(s))
    BY <1>2, Zenon
<1> QED
    BY <1>1, <1>3

LEMMA InsertAllEmpty == \A o, so : InsertAllBySourceOrder(o, <<>>, so) = o
<1> SUFFICES ASSUME NEW o, NEW so PROVE InsertAllBySourceOrder(o, <<>>, so) = o
    OBVIOUS
<1>1. Len(<<>>) = 0 /\ 0 \in Nat
    OBVIOUS
<1>2. PICK f : Inserts(f, o, <<>>, so, 0) /\ InsertAllBySourceOrder(o, <<>>, so) = f[0]
    BY <1>1, InsertAllIsTable
<1> QED
    BY <1>1, <1>2, InsertStep

LEMMA InsertAllAppend ==
    ASSUME NEW A, NEW o, NEW s \in Seq(A), NEW e \in A, NEW so
    PROVE  InsertAllBySourceOrder(o, Append(s, e), so)
              = InsertBySourceOrder(InsertAllBySourceOrder(o, s, so), e, so)
<1> DEFINE t == Append(s, e)
           n == Len(s)
<1>1. /\ n \in Nat /\ Len(t) = n + 1 /\ t[n + 1] = e
      /\ \A i \in 1..n : s[i] = t[i]
    BY AppendProperties, LenProperties
<1> HIDE DEF t, n
<1>2. PICK f : Inserts(f, o, s, so, n) /\ InsertAllBySourceOrder(o, s, so) = f[n]
    BY <1>1, InsertAllIsTable DEF n
<1>3. PICK g : Inserts(g, o, t, so, n + 1) /\ InsertAllBySourceOrder(o, t, so) = g[n + 1]
    BY <1>1, InsertAllIsTable
<1>4. f[n] = g[n]
    <2>1. n + 1 \in Nat /\ n <= n + 1
        BY <1>1
    <2> QED
        BY <1>1, <1>2, <1>3, <2>1, InsertsAgree
<1>5. g[n + 1] = InsertBySourceOrder(g[n], t[n + 1], so)
    BY <1>1, <1>3, InsertStep
<1> QED
    BY <1>1, <1>2, <1>3, <1>4, <1>5 DEF t

-----------------------------------------------------------------------------
(***************************************************************************)
(* Where a condition is inserted: before the one that follows it most      *)
(* closely in the source, its successor, else behind its predecessor, else *)
(* at the end.                                                             *)
(***************************************************************************)

LEMMA RankIsNatural ==
    ASSUME NEW order \in Seq(Conds), NEW c \in Range(order)
    PROVE  Rank(order, c) \in Nat /\ Rank(order, c) <= Len(order)
<1>1. DOMAIN order = 1..Len(order) /\ Len(order) \in Nat
    BY LenProperties
<1> QED
    BY <1>1, RankPositive

LEMMA RanksDiffer ==
    ASSUME NEW order \in Seq(Conds), NEW c \in Range(order), NEW d \in Range(order), c # d
    PROVE  Rank(order, c) # Rank(order, d)
BY RankPositive

Later(o, c, so) == {e \in Range(o) \cap Range(so) : Rank(so, e) > Rank(so, c)}
Earlier(o, c, so) == {e \in Range(o) \cap Range(so) : Rank(so, e) < Rank(so, c)}
IsSuccessor(e, o, c, so) == e \in Later(o, c, so) /\ \A z \in Later(o, c, so) : Rank(so, e) <= Rank(so, z)
IsPredecessor(e, o, c, so) == e \in Earlier(o, c, so) /\ \A z \in Earlier(o, c, so) : Rank(so, e) >= Rank(so, z)

\* The successor and the predecessor are there when anything follows or precedes.
LEMMA NearestExist ==
    ASSUME NEW so \in Seq(Conds), NEW o, NEW c
    PROVE  /\ Later(o, c, so) # {} => \E e : IsSuccessor(e, o, c, so)
           /\ Earlier(o, c, so) # {} => \E e : IsPredecessor(e, o, c, so)
<1>1. ASSUME Later(o, c, so) # {} PROVE \E e : IsSuccessor(e, o, c, so)
    <2> DEFINE T == {Rank(so, e) : e \in Later(o, c, so)}
    <2>1. T \in SUBSET Nat /\ T # {}
        BY <1>1, RankIsNatural DEF Later
    <2> HIDE DEF T
    <2>2. PICK x \in T : \A y \in T : ~(y < x)
        BY <2>1, LeastNumber
    <2>3. PICK e \in Later(o, c, so) : Rank(so, e) = x
        BY <2>2 DEF T
    <2>4. \A z \in Later(o, c, so) : Rank(so, z) \in T
        BY DEF T
    <2>5. \A z \in Later(o, c, so) : Rank(so, e) <= Rank(so, z)
        <3>1. \A y \in T : x <= y
            BY <2>1, <2>2
        <3> QED
            BY <2>3, <2>4, <3>1
    <2> QED
        BY <2>5 DEF IsSuccessor
<1>2. ASSUME Earlier(o, c, so) # {} PROVE \E e : IsPredecessor(e, o, c, so)
    <2> DEFINE n == Len(so)
               T == {n - Rank(so, e) : e \in Earlier(o, c, so)}
    <2>1. n \in Nat /\ \A e \in Earlier(o, c, so) : Rank(so, e) \in Nat /\ n - Rank(so, e) \in Nat
        BY RankIsNatural, LenProperties DEF Earlier
    <2> HIDE DEF n
    <2>2. T \in SUBSET Nat /\ T # {}
        BY <1>2, <2>1
    <2> HIDE DEF T
    <2>3. PICK x \in T : \A y \in T : ~(y < x)
        BY <2>2, LeastNumber
    <2>4. PICK e \in Earlier(o, c, so) : n - Rank(so, e) = x
        BY <2>3 DEF T
    <2>5. \A z \in Earlier(o, c, so) : n - Rank(so, z) \in T
        BY DEF T
    <2>6. \A z \in Earlier(o, c, so) : Rank(so, e) >= Rank(so, z)
        BY <2>1, <2>3, <2>4, <2>5
    <2> QED
        BY <2>6 DEF IsPredecessor
<1> QED
    BY <1>1, <1>2

\* The order cut where the condition goes.
Cut(o, x, y, c, so) ==
    /\ o = x \o y
    /\ \A e : IsSuccessor(e, o, c, so) => y # <<>> /\ y[1] = e
    /\ Later(o, c, so) = {} => \A e : IsPredecessor(e, o, c, so) => x # <<>> /\ x[Len(x)] = e
    /\ Later(o, c, so) = {} /\ Earlier(o, c, so) = {} => y = <<>>

LEMMA InsertCuts ==
    ASSUME NEW so \in Seq(Conds), NEW o \in Seq(Conds), NEW c \in Conds
    PROVE  \E x, y \in Seq(Conds) :
              Cut(o, x, y, c, so) /\ InsertBySourceOrder(o, c, so) = (x \o <<c>>) \o y
<1> DEFINE rank(i) == Rank(so, o[i])
           known == {i \in DOMAIN o : o[i] \in Range(so)}
           later == {i \in known : rank(i) > Rank(so, c)}
           earlier == {i \in known : rank(i) < Rank(so, c)}
           i1 == CHOOSE i \in later : \A j \in later : rank(i) <= rank(j)
           i2 == CHOOSE i \in earlier : \A j \in earlier : rank(i) >= rank(j)
           new == InsertBySourceOrder(o, c, so)
<1>1. /\ later # {} => new = InsertAt(o, i1, c)
      /\ later = {} /\ earlier # {} => new = InsertAt(o, 1 + i2, c)
      /\ later = {} /\ earlier = {} => new = Append(o, c)
    BY DEF InsertBySourceOrder
<1> HIDE DEF new
<1>2. /\ \A e : e \in Later(o, c, so) <=> \E i \in later : o[i] = e
      /\ \A e : e \in Earlier(o, c, so) <=> \E i \in earlier : o[i] = e
    BY DEF Later, Earlier, Range
<1>3. later # {} <=> Later(o, c, so) # {}
    BY <1>2
<1>4. earlier # {} <=> Earlier(o, c, so) # {}
    BY <1>2
<1>5. DOMAIN o = 1..Len(o) /\ Len(o) \in Nat /\ later \subseteq 1..Len(o) /\ earlier \subseteq 1..Len(o)
      /\ \A i \in 1..Len(o) : o[i] \in Conds
    BY LenProperties, ElementOfSeq
<1>6. \A i \in later \cup earlier : rank(i) \in Nat
    BY RankIsNatural DEF Range
<1>7. CASE later # {}
    <2>1. i1 \in later /\ \A j \in later : rank(i1) <= rank(j)
        <3>1. PICK e : IsSuccessor(e, o, c, so)
            BY <1>3, <1>7, NearestExist
        <3>2. PICK i \in later : o[i] = e
            BY <1>2, <3>1 DEF IsSuccessor
        <3>3. \A j \in later : rank(i) <= rank(j)
            BY <1>2, <3>1, <3>2 DEF IsSuccessor
        <3> QED
            BY <3>2, <3>3
    <2> DEFINE x == SubSeq(o, 1, i1 - 1)
               y == SubSeq(o, i1, Len(o))
    <2> HIDE DEF i1, later, earlier
    <2>2. i1 \in 1..Len(o) /\ i1 \in 1..(Len(o) + 1)
        BY <1>5, <2>1
    <2>3. x \in Seq(Conds) /\ y \in Seq(Conds) /\ o = x \o y /\ Len(y) = Len(o) - (i1 - 1)
        BY <2>2, CutOrder
    <2>4. new = (x \o <<c>>) \o y
        BY <1>1, <1>7 DEF InsertAt
    <2>5. y # <<>> /\ y[1] = o[i1]
        <3>1. y # <<>>
            <4>1. Len(y) # 0
                BY <1>5, <2>2, <2>3
            <4> QED
                BY <4>1, EmptySeq, Zenon
        <3>2. i1 \in Int /\ Len(o) \in Int /\ (\A i \in i1..Len(o) : o[i] \in Conds)
              /\ 1 \in 1..(Len(o) - i1 + 1) /\ i1 + 1 - 1 = i1
            BY <1>5, <2>2
        <3>3. y[1] = o[i1]
            <4>1. \A i \in 1..(Len(o) - i1 + 1) : SubSeq(o, i1, Len(o))[i] = o[i1 + i - 1]
                BY <3>2, SubSeqProperties
            <4>2. SubSeq(o, i1, Len(o))[1] = o[i1 + 1 - 1]
                BY <3>2, <4>1, Zenon
            <4> QED
                BY <3>2, <4>2
        <3> QED
            BY <3>1, <3>3
    <2>6. \A e : IsSuccessor(e, o, c, so) => y[1] = e
        <3> SUFFICES ASSUME NEW e, IsSuccessor(e, o, c, so), e # o[i1] PROVE FALSE
            BY <2>5
        <3>1. PICK i \in later : o[i] = e
            BY <1>2 DEF IsSuccessor
        <3>2. o[i1] \in Later(o, c, so)
            BY <1>2, <2>1
        <3>3. e \in Range(so) /\ o[i1] \in Range(so)
            BY <3>2 DEF IsSuccessor, Later
        <3>4. Rank(so, e) # Rank(so, o[i1])
            BY <3>3, RanksDiffer
        <3>5. Rank(so, o[i1]) <= Rank(so, e) /\ Rank(so, e) <= Rank(so, o[i1])
            BY <2>1, <3>1, <3>2 DEF IsSuccessor
        <3> QED
            BY <3>3, <3>4, <3>5, RankIsNatural
    <2> HIDE DEF x, y
    <2>7. Cut(o, x, y, c, so)
        BY <1>3, <1>7, <2>3, <2>5, <2>6 DEF Cut
    <2> QED
        BY <2>3, <2>4, <2>7 DEF new
<1>8. CASE later = {} /\ earlier # {}
    <2>1. i2 \in earlier /\ \A j \in earlier : rank(i2) >= rank(j)
        <3>1. PICK e : IsPredecessor(e, o, c, so)
            BY <1>4, <1>8, NearestExist
        <3>2. PICK i \in earlier : o[i] = e
            BY <1>2, <3>1 DEF IsPredecessor
        <3>3. \A j \in earlier : rank(i) >= rank(j)
            BY <1>2, <3>1, <3>2 DEF IsPredecessor
        <3> QED
            BY <3>2, <3>3
    <2> DEFINE k == 1 + i2
               x == SubSeq(o, 1, k - 1)
               y == SubSeq(o, k, Len(o))
    <2> HIDE DEF i2, later, earlier
    <2>2. i2 \in 1..Len(o) /\ k \in 1..(Len(o) + 1) /\ k - 1 = i2
        BY <1>5, <2>1
    <2>3. x \in Seq(Conds) /\ y \in Seq(Conds) /\ o = x \o y /\ Len(x) = i2
        BY <2>2, CutOrder
    <2>4. new = (x \o <<c>>) \o y
        BY <1>1, <1>8 DEF InsertAt
    <2>5. x # <<>> /\ x[Len(x)] = o[i2]
        <3>1. x[i2] = o[i2]
            BY <1>5, <2>2
        <3> QED
            BY <2>2, <2>3, <3>1
    <2>6. \A e : IsPredecessor(e, o, c, so) => x[Len(x)] = e
        <3> SUFFICES ASSUME NEW e, IsPredecessor(e, o, c, so), e # o[i2] PROVE FALSE
            BY <2>5
        <3>1. PICK i \in earlier : o[i] = e
            BY <1>2 DEF IsPredecessor
        <3>2. o[i2] \in Earlier(o, c, so)
            BY <1>2, <2>1
        <3>3. e \in Range(so) /\ o[i2] \in Range(so)
            BY <3>2 DEF IsPredecessor, Earlier
        <3>4. Rank(so, e) # Rank(so, o[i2])
            BY <3>3, RanksDiffer
        <3>5. Rank(so, o[i2]) >= Rank(so, e) /\ Rank(so, e) >= Rank(so, o[i2])
            BY <2>1, <3>1, <3>2 DEF IsPredecessor
        <3> QED
            BY <3>3, <3>4, <3>5, RankIsNatural
    <2> HIDE DEF x, y
    <2>7. Cut(o, x, y, c, so)
        BY <1>3, <1>4, <1>8, <2>3, <2>5, <2>6 DEF Cut, IsSuccessor
    <2> QED
        BY <2>3, <2>4, <2>7 DEF new
<1>9. CASE later = {} /\ earlier = {}
    <2>1. <<>> \in Seq(Conds) /\ o = o \o <<>>
        BY EmptySeq, ConcatEmptySeq
    <2>2. o \o <<c>> \in Seq(Conds) /\ new = o \o <<c>>
        BY <1>1, <1>9, OneElement, ConcatProperties, AppendIsConcat
    <2>3. new = (o \o <<c>>) \o <<>>
        BY <2>2, ConcatEmptySeq
    <2>4. Cut(o, o, <<>>, c, so)
        BY <1>3, <1>4, <1>9, <2>1 DEF Cut, IsSuccessor, IsPredecessor
    <2> QED
        BY <2>1, <2>3, <2>4 DEF new
<1> QED
    BY <1>7, <1>8, <1>9

-----------------------------------------------------------------------------
(***************************************************************************)
(* What insertions do to an order: nothing is lost or doubled, the rest    *)
(* keeps its order, and an order that agrees with the source's still does. *)
(***************************************************************************)

LEMMA EndsAreInRange ==
    ASSUME NEW A, NEW s \in Seq(A), s # <<>>
    PROVE  s[1] \in Range(s) /\ s[Len(s)] \in Range(s)
<1>1. DOMAIN s = 1..Len(s) /\ Len(s) \in Nat \ {0}
    BY LenProperties, EmptySeq
<1>2. 1 \in DOMAIN s /\ Len(s) \in DOMAIN s
    BY <1>1
<1> QED
    BY <1>2 DEF Range

LEMMA FirstComesBefore ==
    ASSUME NEW A, NEW s \in Seq(A), NEW b \in Range(s), s # <<>>, b # s[1]
    PROVE  Before(s, s[1], b)
<1>1. DOMAIN s = 1..Len(s) /\ Len(s) \in Nat \ {0}
    BY LenProperties, EmptySeq
<1>2. PICK j \in DOMAIN s : s[j] = b
    BY DEF Range
<1>3. 1 \in DOMAIN s /\ 1 < j
    BY <1>1, <1>2
<1> QED
    BY <1>2, <1>3 DEF Before

\* KeptConcat, for sequences at hand.
Joined(s, t, K) == Kept(s \o t, K) = Kept(s, K) \o Kept(t, K)

LEMMA KeptJoined ==
    ASSUME NEW A, NEW s \in Seq(A), NEW t \in Seq(A), NEW K
    PROVE  Joined(s, t, K)
BY KeptConcat DEF Joined

LEMMA KeptAround ==
    ASSUME NEW A, NEW x \in Seq(A), NEW y \in Seq(A), NEW c \in A, NEW K, c \notin K
    PROVE  Kept((x \o <<c>>) \o y, K) = Kept(x \o y, K)
<1>1. <<c>> \in Seq(A) /\ Range(<<c>>) = {c} /\ x \o <<c>> \in Seq(A)
    BY OneElement, ConcatProperties
<1>2. Kept(<<c>>, K) = <<>>
    BY <1>1, KeptNone
<1>3. Joined(x, <<c>>, K) /\ Joined(x \o <<c>>, y, K) /\ Joined(x, y, K)
    BY <1>1, KeptJoined
<1>4. Kept(x, K) \o <<>> = Kept(x, K)
    BY KeptType, ConcatEmptySeq
<1> QED
    BY <1>2, <1>3, <1>4, Zenon DEF Joined

LEMMA InsertShape ==
    ASSUME NEW so \in Seq(Conds), NEW o \in Seq(Conds), IsInjective(o), NEW c \in Conds, c \notin Range(o)
    PROVE  LET new == InsertBySourceOrder(o, c, so)
           IN  /\ new \in Seq(Conds) /\ IsInjective(new) /\ Range(new) = Range(o) \cup {c}
               /\ \A K : c \notin K => Kept(new, K) = Kept(o, K)
<1> DEFINE new == InsertBySourceOrder(o, c, so)
<1>1. PICK x \in Seq(Conds), y \in Seq(Conds) : Cut(o, x, y, c, so) /\ new = (x \o <<c>>) \o y
    BY InsertCuts
<1>2. o = x \o y
    BY <1>1 DEF Cut
<1> HIDE DEF new
<1>3. new \in Seq(Conds) /\ IsInjective(new) /\ Range(new) = Range(o) \cup {c}
    BY <1>1, <1>2, AroundElement
<1>4. \A K : c \notin K => Kept(new, K) = Kept(o, K)
    BY <1>1, <1>2, KeptAround
<1> QED
    BY <1>3, <1>4 DEF new

LEMMA InsertAllShape ==
    ASSUME NEW so \in Seq(Conds), NEW o \in Seq(Conds), IsInjective(o),
           NEW s \in Seq(Conds), IsInjective(s), Range(o) \cap Range(s) = {}
    PROVE  LET new == InsertAllBySourceOrder(o, s, so)
           IN  /\ new \in Seq(Conds) /\ IsInjective(new) /\ Range(new) = Range(o) \cup Range(s)
               /\ \A K : K \cap Range(s) = {} => Kept(new, K) = Kept(o, K)
<1> DEFINE All(t) == InsertAllBySourceOrder(o, t, so)
           Shaped(t) == /\ All(t) \in Seq(Conds) /\ IsInjective(All(t)) /\ Range(All(t)) = Range(o) \cup Range(t)
                        /\ \A K : K \cap Range(t) = {} => Kept(All(t), K) = Kept(o, K)
           S == {t \in Seq(Conds) : IsInjective(t) /\ Range(o) \cap Range(t) = {} => Shaped(t)}
<1>1. <<>> \in S
    BY InsertAllEmpty, EmptySeq, RangeOfEmpty
<1>2. ASSUME NEW t \in Seq(Conds), NEW e \in Conds, t \in S PROVE Append(t, e) \in S
    <2> SUFFICES ASSUME IsInjective(Append(t, e)), Range(o) \cap Range(Append(t, e)) = {}
                 PROVE  Shaped(Append(t, e))
        BY AppendProperties
    <2>1. IsInjective(t) /\ e \notin Range(t) /\ Range(Append(t, e)) = Range(t) \cup {e}
        BY InjectiveAppend, RangeOfAppend
    <2>2. Shaped(t) /\ e \notin Range(All(t))
        BY <1>2, <2>1
    <2>3. All(Append(t, e)) = InsertBySourceOrder(All(t), e, so)
        BY InsertAllAppend
    <2> DEFINE u == All(t)
               v == InsertBySourceOrder(u, e, so)
    <2>4. u \in Seq(Conds) /\ IsInjective(u) /\ e \notin Range(u)
        BY <2>2
    <2> HIDE DEF u
    <2>5. /\ v \in Seq(Conds) /\ IsInjective(v) /\ Range(v) = Range(u) \cup {e}
          /\ \A K : e \notin K => Kept(v, K) = Kept(u, K)
        BY <2>4, InsertShape
    <2>6. All(Append(t, e)) = v
        BY <2>3 DEF u
    <2> HIDE DEF v
    <2>7. /\ Range(u) = Range(o) \cup Range(t)
          /\ \A K : K \cap Range(t) = {} => Kept(u, K) = Kept(o, K)
        BY <2>2 DEF u
    <2>8. Range(v) = Range(o) \cup Range(Append(t, e))
        BY <2>1, <2>5, <2>7
    <2>9. \A K : K \cap Range(Append(t, e)) = {} => Kept(v, K) = Kept(o, K)
        BY <2>1, <2>5, <2>7
    <2> HIDE DEF All
    <2> QED
        BY <2>5, <2>6, <2>8, <2>9
<1> HIDE DEF S
<1>3. s \in S
    BY <1>1, <1>2, GrowSequence
<1> QED
    BY <1>3 DEF S

\* What both orders have comes in the same order in both.
SourceOrdered(o, so) == \A a, b \in Range(so) : Before(o, a, b) => Rank(so, a) < Rank(so, b)

LEMMA InsertFollows ==
    ASSUME NEW so \in Seq(Conds), NEW o \in Seq(Conds), IsInjective(o), SourceOrdered(o, so),
           NEW c \in Range(so), c \in Conds, c \notin Range(o)
    PROVE  SourceOrdered(InsertBySourceOrder(o, c, so), so)
<1> DEFINE new == InsertBySourceOrder(o, c, so)
<1>1. PICK x \in Seq(Conds), y \in Seq(Conds) : Cut(o, x, y, c, so) /\ new = (x \o <<c>>) \o y
    BY InsertCuts
<1>2. o = x \o y /\ Range(o) = Range(x) \cup Range(y)
    BY <1>1, ConcatRange DEF Cut
<1> HIDE DEF new
<1>3. \A a, b : Before(new, a, b) <=> Before(o, a, b) \/ (a \in Range(x) /\ b = c) \/ (a = c /\ b \in Range(y))
    BY <1>1, <1>2, AroundElement
<1>4. \A a, b : (Before(y, a, b) \/ (a \in Range(x) /\ b \in Range(y))) => Before(o, a, b)
    BY <1>2, BeforeConcat
<1>5. \A d \in Range(so) : Rank(so, d) \in Nat
    BY RankIsNatural
<1>6. ASSUME NEW a \in Range(so), a \in Range(x)
      PROVE  Rank(so, a) < Rank(so, c)
    <2>1. a \in Range(o) /\ a # c
        BY <1>2, <1>6
    <2> SUFFICES ASSUME Rank(so, a) > Rank(so, c)
                 PROVE  FALSE
        BY <1>5, <2>1, RanksDiffer
    <2>2. a \in Later(o, c, so)
        BY <2>1 DEF Later
    <2>3. PICK e : IsSuccessor(e, o, c, so)
        BY <2>2, NearestExist
    <2>4. y # <<>> /\ y[1] = e /\ e \in Range(so) /\ Rank(so, e) <= Rank(so, a)
        BY <1>1, <2>2, <2>3 DEF Cut, IsSuccessor, Later
    <2>5. Before(o, a, e)
        BY <1>4, <1>6, <2>4, EndsAreInRange
    <2> QED
        BY <1>5, <2>4, <2>5 DEF SourceOrdered
<1>7. ASSUME NEW b \in Range(so), b \in Range(y)
      PROVE  Rank(so, c) < Rank(so, b)
    <2>1. b \in Range(o) /\ b # c
        BY <1>2, <1>7
    <2> SUFFICES ASSUME Rank(so, b) < Rank(so, c)
                 PROVE  FALSE
        BY <1>5, <2>1, RanksDiffer
    <2>2. b \in Earlier(o, c, so)
        BY <2>1 DEF Earlier
    <2>3. CASE Later(o, c, so) # {}
        <3>1. PICK e : IsSuccessor(e, o, c, so)
            BY <2>3, NearestExist
        <3>2. y # <<>> /\ y[1] = e /\ e \in Range(so) /\ Rank(so, e) > Rank(so, c)
            BY <1>1, <3>1 DEF Cut, IsSuccessor, Later
        <3>3. b # e
            BY <1>5, <3>2
        <3>4. Before(o, e, b)
            BY <1>4, <1>7, <3>2, <3>3, FirstComesBefore
        <3> QED
            BY <1>5, <3>2, <3>4 DEF SourceOrdered
    <2>4. CASE Later(o, c, so) = {}
        <3>1. PICK e : IsPredecessor(e, o, c, so)
            BY <2>2, NearestExist
        <3>2. x # <<>> /\ x[Len(x)] = e /\ e \in Range(so) /\ Rank(so, e) >= Rank(so, b)
            BY <1>1, <2>2, <2>4, <3>1 DEF Cut, IsPredecessor, Earlier
        <3>3. Before(o, e, b)
            BY <1>4, <1>7, <3>2, EndsAreInRange
        <3> QED
            BY <1>5, <3>2, <3>3 DEF SourceOrdered
    <2> QED
        BY <2>3, <2>4
<1> QED
    BY <1>3, <1>6, <1>7 DEF new, SourceOrdered

LEMMA InsertAllFollows ==
    ASSUME NEW so \in Seq(Conds), NEW o \in Seq(Conds), IsInjective(o), SourceOrdered(o, so),
           NEW s \in Seq(Conds), IsInjective(s), Range(o) \cap Range(s) = {}, Range(s) \subseteq Range(so)
    PROVE  SourceOrdered(InsertAllBySourceOrder(o, s, so), so)
<1> DEFINE All(t) == InsertAllBySourceOrder(o, t, so)
           Fits(t) == IsInjective(t) /\ Range(o) \cap Range(t) = {} /\ Range(t) \subseteq Range(so)
           S == {t \in Seq(Conds) : Fits(t) => SourceOrdered(All(t), so)}
<1>1. <<>> \in S
    BY InsertAllEmpty, EmptySeq
<1>2. ASSUME NEW t \in Seq(Conds), NEW e \in Conds, t \in S PROVE Append(t, e) \in S
    <2> SUFFICES ASSUME Fits(Append(t, e))
                 PROVE  SourceOrdered(All(Append(t, e)), so)
        BY AppendProperties
    <2>1. Fits(t) /\ e \notin Range(t) /\ e \notin Range(o) /\ e \in Range(so)
        BY InjectiveAppend, RangeOfAppend
    <2>2. All(t) \in Seq(Conds) /\ IsInjective(All(t)) /\ Range(All(t)) = Range(o) \cup Range(t)
        BY <2>1, InsertAllShape
    <2>3. All(Append(t, e)) = InsertBySourceOrder(All(t), e, so)
        BY InsertAllAppend
    <2>4. SourceOrdered(All(t), so)
        BY <1>2, <2>1
    <2> HIDE DEF All
    <2> QED
        BY <2>1, <2>2, <2>3, <2>4, InsertFollows
<1> HIDE DEF S
<1>3. s \in S
    BY <1>1, <1>2, GrowSequence
<1> QED
    BY <1>3 DEF S

LEMMA SourceFollowsItself ==
    ASSUME NEW so \in Seq(Conds), IsInjective(so)
    PROVE  SourceOrdered(so, so)
<1> SUFFICES ASSUME NEW a \in Range(so), NEW b \in Range(so), Before(so, a, b)
             PROVE  Rank(so, a) < Rank(so, b)
    BY DEF SourceOrdered
<1>1. PICK i \in DOMAIN so, j \in DOMAIN so : i < j /\ so[i] = a /\ so[j] = b
    BY DEF Before
<1>2. Rank(so, a) = i /\ Rank(so, b) = j
    BY <1>1, RankPositive DEF IsInjective
<1> QED
    BY <1>1, <1>2

\* Two orders of the same conditions that agree with the source are one.
LEMMA SameOrder ==
    ASSUME NEW so \in Seq(Conds), NEW s \in Seq(Conds), NEW t \in Seq(Conds), IsInjective(s), IsInjective(t),
           Range(s) = Range(t), Range(s) \subseteq Range(so), SourceOrdered(s, so), SourceOrdered(t, so)
    PROVE  s = t
<1> DEFINE Fits(u) == IsInjective(u) /\ Range(u) \subseteq Range(so) /\ SourceOrdered(u, so)
           S == {u \in Seq(Conds) : \A w \in Seq(Conds) : Fits(u) /\ Fits(w) /\ Range(u) = Range(w) => u = w}
<1>1. <<>> \in S
    <2>1. ASSUME NEW w \in Seq(Conds), Range(w) = {} PROVE w = <<>>
        BY <2>1, EndsAreInRange
    <2> QED
        BY <2>1, RangeOfEmpty, EmptySeq
<1>2. ASSUME NEW u \in Seq(Conds), NEW e \in Conds, u \in S PROVE Append(u, e) \in S
    <2> SUFFICES ASSUME NEW w \in Seq(Conds), Fits(Append(u, e)), Fits(w), Range(Append(u, e)) = Range(w)
                 PROVE  Append(u, e) = w
        BY AppendProperties
    <2>1. Range(Append(u, e)) = Range(u) \cup {e} /\ e \notin Range(u) /\ IsInjective(u)
        BY RangeOfAppend, InjectiveAppend
    <2>2. w # <<>>
        BY <2>1, RangeOfEmpty
    <2>3. PICK v \in Seq(Conds), f \in Conds : w = Append(v, f)
        BY <2>2, SequenceEmptyOrAppend
    <2>4. Range(w) = Range(v) \cup {f} /\ f \notin Range(v) /\ IsInjective(v)
        BY <2>3, RangeOfAppend, InjectiveAppend
    <2>5. e = f
        <3> SUFFICES ASSUME e # f PROVE FALSE
            OBVIOUS
        <3>1. e \in Range(v) /\ f \in Range(u) /\ e \in Range(so) /\ f \in Range(so)
            BY <2>1, <2>4
        <3>2. Before(w, e, f) /\ Before(Append(u, e), f, e)
            BY <2>3, <3>1, BeforeAppend
        <3>3. Rank(so, e) < Rank(so, f) /\ Rank(so, f) < Rank(so, e)
            BY <3>1, <3>2 DEF SourceOrdered
        <3> QED
            BY <3>1, <3>3, RankIsNatural
    <2>6. Range(u) = Range(v)
        <3> DEFINE ru == Range(u)
                   rv == Range(v)
        <3>1. ru \cup {e} = rv \cup {e} /\ e \notin ru /\ e \notin rv
            BY <2>1, <2>4, <2>5, Zenon
        <3> HIDE DEF ru, rv
        <3>2. \A x : x \in ru \cup {e} <=> x \in rv \cup {e}
            BY <3>1, Zenon
        <3>3. \A x : x \in ru <=> x \in rv
            BY <3>1, <3>2, Zenon
        <3>4. ru = rv
            BY <3>3, Zenon
        <3> QED
            BY <3>4 DEF ru, rv
    <2>7. SourceOrdered(u, so) /\ SourceOrdered(v, so)
        BY <2>3, BeforeAppend DEF SourceOrdered
    <2>8. u = v
        BY <1>2, <2>1, <2>4, <2>6, <2>7
    <2> QED
        BY <2>3, <2>5, <2>8
<1> HIDE DEF S
<1>3. s \in S
    BY <1>1, <1>2, GrowSequence
<1> QED
    BY <1>3 DEF S

LEMMA KeptFollows ==
    ASSUME NEW so \in Seq(Conds), IsInjective(so), NEW o \in Seq(Conds), IsInjective(o)
    PROVE  /\ SourceOrdered(o, so) => \A K : Range(o) \cap Range(so) \cap K = Range(o) \cap K
                                             /\ Range(o) \cap Range(so) \cap K = Range(so) \cap K
                                             => Kept(o, K) = Kept(so, K)
           /\ Kept(o, Range(o) \cap Range(so)) = Kept(so, Range(o) \cap Range(so)) => SourceOrdered(o, so)
<1>1. ASSUME SourceOrdered(o, so), NEW K,
             Range(o) \cap Range(so) \cap K = Range(o) \cap K, Range(o) \cap Range(so) \cap K = Range(so) \cap K
      PROVE  Kept(o, K) = Kept(so, K)
    <2>1. /\ Kept(o, K) \in Seq(Conds) /\ Kept(so, K) \in Seq(Conds)
          /\ IsInjective(Kept(o, K)) /\ IsInjective(Kept(so, K))
          /\ Range(Kept(o, K)) = Range(o) \cap K /\ Range(Kept(so, K)) = Range(so) \cap K
        BY KeptType, KeptInjective
    <2>2. SourceOrdered(Kept(o, K), so) /\ SourceOrdered(Kept(so, K), so)
        BY <1>1, KeptBefore, SourceFollowsItself DEF SourceOrdered
    <2>3. Range(Kept(o, K)) = Range(Kept(so, K)) /\ Range(Kept(o, K)) \subseteq Range(so)
        BY <1>1, <2>1
    <2> QED
        BY <2>1, <2>2, <2>3, SameOrder
<1>2. ASSUME Kept(o, Range(o) \cap Range(so)) = Kept(so, Range(o) \cap Range(so)),
             NEW a \in Range(so), NEW b \in Range(so), Before(o, a, b)
      PROVE  Rank(so, a) < Rank(so, b)
    <2> DEFINE K == Range(o) \cap Range(so)
    <2>1. a \in K /\ b \in K
        BY <1>2, BeforeIsInRange
    <2> HIDE DEF K
    <2>2. Before(Kept(o, K), a, b)
        BY <1>2, <2>1, KeptBefore
    <2>3. Before(Kept(so, K), a, b)
        BY <1>2, <2>2 DEF K
    <2>4. Before(so, a, b)
        BY <2>3, KeptBefore
    <2> QED
        BY <2>4, SourceFollowsItself DEF SourceOrdered
<1> QED
    BY <1>1, <1>2 DEF SourceOrdered

-----------------------------------------------------------------------------
\* What a change of a parameter is, for each of its slots.
LEMMA MovedPair ==
    ASSUME NEW current, NEW final, NEW m \in MovedSlots(current, final)
    PROVE  /\ m = <<m[1], m[2]>> /\ m[1] \in Slots /\ m[2] \in Slots /\ m[1][2] = m[2][2]
           /\ current.slots[m[1]] # None /\ final.slots[m[1]] = None
           /\ current.slots[m[2]] = None /\ final.slots[m[2]] # None
           /\ Lone(Gone(current, final, m[1][2])) /\ Lone(Gone(final, current, m[1][2]))
           /\ m[1] \in Gone(current, final, m[1][2]) /\ m[2] \in Gone(final, current, m[1][2])
<1>1. PICK p \in Params :
        /\ Lone(Gone(current, final, p)) /\ Lone(Gone(final, current, p))
        /\ m \in Gone(current, final, p) \X Gone(final, current, p)
    BY DEF MovedSlots
<1>2. m = <<m[1], m[2]>> /\ m[1] \in Gone(current, final, p) /\ m[2] \in Gone(final, current, p)
    BY <1>1
<1>3. /\ m[1] \in Slots /\ m[2] \in Slots /\ m[1][2] = p /\ m[2][2] = p
    BY <1>2 DEF Gone, Slots
<1> QED
    BY <1>1, <1>2, <1>3 DEF Gone

\* A slot is part of one move at most.
LEMMA OneMove ==
    ASSUME NEW current, NEW final,
           NEW m \in MovedSlots(current, final), NEW n \in MovedSlots(current, final)
    PROVE  /\ m[1] # n[2]
           /\ m[1] = n[1] => m[2] = n[2]
           /\ m[2] = n[2] => m[1] = n[1]
<1>1. m[1] # n[2]
    BY MovedPair
<1>2. m[1][2] = n[1][2] => m[1] = n[1] /\ m[2] = n[2]
    BY MovedPair DEF Lone
<1> QED
    BY <1>1, <1>2, MovedPair

-----------------------------------------------------------------------------
\* The diff says there is nothing to do exactly when the templates are the same.
THEOREM DiffersExactly ==
    ASSUME NEW current \in RemoteConfigs, NEW final \in RemoteConfigs,
           WellFormed(current), WellFormed(final)
    PROVE  Differ(current, final) <=> current # final
<1> DEFINE diff == CompareRemoteConfigs(current, final)
<1>1. ASSUME ~HasChanges(diff)
      PROVE  current = final
    <2>1. diff.conds = {} /\ diff.groups = {} /\ diff.params = {}
        BY <1>1 DEF HasChanges
    <2>2. ConditionChanges(current, final) = {} /\ GroupChanges(current, final) = {} /\ ParameterChanges(current, final) = {}
        BY <2>1 DEF CompareRemoteConfigs
    <2>3. \A c \in Conds : current.exprs[c] = final.exprs[c] /\ Rank(current.order, c) = Rank(final.order, c)
        BY <2>2 DEF ConditionChanges
    <2>4. \A g \in Groups : current.groups[g] = final.groups[g]
        BY <2>2 DEF GroupChanges
    <2>5. \A s \in Slots : current.slots[s] = final.slots[s]
        <3>1. MovedSlots(current, final) = {}
            BY <2>2 DEF ParameterChanges
        <3> QED
            BY <2>2, <3>1 DEF ParameterChanges
    <2>6. current.exprs = final.exprs /\ current.groups = final.groups /\ current.slots = final.slots
        BY <2>3, <2>4, <2>5 DEF RemoteConfigs
    <2>7. current.order = final.order
        <3>1. current.order \in Seq(Conds) /\ final.order \in Seq(Conds)
            BY DEF RemoteConfigs
        <3>2. Range(current.order) = Range(final.order)
            BY <2>6 DEF WellFormed, Defined
        <3>3. \A c \in Range(current.order) : c \in Conds
            BY DEF WellFormed, Defined
        <3> QED
            BY <3>1, <3>2, <3>3, <2>3, SameRanksSameOrder DEF WellFormed
    <2> QED
        BY <2>6, <2>7 DEF RemoteConfigs
<1>2. ASSUME current = final
      PROVE  ~HasChanges(diff)
    <2>1. \A p : Gone(current, final, p) = {}
        BY <1>2 DEF Gone
    <2>2. MovedSlots(current, final) = {}
        BY <2>1 DEF MovedSlots
    <2> QED
        BY <1>2, <2>2 DEF HasChanges, CompareRemoteConfigs, ConditionChanges, GroupChanges, ParameterChanges
<1> QED
    BY <1>1, <1>2 DEF Differ

-----------------------------------------------------------------------------
(***************************************************************************)
(* Reading a preview back.                                                 *)
(***************************************************************************)

LEMMA ReadPrinted ==
    ASSUME NEW was, NEW is
    PROVE  Read(was, Printed(was, is)) = is
<1>1. CASE was = is
    BY <1>1 DEF Read, Printed
<1>2. CASE was # is
    <2>1. Printed(was, is) = {is}
        BY <1>2 DEF Printed
    <2> QED
        BY <2>1 DEF Read
<1> QED
    BY <1>1, <1>2

\* A changed parameter has a slot on each side that holds it, and no other.
LEMMA ChangeShape ==
    ASSUME NEW current, NEW final, NEW x \in ParameterChanges(current, final)
    PROVE  /\ \/ x.from = {} /\ x.was = None
              \/ \E s \in Slots : x.from = {s} /\ x.was = current.slots[s] /\ x.was # None
           /\ \/ x.to = {} /\ x.is = None
              \/ \E s \in Slots : x.to = {s} /\ x.is = final.slots[s] /\ x.is # None
           /\ \A s \in x.from \cup x.to : current.slots[s] # final.slots[s]
<1>1. CASE \E m \in MovedSlots(current, final) :
            x = [from |-> {m[1]}, to |-> {m[2]}, was |-> current.slots[m[1]], is |-> final.slots[m[2]]]
    BY <1>1, MovedPair
<1>2. CASE \E s \in Slots :
            /\ current.slots[s] # final.slots[s]
            /\ x = [from |-> {y \in {s} : current.slots[y] # None}, to |-> {y \in {s} : final.slots[y] # None},
                    was |-> current.slots[s], is |-> final.slots[s]]
    BY <1>2
<1> QED
    BY <1>1, <1>2 DEF ParameterChanges

\* Only one change brings a parameter to a slot, and whatever a slot comes to hold
\* or loses is a change.
LEMMA OneChange ==
    ASSUME NEW current, NEW final, NEW x \in ParameterChanges(current, final),
           NEW y \in ParameterChanges(current, final), NEW s \in x.to, s \in y.to
    PROVE  x = y
<1> DEFINE move(m) == [from |-> {m[1]}, to |-> {m[2]}, was |-> current.slots[m[1]], is |-> final.slots[m[2]]]
           stay(t) == [from |-> {z \in {t} : current.slots[z] # None}, to |-> {z \in {t} : final.slots[z] # None},
                       was |-> current.slots[t], is |-> final.slots[t]]
           stayed(t) == \A m \in MovedSlots(current, final) : t \notin {m[1], m[2]}
<1>1. \A z \in ParameterChanges(current, final) :
        \/ \E m \in MovedSlots(current, final) : z = move(m)
        \/ \E t \in Slots : stayed(t) /\ z = stay(t)
    BY DEF ParameterChanges
<1>2. \A m : s \in move(m).to => m[2] = s
    OBVIOUS
<1>3. \A t : s \in stay(t).to => t = s
    OBVIOUS
<1>4. ASSUME NEW m \in MovedSlots(current, final), NEW n \in MovedSlots(current, final), m[2] = n[2]
      PROVE  move(m) = move(n)
    <2>1. m[1] = n[1]
        BY <1>4, OneMove
    <2> QED
        BY <2>1, <1>4
<1>5. CASE \E m \in MovedSlots(current, final) : x = move(m)
    <2>1. PICK m \in MovedSlots(current, final) : x = move(m)
        BY <1>5
    <2>2. m[2] = s
        BY <2>1, <1>2
    <2>3. ~\E t \in Slots : stayed(t) /\ y = stay(t)
        BY <2>2, <1>3
    <2>4. PICK n \in MovedSlots(current, final) : y = move(n)
        BY <2>3, <1>1
    <2>5. n[2] = s
        BY <2>4, <1>2
    <2> QED
        BY <2>1, <2>2, <2>4, <2>5, <1>4
<1>6. CASE \E t \in Slots : stayed(t) /\ x = stay(t)
    <2>1. PICK t \in Slots : stayed(t) /\ x = stay(t)
        BY <1>6
    <2>2. t = s
        BY <2>1, <1>3
    <2>3. ~\E m \in MovedSlots(current, final) : y = move(m)
        BY <2>1, <2>2, <1>2
    <2>4. \E u \in Slots : y = stay(u)
        BY <2>3, <1>1
    <2> QED
        BY <2>1, <2>2, <2>4, <1>3
<1> QED
    BY <1>1, <1>5, <1>6

LEMMA EveryChange ==
    ASSUME NEW current, NEW final, NEW s \in Slots, current.slots[s] # final.slots[s]
    PROVE  \E x \in ParameterChanges(current, final) :
              IF final.slots[s] # None THEN s \in x.to ELSE s \in x.from
<1>1. CASE \E m \in MovedSlots(current, final) : s \in {m[1], m[2]}
    <2>1. PICK m \in MovedSlots(current, final) : s \in {m[1], m[2]}
        BY <1>1
    <2>2. [from |-> {m[1]}, to |-> {m[2]}, was |-> current.slots[m[1]], is |-> final.slots[m[2]]]
            \in ParameterChanges(current, final)
        BY <2>1 DEF ParameterChanges
    <2> QED
        BY <2>1, <2>2, MovedPair
<1>2. CASE \A m \in MovedSlots(current, final) : s \notin {m[1], m[2]}
    <2>1. [from |-> {y \in {s} : current.slots[y] # None}, to |-> {y \in {s} : final.slots[y] # None},
           was |-> current.slots[s], is |-> final.slots[s]] \in ParameterChanges(current, final)
        BY <1>2 DEF ParameterChanges
    <2> QED
        BY <2>1
<1> QED
    BY <1>1, <1>2

\* The line of a parameter that is there afterwards gives its values.
LEMMA LineReads ==
    ASSUME NEW current \in RemoteConfigs, NEW final \in RemoteConfigs,
           NEW x \in ParameterChanges(current, final), NEW s \in x.to
    PROVE  ReadValues(current, ParameterLine(x)) = final.slots[s]
<1> DEFINE l == ParameterLine(x)
           was == ValuesOf(x.was)
<1>1. x.is = final.slots[s] /\ x.is # None /\ x.to # {} /\ s \in Slots
    BY ChangeShape
<1>2. x.is \in ParamStates
    BY <1>1 DEF RemoteConfigs
<1>3. /\ l.from = x.from
      /\ l.default = Printed(was.default, x.is.default)
      /\ \A c \in Conds : l.cond[c] = Printed(was.cond[c], x.is.cond[c])
    BY <1>1 DEF ParameterLine, ValuesOf
<1>4. was = IF l.from = {} THEN ValuesOf(None) ELSE current.slots[CHOOSE u \in l.from : TRUE]
    BY <1>3, ChangeShape DEF ValuesOf
<1>5. ReadValues(current, l) =
        [default |-> Read(was.default, l.default), cond |-> [c \in Conds |-> Read(was.cond[c], l.cond[c])]]
    BY <1>4 DEF ReadValues
<1>6. ReadValues(current, l) = [default |-> x.is.default, cond |-> [c \in Conds |-> x.is.cond[c]]]
    BY <1>3, <1>5, ReadPrinted
<1> QED
    BY <1>1, <1>2, <1>6 DEF ParamStates

\* The preview of a change, read against the template it was made on, tells the
\* outcome: nothing a publication changes is missing from what the user is asked
\* about.
THEOREM PreviewReads ==
    ASSUME NEW current \in RemoteConfigs, NEW final \in RemoteConfigs,
           WellFormed(current), WellFormed(final)
    PROVE  IsReading(final, current, RenderResult(CompareRemoteConfigs(current, final)))
<1> DEFINE preview == RenderResult(CompareRemoteConfigs(current, final))
<1>1. /\ preview.params = {ParameterLine(x) : x \in ParameterChanges(current, final)}
      /\ preview.groups = {[group |-> x.group, is |-> x.is] : x \in GroupChanges(current, final)}
      /\ preview.conds = {ConditionLine(x) : x \in ConditionChanges(current, final)}
    BY DEF RenderResult, CompareRemoteConfigs
<1>2. \A x : ParameterLine(x).from = x.from /\ ParameterLine(x).to = x.to
    BY DEF ParameterLine
<1> HIDE DEF preview
<1>3. ASSUME NEW s \in Slots
      PROVE  final.slots[s] = ReadSlot(current, preview, s)
    <2>1. CASE current.slots[s] = final.slots[s]
        <3>1. \A x \in ParameterChanges(current, final) : s \notin x.from /\ s \notin x.to
            BY <2>1, ChangeShape
        <3>2. \A l \in preview.params : s \notin l.from /\ s \notin l.to
            BY <3>1, <1>1, <1>2
        <3> QED
            BY <2>1, <3>2 DEF ReadSlot
    <2>2. CASE current.slots[s] # final.slots[s] /\ final.slots[s] = None
        <3>1. \A x \in ParameterChanges(current, final) : s \notin x.to
            BY <2>2, ChangeShape
        <3>2. \E x \in ParameterChanges(current, final) : s \in x.from
            BY <2>2, EveryChange
        <3>3. (\A l \in preview.params : s \notin l.to) /\ \E l \in preview.params : s \in l.from
            BY <3>1, <3>2, <1>1, <1>2
        <3> QED
            BY <2>2, <3>3 DEF ReadSlot
    <2>3. CASE current.slots[s] # final.slots[s] /\ final.slots[s] # None
        <3>1. PICK x \in ParameterChanges(current, final) : s \in x.to
            BY <2>3, EveryChange
        <3>2. ParameterLine(x) \in preview.params /\ s \in ParameterLine(x).to
            BY <3>1, <1>1, <1>2
        <3>3. \A l \in preview.params : s \in l.to => l = ParameterLine(x)
            BY <3>1, <1>1, <1>2, OneChange
        <3>4. (CHOOSE l \in preview.params : s \in l.to) = ParameterLine(x)
            BY <3>2, <3>3
        <3>5. ReadSlot(current, preview, s) = ReadValues(current, ParameterLine(x))
            BY <3>2, <3>4 DEF ReadSlot
        <3> QED
            BY <3>1, <3>5, LineReads
    <2> QED
        BY <2>1, <2>2, <2>3
<1>4. ASSUME NEW g \in Groups
      PROVE  final.groups[g] = ReadGroup(current, preview, g)
    <2> DEFINE change == [group |-> g, was |-> current.groups[g], is |-> final.groups[g]]
    <2>1. \A l \in preview.groups : l.group = g => current.groups[g] # final.groups[g] /\ l.is = final.groups[g]
        <3>1. \A x \in GroupChanges(current, final) :
                x.group = g => current.groups[g] # final.groups[g] /\ x.is = final.groups[g]
            BY DEF GroupChanges
        <3> QED
            BY <3>1, <1>1
    <2>2. ASSUME current.groups[g] # final.groups[g]
          PROVE  \E l \in preview.groups : l.group = g
        <3>1. change \in GroupChanges(current, final)
            BY <2>2 DEF GroupChanges
        <3>2. [group |-> change.group, is |-> change.is] \in preview.groups
            BY <3>1, <1>1
        <3> QED
            BY <3>2
    <2> QED
        BY <2>1, <2>2 DEF ReadGroup
<1>5. ASSUME NEW c \in Conds
      PROVE  /\ final.exprs[c] = ReadExpr(current, preview, c)
             /\ c \in Defined(current) \cap Defined(final) =>
                    Rank(final.order, c) = ReadRank(current, preview, c)
    <2> DEFINE change == [cond |-> c, was |-> current.exprs[c], is |-> final.exprs[c],
                          from |-> Rank(current.order, c), to |-> Rank(final.order, c)]
    <2>1. \A l \in preview.conds : l.cond = c => l = ConditionLine(change)
        <3>1. \A x \in ConditionChanges(current, final) : x.cond = c => x = change
            BY DEF ConditionChanges
        <3>2. \A x : ConditionLine(x).cond = x.cond
            BY DEF ConditionLine
        <3> QED
            BY <3>1, <3>2, <1>1
    <2>2. (\E l \in preview.conds : l.cond = c) <=>
            (current.exprs[c] # final.exprs[c] \/ Rank(current.order, c) # Rank(final.order, c))
        <3>1. \A x \in ConditionChanges(current, final) : x.cond = c =>
                (current.exprs[c] # final.exprs[c] \/ Rank(current.order, c) # Rank(final.order, c))
            BY DEF ConditionChanges
        <3>2. (current.exprs[c] # final.exprs[c] \/ Rank(current.order, c) # Rank(final.order, c))
                => change \in ConditionChanges(current, final)
            BY DEF ConditionChanges
        <3>3. \A x : ConditionLine(x).cond = x.cond
            BY DEF ConditionLine
        <3>4. change.cond = c
            OBVIOUS
        <3> HIDE DEF change
        <3> QED
            BY <3>1, <3>2, <3>3, <3>4, <1>1
    <2>3. (\E l \in preview.conds : l.cond = c) =>
            (CHOOSE l \in preview.conds : l.cond = c) = ConditionLine(change)
        BY <2>1
    <2>4. final.exprs[c] = ReadExpr(current, preview, c)
        <3>1. ConditionLine(change).is = final.exprs[c]
            BY DEF ConditionLine
        <3> QED
            BY <2>2, <2>3, <3>1 DEF ReadExpr
    <2>5. ASSUME c \in Defined(current) \cap Defined(final)
          PROVE  Rank(final.order, c) = ReadRank(current, preview, c)
        <3>1. Rank(final.order, c) # 0
            BY <2>5, RankPositive DEF WellFormed, RemoteConfigs
        <3>2. ConditionLine(change).at =
                IF Rank(current.order, c) # Rank(final.order, c) THEN Rank(final.order, c) ELSE 0
            BY <2>5 DEF ConditionLine, Defined
        <3> QED
            BY <2>1, <2>2, <2>3, <3>1, <3>2 DEF ReadRank
    <2> QED
        BY <2>4, <2>5
<1> QED
    BY <1>3, <1>4, <1>5 DEF IsReading, preview, Defined

\* Every preview of a promotion or an import tells all, whatever the templates and
\* the selection, as long as the templates held are well-formed.
THEOREM TypedPreviewTellsAll == TypeOK => PreviewTellsAll
<1> SUFFICES ASSUME TypeOK
             PROVE  PreviewTellsAll
    OBVIOUS
<1>1. ASSUME Promoting \/ Importing
      PROVE  Tells(mem.current, mem.candidate)
    <2>1. pc \in {"put", "review"}
        BY <1>1 DEF Promoting, Importing
    <2>2. \A cfg \in {mem.current, mem.candidate} : cfg \in RemoteConfigs /\ WellFormed(cfg)
        BY <2>1 DEF TypeOK
    <2> QED
        BY <2>2, PreviewReads DEF Tells
<1>2. ASSUME Promoting, pc = "review"
      PROVE  Tells(history[mem.shown], mem.publish)
    <2>1. mem.op = "promoteReviewed"
        BY <1>2 DEF Promoting
    <2>2. mem.publish \in RemoteConfigs /\ WellFormed(mem.publish)
        BY <2>1 DEF TypeOK
    <2>3. history[mem.shown] \in RemoteConfigs /\ WellFormed(history[mem.shown])
        BY <2>1, <1>2 DEF TypeOK, OneHome
    <2> QED
        BY <2>2, <2>3, PreviewReads DEF Tells
<1> QED
    BY <1>1, <1>2 DEF PreviewTellsAll

-----------------------------------------------------------------------------
(***************************************************************************)
(* What an operation holds while the target changes under it.  Nothing     *)
(* here looks inside a template.                                           *)
(***************************************************************************)

IsMem(m) ==
    m = [op |-> m.op, choice |-> m.choice, prune |-> m.prune, current |-> m.current,
         candidate |-> m.candidate, publish |-> m.publish, etag |-> m.etag, shown |-> m.shown]

Reviewing ==
    /\ mem.op \in {"promoteReviewed", "importReviewed"}
    /\ mem.shown \in DOMAIN history
    /\ mem.op = "importReviewed" =>
          LET current == Working(history[mem.shown])
          IN  /\ mem.candidate = Import(current, source, mem.choice)
              /\ EnsureOpaqueValuesUnchanged(current, mem.candidate)

Sending ==
    LET seen == history[mem.etag]
    IN  /\ mem.op \in Ops
        /\ mem.etag \in DOMAIN history
        /\ mem.op = "promote" => mem.candidate = Apply(source, seen, mem.choice, mem.prune)
        /\ mem.op = "import" => mem.candidate = Import(seen, source, mem.choice)
        /\ mem.op = "importReviewed" =>
              /\ mem.etag = mem.shown
              /\ mem.candidate = Import(seen, source, mem.choice)
              /\ EnsureOpaqueValuesUnchanged(seen, mem.candidate)
        /\ mem.op = "promoteReviewed" =>
              /\ mem.candidate = mem.publish
              /\ mem.candidate = MergeWithLatest(draft.base, draft.cfg, seen)
              /\ EnsureOpaqueValuesUnchanged(seen, mem.candidate)

Logged == (\E T : history \in Seq(T)) /\ history # <<>> /\ others \in Nat

TInv ==
    /\ Logged
    /\ IsMem(mem)
    /\ pc = "read" => mem.op = "promote"
    /\ pc = "review" => Reviewing
    /\ pc = "prepare" => mem.op = "promoteReviewed"
    /\ pc = "put" => Sending

LEMMA LatestIsLogged ==
    ASSUME Logged
    PROVE  Len(history) \in DOMAIN history
BY DEF Logged

\* A version once logged stays.
LEMMA LogGrows ==
    ASSUME Logged, NEW cfg, history' = Append(history, cfg)
    PROVE  /\ (\E T : history' \in Seq(T)) /\ history' # <<>>
           /\ \A v \in DOMAIN history : v \in DOMAIN history' /\ history'[v] = history[v]
           /\ Latest' = cfg /\ history' # history
<1>1. PICK T : history \in Seq(T)
    BY DEF Logged
<1>2. history \in Seq(T \cup {cfg}) /\ cfg \in T \cup {cfg}
    BY <1>1
<1>3. history' \in Seq(T \cup {cfg}) /\ Len(history') = Len(history) + 1
    BY <1>2
<1> QED
    BY <1>2, <1>3 DEF Latest

LEMMA InitTInv == Init => TInv
<1> SUFFICES ASSUME Init
             PROVE  TInv
    OBVIOUS
<1>1. PICK cfg \in Targets : history = <<cfg>>
    BY DEF Init
<1>2. history \in Seq({cfg}) /\ history # <<>>
    BY <1>1
<1> QED
    BY <1>2 DEF Init, TInv, Logged, IsMem, Blank

\* Nobody writes: what is sent or reviewed stands as long as the draft does.
LEMMA Waiting ==
    ASSUME TInv, UNCHANGED <<source, history, others>>, IsMem(mem'), pc' = "done"
    PROVE  TInv'
BY DEF TInv, Logged, IsMem

LEMMA Asking ==
    ASSUME TInv, Next, ~Accept, UNCHANGED history
    PROVE  TInv'
<1> USE DEF TInv
<1>0. Logged' /\ source' = source
    <2>1. source' = source /\ (others' = others \/ others' = others + 1)
        <3>1. CASE BeginPromote \/ ReadTarget \/ BeginImport \/ ImportToDraft \/ ReviewPromotion \/ ReviewImport
            BY <3>1 DEF BeginPromote, ReadTarget, BeginImport, ImportToDraft, ReviewPromotion, ReviewImport
        <3>2. CASE SaveReviewed \/ PublishImport \/ StagePromotion \/ PreparePromotion
            BY <3>2 DEF SaveReviewed, PublishImport, StagePromotion, PreparePromotion
        <3>3. CASE Put \/ PutAnswerLost \/ PutRefused \/ Stop \/ OthersPublish
            BY <3>3 DEF Put, PutAnswerLost, PutRefused, Stop, OthersPublish
        <3> QED
            BY <3>1, <3>2, <3>3 DEF Next
    <2> QED
        BY <2>1 DEF Logged
<1>1. ASSUME BeginPromote PROVE TInv'
    BY <1>0, <1>1 DEF BeginPromote, Goto, Blank, IsMem
<1>2. ASSUME ReadTarget PROVE TInv'
    <2>1. CASE pc' = "done"
        BY <1>0, <1>2, <2>1 DEF ReadTarget, Finish, Goto, IsMem
    <2>2. CASE pc' # "done"
        <3> DEFINE candidate == Apply(source, Latest, mem.choice, mem.prune)
        <3>1. /\ mem' = [mem EXCEPT !.current = Latest, !.candidate = candidate, !.etag = Len(history)]
              /\ pc' = "put" /\ pc = "read"
            BY <1>2, <2>2 DEF ReadTarget, Finish, Goto
        <3> HIDE DEF candidate
        <3>2. /\ IsMem(mem') /\ mem'.op = "promote" /\ mem'.choice = mem.choice /\ mem'.prune = mem.prune
              /\ mem'.candidate = candidate /\ mem'.etag = Len(history)
            BY <3>1 DEF IsMem
        <3>3. Sending'
            BY <1>0, <3>2, LatestIsLogged DEF Sending, Ops, candidate, Latest
        <3> QED
            BY <1>0, <3>1, <3>2, <3>3
    <2> QED
        BY <2>1, <2>2
<1>3. ASSUME BeginImport PROVE TInv'
    <2>1. PICK choice \in ImportChoices(Latest) :
            /\ pc' = "put"
            /\ mem' = [Blank EXCEPT !.op = "import", !.choice = choice, !.current = Latest,
                                    !.candidate = Import(Latest, source, choice), !.etag = Len(history)]
        BY <1>3 DEF BeginImport, Goto
    <2> DEFINE candidate == Import(Latest, source, choice)
    <2> HIDE DEF candidate
    <2>2. /\ IsMem(mem') /\ mem'.op = "import" /\ mem'.choice = choice
          /\ mem'.candidate = candidate /\ mem'.etag = Len(history)
        BY <2>1 DEF IsMem, Blank, candidate
    <2>3. Sending'
        BY <1>0, <2>2, LatestIsLogged DEF Sending, Ops, candidate, Latest
    <2> QED
        BY <1>0, <2>1, <2>2, <2>3
<1>4. ASSUME ImportToDraft PROVE TInv'
    BY <1>4, Waiting DEF ImportToDraft, Finish, Goto
<1>5. ASSUME ReviewPromotion PROVE TInv'
    <2> DEFINE current(v) == Working(history[v])
               candidate(v, chosen, prune) == Apply(source, current(v), chosen, prune)
               holds(v, chosen, prune) ==
                   [Blank EXCEPT !.op = "promoteReviewed", !.choice = chosen, !.prune = prune,
                                 !.current = current(v), !.candidate = candidate(v, chosen, prune),
                                 !.publish = PublishPreview(candidate(v, chosen, prune), history[v]),
                                 !.shown = v]
    <2>1. PICK v \in DOMAIN history : \E prune \in BOOLEAN :
            \E chosen \in Selections(current(v), prune) : pc' = "review" /\ mem' = holds(v, chosen, prune)
        BY <1>5 DEF ReviewPromotion, Goto
    <2>2. PICK prune \in BOOLEAN : \E chosen \in Selections(current(v), prune) :
            pc' = "review" /\ mem' = holds(v, chosen, prune)
        BY <2>1
    <2>3. PICK chosen : pc' = "review" /\ mem' = holds(v, chosen, prune)
        BY <2>2
    <2>4. IsMem(mem') /\ mem'.op = "promoteReviewed" /\ mem'.shown = v
        BY <2>3 DEF IsMem, Blank
    <2> QED
        BY <1>0, <2>1, <2>3, <2>4 DEF Reviewing
<1>6. ASSUME ReviewImport PROVE TInv'
    <2>1. PICK shown \in DOMAIN history : \E choice \in ImportChoices(Working(history[shown])) :
            LET current == Working(history[shown])
                candidate == Import(current, source, choice)
            IN  /\ EnsureOpaqueValuesUnchanged(current, candidate)
                /\ pc' = "review"
                /\ mem' = [Blank EXCEPT !.op = "importReviewed", !.choice = choice,
                       !.current = current, !.candidate = candidate, !.shown = shown]
        BY <1>6 DEF ReviewImport, Goto
    <2> DEFINE current == Working(history[shown])
    <2>2. PICK choice : LET candidate == Import(current, source, choice)
            IN  /\ EnsureOpaqueValuesUnchanged(current, candidate)
                /\ pc' = "review"
                /\ mem' = [Blank EXCEPT !.op = "importReviewed", !.choice = choice,
                       !.current = current, !.candidate = candidate, !.shown = shown]
        BY <2>1
    <2> DEFINE candidate == Import(current, source, choice)
    <2>3. EnsureOpaqueValuesUnchanged(current, candidate) /\ candidate = Import(current, source, choice)
        BY <2>2
    <2>4. mem' = [Blank EXCEPT !.op = "importReviewed", !.choice = choice,
                       !.current = current, !.candidate = candidate, !.shown = shown]
        BY <2>2
    <2>5. current' = current
        BY <1>6 DEF ReviewImport, Working
    <2> HIDE DEF candidate, current
    <2>6. /\ IsMem(mem') /\ mem'.op = "importReviewed" /\ mem'.shown = shown /\ mem'.choice = choice
          /\ mem'.candidate = candidate
        BY <2>4 DEF IsMem, Blank
    <2>7. Working(history[mem.shown])' = current
        BY <2>5, <2>6 DEF current
    <2>8. Reviewing'
        BY <1>0, <2>3, <2>6, <2>7 DEF Reviewing
    <2> QED
        BY <1>0, <2>2, <2>6, <2>8
<1>7. ASSUME SaveReviewed PROVE TInv'
    BY <1>7, Waiting DEF SaveReviewed, Finish, Goto
<1>8. ASSUME PublishImport PROVE TInv'
    <2>1. CASE pc' = "done"
        BY <1>8, <2>1, Waiting DEF PublishImport, Finish, Goto
    <2>2. CASE pc' # "done"
        <3>1. /\ pc = "review" /\ pc' = "put" /\ mem.op = "importReviewed" /\ draft = None
              /\ mem.shown = Len(history) /\ mem' = [mem EXCEPT !.etag = mem.shown]
            BY <1>8, <2>2 DEF PublishImport, Finish, Goto
        <3>2. /\ IsMem(mem') /\ mem'.op = mem.op /\ mem'.choice = mem.choice /\ mem'.candidate = mem.candidate
              /\ mem'.shown = mem.shown /\ mem'.etag = mem.shown
            BY <3>1 DEF IsMem
        <3>3. Sending'
            BY <1>0, <3>1, <3>2 DEF Reviewing, Working, Sending, Ops
        <3> QED
            BY <1>0, <3>1, <3>2, <3>3
    <2> QED
        BY <2>1, <2>2
<1>9. ASSUME StagePromotion PROVE TInv'
    <2>1. /\ mem' = mem /\ mem.op = "promoteReviewed"
          /\ pc' \in {"prepare", "done"}
        BY <1>9 DEF StagePromotion, Finish, Goto
    <2> QED
        BY <1>0, <2>1 DEF IsMem
<1>10. ASSUME PreparePromotion PROVE TInv'
    <2>1. CASE pc' = "done"
        BY <1>10, <2>1, Waiting DEF PreparePromotion, Finish, Goto
    <2>2. CASE pc' # "done"
        <3> DEFINE merged == MergeWithLatest(draft.base, draft.cfg, Latest)
        <3>1. /\ pc = "prepare" /\ pc' = "put" /\ UNCHANGED draft /\ merged # Latest
              /\ EnsureOpaqueValuesUnchanged(Latest, merged) /\ merged = mem.publish
              /\ mem' = [mem EXCEPT !.candidate = merged, !.etag = Len(history)]
            BY <1>10, <2>2 DEF PreparePromotion, Finish, Goto
        <3> HIDE DEF merged
        <3>2. /\ IsMem(mem') /\ mem'.op = "promoteReviewed" /\ mem'.candidate = merged
              /\ mem'.publish = mem.publish /\ mem'.etag = Len(history)
            BY <3>1 DEF IsMem
        <3>3. Sending'
            BY <1>0, <3>1, <3>2, LatestIsLogged DEF Sending, Ops, merged, Latest
        <3> QED
            BY <1>0, <3>1, <3>2, <3>3
    <2> QED
        BY <2>1, <2>2
<1>11. ASSUME PutRefused PROVE TInv'
    <2>1. mem' = mem /\ \/ pc' = "done"
                        \/ pc' = "read" /\ mem.op = "promote"
        BY <1>11 DEF PutRefused, Finish, Goto
    <2> QED
        BY <1>0, <2>1 DEF IsMem
<1>12. ASSUME Stop PROVE TInv'
    BY <1>12, Waiting DEF Stop, Finish, Goto
<1>13. ~Put /\ ~PutAnswerLost
    BY DEF Put, PutAnswerLost
<1>14. ASSUME OthersPublish PROVE TInv'
    <2>1. \E cfg : history' = Append(history, cfg)
        BY <1>14 DEF OthersPublish
    <2> QED
        BY <2>1, LogGrows
<1> QED
    BY <1>1, <1>2, <1>3, <1>4, <1>5, <1>6, <1>7, <1>8, <1>9, <1>10, <1>11, <1>12, <1>13, <1>14 DEF Next

LEMMA Writing ==
    ASSUME TInv, Next, history' # history
    PROVE  TInv'
<1> USE DEF TInv
<1>1. CASE OthersPublish
    <2>1. PICK cfg : history' = Append(history, cfg)
        BY <1>1 DEF OthersPublish
    <2>2. Logged' /\ UNCHANGED <<source, draft, pc, mem>>
        BY <1>1, <2>1, LogGrows DEF OthersPublish, Logged
    <2>3. Reviewing => Reviewing'
        <3>1. \A cur : Working(cur)' = Working(cur)
            BY <2>2 DEF Working
        <3> QED
            BY <2>1, <2>2, LogGrows DEF Reviewing, Working
    <2>4. Sending => Sending'
        BY <2>1, <2>2, LogGrows DEF Sending
    <2> QED
        BY <2>2, <2>3, <2>4
<1>2. CASE Put \/ PutAnswerLost
    <2>1. history' = Append(history, mem.candidate) /\ others' = others
        BY <1>2 DEF Put, PutAnswerLost, Accept
    <2>2. Logged'
        BY <2>1, LogGrows DEF Logged
    <2>3. mem' = mem /\ pc' \in {"done", "read"} /\ (pc' = "read" => mem.op = "promote")
        BY <1>2 DEF Put, PutAnswerLost, Finish, Goto
    <2> QED
        BY <2>2, <2>3 DEF IsMem
<1> QED
    BY <1>1, <1>2 DEF Next, BeginPromote, ReadTarget, BeginImport, ImportToDraft, ReviewPromotion,
       ReviewImport, SaveReviewed, PublishImport, StagePromotion, PreparePromotion, PutRefused, Stop

THEOREM TransferInvariant == Spec => []TInv
<1>1. TInv /\ [Next]_vars => TInv'
    <2> SUFFICES ASSUME TInv, [Next]_vars
                 PROVE  TInv'
        OBVIOUS
    <2>1. CASE UNCHANGED vars
        BY <2>1 DEF vars, TInv, Logged, IsMem, Reviewing, Working, Sending
    <2>2. CASE Next /\ history' # history
        BY <2>2, Writing
    <2>3. CASE Next /\ history' = history
        <3>1. ~Accept
            BY <2>3, LogGrows DEF Accept, TInv
        <3> QED
            BY <2>3, <3>1, Asking
    <2> QED
        BY <2>1, <2>2, <2>3
<1> QED
    BY InitTInv, <1>1, PTL DEF Spec

\* A write of the operation is an accepted update of what it sends.
LEMMA OursIsAccepted ==
    ASSUME TInv, Next, Ours
    PROVE  /\ Sending /\ pc = "put" /\ mem.etag = Len(history)
           /\ Latest' = mem.candidate /\ UNCHANGED source
<1>1. ~OthersPublish
    BY DEF Ours, OthersPublish, TInv, Logged
<1>2. Put \/ PutAnswerLost
    BY <1>1 DEF Ours, Next, BeginPromote, ReadTarget, BeginImport, ImportToDraft, ReviewPromotion,
       ReviewImport, SaveReviewed, PublishImport, StagePromotion, PreparePromotion, PutRefused, Stop
<1>3. Accept /\ UNCHANGED source
    BY <1>2 DEF Put, PutAnswerLost
<1> QED
    BY <1>3, LogGrows DEF Accept, TInv

\* Every write an operation gets accepted is what it makes of the very template it
\* replaces (publishPromotePlan, ExecuteProjectImport, PublishProjectPromotion),
\* for any number of writes of others and lost answers.
THEOREM TransferIsExact == Spec => AcceptedIsExact
<1>1. TInv /\ [Next]_vars => [Ours => MadeOfReplaced]_vars
    <2> SUFFICES ASSUME TInv, Next, Ours
                 PROVE  MadeOfReplaced
        BY DEF vars
    <2>1. /\ Sending /\ history[mem.etag] = Latest /\ Latest' = mem.candidate
        BY OursIsAccepted DEF Latest
    <2> QED
        BY <2>1 DEF MadeOfReplaced, Sending, Ops
<1> QED
    BY <1>1, TransferInvariant, PTL DEF Spec, AcceptedIsExact

\* A reviewed operation publishes what the review showed, or nothing, and leaves
\* every Firebase-managed value where it is.
THEOREM ReviewIsKept == Spec => ReviewedIsSafe
<1>1. TInv /\ [Next]_vars => [Ours => ReviewedAsShown /\ ReviewedKeepManaged]_vars
    <2> SUFFICES ASSUME TInv, Next, Ours
                 PROVE  ReviewedAsShown /\ ReviewedKeepManaged
        BY DEF vars
    <2>1. /\ Sending /\ history[mem.etag] = Latest /\ Latest' = mem.candidate
        BY OursIsAccepted DEF Latest
    <2>2. mem.op \in {"promoteReviewed", "importReviewed"} => OpaqueIn(mem.candidate) = OpaqueIn(Latest)
        BY <2>1 DEF Sending, EnsureOpaqueValuesUnchanged
    <2>3. OpaqueIn(Latest') = OpaqueIn(mem.candidate)
        BY <2>1
    <2> QED
        BY <2>1, <2>2, <2>3 DEF ReviewedAsShown, ReviewedKeepManaged, Sending
<1> QED
    BY <1>1, TransferInvariant, PTL DEF Spec, ReviewedIsSafe

-----------------------------------------------------------------------------
(***************************************************************************)
(* What a promotion moves.                                                 *)
(***************************************************************************)

\* A well-formed template, part by part.
Laid(cfg) ==
    /\ cfg = [slots |-> cfg.slots, groups |-> cfg.groups, exprs |-> cfg.exprs, order |-> cfg.order]
    /\ cfg.slots \in [Slots -> ParamStates \cup {None}]
    /\ cfg.groups \in [Groups -> Descs \cup {None}]
    /\ cfg.exprs \in [Conds -> Exprs \cup {None}]
    /\ \A g \in Groups, p \in Params : cfg.slots[<<g, p>>] # None => cfg.groups[g] # None

Ordered(cfg) ==
    /\ cfg.order \in Seq(Conds)
    /\ Range(cfg.order) = Defined(cfg)
    /\ IsInjective(cfg.order)

Sound(cfg) == Laid(cfg) /\ Ordered(cfg)

LEMMA SoundIsTemplate == \A cfg : Sound(cfg) <=> cfg \in RemoteConfigs /\ WellFormed(cfg)
BY DEF Sound, Laid, Ordered, RemoteConfigs, WellFormed, InSlot

\* Every conditional value is of a condition the template defines.
Resolved(cfg) ==
    \A s \in Slots, c \in Conds :
        cfg.slots[s] # None /\ cfg.slots[s].cond[c] # None => c \in Defined(cfg)

Valued(cfg) == \A s \in Slots : cfg.slots[s] # None => HasValues(cfg.slots[s])

\* A well-formed template with nothing to clean up.
Clean(cfg) == Sound(cfg) /\ Resolved(cfg) /\ Valued(cfg)

Single(cfg) == \A s, x \in Slots : s[2] = x[2] /\ cfg.slots[s] # None /\ cfg.slots[x] # None => s = x

LEMMA StripShape ==
    ASSUME NEW param \in ParamStates, NEW known
    PROVE  LET new == StripUnknown(param, known)
           IN  /\ new \in ParamStates \cup {None}
               /\ new # None => HasValues(new) /\ \A c \in Conds : c \notin known => new.cond[c] = None
               /\ (\A c \in Conds : param.cond[c] # None => c \in known) => new \in {param, None}
               /\ (\A c \in Conds : param.cond[c] # None => c \in known) /\ HasValues(param) => new = param
<1> DEFINE values == [c \in Conds |-> IF c \in known THEN param.cond[c] ELSE None]
           kept == [param EXCEPT !.cond = values]
<1>1. param = [default |-> param.default, cond |-> param.cond] /\ param.cond \in [Conds -> Values \cup {None}]
      /\ param.default \in Values \cup {None}
    BY DEF ParamStates
<1>2. values \in [Conds -> Values \cup {None}]
    BY <1>1
<1>3. kept = [default |-> param.default, cond |-> values]
    BY <1>1
<1>4. kept \in ParamStates
    BY <1>1, <1>2, <1>3 DEF ParamStates
<1>5. (\A c \in Conds : param.cond[c] # None => c \in known) => kept = param
    <2>1. ASSUME \A c \in Conds : param.cond[c] # None => c \in known
          PROVE  values = param.cond
        BY <1>1, <2>1
    <2> QED
        BY <1>1, <1>3, <2>1
<1>6. \A c \in Conds : c \notin known => kept.cond[c] = None
    BY <1>3
<1>7. StripUnknown(param, known) = IF HasValues(kept) THEN kept ELSE None
    BY DEF StripUnknown
<1> HIDE DEF kept, values
<1> QED
    BY <1>4, <1>5, <1>6, <1>7

\* The cleanup: what is left is resolved, and nothing appears.
LEMMA DropShape ==
    ASSUME NEW cfg, Sound(cfg)
    PROVE  LET new == DropUnknownConditionReferences(cfg)
           IN  /\ Clean(new)
               /\ new.groups = cfg.groups /\ new.exprs = cfg.exprs /\ new.order = cfg.order
               /\ \A s \in Slots : new.slots[s] =
                    IF cfg.slots[s] = None THEN None ELSE StripUnknown(cfg.slots[s], Defined(cfg))
<1> DEFINE new == DropUnknownConditionReferences(cfg)
<1>1. /\ new.slots = [s \in Slots |-> IF cfg.slots[s] = None THEN None
                                      ELSE StripUnknown(cfg.slots[s], Defined(cfg))]
      /\ new.groups = cfg.groups
      /\ new.exprs = cfg.exprs
      /\ new.order = cfg.order
      /\ new = [slots |-> new.slots, groups |-> new.groups, exprs |-> new.exprs, order |-> new.order]
    BY DEF Sound, Laid, DropUnknownConditionReferences
<1> HIDE DEF new
<1>2. ASSUME NEW s \in Slots, cfg.slots[s] # None
      PROVE  cfg.slots[s] \in ParamStates
    BY <1>2 DEF Sound, Laid
<1>3. new.slots \in [Slots -> ParamStates \cup {None}]
    BY <1>1, <1>2, StripShape
<1>4. \A g \in Groups, p \in Params : <<g, p>> \in Slots
    BY DEF Slots, Places
<1>5. \A g \in Groups, p \in Params : new.slots[<<g, p>>] # None => new.groups[g] # None
    BY <1>1, <1>4 DEF Sound, Laid
<1>6. Resolved(new)
    <2> SUFFICES ASSUME NEW s \in Slots, new.slots[s] # None, NEW c \in Conds, c \notin Defined(cfg)
                 PROVE  new.slots[s].cond[c] = None
        BY <1>1 DEF Resolved, Defined
    <2>1. cfg.slots[s] # None /\ new.slots[s] = StripUnknown(cfg.slots[s], Defined(cfg))
        BY <1>1
    <2> QED
        BY <2>1, <1>2, StripShape
<1>7. Valued(new)
    <2> SUFFICES ASSUME NEW s \in Slots, new.slots[s] # None
                 PROVE  HasValues(new.slots[s])
        BY DEF Valued
    <2>1. cfg.slots[s] # None /\ new.slots[s] = StripUnknown(cfg.slots[s], Defined(cfg))
        BY <1>1
    <2> QED
        BY <2>1, <1>2, StripShape
<1>8. Laid(new)
    BY <1>1, <1>3, <1>5 DEF Sound, Laid
<1>9. Ordered(new)
    BY <1>1 DEF Sound, Ordered, Defined
<1> QED
    BY <1>1, <1>6, <1>7, <1>8, <1>9 DEF new, Sound, Clean

\* Cleaning up again finds nothing, and what is clean stays as it is.
LEMMA CleanIsFixed ==
    ASSUME NEW cfg, Sound(cfg)
    PROVE  Clean(cfg) <=> DropUnknownConditionReferences(cfg) = cfg
<1> DEFINE new == DropUnknownConditionReferences(cfg)
<1>1. /\ Clean(new)
      /\ new.groups = cfg.groups /\ new.exprs = cfg.exprs /\ new.order = cfg.order
      /\ \A s \in Slots : new.slots[s] =
            IF cfg.slots[s] = None THEN None ELSE StripUnknown(cfg.slots[s], Defined(cfg))
    BY DropShape
<1> HIDE DEF new
<1>2. ASSUME Clean(cfg) PROVE new = cfg
    <2>1. ASSUME NEW s \in Slots PROVE new.slots[s] = cfg.slots[s]
        <3>1. cfg.slots[s] # None => /\ cfg.slots[s] \in ParamStates /\ HasValues(cfg.slots[s])
                                     /\ \A c \in Conds : cfg.slots[s].cond[c] # None => c \in Defined(cfg)
            BY <1>2 DEF Clean, Sound, Laid, Resolved, Valued
        <3> QED
            BY <1>1, <3>1, StripShape
    <2>2. new.slots = cfg.slots
        BY <1>1, <2>1 DEF Clean, Sound, Laid
    <2> QED
        BY <1>1, <2>2 DEF Clean, Sound, Laid
<1>3. ASSUME new = cfg PROVE Clean(cfg)
    BY <1>1, <1>3
<1> QED
    BY <1>2, <1>3 DEF new

\* One home for a name in two templates' terms: ValidForUpdate counts the homes.
LEMMA ValidIsSingle ==
    ASSUME NEW cfg, ValidForUpdate(cfg)
    PROVE  Single(cfg)
<1>1. IsFiniteSet(Places)
    BY GroupsAreFinite, FS_AddElement DEF Places
<1> SUFFICES ASSUME NEW s \in Slots, NEW x \in Slots, s[2] = x[2], cfg.slots[s] # None, cfg.slots[x] # None
             PROVE  s = x
    BY DEF Single
<1> DEFINE homes == Homes(cfg, s[2])
<1>2. s = <<s[1], s[2]>> /\ x = <<x[1], x[2]>> /\ s[2] \in Params /\ s[1] \in homes /\ x[1] \in homes
    BY DEF Slots, Homes, InSlot
<1>3. IsFiniteSet(homes) /\ Cardinality(homes) \in Nat
    BY <1>1, FS_Subset, FS_CardinalityType DEF Homes
<1>4. Cardinality(homes) <= 1
    BY <1>2 DEF ValidForUpdate
<1>5. Cardinality(homes) = 0 => homes = {}
    BY <1>3, FS_EmptySet
<1>6. Cardinality(homes) = 1 => \E y : homes = {y}
    BY <1>3, FS_Singleton
<1>7. \E y : homes = {y}
    BY <1>2, <1>3, <1>4, <1>5, <1>6
<1> QED
    BY <1>2, <1>7

-----------------------------------------------------------------------------
\* The fields of the result of a promotion.
Fields(new, from, closed, slots, groups, exprs) ==
    /\ new.exprs = exprs
    /\ \A x \in Slots : new.slots[x] =
          IF slots[x] = None THEN None ELSE StripUnknown(slots[x], Defined(new))
    /\ \A g \in Groups : \/ new.groups[g] = groups[g]
                         \/ new.groups[g] = None /\ g \in closed.groups /\ from.groups[g] = None
    /\ \A g \in Groups : new.groups[g] =
          IF /\ g \in closed.groups /\ from.groups[g] = None
             /\ \A p \in Params : new.slots[<<g, p>>] = None
          THEN None ELSE groups[g]

\* The order a promotion makes: all conditions it leaves, the arriving ones inserted.
LEMMA PromotedOrder ==
    ASSUME NEW from, NEW target, NEW closed, NEW prune, Sound(from), Sound(target)
    PROVE  LET exprs == PromoteExprs(from, target, closed, prune)
               arriving == closed.conds \cap Defined(from)
               left == {c \in Conds : exprs[c] # None}
               new == PromoteOrder(from, target, closed, exprs)
           IN  /\ arriving \subseteq left
               /\ left \ arriving \subseteq Defined(target)
               /\ new \in Seq(Conds) /\ IsInjective(new) /\ Range(new) = left
               /\ \A K : K \cap arriving = {} => Kept(new, K) = Kept(Kept(target.order, left \ arriving), K)
<1> DEFINE exprs == PromoteExprs(from, target, closed, prune)
           arriving == closed.conds \cap Defined(from)
           left == {c \in Conds : exprs[c] # None}
           remaining == Kept(target.order, left \ arriving)
           coming == Kept(from.order, arriving)
           new == PromoteOrder(from, target, closed, exprs)
<1>1. \A c \in Conds : exprs[c] = IF c \in closed.conds /\ (from.exprs[c] # None \/ prune) THEN from.exprs[c]
                                  ELSE target.exprs[c]
    BY DEF PromoteExprs
<1>2. new = InsertAllBySourceOrder(remaining, coming, from.order)
    BY DEF PromoteOrder
<1> HIDE DEF exprs, new
<1>3. arriving \subseteq left /\ left \ arriving \subseteq Defined(target) /\ arriving \subseteq Defined(from)
    BY <1>1 DEF Defined
<1>4. /\ from.order \in Seq(Conds) /\ IsInjective(from.order) /\ Range(from.order) = Defined(from)
      /\ target.order \in Seq(Conds) /\ IsInjective(target.order) /\ Range(target.order) = Defined(target)
    BY DEF Sound, Ordered
<1> HIDE DEF arriving, left
<1>5. remaining \in Seq(Conds) /\ IsInjective(remaining) /\ Range(remaining) = left \ arriving
    BY <1>3, <1>4, KeptType, KeptInjective
<1>6. coming \in Seq(Conds) /\ IsInjective(coming) /\ Range(coming) = arriving
    <2>1. coming \in Seq(Conds) /\ Range(coming) = Range(from.order) \cap arriving
        BY <1>4, KeptType
    <2>2. IsInjective(coming)
        BY <1>4, KeptInjective
    <2> HIDE DEF coming
    <2> QED
        BY <1>3, <1>4, <2>1, <2>2
<1> HIDE DEF remaining, coming
<1>7. /\ new \in Seq(Conds) /\ IsInjective(new) /\ Range(new) = Range(remaining) \cup Range(coming)
      /\ \A K : K \cap Range(coming) = {} => Kept(new, K) = Kept(remaining, K)
    BY <1>2, <1>4, <1>5, <1>6, InsertAllShape
<1>8. Range(new) = left
    BY <1>3, <1>5, <1>6, <1>7
<1>9. \A K : K \cap arriving = {} => Kept(new, K) = Kept(remaining, K)
    BY <1>6, <1>7
<1> QED
    BY <1>3, <1>7, <1>8, <1>9, Zenon DEF new, exprs, arriving, left, remaining

LEMMA ApplyFields ==
    ASSUME NEW from, NEW target, NEW selected, NEW prune, Sound(from), Sound(target)
    PROVE  LET new == Apply(from, target, selected, prune)
               closed == WithDependencies(from, target, selected, prune)
               slots == PromoteSlots(from, target, selected.slots \cap ParameterItems(from, target, prune))
               groups == PromoteGroups(from, target, closed, prune, slots)
               exprs == PromoteExprs(from, target, closed, prune)
           IN  /\ Clean(new) /\ Fields(new, from, closed, slots, groups, exprs)
               /\ new.order = PromoteOrder(from, target, closed, exprs)
<1> DEFINE closed == WithDependencies(from, target, selected, prune)
           chosen == selected.slots \cap ParameterItems(from, target, prune)
           slots == PromoteSlots(from, target, chosen)
           groups == PromoteGroups(from, target, closed, prune, slots)
           exprs == PromoteExprs(from, target, closed, prune)
           order == PromoteOrder(from, target, closed, exprs)
           made == [slots |-> slots, groups |-> groups, exprs |-> exprs, order |-> order]
           cleaned == DropUnknownConditionReferences(made)
           gone(g) == /\ g \in closed.groups
                      /\ from.groups[g] = None
                      /\ \A p \in Params : cleaned.slots[<<g, p>>] = None
           new == Apply(from, target, selected, prune)
<1>1. new = [cleaned EXCEPT !.groups = [g \in Groups |-> IF gone(g) THEN None ELSE cleaned.groups[g]]]
    BY DEF Apply
<1>2. /\ slots \in [Slots -> ParamStates \cup {None}]
      /\ groups \in [Groups -> Descs \cup {None}]
      /\ exprs \in [Conds -> Exprs \cup {None}]
    BY EmptyDescIsDesc DEF PromoteSlots, PromoteGroups, PromoteExprs, Sound, Laid
<1>3. ASSUME NEW g \in Groups, NEW p \in Params, slots[<<g, p>>] # None
      PROVE  groups[g] # None
    BY <1>3, EmptyDescIsDesc, NoneIsNoData DEF PromoteGroups
<1>4. order \in Seq(Conds) /\ IsInjective(order) /\ Range(order) = {c \in Conds : exprs[c] # None}
    BY PromotedOrder
<1> HIDE DEF slots, groups, exprs, order
<1>5. Sound(made) /\ made.slots = slots /\ made.groups = groups /\ made.exprs = exprs /\ made.order = order
    BY <1>2, <1>3, <1>4 DEF Sound, Laid, Ordered, Defined
<1> HIDE DEF made
<1>6. /\ Clean(cleaned)
      /\ cleaned.groups = groups /\ cleaned.exprs = exprs /\ cleaned.order = order
      /\ \A s \in Slots : cleaned.slots[s] =
            IF slots[s] = None THEN None ELSE StripUnknown(slots[s], Defined(made))
    BY <1>5, DropShape
<1> HIDE DEF cleaned
<1>7. /\ new.slots = cleaned.slots /\ new.exprs = exprs /\ new.order = order
      /\ new.groups = [g \in Groups |-> IF gone(g) THEN None ELSE groups[g]]
      /\ new = [slots |-> new.slots, groups |-> new.groups, exprs |-> new.exprs, order |-> new.order]
    BY <1>1, <1>6 DEF Clean, Sound, Laid
<1> HIDE DEF new
<1>8. Defined(new) = Defined(made) /\ Defined(new) = Defined(cleaned)
    BY <1>5, <1>6, <1>7 DEF Defined
<1>9. new.groups \in [Groups -> Descs \cup {None}]
    BY <1>2, <1>7
<1>10. ASSUME NEW g \in Groups, NEW p \in Params, new.slots[<<g, p>>] # None
       PROVE  new.groups[g] # None
    BY <1>6, <1>7, <1>10 DEF Clean, Sound, Laid
<1>11. Clean(new)
    <2>1. Sound(new)
        BY <1>6, <1>7, <1>8, <1>9, <1>10 DEF Clean, Sound, Laid, Ordered
    <2>2. Resolved(new) /\ Valued(new)
        BY <1>6, <1>7, <1>8 DEF Clean, Resolved, Valued
    <2> QED
        BY <2>1, <2>2 DEF Clean
<1>12. Fields(new, from, closed, slots, groups, exprs)
    BY <1>6, <1>7, <1>8 DEF Fields
<1> QED
    BY <1>7, <1>11, <1>12, Zenon DEF new, slots, groups, exprs, order

\* A parameter the source has otherwise than the target is an item.
LEMMA DifferenceIsItem ==
    ASSUME NEW from, NEW target, NEW prune, NEW s \in Slots,
           from.slots[s] # None, target.slots[s] # from.slots[s]
    PROVE  s \in ParameterItems(from, target, prune)
<1>1. PICK x \in ParameterChanges(target, from) : s \in x.to
    BY EveryChange
<1>2. x.to # {} /\ x.is # None
    BY <1>1, ChangeShape
<1>3. x \in Eligible(ParameterChanges(target, from), prune)
    BY <1>2 DEF Eligible
<1> QED
    BY <1>1, <1>2, <1>3 DEF ParameterItems

LEMMA ItemIsSlot ==
    ASSUME NEW from, NEW target, NEW prune
    PROVE  ParameterItems(from, target, prune) \subseteq Slots
<1>1. \A x \in ParameterChanges(target, from) : x.to \subseteq Slots /\ x.from \subseteq Slots
    BY ChangeShape
<1> QED
    BY <1>1 DEF ParameterItems, Eligible

IsSelection(selected) ==
    selected = [slots |-> selected.slots, groups |-> selected.groups, conds |-> selected.conds]

\* A selected parameter arrives with its values, in its place and no other, and
\* unless the target has it already, with the definitions behind the values and
\* the description of its group (promote.Apply).
THEOREM SelectionArrives ==
    ASSUME NEW from, NEW target, NEW selected, NEW prune, IsSelection(selected),
           Sound(from), Resolved(from), Single(from), Sound(target),
           NEW s \in Slots, s \in selected.slots, from.slots[s] # None, HasValues(from.slots[s]),
           target.slots[s] # from.slots[s] \/ (Resolved(target) /\ Single(target))
           \/ s \in ParameterItems(from, target, prune)
    PROVE  LET new == Apply(from, target, selected, prune)
           IN  /\ new.slots[s] = from.slots[s]
               /\ \A x \in Slots : x[2] = s[2] /\ new.slots[x] # None => x = s
               /\ target.slots[s] # from.slots[s] =>
                    /\ \A c \in Conds : from.slots[s].cond[c] # None => new.exprs[c] = from.exprs[c]
                    /\ s[1] \in Groups => new.groups[s[1]] = from.groups[s[1]]
<1> DEFINE closed == WithDependencies(from, target, selected, prune)
           chosen == selected.slots \cap ParameterItems(from, target, prune)
           slots == PromoteSlots(from, target, chosen)
           groups == PromoteGroups(from, target, closed, prune, slots)
           exprs == PromoteExprs(from, target, closed, prune)
           new == Apply(from, target, selected, prune)
<1>0. Fields(new, from, closed, slots, groups, exprs)
    BY ApplyFields, Zenon
<1>1. /\ new.exprs = exprs
      /\ \A x \in Slots : new.slots[x] =
            IF slots[x] = None THEN None ELSE StripUnknown(slots[x], Defined(new))
      /\ \A g \in Groups : \/ new.groups[g] = groups[g]
                           \/ new.groups[g] = None /\ g \in closed.groups /\ from.groups[g] = None
    <2> HIDE DEF new, closed, slots, groups, exprs
    <2> QED
        BY <1>0 DEF Fields
<1>2. s \in chosen \/ (target.slots[s] = from.slots[s] /\ Resolved(target) /\ Single(target))
    BY DifferenceIsItem
<1>3. \A x \in Slots : x[2] = s[2] /\ from.slots[x] # None => x = s
    BY DEF Single
<1>4. chosen \subseteq Slots
    BY ItemIsSlot
<1>5. /\ closed.conds = selected.conds \cup
            {c \in Defined(from) : /\ from.exprs[c] # target.exprs[c]
                                   /\ \E x \in chosen : from.slots[x] # None /\ from.slots[x].cond[c] # None}
      /\ closed.groups = selected.groups \cup
            {g \in Groups : from.groups[g] # target.groups[g] /\ \E x \in chosen : x[1] = g}
    BY DEF WithDependencies, IsSelection
<1> HIDE DEF chosen, closed, new
<1>6. slots[s] = from.slots[s]
    BY <1>2, <1>3, <1>4 DEF PromoteSlots
<1>7. \A x \in Slots : x[2] = s[2] /\ slots[x] # None => x = s
    <2>1. CASE s \in chosen
        BY <1>3, <2>1 DEF PromoteSlots
    <2>2. CASE s \notin chosen
        BY <1>2, <1>3, <1>4, <2>2 DEF PromoteSlots, Single
    <2> QED
        BY <2>1, <2>2
<1>8. ASSUME NEW c \in Conds, from.slots[s].cond[c] # None
      PROVE  exprs[c] # None /\ (s \in chosen => exprs[c] = from.exprs[c])
    <2>1. c \in Defined(from) /\ from.exprs[c] # None
        BY <1>8 DEF Resolved, Defined
    <2>2. CASE s \in chosen
        <3>1. c \in closed.conds \/ from.exprs[c] = target.exprs[c]
            BY <1>5, <1>8, <2>1, <2>2
        <3> QED
            BY <2>1, <3>1 DEF PromoteExprs
    <2>3. CASE s \notin chosen
        <3>1. c \in Defined(target)
            BY <1>2, <1>8, <2>3 DEF Resolved
        <3> QED
            BY <2>1, <2>3, <3>1 DEF PromoteExprs, Defined
    <2> QED
        BY <2>2, <2>3
<1>9. ASSUME s \in chosen, s[1] \in Groups
      PROVE  new.groups[s[1]] = from.groups[s[1]]
    <2>1. from.groups[s[1]] # None
        <3>1. s = <<s[1], s[2]>> /\ s[2] \in Params
            BY DEF Slots
        <3> QED
            BY <3>1, <1>9 DEF Sound, Laid
    <2>2. s[1] \in closed.groups \/ from.groups[s[1]] = target.groups[s[1]]
        BY <1>5, <1>9
    <2>3. groups[s[1]] = from.groups[s[1]]
        BY <2>1, <2>2, <1>9 DEF PromoteGroups
    <2> QED
        BY <2>1, <2>3, <1>1, <1>9
<1> HIDE DEF slots, groups, exprs
<1>10. new.slots[s] = from.slots[s]
    <2>1. from.slots[s] \in ParamStates
        BY DEF Sound, Laid
    <2>2. \A c \in Conds : from.slots[s].cond[c] # None => c \in Defined(new)
        BY <1>1, <1>8 DEF Defined
    <2>3. StripUnknown(from.slots[s], Defined(new)) = from.slots[s]
        BY <2>1, <2>2, StripShape
    <2> QED
        BY <1>1, <1>6, <2>3
<1>11. \A x \in Slots : x[2] = s[2] /\ new.slots[x] # None => x = s
    BY <1>1, <1>7
<1>12. target.slots[s] # from.slots[s] => s \in chosen
    BY <1>2
<1> QED
    BY <1>1, <1>8, <1>9, <1>10, <1>11, <1>12 DEF new

\* What nobody selected stays: parameters, except for values of conditions that go,
\* groups and conditions (promote.Apply).
THEOREM UnselectedStays ==
    ASSUME NEW from, NEW target, NEW selected, NEW prune, IsSelection(selected), Sound(from), Sound(target)
    PROVE  LET new == Apply(from, target, selected, prune)
               closed == WithDependencies(from, target, selected, prune)
           IN  /\ \A s \in Slots : (target.slots[s] # None /\ \A x \in selected.slots : x[2] # s[2]) =>
                    new.slots[s] = StripUnknown(target.slots[s], Defined(new))
               /\ \A g \in Groups \ closed.groups : new.groups[g] = target.groups[g]
               /\ \A c \in Conds \ closed.conds : new.exprs[c] = target.exprs[c]
<1> DEFINE closed == WithDependencies(from, target, selected, prune)
           chosen == selected.slots \cap ParameterItems(from, target, prune)
           slots == PromoteSlots(from, target, chosen)
           groups == PromoteGroups(from, target, closed, prune, slots)
           exprs == PromoteExprs(from, target, closed, prune)
           new == Apply(from, target, selected, prune)
<1>0. Fields(new, from, closed, slots, groups, exprs)
    BY ApplyFields, Zenon
<1>1. /\ new.exprs = exprs
      /\ \A x \in Slots : new.slots[x] =
            IF slots[x] = None THEN None ELSE StripUnknown(slots[x], Defined(new))
      /\ \A g \in Groups : \/ new.groups[g] = groups[g]
                           \/ new.groups[g] = None /\ g \in closed.groups /\ from.groups[g] = None
    <2> HIDE DEF new, closed, slots, groups, exprs
    <2> QED
        BY <1>0 DEF Fields
<1>2. closed.groups = selected.groups \cup
            {g \in Groups : from.groups[g] # target.groups[g] /\ \E x \in chosen : x[1] = g}
    BY DEF WithDependencies, IsSelection
<1> HIDE DEF closed, new
<1>3. ASSUME NEW s \in Slots, target.slots[s] # None, \A x \in selected.slots : x[2] # s[2]
      PROVE  new.slots[s] = StripUnknown(target.slots[s], Defined(new))
    <2>1. slots[s] = target.slots[s]
        BY <1>3 DEF PromoteSlots
    <2> QED
        BY <1>1, <1>3, <2>1
<1>4. ASSUME NEW g \in Groups \ closed.groups
      PROVE  new.groups[g] = target.groups[g]
    <2>1. ASSUME NEW p \in Params, slots[<<g, p>>] # None, target.groups[g] = None
          PROVE  FALSE
        <3>1. target.slots[<<g, p>>] = None /\ <<g, p>> \in Slots
            BY <2>1 DEF Sound, Laid, Slots, Places
        <3>2. <<g, p>> \in chosen /\ from.slots[<<g, p>>] # None
            BY <2>1, <3>1 DEF PromoteSlots
        <3>3. from.groups[g] # None
            BY <3>2 DEF Sound, Laid
        <3>4. <<g, p>>[1] = g
            OBVIOUS
        <3> HIDE DEF chosen
        <3> QED
            BY <1>2, <1>4, <2>1, <3>2, <3>3, <3>4
    <2>2. groups[g] = target.groups[g]
        BY <1>4, <2>1 DEF PromoteGroups
    <2> QED
        BY <1>1, <1>4, <2>2
<1>5. \A c \in Conds \ closed.conds : new.exprs[c] = target.exprs[c]
    BY <1>1 DEF PromoteExprs
<1> QED
    BY <1>3, <1>4, <1>5 DEF closed, new

-----------------------------------------------------------------------------
(***************************************************************************)
(* Imports and merges leave templates sound and resolved.                  *)
(***************************************************************************)

LEMMA WithConditionsSound ==
    ASSUME NEW cfg, Sound(cfg), NEW kept
    PROVE  LET new == WithConditions(cfg, kept)
           IN  /\ Sound(new) /\ new.slots = cfg.slots /\ new.groups = cfg.groups
               /\ \A c \in Conds : new.exprs[c] = IF c \in kept THEN cfg.exprs[c] ELSE None
               /\ new.order = Kept(cfg.order, kept)
<1> DEFINE exprs == [c \in Conds |-> IF c \in kept THEN cfg.exprs[c] ELSE None]
           order == Kept(cfg.order, kept)
           new == WithConditions(cfg, kept)
<1>1. new = [cfg EXCEPT !.exprs = exprs, !.order = order]
    BY Zenon DEF WithConditions
<1>2. exprs \in [Conds -> Exprs \cup {None}]
    BY DEF Sound, Laid
<1>3. \A c \in Conds : exprs[c] = IF c \in kept THEN cfg.exprs[c] ELSE None
    OBVIOUS
<1>4. cfg.order \in Seq(Conds) /\ IsInjective(cfg.order) /\ Range(cfg.order) = Defined(cfg)
    BY DEF Sound, Ordered
<1>5. order \in Seq(Conds) /\ IsInjective(order) /\ Range(order) = Defined(cfg) \cap kept
    BY <1>4, KeptType, KeptInjective
<1> HIDE DEF new, exprs, order
<1>6. new.slots = cfg.slots /\ new.groups = cfg.groups /\ new.exprs = exprs /\ new.order = order
      /\ new = [slots |-> new.slots, groups |-> new.groups, exprs |-> new.exprs, order |-> new.order]
    BY <1>1 DEF Sound, Laid
<1>7. Defined(new) = Defined(cfg) \cap kept
    BY <1>3, <1>6 DEF Defined
<1>8. Laid(new)
    BY <1>2, <1>6 DEF Sound, Laid
<1>9. Ordered(new)
    BY <1>5, <1>6, <1>7 DEF Ordered
<1> QED
    BY <1>3, <1>6, <1>8, <1>9 DEF Sound, new, order

LEMMA FilterSound ==
    ASSUME NEW cfg, Sound(cfg), NEW groups, NEW slots
    PROVE  LET new == FilterSlots(cfg, groups, slots)
           IN  /\ Sound(new) /\ new.exprs = cfg.exprs /\ new.order = cfg.order
               /\ \A s \in Slots : new.slots[s] \in {cfg.slots[s], None}
<1> DEFINE x == [s \in Slots |-> IF s \in slots /\ (groups = {} \/ s[1] \in groups) THEN cfg.slots[s] ELSE None]
           y == [g \in Groups |-> IF groups = {} \/ g \in groups THEN cfg.groups[g] ELSE None]
           new == FilterSlots(cfg, groups, slots)
<1>1. new = [cfg EXCEPT !.slots = x, !.groups = y]
    BY Zenon DEF FilterSlots
<1>2. x \in [Slots -> ParamStates \cup {None}] /\ y \in [Groups -> Descs \cup {None}]
    BY DEF Sound, Laid
<1>3. ASSUME NEW g \in Groups, NEW p \in Params, x[<<g, p>>] # None
      PROVE  y[g] # None
    <2>1. <<g, p>> \in Slots /\ <<g, p>>[1] = g
        BY DEF Slots, Places
    <2>2. cfg.slots[<<g, p>>] # None /\ (groups = {} \/ g \in groups)
        BY <1>3, <2>1
    <2> QED
        BY <2>2 DEF Sound, Laid
<1>4. \A s \in Slots : x[s] \in {cfg.slots[s], None}
    OBVIOUS
<1> HIDE DEF new, x, y
<1>5. new.slots = x /\ new.groups = y /\ new.exprs = cfg.exprs /\ new.order = cfg.order
      /\ new = [slots |-> new.slots, groups |-> new.groups, exprs |-> new.exprs, order |-> new.order]
    BY <1>1 DEF Sound, Laid
<1>6. Laid(new)
    BY <1>2, <1>3, <1>5 DEF Sound, Laid
<1>7. Ordered(new)
    BY <1>5 DEF Sound, Ordered, Defined
<1> QED
    BY <1>4, <1>5, <1>6, <1>7 DEF Sound, new

LEMMA CleanupSound ==
    ASSUME NEW cfg, Sound(cfg)
    PROVE  Clean(Cleanup(cfg))
BY WithConditionsSound, DropShape DEF Cleanup, PruneUnusedConditions

LEMMA TransformSound ==
    ASSUME NEW cfg, Sound(cfg), NEW choice
    PROVE  Clean(Transform(cfg, choice))
<1> DEFINE filtered == FilterSlots(cfg, choice.groups, choice.slots)
           kept == KeptConditions(filtered, choice.policy)
<1>1. Sound(filtered)
    BY FilterSound
<1>2. Transform(cfg, choice) = Cleanup(DropUnknownConditionReferences(WithConditions(filtered, kept)))
    BY DEF Transform
<1> HIDE DEF filtered, kept
<1>3. Sound(DropUnknownConditionReferences(WithConditions(filtered, kept)))
    BY <1>1, WithConditionsSound, DropShape DEF Clean
<1> QED
    BY <1>2, <1>3, CleanupSound

\* A merged template, item by item.
Merged(new, one, other, theirs) ==
    /\ \A s \in Slots : new.slots[s] =
          IF one.slots[s] = None \/ (s \in theirs.slots /\ other.slots[s] # None)
          THEN other.slots[s] ELSE one.slots[s]
    /\ \A g \in Groups : new.groups[g] =
          IF one.groups[g] = None \/ (g \in theirs.groups /\ other.groups[g] # None)
          THEN other.groups[g] ELSE one.groups[g]
    /\ \A c \in Conds : new.exprs[c] =
          IF one.exprs[c] = None \/ (c \in theirs.conds /\ other.exprs[c] # None)
          THEN other.exprs[c] ELSE one.exprs[c]
    /\ new.order = one.order \o Kept(other.order, Conds \ Defined(one))

LEMMA MergeImportSound ==
    ASSUME NEW one, NEW other, NEW theirs, Sound(one), Sound(other)
    PROVE  Sound(MergeImport(one, other, theirs)) /\ Merged(MergeImport(one, other, theirs), one, other, theirs)
<1> DEFINE new == MergeImport(one, other, theirs)
           added == Kept(other.order, Conds \ Defined(one))
<1>1. /\ new = [slots |-> new.slots, groups |-> new.groups, exprs |-> new.exprs, order |-> new.order]
      /\ new.slots = [s \in Slots |->
            IF one.slots[s] = None \/ (s \in theirs.slots /\ other.slots[s] # None)
            THEN other.slots[s] ELSE one.slots[s]]
      /\ new.groups = [g \in Groups |->
            IF one.groups[g] = None \/ (g \in theirs.groups /\ other.groups[g] # None)
            THEN other.groups[g] ELSE one.groups[g]]
      /\ new.exprs = [c \in Conds |->
            IF one.exprs[c] = None \/ (c \in theirs.conds /\ other.exprs[c] # None)
            THEN other.exprs[c] ELSE one.exprs[c]]
      /\ new.order = one.order \o added
    BY DEF MergeImport
<1>2. \A g \in Groups, p \in Params : <<g, p>> \in Slots
    BY DEF Slots, Places
<1>3. /\ one.order \in Seq(Conds) /\ IsInjective(one.order) /\ Range(one.order) = Defined(one)
      /\ other.order \in Seq(Conds) /\ IsInjective(other.order) /\ Range(other.order) = Defined(other)
    BY DEF Sound, Ordered
<1>4. added \in Seq(Conds) /\ IsInjective(added) /\ Range(added) = Defined(other) \ Defined(one)
    <2>1. added \in Seq(Conds) /\ Range(added) = Range(other.order) \cap (Conds \ Defined(one))
        BY <1>3, KeptType
    <2>2. IsInjective(added)
        BY <1>3, KeptInjective
    <2> HIDE DEF added
    <2> QED
        BY <1>3, <2>1, <2>2 DEF Defined
<1> HIDE DEF new, added
<1>5. new.slots \in [Slots -> ParamStates \cup {None}] /\ new.groups \in [Groups -> Descs \cup {None}]
      /\ new.exprs \in [Conds -> Exprs \cup {None}]
    BY <1>1 DEF Sound, Laid
<1>6. \A g \in Groups, p \in Params : new.slots[<<g, p>>] # None => new.groups[g] # None
    BY <1>1, <1>2 DEF Sound, Laid
<1>7. Defined(new) = Defined(one) \cup Defined(other)
    BY <1>1 DEF Defined
<1>8. Ordered(new)
    <2>1. Range(one.order) \cap Range(added) = {} /\ Range(one.order) \cup Range(added) = Defined(new)
        BY <1>3, <1>4, <1>7
    <2> DEFINE joined == one.order \o added
    <2>2. joined \in Seq(Conds) /\ Range(joined) = Range(one.order) \cup Range(added) /\ IsInjective(joined)
        BY <1>3, <1>4, <2>1, ConcatRange
    <2> QED
        BY <1>1, <2>1, <2>2 DEF Ordered
<1>9. Sound(new)
    BY <1>1, <1>5, <1>6, <1>8 DEF Sound, Laid
<1>10. Merged(new, one, other, theirs)
    BY <1>1 DEF Merged, added
<1> QED
    BY <1>9, <1>10 DEF new

LEMMA ImportSound ==
    ASSUME NEW one, NEW other, NEW choice, Sound(one), Sound(other)
    PROVE  Clean(Import(one, other, choice))
<1>1. Sound(Transform(other, choice))
    BY TransformSound DEF Clean
<1>2. Sound(MergeImport(one, Transform(other, choice), choice.theirs))
    BY <1>1, MergeImportSound
<1> QED
    BY <1>1, <1>2, CleanupSound DEF Import

\* The order a merge makes: the chosen side's, and the conditions it lacks by name.
LEMMA MergedOrder ==
    ASSUME NEW order \in Seq(Conds), IsInjective(order), NEW defined \in SUBSET Conds
    PROVE  LET new == Kept(order, defined) \o Kept(CondSeq, defined \ Range(order))
           IN  new \in Seq(Conds) /\ Range(new) = defined /\ IsInjective(new)
<1> DEFINE x == Kept(order, defined)
           y == Kept(CondSeq, defined \ Range(order))
<1>1. CondSeq \in Seq(Conds) /\ IsInjective(CondSeq) /\ Range(CondSeq) = Conds
    BY CondSeqIsSeq DEF Conds
<1>2. x \in Seq(Conds) /\ Range(x) = Range(order) \cap defined /\ IsInjective(x)
    BY KeptType, KeptInjective
<1>3. y \in Seq(Conds) /\ Range(y) = Conds \cap (defined \ Range(order)) /\ IsInjective(y)
    BY <1>1, KeptType, KeptInjective
<1> HIDE DEF x, y
<1>4. Range(x) \cap Range(y) = {} /\ Range(x) \cup Range(y) = defined
    BY <1>2, <1>3
<1>5. x \o y \in Seq(Conds) /\ Range(x \o y) = Range(x) \cup Range(y) /\ IsInjective(x \o y)
    BY <1>2, <1>3, <1>4, ConcatRange
<1> QED
    BY <1>4, <1>5 DEF x, y

\* Without a conflict between the slots, whatever a merge puts into a group finds
\* the group there.
LEMMA MergeSound ==
    ASSUME NEW b, NEW d, NEW l, Sound(b), Sound(d), Sound(l), ~SlotConflict(b, d, l)
    PROVE  Clean(MergeWithLatest(b, d, l))
<1> DEFINE written(g) == \E p \in Params :
                /\ b.slots[<<g, p>>] # d.slots[<<g, p>>]
                /\ b.slots[<<g, p>>] = l.slots[<<g, p>>]
                /\ d.slots[<<g, p>>] # None
           deleted == {g \in Groups : b.groups[g] # None /\ d.groups[g] = None}
           slots1 == [s \in Slots |-> ThreeWay(b.slots[s], d.slots[s], l.slots[s])]
           groups1 == [g \in Groups |-> IF l.groups[g] = None /\ written(g) THEN EmptyDesc ELSE l.groups[g]]
           slots2 == [s \in Slots |-> IF s[1] \in deleted THEN None ELSE slots1[s]]
           groups2 == [g \in Groups |-> ThreeWay(b.groups[g], d.groups[g], groups1[g])]
           exprs3 == [c \in Conds |-> ThreeWay(b.exprs[c], d.exprs[c], l.exprs[c])]
           chosen == ThreeWay(b.order, d.order, l.order)
           defined == {c \in Conds : exprs3[c] # None}
           order3 == Kept(chosen, defined) \o Kept(CondSeq, defined \ Range(chosen))
           k1 == MergeSlots(b, d, l)
           k2 == MergeGroups(b, d, k1)
           k3 == MergeConditions(b, d, k2)
<1>1. k1 = [l EXCEPT !.slots = slots1, !.groups = groups1]
    BY Zenon DEF MergeSlots
<1>2. k2 = [k1 EXCEPT !.groups = [g \in Groups |-> ThreeWay(b.groups[g], d.groups[g], k1.groups[g])],
                      !.slots = [s \in Slots |-> IF s[1] \in deleted THEN None ELSE k1.slots[s]]]
    BY Zenon DEF MergeGroups
<1>3. /\ k2.exprs = l.exprs /\ k2.order = l.order
      /\ k3 = [k2 EXCEPT !.exprs = exprs3, !.order = order3]
    <2>1. k2.exprs = l.exprs /\ k2.order = l.order
        BY <1>1, <1>2 DEF Sound, Laid
    <2> HIDE DEF k1, k2
    <2> QED
        BY <2>1 DEF MergeConditions
<1>4. /\ slots2 \in [Slots -> ParamStates \cup {None}]
      /\ groups2 \in [Groups -> Descs \cup {None}]
      /\ exprs3 \in [Conds -> Exprs \cup {None}]
    BY EmptyDescIsDesc DEF Sound, Laid, ThreeWay
<1>5. order3 \in Seq(Conds) /\ IsInjective(order3) /\ Range(order3) = {c \in Conds : exprs3[c] # None}
    <2>1. chosen \in Seq(Conds) /\ IsInjective(chosen)
        BY DEF Sound, Ordered, ThreeWay
    <2> HIDE DEF chosen, exprs3
    <2> QED
        BY <2>1, MergedOrder
<1>6. ASSUME NEW g \in Groups, NEW p \in Params, slots2[<<g, p>>] # None
      PROVE  groups2[g] # None
    <2>1. <<g, p>> \in Slots /\ <<g, p>>[1] = g
        BY DEF Slots, Places
    <2>2. slots1[<<g, p>>] # None /\ g \notin deleted
        BY <1>6, <2>1
    <2>3. \/ d.slots[<<g, p>>] # None /\ b.slots[<<g, p>>] # d.slots[<<g, p>>]
          \/ l.slots[<<g, p>>] # None
        BY <2>1, <2>2 DEF ThreeWay
    <2>4. groups1[g] # None
        <3>1. CASE l.slots[<<g, p>>] # None
            BY <3>1 DEF Sound, Laid
        <3>2. CASE d.slots[<<g, p>>] # None /\ b.slots[<<g, p>>] # d.slots[<<g, p>>] /\ l.slots[<<g, p>>] = None
            <4>1. b.slots[<<g, p>>] = l.slots[<<g, p>>]
                BY <2>1, <3>2 DEF SlotConflict, Clash
            <4> QED
                BY <3>2, <4>1, EmptyDescIsDesc, NoneIsNoData
        <3> QED
            BY <2>3, <3>1, <3>2
    <2> QED
        BY <2>2, <2>4 DEF ThreeWay
<1> HIDE DEF k1, k2, k3, slots1, groups1, exprs3, order3
<1>7. /\ k1.slots = slots1 /\ k1.groups = groups1
      /\ k1 = [slots |-> k1.slots, groups |-> k1.groups, exprs |-> k1.exprs, order |-> k1.order]
    BY <1>1 DEF Sound, Laid
<1>8. /\ k2.slots = slots2 /\ k2.groups = groups2
      /\ k2 = [slots |-> k2.slots, groups |-> k2.groups, exprs |-> k2.exprs, order |-> k2.order]
    BY <1>2, <1>7
<1> HIDE DEF slots2, groups2
<1>9. /\ k3.slots = slots2 /\ k3.groups = groups2 /\ k3.exprs = exprs3 /\ k3.order = order3
      /\ k3 = [slots |-> k3.slots, groups |-> k3.groups, exprs |-> k3.exprs, order |-> k3.order]
    BY <1>3, <1>8
<1>10. Sound(k3)
    BY <1>4, <1>6, <1>9, <1>5 DEF Sound, Laid, Ordered, Defined
<1> QED
    BY <1>10, DropShape DEF MergeWithLatest, k1, k2, k3

LEMMA TemplateIsSound ==
    ASSUME NEW cfg \in RemoteConfigs, WellFormed(cfg)
    PROVE  Sound(cfg)
BY SoundIsTemplate

-----------------------------------------------------------------------------
(***************************************************************************)
(* What the server, the draft and the operation hold are such templates.   *)
(***************************************************************************)

Good(cfg) == Clean(cfg) /\ Single(cfg) /\ ValidForUpdate(cfg)

LEMMA AcceptedIsGood ==
    ASSUME NEW cfg \in Sources \cup Targets
    PROVE  Good(cfg)
<1>1. /\ cfg \in RemoteConfigs /\ WellFormed(cfg) /\ ValidForUpdate(cfg)
      /\ DropUnknownConditionReferences(cfg) = cfg
    BY TemplatesAreValid DEF OneHome
<1> QED
    BY <1>1, TemplateIsSound, CleanIsFixed, ValidIsSingle DEF Good

LEMMA DraftedIsClean ==
    ASSUME NEW cfg \in Drafts
    PROVE  Clean(cfg)
BY DraftsAreTemplates, TemplateIsSound, CleanIsFixed

Stored ==
    /\ source \in Sources
    /\ \A v \in DOMAIN history : Good(history[v])
    /\ draft # None => Clean(draft.base) /\ Clean(draft.cfg)

\* A pc that makes use of what the operation holds.
Busy == {"review", "prepare", "put"}

Held ==
    /\ \A cfg \in {mem.current, mem.candidate, mem.publish} : cfg = None \/ Clean(cfg)
    /\ mem.op = "promoteReviewed" => Clean(mem.publish)
    /\ pc \in Busy => Clean(mem.current) /\ Clean(mem.candidate)
    /\ pc = "prepare" => Clean(draft.base) /\ Clean(draft.cfg)

Picked == IsSelection(mem.choice) /\ mem.choice.slots \subseteq Slots

\* How the candidate was made.
Made ==
    /\ pc = "read" => Picked
    /\ (pc = "put" /\ mem.op = "promote") => Picked /\ mem.current = history[mem.etag]
    /\ (pc = "review" /\ mem.op = "promoteReviewed") =>
          /\ Picked
          /\ mem.choice.slots \subseteq ParameterItems(source, mem.current, mem.prune)
          /\ mem.candidate = Apply(source, mem.current, mem.choice, mem.prune)
    /\ (pc \in {"put", "review"} /\ mem.op \in {"import", "importReviewed"}) =>
          mem.candidate = Import(mem.current, source, mem.choice)

Counted ==
    /\ pc \in Labels
    /\ mem.op \in Ops \cup {None}
    /\ mem.etag \in 0..Len(history) /\ mem.shown \in 0..Len(history)
    /\ others \in 0..MaxOthers
    /\ lost \in 0..MaxLost

KInv == TInv /\ Stored /\ Held /\ Made /\ Counted

LEMMA SelectionIsPicked ==
    ASSUME NEW cfg, NEW prune, NEW chosen \in Selections(cfg, prune)
    PROVE  /\ IsSelection(chosen) /\ chosen.slots \subseteq Slots
           /\ chosen.slots \subseteq ParameterItems(source, cfg, prune)
<1>1. IsSelection(chosen) /\ chosen.slots \subseteq ParameterItems(source, cfg, prune)
    BY DEF Selections, Items, IsSelection
<1> QED
    BY <1>1, ItemIsSlot

LEMMA CleanIsSound == \A cfg : Clean(cfg) => Sound(cfg)
BY DEF Clean

LEMMA WorkingIsClean ==
    ASSUME KInv, NEW v \in DOMAIN history
    PROVE  Clean(source) /\ Clean(history[v]) /\ Clean(Working(history[v]))
BY AcceptedIsGood DEF KInv, Stored, Working, Good

LEMMA DraftOnIsClean ==
    ASSUME KInv, NEW v \in DOMAIN history, NEW cfg, Clean(cfg)
    PROVE  Clean(DraftOn(history[v], cfg).base) /\ Clean(DraftOn(history[v], cfg).cfg)
BY DEF KInv, Stored, DraftOn, Good

LEMMA InitKInv == Init => KInv
<1> SUFFICES ASSUME Init
             PROVE  KInv
    OBVIOUS
<1>1. PICK cfg \in Targets : history = <<cfg>>
                             /\ draft \in {None} \cup [base : {cfg}, cfg : Drafts \ {cfg}]
    BY DEF Init
<1>2. DOMAIN history = {1} /\ history[1] = cfg /\ Len(history) = 1
    BY <1>1
<1>3. Good(cfg)
    BY AcceptedIsGood
<1>4. draft # None => draft.base = cfg /\ draft.cfg \in Drafts
    BY <1>1
<1>5. draft # None => Clean(draft.base) /\ Clean(draft.cfg)
    BY <1>3, <1>4, DraftedIsClean DEF Good
<1>6. Stored
    BY <1>2, <1>3, <1>5 DEF Init, Stored
<1>7. Held /\ Made
    BY NoneIsNothing DEF Init, Held, Made, Blank, Busy, Ops
<1>8. Counted
    BY <1>2, BoundsAreNatural DEF Init, Counted, Blank, Labels
<1> QED
    BY <1>6, <1>7, <1>8, InitTInv DEF KInv

\* The server gets templates of others and accepted updates; drafts are made of
\* templates at hand.
LEMMA StoredStays ==
    ASSUME KInv, Next
    PROVE  Stored'
<1>0. Logged /\ Stored /\ Held
    BY DEF KInv, TInv
<1>1. source' = source
    <2>1. CASE BeginPromote \/ ReadTarget \/ BeginImport \/ ImportToDraft \/ ReviewPromotion \/ ReviewImport
        BY <2>1 DEF BeginPromote, ReadTarget, BeginImport, ImportToDraft, ReviewPromotion, ReviewImport
    <2>2. CASE SaveReviewed \/ PublishImport \/ StagePromotion \/ PreparePromotion
        BY <2>2 DEF SaveReviewed, PublishImport, StagePromotion, PreparePromotion
    <2>3. CASE Put \/ PutAnswerLost \/ PutRefused \/ Stop \/ OthersPublish
        BY <2>3 DEF Put, PutAnswerLost, PutRefused, Stop, OthersPublish
    <2> QED
        BY <2>1, <2>2, <2>3 DEF Next
<1>2. history' = history \/ \E cfg : Good(cfg) /\ history' = Append(history, cfg)
    <2>1. CASE OthersPublish
        BY <2>1, AcceptedIsGood DEF OthersPublish
    <2>2. CASE Put \/ PutAnswerLost
        <3>1. pc = "put" /\ ValidForUpdate(mem.candidate) /\ history' = Append(history, mem.candidate)
            BY <2>2 DEF Put, PutAnswerLost, Accept, Sendable
        <3> QED
            BY <1>0, <3>1, ValidIsSingle DEF Held, Busy, Good
    <2>3. CASE ~OthersPublish /\ ~Put /\ ~PutAnswerLost
        BY <2>3 DEF Next, BeginPromote, ReadTarget, BeginImport, ImportToDraft, ReviewPromotion,
           ReviewImport, SaveReviewed, PublishImport, StagePromotion, PreparePromotion, PutRefused, Stop
    <2> QED
        BY <2>1, <2>2, <2>3
<1>3. \A v \in DOMAIN history' : Good(history'[v])
    <2>1. CASE history' = history
        BY <1>0, <2>1 DEF Stored
    <2>2. CASE history' # history
        <3>1. PICK cfg : Good(cfg) /\ history' = Append(history, cfg)
            BY <1>2, <2>2
        <3>2. \A v \in DOMAIN history' : history'[v] = cfg \/ (v \in DOMAIN history /\ history'[v] = history[v])
            BY <1>0, <3>1 DEF Logged
        <3> QED
            BY <1>0, <3>1, <3>2 DEF Stored
    <2> QED
        BY <2>1, <2>2
<1>4. Len(history) \in DOMAIN history
    BY <1>0, LatestIsLogged
<1>5. draft' \in {None, draft} \/ (Clean(draft'.base) /\ Clean(draft'.cfg))
    <2>1. CASE ImportToDraft
        <3>1. PICK choice : draft' = DraftOn(Latest, Import(Working(Latest), source, choice))
            BY <2>1 DEF ImportToDraft
        <3>2. Clean(Import(Working(Latest), source, choice))
            BY <1>4, WorkingIsClean, CleanIsSound, ImportSound DEF Latest
        <3> QED
            BY <1>4, <3>1, <3>2, DraftOnIsClean DEF Latest
    <2>2. CASE SaveReviewed
        <3>1. pc = "review" /\ draft' = DraftOn(history[mem.shown], mem.candidate)
            BY <2>2 DEF SaveReviewed
        <3>2. mem.shown \in DOMAIN history /\ Clean(mem.candidate)
            BY <1>0, <3>1 DEF Held, Busy, KInv, TInv, Reviewing
        <3> QED
            BY <3>1, <3>2, DraftOnIsClean
    <2>3. CASE StagePromotion
        <3>1. pc = "review" /\ (draft' = draft \/ draft' = DraftOn(Latest, mem.candidate))
            BY <2>3 DEF StagePromotion
        <3>2. Clean(mem.candidate)
            BY <1>0, <3>1 DEF Held, Busy
        <3> QED
            BY <1>4, <3>1, <3>2, DraftOnIsClean DEF Latest
    <2>4. CASE PreparePromotion \/ Put
        BY <2>4 DEF PreparePromotion, Put
    <2>5. CASE ~ImportToDraft /\ ~SaveReviewed /\ ~StagePromotion /\ ~PreparePromotion /\ ~Put
        BY <2>5 DEF Next, BeginPromote, ReadTarget, BeginImport, ReviewPromotion, ReviewImport,
           PublishImport, PutAnswerLost, PutRefused, Stop, OthersPublish
    <2> QED
        BY <2>1, <2>2, <2>3, <2>4, <2>5
<1> QED
    BY <1>0, <1>1, <1>3, <1>5 DEF Stored

\* What an operation that goes on holds is made of templates it has just read.
LEMMA GoesOn ==
    ASSUME KInv, Next, pc' \notin {"idle", "done"}, ~OthersPublish
    PROVE  Held' /\ Made'
<1>0. TInv /\ Stored /\ Held /\ Made /\ IsMem(mem) /\ Logged
    BY DEF KInv, TInv
<1>1. Len(history) \in DOMAIN history
    BY <1>0, LatestIsLogged
<1>2. Clean(source) /\ Clean(Latest) /\ Clean(Working(Latest))
    BY <1>1, WorkingIsClean DEF Latest
<1>3. CASE BeginPromote
    <2>1. PICK prune, chosen :
            /\ chosen \in Selections(Latest, prune) /\ pc' = "read"
            /\ mem' = [Blank EXCEPT !.op = "promote", !.choice = chosen, !.prune = prune]
        BY <1>3 DEF BeginPromote, Goto
    <2>2. /\ mem'.choice = chosen /\ mem'.op = "promote"
          /\ mem'.current = None /\ mem'.candidate = None /\ mem'.publish = None
        BY <2>1 DEF Blank
    <2> QED
        BY <2>1, <2>2, SelectionIsPicked DEF Held, Made, Picked, Busy
<1>4. CASE ReadTarget
    <2> DEFINE candidate == Apply(source, Latest, mem.choice, mem.prune)
    <2>1. /\ pc = "read" /\ pc' = "put" /\ UNCHANGED <<source, history>>
          /\ mem' = [mem EXCEPT !.current = Latest, !.candidate = candidate, !.etag = Len(history)]
        BY <1>4 DEF ReadTarget, Finish, Goto
    <2>2. Clean(candidate)
        BY <1>2, CleanIsSound, ApplyFields
    <2> HIDE DEF candidate
    <2>3. /\ mem'.choice = mem.choice /\ mem'.current = Latest /\ mem'.op = "promote"
          /\ mem'.candidate = candidate /\ mem'.etag = Len(history) /\ mem'.publish = mem.publish
        BY <2>1, <1>0 DEF IsMem, TInv
    <2>4. Picked'
        BY <1>0, <2>1, <2>3 DEF Made, Picked
    <2>5. Held'
        BY <1>0, <1>2, <2>1, <2>2, <2>3 DEF Held
    <2> QED
        BY <2>1, <2>3, <2>4, <2>5 DEF Made, Latest
<1>5. CASE BeginImport
    <2>1. PICK choice :
            /\ pc' = "put" /\ UNCHANGED source
            /\ mem' = [Blank EXCEPT !.op = "import", !.choice = choice, !.current = Latest,
                                    !.candidate = Import(Latest, source, choice), !.etag = Len(history)]
        BY <1>5 DEF BeginImport, Goto
    <2> DEFINE candidate == Import(Latest, source, choice)
    <2>2. Clean(candidate)
        BY <1>2, CleanIsSound, ImportSound
    <2>3. /\ mem'.op = "import" /\ mem'.candidate = candidate /\ mem'.choice = choice
          /\ mem'.current = Latest /\ mem'.publish = None
        BY <2>1 DEF Blank
    <2>4. Held'
        BY <1>2, <2>1, <2>2, <2>3 DEF Held
    <2> QED
        BY <2>1, <2>3, <2>4 DEF Made
<1>6. CASE ReviewPromotion
    <2> DEFINE current(v) == Working(history[v])
               candidate(v, chosen, prune) == Apply(source, current(v), chosen, prune)
               shows(v, chosen, prune) == PublishPreview(candidate(v, chosen, prune), history[v])
               agrees(v, chosen, prune) ==
                   draft # None => ~Conflict(draft.base, candidate(v, chosen, prune), history[v])
               holds(v, chosen, prune) ==
                   [Blank EXCEPT !.op = "promoteReviewed", !.choice = chosen, !.prune = prune,
                                 !.current = current(v), !.candidate = candidate(v, chosen, prune),
                                 !.publish = shows(v, chosen, prune), !.shown = v]
    <2>1. PICK v \in DOMAIN history : \E prune \in BOOLEAN :
            \E chosen \in Selections(current(v), prune) :
                /\ agrees(v, chosen, prune)
                /\ pc' = "review" /\ mem' = holds(v, chosen, prune) /\ UNCHANGED source
        BY <1>6 DEF ReviewPromotion, Goto
    <2>2. PICK prune \in BOOLEAN : \E chosen \in Selections(current(v), prune) :
            /\ agrees(v, chosen, prune)
            /\ pc' = "review" /\ mem' = holds(v, chosen, prune) /\ UNCHANGED source
        BY <2>1
    <2>3. PICK chosen \in Selections(current(v), prune) :
            /\ agrees(v, chosen, prune)
            /\ pc' = "review" /\ mem' = holds(v, chosen, prune) /\ UNCHANGED source
        BY <2>2
    <2>4. /\ mem'.op = "promoteReviewed" /\ mem'.choice = chosen /\ mem'.prune = prune
          /\ mem'.current = current(v) /\ mem'.candidate = candidate(v, chosen, prune)
          /\ mem'.publish = shows(v, chosen, prune)
        BY <2>3 DEF Blank
    <2>5. Clean(source) /\ Clean(current(v)) /\ Clean(history[v])
        BY WorkingIsClean
    <2>6. Clean(candidate(v, chosen, prune))
        BY <2>5, CleanIsSound, ApplyFields
    <2>7. /\ IsSelection(chosen) /\ chosen.slots \subseteq Slots
          /\ chosen.slots \subseteq ParameterItems(source, current(v), prune)
        BY SelectionIsPicked
    <2>8. Clean(shows(v, chosen, prune))
        <3> HIDE DEF candidate
        <3>1. CASE draft = None
            BY <2>6, <3>1 DEF PublishPreview
        <3>2. CASE draft # None
            <4>1. Clean(draft.base) /\ ~SlotConflict(draft.base, candidate(v, chosen, prune), history[v])
                BY <1>0, <2>3, <3>2 DEF Stored, Conflict
            <4>2. Clean(MergeWithLatest(draft.base, candidate(v, chosen, prune), history[v]))
                BY <2>5, <2>6, <4>1, CleanIsSound, MergeSound
            <4> QED
                BY <3>2, <4>2 DEF PublishPreview
        <3> QED
            BY <3>1, <3>2
    <2> HIDE DEF current, candidate, holds, shows, agrees
    <2>9. candidate(v, chosen, prune) = Apply(source, current(v), chosen, prune)
        BY DEF candidate
    <2>10. Held'
        BY <2>3, <2>4, <2>5, <2>6, <2>8 DEF Held
    <2> QED
        BY <2>3, <2>4, <2>7, <2>9, <2>10 DEF Made, Picked
<1>7. CASE ReviewImport
    <2>1. PICK shown \in DOMAIN history : \E choice :
            /\ pc' = "review" /\ UNCHANGED source
            /\ mem' = [Blank EXCEPT !.op = "importReviewed", !.choice = choice,
                       !.current = Working(history[shown]),
                       !.candidate = Import(Working(history[shown]), source, choice), !.shown = shown]
        BY <1>7 DEF ReviewImport, Goto
    <2>2. PICK choice :
            /\ pc' = "review" /\ UNCHANGED source
            /\ mem' = [Blank EXCEPT !.op = "importReviewed", !.choice = choice,
                       !.current = Working(history[shown]),
                       !.candidate = Import(Working(history[shown]), source, choice), !.shown = shown]
        BY <2>1
    <2> DEFINE candidate == Import(Working(history[shown]), source, choice)
    <2>3. Clean(candidate) /\ Clean(Working(history[shown]))
        BY WorkingIsClean, CleanIsSound, ImportSound
    <2>4. /\ mem'.op = "importReviewed" /\ mem'.candidate = candidate /\ mem'.choice = choice
          /\ mem'.current = Working(history[shown]) /\ mem'.publish = None
        BY <2>2 DEF Blank
    <2>5. Held'
        BY <2>2, <2>3, <2>4 DEF Held
    <2> QED
        BY <2>2, <2>4, <2>5 DEF Made
<1>8. CASE PublishImport
    <2>1. /\ pc = "review" /\ pc' = "put" /\ mem.op = "importReviewed" /\ UNCHANGED source
          /\ mem' = [mem EXCEPT !.etag = mem.shown]
        BY <1>8 DEF PublishImport, Finish, Goto
    <2>2. /\ mem'.op = mem.op /\ mem'.candidate = mem.candidate /\ mem'.choice = mem.choice
          /\ mem'.current = mem.current /\ mem'.publish = mem.publish
        BY <1>0, <2>1 DEF IsMem
    <2>3. Held'
        BY <1>0, <2>1, <2>2 DEF Held, Busy
    <2> QED
        BY <1>0, <2>1, <2>2, <2>3 DEF Made
<1>9. CASE StagePromotion
    <2>1. /\ pc = "review" /\ pc' = "prepare" /\ mem' = mem /\ draft' = DraftOn(Latest, mem.candidate)
        BY <1>9 DEF StagePromotion, Finish, Goto
    <2>2. Clean(draft'.base) /\ Clean(draft'.cfg)
        BY <1>0, <1>1, <2>1, DraftOnIsClean DEF Held, Busy, Latest
    <2>3. Held'
        BY <1>0, <2>1, <2>2 DEF Held, Busy
    <2> QED
        BY <2>1, <2>3 DEF Made
<1>10. CASE PreparePromotion
    <2> DEFINE merged == MergeWithLatest(draft.base, draft.cfg, Latest)
    <2>1. /\ pc = "prepare" /\ pc' = "put" /\ ~Conflict(draft.base, draft.cfg, Latest)
          /\ mem' = [mem EXCEPT !.candidate = merged, !.etag = Len(history)]
        BY <1>10 DEF PreparePromotion, Finish, Goto
    <2>2. Clean(draft.base) /\ Clean(draft.cfg) /\ Clean(mem.current)
        BY <1>0, <2>1 DEF Held, Busy
    <2>3. Clean(merged)
        BY <1>2, <2>1, <2>2, CleanIsSound, MergeSound DEF Conflict
    <2> HIDE DEF merged
    <2>4. /\ mem'.op = "promoteReviewed" /\ mem.op = "promoteReviewed" /\ mem'.candidate = merged
          /\ mem'.current = mem.current /\ mem'.publish = mem.publish
        BY <1>0, <2>1 DEF IsMem, TInv
    <2>5. Held'
        BY <1>0, <2>1, <2>2, <2>3, <2>4 DEF Held
    <2> QED
        BY <2>1, <2>4, <2>5 DEF Made
<1>11. CASE PutAnswerLost \/ PutRefused
    <2>1. pc = "put" /\ pc' = "read" /\ mem.op = "promote" /\ mem' = mem
        BY <1>11 DEF PutAnswerLost, PutRefused, Accept, Finish, Goto
    <2>2. Held'
        BY <1>0, <2>1 DEF Held, Busy
    <2> QED
        BY <1>0, <2>1, <2>2 DEF Made, Picked
<1>12. ImportToDraft \/ SaveReviewed \/ Put \/ Stop => pc' = "done"
    BY DEF ImportToDraft, SaveReviewed, Put, Stop, Finish, Goto
<1> QED
    BY <1>3, <1>4, <1>5, <1>6, <1>7, <1>8, <1>9, <1>10, <1>11, <1>12 DEF Next

\* An operation that ends keeps what it held, and others leave it alone.
LEMMA HeldStays ==
    ASSUME KInv, Next
    PROVE  Held' /\ Made'
<1>0. TInv /\ Held /\ Made /\ Logged
    BY DEF KInv, TInv
<1>1. CASE pc' \in {"idle", "done"}
    <2>1. mem' = mem
        <3>1. CASE OthersPublish
            BY <3>1 DEF OthersPublish
        <3>2. CASE BeginPromote \/ BeginImport \/ ReviewPromotion \/ ReviewImport
            BY <1>1, <3>2 DEF BeginPromote, BeginImport, ReviewPromotion, ReviewImport, Goto
        <3>3. CASE ReadTarget \/ ImportToDraft \/ SaveReviewed \/ PublishImport \/ StagePromotion
            BY <1>1, <3>3 DEF ReadTarget, ImportToDraft, SaveReviewed, PublishImport, StagePromotion, Finish, Goto
        <3>4. CASE PreparePromotion \/ Put \/ PutAnswerLost \/ PutRefused \/ Stop
            BY <1>1, <3>4 DEF PreparePromotion, Put, PutAnswerLost, PutRefused, Stop, Finish, Goto
        <3> QED
            BY <3>1, <3>2, <3>3, <3>4 DEF Next
    <2> QED
        BY <1>0, <1>1, <2>1 DEF Held, Made, Busy
<1>2. CASE OthersPublish
    <2>1. PICK cfg : history' = Append(history, cfg) /\ UNCHANGED <<source, draft, pc, mem>>
        BY <1>2 DEF OthersPublish
    <2>2. \A v \in DOMAIN history : history'[v] = history[v]
        BY <1>0, <2>1, LogGrows
    <2>3. pc = "put" => mem.etag \in DOMAIN history
        BY <1>0 DEF TInv, Sending
    <2>4. Held'
        BY <1>0, <2>1 DEF Held
    <2> QED
        BY <1>0, <2>1, <2>2, <2>3, <2>4 DEF Made, Picked
<1> QED
    BY <1>1, <1>2, GoesOn

\* What is counted stays within its bounds.
LEMMA CountedStays ==
    ASSUME KInv, Next
    PROVE  Counted'
<1>0. TInv /\ Counted /\ Logged /\ IsMem(mem) /\ MaxOthers \in Nat /\ MaxLost \in Nat
    BY BoundsAreNatural DEF KInv, TInv
<1>1. Len(history) \in Nat /\ (\E T : history \in Seq(T)) /\ DOMAIN history = 1..Len(history)
    BY <1>0 DEF Logged
<1>2. Len(history') \in Nat /\ Len(history) <= Len(history')
    <2>1. history' = history \/ \E cfg : history' = Append(history, cfg)
        <3>1. CASE Put \/ PutAnswerLost \/ OthersPublish
            BY <3>1 DEF Put, PutAnswerLost, OthersPublish, Accept
        <3>2. CASE ~Put /\ ~PutAnswerLost /\ ~OthersPublish
            BY <3>2 DEF Next, BeginPromote, ReadTarget, BeginImport, ImportToDraft, ReviewPromotion,
               ReviewImport, SaveReviewed, PublishImport, StagePromotion, PreparePromotion, PutRefused, Stop
        <3> QED
            BY <3>1, <3>2
    <2>2. ASSUME NEW cfg, history' = Append(history, cfg)
          PROVE  Len(history') \in Nat /\ Len(history) <= Len(history')
        <3>1. PICK T : history \in Seq(T)
            BY <1>1
        <3>2. history \in Seq(T \cup {cfg}) /\ cfg \in T \cup {cfg}
            BY <3>1
        <3> QED
            BY <2>2, <3>2
    <2> QED
        BY <1>1, <2>1, <2>2
<1>3. others' \in 0..MaxOthers /\ lost' \in 0..MaxLost
    <2>1. CASE OthersPublish
        BY <1>0, <2>1 DEF OthersPublish, Counted
    <2>2. CASE PutAnswerLost
        BY <1>0, <2>2 DEF PutAnswerLost, Counted
    <2>3. CASE ~PutAnswerLost /\ ~OthersPublish
        <3>1. UNCHANGED <<others, lost>>
            BY <2>3 DEF Next, BeginPromote, ReadTarget, BeginImport, ImportToDraft, ReviewPromotion,
               ReviewImport, SaveReviewed, PublishImport, StagePromotion, PreparePromotion, Put, PutRefused, Stop
        <3> QED
            BY <1>0, <3>1 DEF Counted
    <2> QED
        BY <2>1, <2>2, <2>3
<1>4. pc' \in Labels
    <2>1. CASE OthersPublish
        BY <1>0, <2>1 DEF OthersPublish, Counted
    <2>2. CASE ~OthersPublish
        BY <2>2 DEF Next, BeginPromote, ReadTarget, BeginImport, ImportToDraft, ReviewPromotion,
           ReviewImport, SaveReviewed, PublishImport, StagePromotion, PreparePromotion, Put, PutAnswerLost,
           PutRefused, Stop, Finish, Goto, Labels
    <2> QED
        BY <2>1, <2>2
<1>5. /\ mem'.op \in Ops \cup {None}
      /\ mem'.etag \in {0, mem.etag, mem.shown, Len(history)}
      /\ mem'.shown \in {0, mem.shown} \cup DOMAIN history
    <2>1. CASE mem' = mem
        BY <1>0, <2>1 DEF Counted
    <2>2. CASE BeginPromote
        <3>1. PICK chosen, prune : mem' = [Blank EXCEPT !.op = "promote", !.choice = chosen, !.prune = prune]
            BY <2>2 DEF BeginPromote, Goto
        <3>2. mem'.op = "promote" /\ mem'.etag = 0 /\ mem'.shown = 0
            BY <3>1 DEF Blank
        <3> QED
            BY <3>2 DEF Ops
    <2>3. CASE BeginImport
        <3>1. PICK choice : mem' = [Blank EXCEPT !.op = "import", !.choice = choice, !.current = Latest,
                                    !.candidate = Import(Latest, source, choice), !.etag = Len(history)]
            BY <2>3 DEF BeginImport, Goto
        <3>2. mem'.op = "import" /\ mem'.etag = Len(history) /\ mem'.shown = 0
            BY <3>1 DEF Blank
        <3> QED
            BY <3>2 DEF Ops
    <2>4. CASE ReviewPromotion
        <3> DEFINE current(v) == Working(history[v])
                   candidate(v, chosen, prune) == Apply(source, current(v), chosen, prune)
                   holds(v, chosen, prune) ==
                       [Blank EXCEPT !.op = "promoteReviewed", !.choice = chosen, !.prune = prune,
                                     !.current = current(v), !.candidate = candidate(v, chosen, prune),
                                     !.publish = PublishPreview(candidate(v, chosen, prune), history[v]),
                                     !.shown = v]
        <3>0. PICK v \in DOMAIN history : \E prune \in BOOLEAN :
                \E chosen \in Selections(current(v), prune) : mem' = holds(v, chosen, prune)
            BY <2>4 DEF ReviewPromotion, Goto
        <3>1. PICK chosen, prune : mem' = holds(v, chosen, prune)
            BY <3>0
        <3>2. mem'.op = "promoteReviewed" /\ mem'.etag = 0 /\ mem'.shown = v
            BY <3>1 DEF Blank
        <3> QED
            BY <3>2 DEF Ops
    <2>5. CASE ReviewImport
        <3>1. PICK v \in DOMAIN history : \E x, y, choice :
                mem' = [Blank EXCEPT !.op = "importReviewed", !.choice = choice,
                        !.current = x, !.candidate = y, !.shown = v]
            BY <2>5 DEF ReviewImport, Goto
        <3>2. mem'.op = "importReviewed" /\ mem'.etag = 0 /\ mem'.shown = v
            BY <3>1 DEF Blank
        <3> QED
            BY <3>2 DEF Ops
    <2>6. CASE ReadTarget /\ mem' # mem
        <3>1. \E x, y : mem' = [mem EXCEPT !.current = x, !.candidate = y, !.etag = Len(history)]
            BY <2>6 DEF ReadTarget, Finish, Goto
        <3>2. mem'.op = mem.op /\ mem'.etag = Len(history) /\ mem'.shown = mem.shown
            BY <1>0, <3>1 DEF IsMem
        <3> QED
            BY <1>0, <3>2 DEF Counted
    <2>7. CASE PublishImport /\ mem' # mem
        <3>1. mem' = [mem EXCEPT !.etag = mem.shown]
            BY <2>7 DEF PublishImport, Finish, Goto
        <3>2. mem'.op = mem.op /\ mem'.etag = mem.shown /\ mem'.shown = mem.shown
            BY <1>0, <3>1 DEF IsMem
        <3> QED
            BY <1>0, <3>2 DEF Counted
    <2>8. CASE PreparePromotion /\ mem' # mem
        <3>1. \E y : mem' = [mem EXCEPT !.candidate = y, !.etag = Len(history)]
            BY <2>8 DEF PreparePromotion, Finish, Goto
        <3>2. mem'.op = mem.op /\ mem'.etag = Len(history) /\ mem'.shown = mem.shown
            BY <1>0, <3>1 DEF IsMem
        <3> QED
            BY <1>0, <3>2 DEF Counted
    <2>9. ImportToDraft \/ SaveReviewed \/ StagePromotion \/ Put \/ PutAnswerLost \/ PutRefused
          \/ Stop \/ OthersPublish => mem' = mem
        BY DEF ImportToDraft, SaveReviewed, StagePromotion, Put, PutAnswerLost, PutRefused, Stop,
           OthersPublish, Finish, Goto
    <2> QED
        BY <2>1, <2>2, <2>3, <2>4, <2>5, <2>6, <2>7, <2>8, <2>9 DEF Next
<1>6. mem'.etag \in 0..Len(history') /\ mem'.shown \in 0..Len(history')
    BY <1>0, <1>1, <1>2, <1>5 DEF Counted
<1> QED
    BY <1>3, <1>4, <1>5, <1>6 DEF Counted

\* The templates the server, the draft and the operation hold are well-formed with
\* nothing to clean up, those on the server have one home per parameter.
THEOREM HeldInvariant == Spec => []KInv
<1>1. KInv /\ TInv' /\ [Next]_vars => KInv'
    <2>1. ASSUME KInv, TInv', UNCHANGED vars
          PROVE  KInv'
        BY <2>1 DEF vars, KInv, Stored, Held, Made, Counted, Picked
    <2>2. ASSUME KInv, TInv', Next
          PROVE  KInv'
        BY <2>2, StoredStays, HeldStays, CountedStays DEF KInv
    <2> QED
        BY <2>1, <2>2
<1> QED
    BY <1>1, InitKInv, TransferInvariant, PTL DEF Spec

\* Every template the server, the draft or the operation ever holds is well-formed,
\* its evaluation order included: whatever promotions, imports, merges and others
\* do (promote.Apply, importer.BuildPlan, draft.MergeWithLatest).
THEOREM TemplatesStayWellFormed == Spec => []TypeOK
<1>1. KInv => TypeOK
    <2> SUFFICES ASSUME KInv
                 PROVE  TypeOK
        OBVIOUS
    <2>1. \A cfg : Clean(cfg) => cfg \in RemoteConfigs /\ WellFormed(cfg) /\ cfg # None
        BY CleanIsSound, SoundIsTemplate, NoneIsNothing
    <2>2. /\ source \in Sources
          /\ \A v \in DOMAIN history : history[v] \in RemoteConfigs /\ OneHome(history[v])
          /\ draft # None => \A cfg \in {draft.base, draft.cfg} : cfg \in RemoteConfigs /\ WellFormed(cfg)
        BY <2>1 DEF KInv, Stored, Good, OneHome
    <2>3. /\ \A cfg \in {mem.current, mem.candidate, mem.publish} \ {None} :
                cfg \in RemoteConfigs /\ WellFormed(cfg)
          /\ pc \in {"put", "review"} => None \notin {mem.current, mem.candidate}
          /\ mem.op = "promoteReviewed" => mem.publish # None
        BY <2>1 DEF KInv, Held, Busy
    <2>4. pc = "review" => mem.shown \in DOMAIN history
        BY DEF KInv, TInv, Reviewing
    <2>5. /\ pc \in Labels /\ mem.op \in Ops \cup {None}
          /\ {mem.etag, mem.shown} \subseteq 0..Len(history)
          /\ others \in 0..MaxOthers /\ lost \in 0..MaxLost
        BY DEF KInv, Counted
    <2> QED
        BY <2>2, <2>3, <2>4, <2>5 DEF TypeOK
<1> QED
    BY <1>1, HeldInvariant, PTL

\* So every preview an operation asks about tells everything.
THEOREM PreviewsTellAll == Spec => []PreviewTellsAll
BY TemplatesStayWellFormed, TypedPreviewTellsAll, PTL

\* What a promotion sends or shows, made by Apply of a template its selection is of
\* or that the server has.
Applied ==
    /\ Picked /\ Clean(mem.current)
    /\ mem.candidate = Apply(source, mem.current, mem.choice, mem.prune)
    /\ \/ Single(mem.current)
       \/ mem.choice.slots \subseteq ParameterItems(source, mem.current, mem.prune)

LEMMA PromotingIsApplied ==
    ASSUME KInv, Promoting
    PROVE  Good(source) /\ Applied
<1>1. Good(source)
    BY AcceptedIsGood DEF KInv, Stored
<1>2. ASSUME pc = "put", mem.op = "promote"
      PROVE  Applied
    <2>1. Picked /\ mem.current = history[mem.etag] /\ mem.etag \in DOMAIN history
        BY <1>2 DEF KInv, Made, TInv, Sending
    <2>2. Good(mem.current)
        BY <2>1 DEF KInv, Stored
    <2>3. mem.candidate = Apply(source, mem.current, mem.choice, mem.prune)
        BY <1>2, <2>1 DEF KInv, TInv, Sending
    <2> QED
        BY <2>1, <2>2, <2>3 DEF Good, Applied
<1>3. ASSUME pc = "review", mem.op = "promoteReviewed"
      PROVE  Applied
    <2>1. Clean(mem.current)
        BY <1>3 DEF KInv, Held, Busy
    <2> QED
        BY <1>3, <2>1 DEF KInv, Made, Applied
<1> QED
    BY <1>1, <1>2, <1>3 DEF Promoting

\* A promotion, sent or under review, is the selection and nothing else: what was
\* selected arrives with all it needs, the rest stays as the target has it
\* (promote.Apply, on the template publishPromotePlan read or the review showed).
THEOREM PromotionsAreItemwise == Spec => []PromotionIsItemwise
<1>1. KInv => PromotionIsItemwise
    <2> SUFFICES ASSUME KInv, Promoting
                 PROVE  SelectedArrive /\ RestUntouched
        BY DEF PromotionIsItemwise, SelectedArrive, RestUntouched
    <2>1. Good(source) /\ Applied
        BY PromotingIsApplied
    <2>2. /\ Sound(source) /\ Resolved(source) /\ Single(source) /\ Sound(mem.current) /\ Resolved(mem.current)
          /\ \A s \in Slots : source.slots[s] # None => HasValues(source.slots[s])
        BY <2>1 DEF Good, Applied, Clean, Valued
    <2>3. SelectedArrive
        <3> SUFFICES ASSUME NEW s \in mem.choice.slots, source.slots[s] # None
                     PROVE  /\ mem.candidate.slots[s] = source.slots[s]
                            /\ Homes(mem.candidate, s[2]) = {s[1]}
                            /\ mem.current.slots[s] # source.slots[s] =>
                                 /\ \A c \in Conds : source.slots[s].cond[c] # None =>
                                                      mem.candidate.exprs[c] = source.exprs[c]
                                 /\ s[1] \in Groups => mem.candidate.groups[s[1]] = source.groups[s[1]]
            BY DEF SelectedArrive
        <3>1. s \in Slots
            BY <2>1 DEF Applied, Picked
        <3>2. /\ mem.candidate.slots[s] = source.slots[s]
              /\ \A x \in Slots : x[2] = s[2] /\ mem.candidate.slots[x] # None => x = s
              /\ mem.current.slots[s] # source.slots[s] =>
                    /\ \A c \in Conds : source.slots[s].cond[c] # None => mem.candidate.exprs[c] = source.exprs[c]
                    /\ s[1] \in Groups => mem.candidate.groups[s[1]] = source.groups[s[1]]
            BY <2>1, <2>2, <3>1, SelectionArrives DEF Applied, Picked
        <3>3. \A q \in Places : mem.candidate.slots[<<q, s[2]>>] # None <=> q = s[1]
            <4>1. s = <<s[1], s[2]>> /\ s[1] \in Places /\ s[2] \in Params
                BY <3>1 DEF Slots
            <4>2. ASSUME NEW q \in Places, mem.candidate.slots[<<q, s[2]>>] # None
                  PROVE  q = s[1]
                <5>1. <<q, s[2]>> \in Slots /\ <<q, s[2]>>[1] = q /\ <<q, s[2]>>[2] = s[2]
                    BY <4>1 DEF Slots
                <5>2. <<q, s[2]>> = s
                    BY <3>2, <4>2, <5>1
                <5> QED
                    BY <5>1, <5>2
            <4> QED
                BY <3>2, <4>1, <4>2
        <3>4. s[1] \in Places
            BY <3>1 DEF Slots
        <3> QED
            BY <3>2, <3>3, <3>4 DEF Homes, InSlot
    <2>4. RestUntouched
        BY <2>1, <2>2, UnselectedStays DEF RestUntouched, Applied, Picked, Closed
    <2> QED
        BY <2>3, <2>4
<1> QED
    BY <1>1, HeldInvariant, PTL

-----------------------------------------------------------------------------
(***************************************************************************)
(* The order of evaluation after a promotion.                              *)
(***************************************************************************)

\* Of the conditions, what a promotion makes.
LEMMA ApplyConditions ==
    ASSUME NEW from, NEW target, NEW selected, NEW prune, Sound(from), Sound(target)
    PROVE  LET new == Apply(from, target, selected, prune)
               closed == WithDependencies(from, target, selected, prune)
               exprs == PromoteExprs(from, target, closed, prune)
           IN  /\ Clean(new) /\ new.exprs = exprs
               /\ new.order = PromoteOrder(from, target, closed, exprs)
<1> DEFINE new == Apply(from, target, selected, prune)
           closed == WithDependencies(from, target, selected, prune)
           slots == PromoteSlots(from, target, selected.slots \cap ParameterItems(from, target, prune))
           groups == PromoteGroups(from, target, closed, prune, slots)
           exprs == PromoteExprs(from, target, closed, prune)
<1>1. /\ Clean(new) /\ Fields(new, from, closed, slots, groups, exprs)
      /\ new.order = PromoteOrder(from, target, closed, exprs)
    BY ApplyFields, Zenon
<1> HIDE DEF new, closed, slots, groups, exprs
<1>2. new.exprs = exprs
    BY <1>1 DEF Fields
<1> QED
    BY <1>1, <1>2 DEF new, closed, exprs

\* Where the conditions that stay stand as in the source, the result does.
LEMMA PromotedFollows ==
    ASSUME NEW from, NEW target, NEW closed, NEW prune, Sound(from), Sound(target),
           LET exprs == PromoteExprs(from, target, closed, prune)
               left == {c \in Conds : exprs[c] # None}
               staying == ((Defined(target) \cap left) \ closed.conds) \cap Defined(from)
           IN  Kept(target.order, staying) = Kept(from.order, staying)
    PROVE  LET exprs == PromoteExprs(from, target, closed, prune)
           IN  SourceOrdered(PromoteOrder(from, target, closed, exprs), from.order)
<1> DEFINE exprs == PromoteExprs(from, target, closed, prune)
           arriving == closed.conds \cap Defined(from)
           left == {c \in Conds : exprs[c] # None}
           staying == ((Defined(target) \cap left) \ closed.conds) \cap Defined(from)
           remaining == Kept(target.order, left \ arriving)
           coming == Kept(from.order, arriving)
           new == PromoteOrder(from, target, closed, exprs)
<1>1. left \ arriving \subseteq Defined(target) /\ arriving \subseteq left
    BY PromotedOrder
<1>2. new = InsertAllBySourceOrder(remaining, coming, from.order)
    BY DEF PromoteOrder
<1>3. Kept(target.order, staying) = Kept(from.order, staying)
    OBVIOUS
<1>4. staying = (left \ arriving) \cap Defined(from)
    BY <1>1
<1> HIDE DEF exprs, new, left, staying
<1>5. /\ from.order \in Seq(Conds) /\ IsInjective(from.order) /\ Range(from.order) = Defined(from)
      /\ target.order \in Seq(Conds) /\ IsInjective(target.order) /\ Range(target.order) = Defined(target)
    BY DEF Sound, Ordered
<1>6. remaining \in Seq(Conds) /\ IsInjective(remaining) /\ Range(remaining) = left \ arriving
    BY <1>1, <1>5, KeptType, KeptInjective
<1>7. coming \in Seq(Conds) /\ IsInjective(coming) /\ Range(coming) = arriving
    BY <1>5, KeptType, KeptInjective
<1>8. SourceOrdered(remaining, from.order)
    <2> SUFFICES ASSUME NEW a \in Range(from.order), NEW b \in Range(from.order), Before(remaining, a, b)
                 PROVE  Rank(from.order, a) < Rank(from.order, b)
        BY DEF SourceOrdered
    <2>1. Before(target.order, a, b) /\ a \in left \ arriving /\ b \in left \ arriving
        BY <1>5, KeptBefore
    <2>2. a \in staying /\ b \in staying
        BY <1>4, <1>5, <2>1
    <2>3. Before(Kept(from.order, staying), a, b)
        BY <1>3, <1>5, <2>1, <2>2, KeptBefore
    <2>4. Before(from.order, a, b)
        BY <1>5, <2>3, KeptBefore
    <2> QED
        BY <1>5, <2>4, SourceFollowsItself DEF SourceOrdered
<1> HIDE DEF remaining, coming
<1>9. Range(remaining) \cap Range(coming) = {} /\ Range(coming) \subseteq Range(from.order)
    BY <1>5, <1>6, <1>7
<1>10. SourceOrdered(InsertAllBySourceOrder(remaining, coming, from.order), from.order)
    BY <1>5, <1>6, <1>7, <1>8, <1>9, InsertAllFollows
<1> QED
    BY <1>2, <1>10 DEF new, exprs

\* Conditions that were not selected keep the order the target has them in, and the
\* selected ones take the source's (promote.Apply and insertConditionBySourceOrder).
THEOREM OrderIsCarried == Spec => []OrderFollowsSource
<1>1. KInv => OrderFollowsSource
    <2> SUFFICES ASSUME KInv, Promoting
                 PROVE  OrderFollowsSource
        BY DEF OrderFollowsSource
    <2> DEFINE exprs == PromoteExprs(source, mem.current, Closed, mem.prune)
               arriving == Closed.conds \cap Defined(source)
               left == {c \in Conds : exprs[c] # None}
               new == mem.candidate.order
               unselected == (Defined(mem.current) \cap Defined(mem.candidate)) \ Closed.conds
    <2>1. /\ Sound(source) /\ Sound(mem.current)
          /\ mem.candidate = Apply(source, mem.current, mem.choice, mem.prune)
        BY PromotingIsApplied, CleanIsSound DEF Good, Applied
    <2>2. /\ mem.candidate.exprs = exprs
          /\ new = PromoteOrder(source, mem.current, Closed, exprs)
          /\ Sound(mem.candidate)
        <3>1. Closed = WithDependencies(source, mem.current, mem.choice, mem.prune)
            BY DEF Closed
        <3> DEFINE closed == WithDependencies(source, mem.current, mem.choice, mem.prune)
                   made == Apply(source, mem.current, mem.choice, mem.prune)
        <3>2. /\ Clean(made)
              /\ made.exprs = PromoteExprs(source, mem.current, closed, mem.prune)
              /\ made.order = PromoteOrder(source, mem.current, closed,
                                  PromoteExprs(source, mem.current, closed, mem.prune))
            BY <2>1, ApplyConditions
        <3> HIDE DEF made, closed
        <3>3. mem.candidate = made /\ Closed = closed
            BY <2>1, <3>1 DEF made, closed
        <3> QED
            BY <3>2, <3>3, CleanIsSound
    <2>3. Defined(mem.candidate) = left
        BY <2>2 DEF Defined
    <2>4. /\ left \ arriving \subseteq Defined(mem.current)
          /\ new \in Seq(Conds) /\ IsInjective(new) /\ Range(new) = left
          /\ \A K : K \cap arriving = {} => Kept(new, K) = Kept(Kept(mem.current.order, left \ arriving), K)
        BY <2>1, <2>2, PromotedOrder
    <2>5. /\ source.order \in Seq(Conds) /\ IsInjective(source.order) /\ Range(source.order) = Defined(source)
          /\ mem.current.order \in Seq(Conds) /\ Range(mem.current.order) = Defined(mem.current)
        BY <2>1 DEF Sound, Ordered
    <2>6. Kept(new, unselected) = Kept(mem.current.order, unselected)
        <3>1. unselected \cap arriving = {} /\ (left \ arriving) \cap unselected = unselected
            BY <2>3
        <3> HIDE DEF unselected, left, arriving, new
        <3>2. Kept(new, unselected) = Kept(Kept(mem.current.order, left \ arriving), unselected)
            BY <2>4, <3>1
        <3> QED
            BY <2>5, <3>1, <3>2, KeptTwice
    <2>7. ASSUME Kept(mem.current.order, unselected \cap Defined(source))
                    = Kept(source.order, unselected \cap Defined(source))
          PROVE  Kept(new, left \cap Defined(source)) = Kept(source.order, left \cap Defined(source))
        <3>0. Kept(mem.current.order, ((Defined(mem.current) \cap left) \ Closed.conds) \cap Defined(source))
                 = Kept(source.order, ((Defined(mem.current) \cap left) \ Closed.conds) \cap Defined(source))
            BY <2>3, <2>7, Zenon
        <3>1. SourceOrdered(new, source.order)
            BY <2>1, <2>2, <3>0, PromotedFollows, Zenon
        <3> DEFINE K == left \cap Defined(source)
        <3>2. /\ Range(new) \cap Range(source.order) \cap K = Range(new) \cap K
              /\ Range(new) \cap Range(source.order) \cap K = Range(source.order) \cap K
            BY <2>4, <2>5
        <3> HIDE DEF K, new
        <3>3. Kept(new, K) = Kept(source.order, K)
            BY <2>4, <2>5, <3>1, <3>2, KeptFollows
        <3> QED
            BY <3>3 DEF K
    <2> QED
        BY <2>3, <2>6, <2>7 DEF OrderFollowsSource
<1> QED
    BY <1>1, HeldInvariant, PTL

-----------------------------------------------------------------------------
(***************************************************************************)
(* What an import makes.                                                   *)
(***************************************************************************)

\* Where nothing dangles the cleanup only drops the conditions no value uses.
LEMMA CleanupOfClean ==
    ASSUME NEW cfg, Clean(cfg)
    PROVE  LET new == Cleanup(cfg)
           IN  /\ Clean(new)
               /\ new = WithConditions(cfg, UsedConditions(cfg))
               /\ new.slots = cfg.slots /\ new.groups = cfg.groups
               /\ \A c \in Conds : new.exprs[c] = IF c \in UsedConditions(cfg) THEN cfg.exprs[c] ELSE None
               /\ new.order = Kept(cfg.order, UsedConditions(cfg))
               /\ UsedConditions(new) = UsedConditions(cfg)
<1> DEFINE used == UsedConditions(cfg)
           cut == WithConditions(cfg, used)
<1>1. /\ Sound(cut) /\ cut.slots = cfg.slots /\ cut.groups = cfg.groups
      /\ \A c \in Conds : cut.exprs[c] = IF c \in used THEN cfg.exprs[c] ELSE None
      /\ cut.order = Kept(cfg.order, used)
    BY CleanIsSound, WithConditionsSound
<1>2. Cleanup(cfg) = DropUnknownConditionReferences(cut)
    BY DEF Cleanup, PruneUnusedConditions
<1> HIDE DEF cut
<1>3. Resolved(cut)
    <2> SUFFICES ASSUME NEW s \in Slots, NEW c \in Conds, cut.slots[s] # None, cut.slots[s].cond[c] # None
                 PROVE  c \in Defined(cut)
        BY DEF Resolved
    <2>1. c \in used
        BY <1>1 DEF UsedConditions
    <2>2. cfg.exprs[c] # None
        BY <1>1 DEF Clean, Resolved, Defined
    <2> QED
        BY <1>1, <2>1, <2>2 DEF Defined
<1>4. Clean(cut)
    BY <1>1, <1>3 DEF Clean, Valued
<1>5. Cleanup(cfg) = cut
    BY <1>1, <1>2, <1>4, CleanIsFixed
<1>6. UsedConditions(cut) = used
    BY <1>1 DEF UsedConditions
<1> HIDE DEF used
<1> QED
    BY <1>1, <1>4, <1>5, <1>6 DEF cut, used

\* A merged template has nothing dangling if neither side has.
LEMMA MergeIsClean ==
    ASSUME NEW one, NEW other, NEW theirs, Clean(one), Clean(other)
    PROVE  Clean(MergeImport(one, other, theirs))
<1> DEFINE new == MergeImport(one, other, theirs)
<1>1. Sound(new) /\ Merged(new, one, other, theirs)
    BY CleanIsSound, MergeImportSound
<1> HIDE DEF new
<1>2. Resolved(new)
    <2> SUFFICES ASSUME NEW s \in Slots, NEW c \in Conds, new.slots[s] # None, new.slots[s].cond[c] # None
                 PROVE  c \in Defined(new)
        BY DEF Resolved
    <2>1. one.exprs[c] # None \/ other.exprs[c] # None
        BY <1>1 DEF Clean, Resolved, Defined, Merged
    <2> QED
        BY <1>1, <2>1 DEF Defined, Merged
<1>3. Valued(new)
    BY <1>1 DEF Clean, Valued, Merged
<1> QED
    BY <1>1, <1>2, <1>3 DEF Clean, new

\* A merging import adds what the current template lacks, settles each conflict the
\* way it was answered, and takes away nothing but conditions no value uses
\* (importer.merge and the cleanup behind it).
THEOREM ImportsResolve == Spec => []ImportResolves
<1>1. KInv => ImportResolves
    <2> SUFFICES ASSUME KInv, Importing, mem.choice.merge, HasContent(mem.current)
                 PROVE  ImportResolves
        BY DEF ImportResolves
    <2> DEFINE imported == Transform(source, mem.choice)
               theirs == mem.choice.theirs
               merged == MergeImport(mem.current, imported, theirs)
               used == UsedConditions(mem.candidate)
    <2>1. Clean(mem.current) /\ Clean(source)
        BY AcceptedIsGood DEF KInv, Held, Busy, Importing, Stored, Good
    <2>2. Clean(imported)
        BY <2>1, CleanIsSound, TransformSound
    <2>3. mem.candidate = Cleanup(merged)
        BY DEF KInv, Made, Importing, Import
    <2> HIDE DEF imported, theirs
    <2>4. Merged(merged, mem.current, imported, theirs)
        BY <2>1, <2>2, CleanIsSound, MergeImportSound
    <2>4a. merged.order = mem.current.order \o Kept(imported.order, Conds \ Defined(mem.current))
        BY <2>4, Zenon DEF Merged
    <2>5. Clean(merged)
        BY <2>1, <2>2, MergeIsClean
    <2> HIDE DEF merged, used
    <2>6. /\ mem.candidate.slots = merged.slots
          /\ \A c \in Conds : mem.candidate.exprs[c] = IF c \in used THEN merged.exprs[c] ELSE None
          /\ mem.candidate.order = Kept(merged.order, used)
        BY <2>3, <2>5, CleanupOfClean DEF used
    <2>7. Kept(mem.candidate.order, Defined(mem.current)) = Kept(mem.current.order, used)
        <3> DEFINE added == Kept(imported.order, Conds \ Defined(mem.current))
        <3>1. /\ mem.current.order \in Seq(Conds) /\ Range(mem.current.order) = Defined(mem.current)
              /\ imported.order \in Seq(Conds)
            BY <2>1, <2>2 DEF Clean, Sound, Ordered
        <3>2. added \in Seq(Conds) /\ Range(added) \cap Defined(mem.current) = {}
            BY <3>1, KeptType
        <3> HIDE DEF added
        <3> DEFINE joined == mem.current.order \o added
                   K == used \cap Defined(mem.current)
        <3>3. joined \in Seq(Conds)
            BY <3>1, <3>2, ConcatRange
        <3>4. Kept(mem.candidate.order, Defined(mem.current)) = Kept(joined, K)
            <4>1. merged.order = joined
                BY <2>4a DEF added
            <4> HIDE DEF joined
            <4>2. mem.candidate.order = Kept(joined, used)
                BY <2>6, <4>1
            <4> QED
                BY <3>3, <4>2, KeptTwice
        <3>5. Kept(mem.current.order \o added, K) = Kept(mem.current.order, K) \o Kept(added, K)
            BY <3>1, <3>2, KeptJoined DEF Joined
        <3>6. Range(mem.current.order) \cap K = Range(mem.current.order) \cap used
            BY <3>1
        <3>7. Range(added) \cap K = {}
            BY <3>2
        <3> HIDE DEF K
        <3>8. Kept(added, K) = <<>>
            BY <3>2, <3>7, KeptNone
        <3>9. Kept(mem.current.order, K) = Kept(mem.current.order, used)
            BY <3>1, <3>6, KeptSame
        <3>10. Kept(mem.current.order, used) \in Seq(Conds)
            BY <3>1, KeptType
        <3>11. Kept(mem.current.order, used) \o <<>> = Kept(mem.current.order, used)
            BY <3>10
        <3> QED
            BY <3>4, <3>5, <3>8, <3>9, <3>11, Zenon
    <2> QED
        BY <2>4, <2>6, <2>7 DEF ImportResolves, Merged, imported, theirs, used
<1> QED
    BY <1>1, HeldInvariant, PTL

-----------------------------------------------------------------------------
(***************************************************************************)
(* Importing once more.                                                    *)
(***************************************************************************)

\* A clean template in which every condition is used.
Pruned(cfg) == Clean(cfg) /\ UsedConditions(cfg) = Defined(cfg)

LEMMA SameTemplate ==
    ASSUME NEW one, NEW other, Sound(one), Sound(other),
           \A s \in Slots : one.slots[s] = other.slots[s],
           \A g \in Groups : one.groups[g] = other.groups[g],
           \A c \in Conds : one.exprs[c] = other.exprs[c],
           one.order = other.order
    PROVE  one = other
<1>1. one.slots = other.slots
    BY DEF Sound, Laid
<1>2. one.groups = other.groups
    BY DEF Sound, Laid
<1>3. one.exprs = other.exprs
    BY DEF Sound, Laid
<1>4. /\ one = [slots |-> one.slots, groups |-> one.groups, exprs |-> one.exprs, order |-> one.order]
      /\ other = [slots |-> other.slots, groups |-> other.groups, exprs |-> other.exprs, order |-> other.order]
    BY DEF Sound, Laid
<1> QED
    BY <1>1, <1>2, <1>3, <1>4, Zenon

LEMMA CleanupPrunes ==
    ASSUME NEW cfg, Clean(cfg)
    PROVE  Pruned(Cleanup(cfg))
<1> DEFINE new == Cleanup(cfg)
<1>1. /\ Clean(new)
      /\ \A c \in Conds : new.exprs[c] = IF c \in UsedConditions(cfg) THEN cfg.exprs[c] ELSE None
      /\ UsedConditions(new) = UsedConditions(cfg)
    BY CleanupOfClean
<1> HIDE DEF new
<1>2. UsedConditions(cfg) \subseteq Defined(cfg)
    BY DEF UsedConditions, Clean, Resolved
<1>3. UsedConditions(cfg) \subseteq Conds
    BY DEF UsedConditions
<1>4. UsedConditions(cfg) = Defined(new)
    BY <1>1, <1>2, <1>3 DEF Defined
<1> QED
    BY <1>1, <1>4 DEF Pruned, new

LEMMA PrunedIsFixed ==
    ASSUME NEW cfg, Pruned(cfg)
    PROVE  Cleanup(cfg) = cfg
<1> DEFINE new == Cleanup(cfg)
<1>1. Clean(cfg) /\ UsedConditions(cfg) = Defined(cfg)
    BY DEF Pruned
<1>2. /\ Clean(new) /\ new.slots = cfg.slots /\ new.groups = cfg.groups
      /\ \A c \in Conds : new.exprs[c] = IF c \in Defined(cfg) THEN cfg.exprs[c] ELSE None
      /\ new.order = Kept(cfg.order, Defined(cfg))
    BY <1>1, CleanupOfClean
<1> HIDE DEF new
<1>3. new.order = cfg.order
    BY <1>1, <1>2, KeptAll DEF Clean, Sound, Ordered
<1>4. \A c \in Conds : new.exprs[c] = cfg.exprs[c]
    BY <1>2 DEF Defined
<1> QED
    BY <1>1, <1>2, <1>3, <1>4, CleanIsSound, SameTemplate DEF new

LEMMA TransformPrunes ==
    ASSUME NEW cfg, Sound(cfg), NEW choice
    PROVE  Pruned(Transform(cfg, choice))
<1> DEFINE filtered == FilterSlots(cfg, choice.groups, choice.slots)
           cut == WithConditions(filtered, KeptConditions(filtered, choice.policy))
<1>1. Sound(filtered)
    BY FilterSound
<1>2. Sound(cut)
    BY <1>1, WithConditionsSound
<1>3. Transform(cfg, choice) = Cleanup(DropUnknownConditionReferences(cut))
    BY DEF Transform
<1> HIDE DEF cut
<1>4. Clean(DropUnknownConditionReferences(cut))
    BY <1>2, DropShape
<1> QED
    BY <1>3, <1>4, CleanupPrunes

\* Merging once more what was merged, and cleaned up, finds everything settled.
LEMMA MergeAgain ==
    ASSUME NEW one, NEW other, NEW theirs, Clean(one), Clean(other)
    PROVE  LET new == Cleanup(MergeImport(one, other, theirs))
           IN  Cleanup(MergeImport(new, other, theirs)) = new
<1> DEFINE merged == MergeImport(one, other, theirs)
           new == Cleanup(merged)
           again == MergeImport(new, other, theirs)
           used == UsedConditions(merged)
           twice == Cleanup(again)
<1>1. Clean(merged) /\ Merged(merged, one, other, theirs)
    BY CleanIsSound, MergeIsClean, MergeImportSound
<1>2. Pruned(new) /\ Clean(new)
    BY <1>1, CleanupPrunes DEF Pruned
<1>3. /\ new.slots = merged.slots /\ new.groups = merged.groups
      /\ \A c \in Conds : new.exprs[c] = IF c \in used THEN merged.exprs[c] ELSE None
      /\ UsedConditions(new) = used
    BY <1>1, CleanupOfClean
<1> HIDE DEF new
<1>4. Clean(again) /\ Merged(again, new, other, theirs)
    BY <1>2, CleanIsSound, MergeIsClean, MergeImportSound
<1> HIDE DEF again, merged
<1>5. \A s \in Slots : again.slots[s] = new.slots[s]
    BY <1>1, <1>3, <1>4 DEF Merged
<1>6. \A g \in Groups : again.groups[g] = new.groups[g]
    BY <1>1, <1>3, <1>4 DEF Merged
<1>7. UsedConditions(again) = used
    BY <1>3, <1>5 DEF UsedConditions
<1>8. /\ Clean(twice) /\ twice.slots = again.slots /\ twice.groups = again.groups
      /\ \A c \in Conds : twice.exprs[c] = IF c \in used THEN again.exprs[c] ELSE None
      /\ twice.order = Kept(again.order, used)
    BY <1>4, <1>7, CleanupOfClean
<1> HIDE DEF twice, used
<1>9. \A c \in Conds : twice.exprs[c] = new.exprs[c]
    BY <1>1, <1>3, <1>4, <1>8 DEF Merged
<1>10. Defined(new) = used
    BY <1>2, <1>3 DEF Pruned
<1>11. twice.order = new.order
    <2> DEFINE added == Kept(other.order, Conds \ Defined(new))
    <2>1. /\ new.order \in Seq(Conds) /\ Range(new.order) = used
          /\ other.order \in Seq(Conds)
        BY <1>2, <1>10 DEF Clean, Sound, Ordered
    <2>2. added \in Seq(Conds) /\ Range(added) \cap used = {}
        BY <1>10, <2>1, KeptType
    <2>3. again.order = new.order \o added
        BY <1>4, Zenon DEF Merged
    <2> HIDE DEF added
    <2>4. Kept(new.order \o added, used) = Kept(new.order, used) \o Kept(added, used)
        BY <2>1, <2>2, KeptJoined DEF Joined
    <2>5. Kept(added, used) = <<>>
        BY <2>2, KeptNone
    <2>6. Kept(new.order, used) = new.order
        BY <2>1, KeptAll
    <2>7. new.order \o <<>> = new.order
        BY <2>1
    <2> QED
        BY <1>8, <2>3, <2>4, <2>5, <2>6, <2>7, Zenon
<1>12. twice = new
    BY <1>2, <1>5, <1>6, <1>8, <1>9, <1>11, CleanIsSound, SameTemplate
<1> QED
    BY <1>12 DEF twice, new, again, merged

\* A template merged into itself stays as it is.
LEMMA MergeSelf ==
    ASSUME NEW cfg, NEW theirs, Sound(cfg)
    PROVE  MergeImport(cfg, cfg, theirs) = cfg
<1> DEFINE new == MergeImport(cfg, cfg, theirs)
           added == Kept(cfg.order, Conds \ Defined(cfg))
<1>1. Sound(new) /\ Merged(new, cfg, cfg, theirs)
    BY MergeImportSound
<1> HIDE DEF new
<1>2. cfg.order \in Seq(Conds) /\ Range(cfg.order) = Defined(cfg)
    BY DEF Sound, Ordered
<1>3. added = <<>>
    BY <1>2, KeptNone
<1>4. new.order = cfg.order \o added
    BY <1>1, Zenon DEF Merged
<1>5. cfg.order \o <<>> = cfg.order
    BY <1>2
<1>6. new.order = cfg.order
    BY <1>3, <1>4, <1>5, Zenon
<1>7. \A s \in Slots : new.slots[s] = cfg.slots[s]
    BY <1>1 DEF Merged
<1>8. \A g \in Groups : new.groups[g] = cfg.groups[g]
    BY <1>1 DEF Merged
<1>9. \A c \in Conds : new.exprs[c] = cfg.exprs[c]
    BY <1>1 DEF Merged
<1> QED
    BY <1>1, <1>6, <1>7, <1>8, <1>9, SameTemplate DEF new

LEMMA NothingIsNothing ==
    ASSUME NEW one, NEW other, Sound(one), Sound(other), ~HasContent(one), ~HasContent(other)
    PROVE  one = other
<1>1. \A cfg : Sound(cfg) /\ ~HasContent(cfg) =>
          /\ \A s \in Slots : cfg.slots[s] = None
          /\ \A g \in Groups : cfg.groups[g] = None
          /\ \A c \in Conds : cfg.exprs[c] = None
          /\ cfg.order = <<>>
    <2> SUFFICES ASSUME NEW cfg, Sound(cfg), ~HasContent(cfg)
                 PROVE  /\ \A s \in Slots : cfg.slots[s] = None
                        /\ \A g \in Groups : cfg.groups[g] = None
                        /\ \A c \in Conds : cfg.exprs[c] = None
                        /\ cfg.order = <<>>
        OBVIOUS
    <2>1. cfg.order \in Seq(Conds) /\ Range(cfg.order) = {}
        BY DEF HasContent, Sound, Ordered
    <2>2. cfg.order = <<>>
        BY <2>1, EndsAreInRange
    <2> QED
        BY <2>2 DEF HasContent, Defined
<1> QED
    BY <1>1, SameTemplate

\* Importing the same file with the same answers onto the result changes nothing.
LEMMA ImportAgain ==
    ASSUME NEW one, NEW other, NEW choice, Clean(one), Clean(other)
    PROVE  LET new == Import(one, other, choice)
           IN  Import(new, other, choice) = new
<1> DEFINE imported == Transform(other, choice)
           new == Import(one, other, choice)
<1>1. Pruned(imported) /\ Clean(imported) /\ Cleanup(imported) = imported
    BY CleanIsSound, TransformPrunes, PrunedIsFixed DEF Pruned
<1>2. \A cfg : Import(cfg, other, choice) =
          Cleanup(IF HasContent(cfg) /\ choice.merge THEN MergeImport(cfg, imported, choice.theirs) ELSE imported)
    BY DEF Import
<1> HIDE DEF imported
<1>3. CASE ~(HasContent(one) /\ choice.merge)
    <2>1. new = imported
        BY <1>1, <1>2, <1>3
    <2>2. MergeImport(imported, imported, choice.theirs) = imported
        BY <1>1, CleanIsSound, MergeSelf
    <2> QED
        BY <1>1, <1>2, <2>1, <2>2
<1>4. CASE HasContent(one) /\ choice.merge
    <2> DEFINE merged == MergeImport(one, imported, choice.theirs)
    <2>1. new = Cleanup(merged)
        BY <1>2, <1>4
    <2>2. Clean(merged) /\ Merged(merged, one, imported, choice.theirs)
        BY <1>1, CleanIsSound, MergeIsClean, MergeImportSound
    <2>3. Cleanup(MergeImport(new, imported, choice.theirs)) = new
        BY <1>1, <2>1, MergeAgain
    <2> HIDE DEF new
    <2>4. CASE HasContent(new)
        BY <1>2, <1>4, <2>3, <2>4 DEF new
    <2>5. CASE ~HasContent(new)
        <3>1. Clean(new) /\ new.slots = merged.slots /\ new.groups = merged.groups
            BY <2>1, <2>2, CleanupOfClean
        <3> HIDE DEF merged
        <3>2. \A s \in Slots : imported.slots[s] = None
            BY <2>2, <2>5, <3>1 DEF HasContent, Merged
        <3>3. \A g \in Groups : imported.groups[g] = None
            BY <2>2, <2>5, <3>1 DEF HasContent, Merged
        <3>4. Defined(imported) = {}
            BY <1>1, <3>2 DEF Pruned, UsedConditions
        <3>5. new = imported
            BY <1>1, <2>5, <3>1, <3>2, <3>3, <3>4, CleanIsSound, NothingIsNothing DEF HasContent
        <3> QED
            BY <1>1, <1>2, <2>5, <3>5 DEF new
    <2> QED
        BY <2>4, <2>5
<1> QED
    BY <1>3, <1>4

THEOREM ImportsRepeat == Spec => []ImportRepeats
<1>1. KInv => ImportRepeats
    <2> SUFFICES ASSUME KInv, Importing
                 PROVE  Import(mem.candidate, source, mem.choice) = mem.candidate
        BY DEF ImportRepeats
    <2>1. Clean(mem.current) /\ Clean(source)
        BY AcceptedIsGood DEF KInv, Held, Busy, Importing, Stored, Good
    <2>2. mem.candidate = Import(mem.current, source, mem.choice)
        BY DEF KInv, Made, Importing
    <2> QED
        BY <2>1, <2>2, ImportAgain
<1> QED
    BY <1>1, HeldInvariant, PTL

-----------------------------------------------------------------------------
(***************************************************************************)
(* Putting conditions back where insertions put them.                      *)
(***************************************************************************)

LEMMA LastBeforeFirst ==
    ASSUME NEW A, NEW x \in Seq(A), NEW y \in Seq(A), IsInjective(x \o y), y # <<>>,
           NEW a, Adjacent(x \o y, a, y[1])
    PROVE  x # <<>> /\ x[Len(x)] = a
<1>1. y[1] \in Range(y) /\ Range(x) \cap Range(y) = {} /\ IsInjective(y)
    BY EndsAreInRange, ConcatRange
<1>2. ~Adjacent(x, a, y[1])
    BY <1>1, AdjacentIsInRange
<1>3. ~Adjacent(y, a, y[1])
    <2> SUFFICES ASSUME NEW i \in DOMAIN y, i + 1 \in DOMAIN y, y[i + 1] = y[1]
                 PROVE  FALSE
        BY DEF Adjacent
    <2>1. 1 \in DOMAIN y /\ i \in Nat /\ i >= 1
        OBVIOUS
    <2>2. i + 1 = 1
        BY <1>1, <2>1 DEF IsInjective
    <2> QED
        BY <2>1, <2>2
<1> QED
    BY <1>2, <1>3, AdjacentConcat

\* An order is cut at one place before, behind, or for lack of, an element.
LEMMA SameCut ==
    ASSUME NEW A, NEW x \in Seq(A), NEW y \in Seq(A), NEW u \in Seq(A), NEW v \in Seq(A),
           x \o y = u \o v, IsInjective(x \o y),
           \/ y # <<>> /\ v # <<>> /\ y[1] = v[1]
           \/ x # <<>> /\ u # <<>> /\ x[Len(x)] = u[Len(u)]
           \/ y = <<>> /\ v = <<>>
    PROVE  x = u /\ y = v
<1> DEFINE s == x \o y
<1>1. /\ s \in Seq(A) /\ Len(s) = Len(x) + Len(y) /\ Len(s) = Len(u) + Len(v)
      /\ Len(x) \in Nat /\ Len(y) \in Nat /\ Len(u) \in Nat /\ Len(v) \in Nat
    BY ConcatProperties, LenProperties
<1>2. /\ \A i \in 1..Len(x) : s[i] = x[i]
      /\ \A i \in 1..Len(u) : s[i] = u[i]
      /\ \A i \in 1..Len(y) : s[Len(x) + i] = y[i]
      /\ \A i \in 1..Len(v) : s[Len(u) + i] = v[i]
    <2>1. \A i \in 1..Len(x) : (x \o y)[i] = x[i]
        OBVIOUS
    <2>2. \A i \in 1..Len(u) : (u \o v)[i] = u[i]
        OBVIOUS
    <2>3. \A i \in 1..Len(y) : (x \o y)[Len(x) + i] = y[i]
        OBVIOUS
    <2>4. \A i \in 1..Len(v) : (u \o v)[Len(u) + i] = v[i]
        OBVIOUS
    <2> QED
        BY <2>1, <2>2, <2>3, <2>4
<1>3. \A i, j \in 1..Len(s) : s[i] = s[j] => i = j
    <2>1. DOMAIN s = 1..Len(s) /\ IsInjective(s)
        BY <1>1, LenProperties
    <2> HIDE DEF s
    <2> QED
        BY <2>1 DEF IsInjective
<1> HIDE DEF s
<1>4. Len(x) = Len(u)
    <2>1. CASE y # <<>> /\ v # <<>> /\ y[1] = v[1]
        <3>1. Len(y) >= 1 /\ Len(v) >= 1
            BY <1>1, <2>1, EmptySeq
        <3>2. s[Len(x) + 1] = s[Len(u) + 1]
            BY <1>1, <1>2, <2>1, <3>1
        <3> QED
            BY <1>1, <1>3, <3>1, <3>2
    <2>2. CASE x # <<>> /\ u # <<>> /\ x[Len(x)] = u[Len(u)]
        <3>1. Len(x) >= 1 /\ Len(u) >= 1
            BY <1>1, <2>2, EmptySeq
        <3>2. s[Len(x)] = s[Len(u)]
            BY <1>1, <1>2, <2>2, <3>1
        <3> QED
            BY <1>1, <1>3, <3>1, <3>2
    <2>3. CASE y = <<>> /\ v = <<>>
        BY <1>1, <2>3
    <2> QED
        BY <2>1, <2>2, <2>3
<1>5. \A i \in 1..Len(x) : x[i] = u[i]
    BY <1>2, <1>4
<1>6. \A i \in 1..Len(y) : y[i] = v[i]
    BY <1>1, <1>2, <1>4
<1>7. x = u
    BY <1>4, <1>5, SeqEqual
<1>8. y = v
    BY <1>1, <1>4, <1>6, SeqEqual
<1> QED
    BY <1>7, <1>8

\* The conditions of A stand where insertion by the source's order puts them: each
\* right in front of the next later one of the source; right behind the previous one
\* too, if all later ones are in A; and with no condition the source lacks behind
\* them, if all the source has are in A.
Settled(o, A, so) ==
    /\ A \subseteq Range(o) \cap Range(so)
    /\ \A c \in A : \A e : IsSuccessor(e, o, c, so) => Adjacent(o, c, e)
    /\ \A c \in A : Later(o, c, so) \subseteq A => \A e : IsPredecessor(e, o, c, so) => Adjacent(o, e, c)
    /\ Range(o) \cap Range(so) \subseteq A => \A c \in A : \A e : Before(o, c, e) => e \in Range(so)

LEMMA BeforeAround ==
    ASSUME NEW A, NEW x \in Seq(A), NEW y \in Seq(A), NEW d \in A, NEW a, NEW b
    PROVE  Before((x \o <<d>>) \o y, a, b) <=> \/ Before(x \o y, a, b)
                                               \/ a \in Range(x) /\ b = d
                                               \/ a = d /\ b \in Range(y)
BY AroundElement

LEMMA AdjacentAround ==
    ASSUME NEW A, NEW x \in Seq(A), NEW y \in Seq(A), NEW d \in A, NEW a, NEW b
    PROVE  Adjacent((x \o <<d>>) \o y, a, b) <=> \/ Adjacent(x, a, b) \/ Adjacent(y, a, b)
                                                 \/ x # <<>> /\ x[Len(x)] = a /\ b = d
                                                 \/ y # <<>> /\ y[1] = b /\ a = d
BY AroundElement

\* One more condition, ranked behind all that have settled, settles too.
LEMMA SettledInsert ==
    ASSUME NEW so \in Seq(Conds), NEW o \in Seq(Conds), IsInjective(o), NEW A, Settled(o, A, so),
           NEW c \in Range(so), c \in Conds, c \notin Range(o), \A a \in A : Rank(so, a) < Rank(so, c)
    PROVE  Settled(InsertBySourceOrder(o, c, so), A \cup {c}, so)
<1> DEFINE new == InsertBySourceOrder(o, c, so)
           K == Range(so)
           r(e) == Rank(so, e)
           B == A \cup {c}
<1>1. PICK x \in Seq(Conds), y \in Seq(Conds) : Cut(o, x, y, c, so) /\ new = (x \o <<c>>) \o y
    BY InsertCuts
<1>2. o = x \o y
    BY <1>1 DEF Cut
<1>3. /\ Range(new) = Range(o) \cup {c} /\ Range(o) = Range(x) \cup Range(y)
      /\ IsInjective(x \o y) /\ Range(x) \cap Range(y) = {}
    <2>1. Range(o) = Range(x) \cup Range(y) /\ IsInjective(x \o y) /\ Range(x) \cap Range(y) = {}
        BY <1>2, ConcatRange
    <2>2. Range((x \o <<c>>) \o y) = Range(x) \cup {c} \cup Range(y)
        BY AroundElement
    <2> QED
        BY <1>1, <2>1, <2>2
<1>4. /\ \A a, b : Before(new, a, b) <=> \/ Before(o, a, b)
                                         \/ a \in Range(x) /\ b = c
                                         \/ a = c /\ b \in Range(y)
      /\ \A a, b : Adjacent(new, a, b) <=> \/ Adjacent(x, a, b) \/ Adjacent(y, a, b)
                                           \/ x # <<>> /\ x[Len(x)] = a /\ b = c
                                           \/ y # <<>> /\ y[1] = b /\ a = c
    <2> DEFINE s == (x \o <<c>>) \o y
               t == x \o y
    <2>1. \A a, b : Before(s, a, b) <=> \/ Before(t, a, b)
                                        \/ a \in Range(x) /\ b = c
                                        \/ a = c /\ b \in Range(y)
        BY BeforeAround
    <2>3. \A a, b : Adjacent(s, a, b) <=> \/ Adjacent(x, a, b) \/ Adjacent(y, a, b)
                                          \/ x # <<>> /\ x[Len(x)] = a /\ b = c
                                          \/ y # <<>> /\ y[1] = b /\ a = c
        BY AdjacentAround
    <2>2. new = s /\ o = t
        BY <1>1, <1>2
    <2> HIDE DEF s, t, new
    <2> QED
        BY <2>1, <2>2, <2>3
<1>5. \A a, b : Adjacent(o, a, b) => Adjacent(new, a, b) \/ (x # <<>> /\ y # <<>> /\ x[Len(x)] = a /\ y[1] = b)
    BY <1>2, <1>4, AdjacentConcat
<1>6. /\ \A e \in K : r(e) \in Nat
      /\ \A e, d \in K : e # d => r(e) # r(d)
    BY RankIsNatural, RanksDiffer
<1>7. /\ \A e : IsSuccessor(e, o, c, so) => y # <<>> /\ y[1] = e
      /\ Later(o, c, so) = {} => \A e : IsPredecessor(e, o, c, so) => x # <<>> /\ x[Len(x)] = e
      /\ Later(o, c, so) = {} /\ Earlier(o, c, so) = {} => y = <<>>
    BY <1>1 DEF Cut
<1>8. /\ A \subseteq Range(o) \cap K /\ c \in K
      /\ \A a \in A : r(a) < r(c)
    BY DEF Settled
<1> HIDE DEF new, K, r
<1>9. /\ \A d, e : e \in Later(o, d, so) <=> e \in Range(o) \cap K /\ r(e) > r(d)
      /\ \A d, e : e \in Earlier(o, d, so) <=> e \in Range(o) \cap K /\ r(e) < r(d)
      /\ \A d, e : e \in Later(new, d, so) <=> e \in (Range(o) \cup {c}) \cap K /\ r(e) > r(d)
      /\ \A d, e : e \in Earlier(new, d, so) <=> e \in (Range(o) \cup {c}) \cap K /\ r(e) < r(d)
    BY <1>3 DEF Later, Earlier, r, K
<1>10. /\ \A d, e : IsSuccessor(e, o, d, so) <=>
             e \in Later(o, d, so) /\ \A w \in Later(o, d, so) : r(e) <= r(w)
       /\ \A d, e : IsSuccessor(e, new, d, so) <=>
             e \in Later(new, d, so) /\ \A w \in Later(new, d, so) : r(e) <= r(w)
       /\ \A d, e : IsPredecessor(e, o, d, so) <=>
             e \in Earlier(o, d, so) /\ \A w \in Earlier(o, d, so) : r(e) >= r(w)
       /\ \A d, e : IsPredecessor(e, new, d, so) <=>
             e \in Earlier(new, d, so) /\ \A w \in Earlier(new, d, so) : r(e) >= r(w)
    <2>1. ASSUME NEW q, NEW d, NEW e
          PROVE  IsSuccessor(e, q, d, so) <=> e \in Later(q, d, so) /\ \A w \in Later(q, d, so) : r(e) <= r(w)
        BY DEF IsSuccessor, r
    <2>2. ASSUME NEW q, NEW d, NEW e
          PROVE  IsPredecessor(e, q, d, so) <=> e \in Earlier(q, d, so) /\ \A w \in Earlier(q, d, so) : r(e) >= r(w)
        BY DEF IsPredecessor, r
    <2> QED
        BY <2>1, <2>2, Zenon
<1>11. ASSUME NEW d \in B, NEW e, IsSuccessor(e, new, d, so)
       PROVE  Adjacent(new, d, e)
    <2>1. /\ e \in (Range(o) \cup {c}) \cap K /\ r(e) > r(d)
          /\ \A w \in (Range(o) \cup {c}) \cap K : r(w) > r(d) => r(e) <= r(w)
        BY <1>9, <1>10, <1>11
    <2>2. CASE d = c
        <3>1. IsSuccessor(e, o, c, so)
            BY <1>6, <1>8, <1>9, <1>10, <2>1, <2>2
        <3> QED
            BY <1>4, <1>7, <2>2, <3>1
    <2>3. CASE d \in A /\ e = c
        <3>1. d \in Range(o) \cap K /\ \A w \in Range(o) \cap K : r(w) > r(d) => r(w) > r(c)
            BY <1>6, <1>8, <2>1, <2>3
        <3>2. CASE Later(o, c, so) # {}
            <4>1. PICK n : IsSuccessor(n, o, c, so)
                BY <3>2, NearestExist
            <4>2. IsSuccessor(n, o, d, so)
                BY <1>6, <1>8, <1>9, <1>10, <2>3, <3>1, <4>1
            <4>3. Adjacent(o, d, n) /\ y # <<>> /\ y[1] = n
                BY <1>7, <2>3, <4>1, <4>2 DEF Settled
            <4>4. x # <<>> /\ x[Len(x)] = d
                BY <1>2, <1>3, <4>3, LastBeforeFirst
            <4> QED
                BY <1>4, <2>3, <4>4
        <3>3. CASE Later(o, c, so) = {}
            <4>1. IsPredecessor(d, o, c, so)
                BY <1>6, <1>8, <1>9, <1>10, <2>3, <3>1, <3>3
            <4> QED
                BY <1>4, <1>7, <2>3, <3>3, <4>1
        <3> QED
            BY <3>2, <3>3
    <2>4. CASE d \in A /\ e # c
        <3>1. IsSuccessor(e, o, d, so) /\ r(e) < r(c) /\ e \in Range(o) \cap K
            BY <1>6, <1>8, <1>9, <1>10, <2>1, <2>4
        <3>2. Adjacent(o, d, e)
            BY <2>4, <3>1 DEF Settled
        <3>3. ~(x # <<>> /\ y # <<>> /\ x[Len(x)] = d /\ y[1] = e)
            <4>1. CASE Later(o, c, so) # {}
                <5>1. PICK n : IsSuccessor(n, o, c, so)
                    BY <4>1, NearestExist
                <5>2. n \in K /\ r(n) > r(c) /\ y[1] = n
                    BY <1>7, <1>9, <1>10, <5>1
                <5> QED
                    BY <1>6, <1>8, <3>1, <5>2
            <4>2. CASE Later(o, c, so) = {}
                <5>1. e \in Earlier(o, c, so)
                    BY <1>9, <3>1
                <5>2. PICK n : IsPredecessor(n, o, c, so)
                    BY <5>1, NearestExist
                <5>3. n \in K /\ r(n) >= r(e) /\ x[Len(x)] = n
                    BY <1>7, <1>9, <1>10, <4>2, <5>1, <5>2
                <5> QED
                    BY <1>6, <1>8, <2>1, <2>4, <5>3
            <4> QED
                BY <4>1, <4>2
        <3> QED
            BY <1>5, <3>2, <3>3
    <2> QED
        BY <2>2, <2>3, <2>4
<1>12. ASSUME NEW d \in B, NEW e, Later(new, d, so) \subseteq B, IsPredecessor(e, new, d, so)
       PROVE  Adjacent(new, e, d)
    <2>1. /\ e \in (Range(o) \cup {c}) \cap K /\ r(e) < r(d)
          /\ \A w \in (Range(o) \cup {c}) \cap K : r(w) < r(d) => r(e) >= r(w)
        BY <1>9, <1>10, <1>12
    <2>2. Later(o, c, so) = {}
        <3> SUFFICES ASSUME NEW w \in Range(o) \cap K, r(w) > r(c)
                     PROVE  FALSE
            BY <1>9
        <3>1. r(w) > r(d)
            BY <1>6, <1>8
        <3>2. w \in B
            BY <1>9, <1>12, <3>1
        <3> QED
            BY <1>6, <1>8, <3>2
    <2>3. CASE d = c
        <3>1. IsPredecessor(e, o, c, so)
            BY <1>6, <1>8, <1>9, <1>10, <2>1, <2>3
        <3> QED
            BY <1>4, <1>7, <2>2, <2>3, <3>1
    <2>4. CASE d \in A
        <3>1. IsPredecessor(e, o, d, so) /\ e \in Range(o) \cap K
            BY <1>6, <1>8, <1>9, <1>10, <2>1, <2>4
        <3>2. Later(o, d, so) \subseteq A
            BY <1>9, <1>12
        <3>3. Adjacent(o, e, d)
            BY <2>4, <3>1, <3>2 DEF Settled
        <3>4. x[Len(x)] # e
            <4>1. d \in Earlier(o, c, so)
                BY <1>8, <1>9, <2>4
            <4>2. PICK n : IsPredecessor(n, o, c, so)
                BY <4>1, NearestExist
            <4>3. n \in K /\ r(n) >= r(d) /\ x[Len(x)] = n
                BY <1>7, <1>9, <1>10, <2>2, <4>1, <4>2
            <4> QED
                BY <1>6, <1>8, <2>1, <2>4, <4>3
        <3> QED
            BY <1>5, <3>3, <3>4
    <2> QED
        BY <2>3, <2>4
<1>13. ASSUME Range(new) \cap K \subseteq B, NEW d \in B, NEW e, Before(new, d, e)
       PROVE  e \in K
    <2>1. Range(o) \cap K \subseteq A
        BY <1>3, <1>13
    <2>2. \A a \in A : \A b : Before(o, a, b) => b \in K
        BY <2>1 DEF Settled, K
    <2>3. CASE d \in A
        BY <1>4, <1>8, <1>13, <2>2, <2>3
    <2>4. CASE d = c
        <3>1. e \in Range(y) /\ y # <<>>
            <4>1. ~Before(o, c, e) /\ c \notin Range(x)
                BY <1>3, BeforeIsInRange
            <4> QED
                BY <1>4, <1>13, <2>4, <4>1, RangeOfEmpty
        <3>2. Later(o, c, so) = {}
            BY <1>6, <1>8, <1>9, <2>1
        <3>3. PICK n : IsPredecessor(n, o, c, so)
            BY <1>7, <3>1, <3>2, NearestExist
        <3>4. n \in A /\ x # <<>> /\ x[Len(x)] = n
            BY <1>7, <1>9, <1>10, <2>1, <3>2, <3>3
        <3>5. n \in Range(x)
            BY <3>4, EndsAreInRange
        <3>6. Before(o, n, e)
            BY <1>2, <3>1, <3>5, BeforeConcat
        <3> QED
            BY <2>2, <3>4, <3>6
    <2> QED
        BY <2>3, <2>4
<1>14. B \subseteq Range(new) \cap K
    BY <1>3, <1>8
<1> QED
    BY <1>11, <1>12, <1>13, <1>14 DEF Settled, new, K

\* Without one of them the others are still settled.
LEMMA SettledRemove ==
    ASSUME NEW so \in Seq(Conds), NEW x \in Seq(Conds), NEW y \in Seq(Conds), NEW c \in Conds,
           IsInjective((x \o <<c>>) \o y), NEW A, Settled((x \o <<c>>) \o y, A, so), c \in A
    PROVE  Settled(x \o y, A \ {c}, so)
<1> DEFINE o == x \o y
           full == (x \o <<c>>) \o y
           K == Range(so)
           r(e) == Rank(so, e)
<1>1. Range(full) = Range(o) \cup {c} /\ c \notin Range(o) /\ c \notin Range(x) /\ c \notin Range(y)
    <2>1. /\ Range(full) = Range(x) \cup {c} \cup Range(y) /\ Range(o) = Range(x) \cup Range(y)
          /\ c \notin Range(o)
        BY AroundElement
    <2> HIDE DEF full, o
    <2> QED
        BY <2>1
<1>2. \A a, b : Adjacent(full, a, b) <=> \/ Adjacent(x, a, b) \/ Adjacent(y, a, b)
                                         \/ x # <<>> /\ x[Len(x)] = a /\ b = c
                                         \/ y # <<>> /\ y[1] = b /\ a = c
    BY AdjacentAround
<1>3. \A a, b : Before(o, a, b) => Before(full, a, b)
    BY BeforeAround
<1>4. \A a, b : Adjacent(o, a, b) <=> \/ Adjacent(x, a, b) \/ Adjacent(y, a, b)
                                      \/ x # <<>> /\ y # <<>> /\ x[Len(x)] = a /\ y[1] = b
    <2> SUFFICES ASSUME NEW a, NEW b
                 PROVE  Adjacent(o, a, b) <=> \/ Adjacent(x, a, b) \/ Adjacent(y, a, b)
                                              \/ x # <<>> /\ y # <<>> /\ x[Len(x)] = a /\ y[1] = b
        OBVIOUS
    <2> QED
        BY AdjacentConcat, Zenon
<1>5. Settled(full, A, so)
    OBVIOUS
<1> HIDE DEF full, o
<1>6. \A a, b : Adjacent(full, a, b) /\ a # c /\ b # c => Adjacent(o, a, b)
    BY <1>2, <1>4
<1>7. \A a, b : Adjacent(full, a, c) /\ Adjacent(full, c, b) => Adjacent(o, a, b)
    <2> SUFFICES ASSUME NEW a, NEW b, Adjacent(full, a, c), Adjacent(full, c, b)
                 PROVE  Adjacent(o, a, b)
        OBVIOUS
    <2>1. ~Adjacent(x, a, c) /\ ~Adjacent(y, a, c) /\ ~Adjacent(x, c, b) /\ ~Adjacent(y, c, b)
        BY <1>1, AdjacentIsInRange
    <2>2. (y # <<>> => y[1] # c) /\ (x # <<>> => x[Len(x)] # c)
        BY <1>1, EndsAreInRange
    <2> QED
        BY <1>2, <1>4, <2>1, <2>2
<1>8. /\ \A e \in K : r(e) \in Nat
      /\ \A e, d \in K : e # d => r(e) # r(d)
    BY RankIsNatural, RanksDiffer
<1>9. A \subseteq Range(full) \cap K
    BY <1>5 DEF Settled
<1> HIDE DEF K, r
<1>10. /\ \A d, e : e \in Later(o, d, so) <=> e \in Range(o) \cap K /\ r(e) > r(d)
       /\ \A d, e : e \in Earlier(o, d, so) <=> e \in Range(o) \cap K /\ r(e) < r(d)
       /\ \A d, e : e \in Later(full, d, so) <=> e \in (Range(o) \cup {c}) \cap K /\ r(e) > r(d)
       /\ \A d, e : e \in Earlier(full, d, so) <=> e \in (Range(o) \cup {c}) \cap K /\ r(e) < r(d)
    BY <1>1 DEF Later, Earlier, r, K
<1>11. ASSUME NEW q, NEW d, NEW e
       PROVE  IsSuccessor(e, q, d, so) <=> e \in Later(q, d, so) /\ \A w \in Later(q, d, so) : r(e) <= r(w)
    BY DEF IsSuccessor, r
<1>12. ASSUME NEW q, NEW d, NEW e
       PROVE  IsPredecessor(e, q, d, so) <=> e \in Earlier(q, d, so) /\ \A w \in Earlier(q, d, so) : r(e) >= r(w)
    BY DEF IsPredecessor, r
<1>13. \A d \in A : d \in (Range(o) \cup {c}) \cap K
    BY <1>1, <1>9
<1>14. ASSUME NEW d \in A \ {c}, NEW e, IsSuccessor(e, o, d, so)
       PROVE  Adjacent(o, d, e)
    <2>1. /\ e \in Range(o) \cap K /\ r(e) > r(d) /\ e # c
          /\ \A w \in Range(o) \cap K : r(w) > r(d) => r(e) <= r(w)
        BY <1>1, <1>10, <1>11, <1>14
    <2>2. CASE r(d) < r(c) /\ r(c) < r(e)
        <3>1. IsSuccessor(c, full, d, so)
            BY <1>8, <1>10, <1>11, <1>13, <2>1, <2>2
        <3>2. IsSuccessor(e, full, c, so)
            BY <1>8, <1>10, <1>11, <1>13, <2>1, <2>2
        <3> QED
            BY <1>5, <1>7, <3>1, <3>2 DEF Settled
    <2>3. CASE ~(r(d) < r(c) /\ r(c) < r(e))
        <3>1. IsSuccessor(e, full, d, so)
            BY <1>8, <1>10, <1>11, <1>13, <2>1, <2>3
        <3> QED
            BY <1>5, <1>6, <2>1, <3>1 DEF Settled
    <2> QED
        BY <2>2, <2>3
<1>15. ASSUME NEW d \in A \ {c}, NEW e, Later(o, d, so) \subseteq A \ {c}, IsPredecessor(e, o, d, so)
       PROVE  Adjacent(o, e, d)
    <2>1. /\ e \in Range(o) \cap K /\ r(e) < r(d) /\ e # c
          /\ \A w \in Range(o) \cap K : r(w) < r(d) => r(e) >= r(w)
        BY <1>1, <1>10, <1>12, <1>15
    <2>2. Later(full, d, so) \subseteq A
        BY <1>10, <1>15
    <2>3. CASE r(e) < r(c) /\ r(c) < r(d)
        <3>1. IsPredecessor(c, full, d, so)
            BY <1>8, <1>10, <1>12, <1>13, <2>1, <2>3
        <3>2. IsPredecessor(e, full, c, so)
            BY <1>8, <1>10, <1>12, <1>13, <2>1, <2>3
        <3>3. ASSUME NEW w \in Later(full, c, so)
              PROVE  w \in A
            <4>1. w \in (Range(o) \cup {c}) \cap K /\ r(w) > r(c)
                BY <1>10, <3>3
            <4>2. w # c /\ w \in Range(o)
                BY <1>8, <1>13, <4>1
            <4>3. w = d \/ r(w) > r(d)
                BY <1>8, <1>13, <2>1, <2>3, <4>1, <4>2
            <4> QED
                BY <1>10, <2>2, <4>1, <4>3
        <3> QED
            BY <1>5, <1>7, <2>2, <3>1, <3>2, <3>3 DEF Settled
    <2>4. CASE ~(r(e) < r(c) /\ r(c) < r(d))
        <3>1. IsPredecessor(e, full, d, so)
            BY <1>8, <1>10, <1>12, <1>13, <2>1, <2>4
        <3> QED
            BY <1>5, <1>6, <2>1, <2>2, <3>1 DEF Settled
    <2> QED
        BY <2>3, <2>4
<1>16. ASSUME Range(o) \cap K \subseteq A \ {c}, NEW d \in A \ {c}, NEW e, Before(o, d, e)
       PROVE  e \in K
    <2>1. Range(full) \cap K \subseteq A
        BY <1>1, <1>16
    <2>2. Before(full, d, e)
        BY <1>3, <1>16
    <2> QED
        BY <1>5, <2>1, <2>2 DEF Settled, K
<1>17. A \ {c} \subseteq Range(o) \cap K
    BY <1>13
<1> QED
    BY <1>14, <1>15, <1>16, <1>17 DEF Settled, o, K

\* One of them, taken out and inserted again, is where it was.
LEMMA SettledReinsert ==
    ASSUME NEW so \in Seq(Conds), NEW x \in Seq(Conds), NEW y \in Seq(Conds), NEW c \in Conds,
           IsInjective((x \o <<c>>) \o y), NEW A, Settled((x \o <<c>>) \o y, A, so), c \in A
    PROVE  InsertBySourceOrder(x \o y, c, so) = (x \o <<c>>) \o y
<1> DEFINE o == x \o y
           full == (x \o <<c>>) \o y
           K == Range(so)
           r(e) == Rank(so, e)
<1>1. /\ Range(full) = Range(o) \cup {c} /\ c \notin Range(o) /\ c \notin Range(x) /\ c \notin Range(y)
      /\ o \in Seq(Conds) /\ IsInjective(o) /\ Range(y) \subseteq Range(o)
    <2>1. /\ Range(full) = Range(x) \cup {c} \cup Range(y) /\ Range(o) = Range(x) \cup Range(y)
          /\ c \notin Range(o) /\ o \in Seq(Conds) /\ IsInjective(o)
        BY AroundElement
    <2> HIDE DEF full, o
    <2> QED
        BY <2>1
<1>2. \A a, b : Adjacent(full, a, b) <=> \/ Adjacent(x, a, b) \/ Adjacent(y, a, b)
                                         \/ x # <<>> /\ x[Len(x)] = a /\ b = c
                                         \/ y # <<>> /\ y[1] = b /\ a = c
    BY AdjacentAround
<1>3. \A b \in Range(y) : Before(full, c, b)
    BY BeforeAround
<1>4. Settled(full, A, so)
    OBVIOUS
<1>5. PICK u \in Seq(Conds), v \in Seq(Conds) :
        Cut(o, u, v, c, so) /\ InsertBySourceOrder(o, c, so) = (u \o <<c>>) \o v
    BY <1>1, InsertCuts
<1>6. /\ o = u \o v
      /\ \A e : IsSuccessor(e, o, c, so) => v # <<>> /\ v[1] = e
      /\ Later(o, c, so) = {} => \A e : IsPredecessor(e, o, c, so) => u # <<>> /\ u[Len(u)] = e
      /\ Later(o, c, so) = {} /\ Earlier(o, c, so) = {} => v = <<>>
    BY <1>5 DEF Cut
<1>7. x = u /\ y = v
    <2> HIDE DEF full
    <2>1. c \in K /\ r(c) \in Nat /\ \A e \in K : r(e) \in Nat /\ (e # c => r(e) # r(c))
        BY <1>4, RankIsNatural, RanksDiffer DEF Settled
    <2>2. Later(full, c, so) = Later(o, c, so) /\ Earlier(full, c, so) = Earlier(o, c, so)
        BY <1>1, <2>1 DEF Later, Earlier
    <2>3. CASE Later(o, c, so) # {}
        <3>1. PICK e : IsSuccessor(e, o, c, so)
            BY <2>3, NearestExist
        <3>2. IsSuccessor(e, full, c, so)
            BY <2>2, <3>1 DEF IsSuccessor
        <3>3. Adjacent(full, c, e)
            BY <1>4, <3>2 DEF Settled
        <3>4. y # <<>> /\ y[1] = e
            BY <1>1, <1>2, <3>3, AdjacentIsInRange, EndsAreInRange
        <3> QED
            BY <1>1, <1>6, <3>1, <3>4, SameCut
    <2>4. CASE Later(o, c, so) = {} /\ Earlier(o, c, so) # {}
        <3>1. PICK e : IsPredecessor(e, o, c, so)
            BY <2>4, NearestExist
        <3>2. IsPredecessor(e, full, c, so)
            BY <2>2, <3>1 DEF IsPredecessor
        <3>3. Adjacent(full, e, c)
            BY <1>4, <2>2, <2>4, <3>2 DEF Settled
        <3>4. x # <<>> /\ x[Len(x)] = e
            BY <1>1, <1>2, <3>3, AdjacentIsInRange, EndsAreInRange
        <3> QED
            BY <1>1, <1>6, <2>4, <3>1, <3>4, SameCut
    <2>5. CASE Later(o, c, so) = {} /\ Earlier(o, c, so) = {}
        <3>1. Range(o) \cap K = {}
            BY <1>1, <2>1, <2>5 DEF Later, Earlier
        <3>2. Range(full) \cap K \subseteq A
            BY <1>1, <3>1
        <3>3. \A b \in Range(y) : b \in K
            BY <1>3, <1>4, <3>2 DEF Settled
        <3>4. y = <<>>
            <4> SUFFICES ASSUME y # <<>> PROVE FALSE
                OBVIOUS
            <4>1. y[1] \in Range(y)
                BY EndsAreInRange
            <4> QED
                BY <1>1, <3>1, <3>3, <4>1
        <3> QED
            BY <1>1, <1>6, <2>5, <3>4, SameCut
    <2> QED
        BY <2>3, <2>4, <2>5
<1> QED
    BY <1>5, <1>7

\* What was inserted one after the other has settled.
LEMMA InsertedIsSettled ==
    ASSUME NEW so \in Seq(Conds), NEW o \in Seq(Conds), IsInjective(o),
           NEW s \in Seq(Conds), IsInjective(s), SourceOrdered(s, so),
           Range(s) \subseteq Range(so), Range(o) \cap Range(s) = {}
    PROVE  Settled(InsertAllBySourceOrder(o, s, so), Range(s), so)
<1> DEFINE S == {u \in Seq(Conds) :
                    IsInjective(u) /\ SourceOrdered(u, so) /\ Range(u) \subseteq Range(so) /\ Range(o) \cap Range(u) = {}
                    => Settled(InsertAllBySourceOrder(o, u, so), Range(u), so)}
<1>1. <<>> \in S
    BY RangeOfEmpty, EmptySeq DEF Settled
<1>2. ASSUME NEW u \in Seq(Conds), NEW c \in Conds, u \in S
      PROVE  Append(u, c) \in S
    <2> SUFFICES ASSUME IsInjective(Append(u, c)), SourceOrdered(Append(u, c), so),
                        Range(Append(u, c)) \subseteq Range(so), Range(o) \cap Range(Append(u, c)) = {}
                 PROVE  Settled(InsertAllBySourceOrder(o, Append(u, c), so), Range(Append(u, c)), so)
        BY AppendProperties
    <2>1. Range(Append(u, c)) = Range(u) \cup {c} /\ IsInjective(u) /\ c \notin Range(u)
        BY RangeOfAppend, InjectiveAppend
    <2>2. Range(u) \subseteq Range(so) /\ c \in Range(so) /\ Range(o) \cap Range(u) = {} /\ c \notin Range(o)
        BY <2>1
    <2>3. SourceOrdered(u, so)
        BY BeforeAppend DEF SourceOrdered
    <2>4. \A a \in Range(u) : Rank(so, a) < Rank(so, c)
        BY <2>2, BeforeAppend DEF SourceOrdered
    <2> DEFINE q == InsertAllBySourceOrder(o, u, so)
    <2>5. Settled(q, Range(u), so)
        BY <1>2, <2>1, <2>2, <2>3
    <2>6. q \in Seq(Conds) /\ IsInjective(q) /\ Range(q) = Range(o) \cup Range(u)
        BY <2>1, <2>2, InsertAllShape
    <2>7. InsertAllBySourceOrder(o, Append(u, c), so) = InsertBySourceOrder(q, c, so)
        BY InsertAllAppend
    <2> HIDE DEF q
    <2>8. c \notin Range(q)
        BY <2>1, <2>2, <2>6
    <2>9. Settled(InsertBySourceOrder(q, c, so), Range(u) \cup {c}, so)
        BY <2>2, <2>4, <2>5, <2>6, <2>8, SettledInsert
    <2> QED
        BY <2>1, <2>7, <2>9
<1> HIDE DEF S
<1>3. s \in S
    BY <1>1, <1>2, GrowSequence
<1> QED
    BY <1>3 DEF S

\* Any of them, taken out and inserted again one after the other, are where they were.
LEMMA PutBack ==
    ASSUME NEW so \in Seq(Conds), NEW full \in Seq(Conds), IsInjective(full), NEW A, Settled(full, A, so),
           NEW s \in Seq(Conds), IsInjective(s), Range(s) \subseteq A
    PROVE  InsertAllBySourceOrder(Kept(full, Conds \ Range(s)), s, so) = full
<1> DEFINE back(f, u) == InsertAllBySourceOrder(Kept(f, Conds \ Range(u)), u, so)
           S == {u \in Seq(Conds) : IsInjective(u) =>
                    \A f \in Seq(Conds), B \in SUBSET Conds :
                        IsInjective(f) /\ Settled(f, B, so) /\ Range(u) \subseteq B => back(f, u) = f}
<1>1. <<>> \in S
    <2> SUFFICES ASSUME NEW f \in Seq(Conds)
                 PROVE  back(f, <<>>) = f
        BY EmptySeq
    <2>1. Range(f) \subseteq Conds
        BY DEF Range
    <2>2. Kept(f, Conds \ Range(<<>>)) = f
        BY <2>1, RangeOfEmpty, KeptAll
    <2> QED
        BY <2>2, InsertAllEmpty
<1>2. ASSUME NEW u \in Seq(Conds), NEW c \in Conds, u \in S
      PROVE  Append(u, c) \in S
    <2> SUFFICES ASSUME IsInjective(Append(u, c)), NEW f \in Seq(Conds), NEW B \in SUBSET Conds,
                        IsInjective(f), Settled(f, B, so), Range(Append(u, c)) \subseteq B
                 PROVE  back(f, Append(u, c)) = f
        BY AppendProperties
    <2>1. Range(Append(u, c)) = Range(u) \cup {c} /\ IsInjective(u) /\ c \notin Range(u)
        BY RangeOfAppend, InjectiveAppend
    <2>2. c \in B /\ c \in Range(f) /\ Range(u) \subseteq B \ {c}
        BY <2>1 DEF Settled
    <2>13. PICK x, y \in Seq(Conds) : SplitsAt(f, x, c, y)
        BY <2>2, SplitAround
    <2>3. f = (x \o <<c>>) \o y
        BY <2>13 DEF SplitsAt
    <2> DEFINE o == x \o y
               K == Conds \ Range(Append(u, c))
    <2>4. Settled(o, B \ {c}, so)
        BY <2>2, <2>3, SettledRemove
    <2>5. o \in Seq(Conds) /\ IsInjective(o) /\ c \notin Range(o)
        BY <2>3, AroundElement
    <2>6. Kept(f, K) = Kept(o, K)
        BY <2>1, <2>3, KeptAround
    <2>7. InsertBySourceOrder(o, c, so) = f
        BY <2>2, <2>3, SettledReinsert
    <2> HIDE DEF o
    <2>8. Range(o) \cap K = Range(o) \cap (Conds \ Range(u))
        BY <2>1, <2>5
    <2>9. Kept(o, K) = Kept(o, Conds \ Range(u))
        BY <2>5, <2>8, KeptSame
    <2>10. InsertAllBySourceOrder(Kept(o, Conds \ Range(u)), u, so) = o
        <3>1. B \ {c} \in SUBSET Conds
            OBVIOUS
        <3>2. back(o, u) = o
            BY <1>2, <2>1, <2>2, <2>4, <2>5, <3>1
        <3> QED
            BY <3>2
    <2>11. \A q : InsertAllBySourceOrder(q, Append(u, c), so) = InsertBySourceOrder(InsertAllBySourceOrder(q, u, so), c, so)
        BY InsertAllAppend
    <2> HIDE DEF K
    <2>12. InsertAllBySourceOrder(Kept(f, K), Append(u, c), so) = f
        BY <2>6, <2>7, <2>9, <2>10, <2>11
    <2> QED
        BY <2>12 DEF K
<1> HIDE DEF S
<1>3. s \in S
    BY <1>1, <1>2, GrowSequence
<1>4. A \in SUBSET Conds
    BY DEF Settled, Range
<1> QED
    BY <1>3, <1>4 DEF S


-----------------------------------------------------------------------------
(***************************************************************************)
(* Promoting the same selection once more.                                 *)
(***************************************************************************)

\* A parameter a slot lost was removed, or moved to another slot.
LEMMA LostOrMoved ==
    ASSUME NEW current, NEW final, NEW x \in ParameterChanges(current, final),
           NEW s \in x.from, final.slots[s] = None
    PROVE  \/ x.to = {} /\ \A m \in MovedSlots(current, final) : m[1] # s
           \/ x.to # {} /\ \E m \in MovedSlots(current, final) : m[1] = s
<1>1. CASE \E m \in MovedSlots(current, final) :
            x = [from |-> {m[1]}, to |-> {m[2]}, was |-> current.slots[m[1]], is |-> final.slots[m[2]]]
    BY <1>1
<1>2. CASE \E t \in Slots :
            /\ \A m \in MovedSlots(current, final) : t \notin {m[1], m[2]}
            /\ x = [from |-> {y \in {t} : current.slots[y] # None}, to |-> {y \in {t} : final.slots[y] # None},
                    was |-> current.slots[t], is |-> final.slots[t]]
    <2>1. PICK t \in Slots :
            /\ \A m \in MovedSlots(current, final) : t \notin {m[1], m[2]}
            /\ x = [from |-> {y \in {t} : current.slots[y] # None}, to |-> {y \in {t} : final.slots[y] # None},
                    was |-> current.slots[t], is |-> final.slots[t]]
        BY <1>2
    <2>2. s = t
        BY <2>1
    <2>3. x.to = {}
        BY <2>1, <2>2
    <2> QED
        BY <2>1, <2>2, <2>3
<1> QED
    BY <1>1, <1>2 DEF ParameterChanges

\* A parameter found after a promotion was selected, or it was there before and
\* nothing selected took its place.
LEMMA FoundAfter ==
    ASSUME NEW from, NEW target, NEW selected, NEW prune, Sound(from), Sound(target), NEW s \in Slots,
           Apply(from, target, selected, prune).slots[s] # None
    PROVE  LET chosen == selected.slots \cap ParameterItems(from, target, prune)
           IN  \/ s \in chosen /\ from.slots[s] # None
               \/ /\ s \notin chosen /\ target.slots[s] # None
                  /\ \A x \in chosen : x[2] = s[2] => from.slots[x] = None
<1> DEFINE new == Apply(from, target, selected, prune)
           closed == WithDependencies(from, target, selected, prune)
           chosen == selected.slots \cap ParameterItems(from, target, prune)
           slots == PromoteSlots(from, target, chosen)
           groups == PromoteGroups(from, target, closed, prune, slots)
           exprs == PromoteExprs(from, target, closed, prune)
<1>1. Fields(new, from, closed, slots, groups, exprs)
    BY ApplyFields, Zenon
<1>2. new.slots[s] # None
    OBVIOUS
<1> HIDE DEF new, closed, slots, groups, exprs
<1>3. slots[s] # None
    BY <1>1, <1>2 DEF Fields
<1> QED
    BY <1>3 DEF slots, PromoteSlots

\* After a promotion nothing that was selected differs any more as it was selected.
LEMMA NothingLeftToSelect ==
    ASSUME NEW from, NEW target, NEW selected, NEW prune, IsSelection(selected), selected.slots \subseteq Slots,
           Clean(from), Single(from), Clean(target),
           Single(target) \/ selected.slots \subseteq ParameterItems(from, target, prune)
    PROVE  selected.slots \cap ParameterItems(from, Apply(from, target, selected, prune), prune) = {}
<1> DEFINE new == Apply(from, target, selected, prune)
           chosen == selected.slots \cap ParameterItems(from, target, prune)
<1> SUFFICES ASSUME NEW s \in selected.slots, s \in ParameterItems(from, new, prune)
             PROVE  FALSE
    OBVIOUS
<1>1. /\ Sound(from) /\ Resolved(from) /\ Sound(target) /\ Resolved(target) /\ s \in Slots
      /\ \A y \in Slots : from.slots[y] # None => HasValues(from.slots[y])
    BY DEF Clean, Valued
<1>2. ASSUME NEW y \in Slots, new.slots[y] # None
      PROVE  \/ y \in chosen /\ from.slots[y] # None
             \/ /\ y \notin chosen /\ target.slots[y] # None
                /\ \A z \in chosen : z[2] = y[2] => from.slots[z] = None
    BY <1>1, <1>2, FoundAfter
<1>3. from.slots[s] # None => new.slots[s] = from.slots[s]
    BY <1>1, SelectionArrives
<1>4. PICK x \in ParameterChanges(new, from) :
        /\ prune \/ x.is # None
        /\ s \in IF x.to # {} THEN x.to ELSE x.from
    <2> HIDE DEF new
    <2> QED
        BY DEF ParameterItems, Eligible
<1> HIDE DEF new
<1>5. /\ new.slots[s] # from.slots[s]
      /\ s \in x.to => from.slots[s] # None
      /\ s \in x.from => new.slots[s] # None
      /\ x.to = {} => x.is = None
    BY <1>4, ChangeShape
<1>6. from.slots[s] = None
    BY <1>3, <1>5
<1>7. x.to = {} /\ s \in x.from /\ prune /\ new.slots[s] # None
    BY <1>4, <1>5, <1>6
<1>8. /\ s \notin chosen /\ target.slots[s] # None
      /\ \A z \in chosen : z[2] = s[2] => from.slots[z] = None
    BY <1>1, <1>2, <1>6, <1>7
<1>9. s \notin ParameterItems(from, target, prune) /\ Single(target)
    BY <1>8
<1>10. PICK y \in ParameterChanges(target, from) : s \in y.from
    BY <1>1, <1>6, <1>8, EveryChange
<1>11. y.to # {}
    <2>1. y \in Eligible(ParameterChanges(target, from), prune)
        BY <1>7 DEF Eligible
    <2> QED
        BY <1>9, <1>10, <2>1 DEF ParameterItems
<1>12. PICK m \in MovedSlots(target, from) : m[1] = s
    BY <1>6, <1>10, <1>11, LostOrMoved
<1>13. m[2] \in Slots /\ m[2][2] = s[2] /\ target.slots[m[2]] = None /\ from.slots[m[2]] # None
    BY <1>12, MovedPair
<1>14. new.slots[m[2]] = None
    BY <1>2, <1>8, <1>13
<1>15. s = <<s[1], s[2]>> /\ s[1] \in Places /\ s[2] \in Params
    BY <1>1 DEF Slots
<1>16. \A u \in Places \X {s[2]} : u \in Slots /\ u[2] = s[2]
    BY <1>15 DEF Slots
<1>17. m[2] \in Places \X {s[2]}
    BY <1>13 DEF Slots
<1>18. Lone(Gone(new, from, s[2])) /\ s \in Gone(new, from, s[2])
    <2>1. ASSUME NEW u \in Gone(new, from, s[2])
          PROVE  u = s
        <3>1. u \in Slots /\ u[2] = s[2] /\ new.slots[u] # None /\ from.slots[u] = None
            BY <1>16 DEF Gone
        <3>2. target.slots[u] # None
            BY <1>2, <3>1
        <3> QED
            BY <1>1, <1>8, <1>9, <3>1, <3>2 DEF Single
    <2> QED
        BY <1>6, <1>7, <1>15, <2>1 DEF Lone, Gone
<1>19. Lone(Gone(from, new, s[2])) /\ m[2] \in Gone(from, new, s[2])
    <2>1. ASSUME NEW u \in Gone(from, new, s[2])
          PROVE  u = m[2]
        <3>1. u \in Slots /\ u[2] = s[2] /\ from.slots[u] # None
            BY <1>16 DEF Gone
        <3> QED
            BY <1>13, <3>1 DEF Single
    <2> QED
        BY <1>13, <1>14, <1>17, <2>1 DEF Lone, Gone
<1>20. <<s, m[2]>> \in MovedSlots(new, from)
    BY <1>15, <1>18, <1>19 DEF MovedSlots
<1>21. \A n \in MovedSlots(new, from) : n[1] # s
    BY <1>6, <1>7, LostOrMoved
<1> QED
    BY <1>20, <1>21


\* Some of the conditions a promotion brought, promoted once more, stay where they are.
LEMMA OrderAgain ==
    ASSUME NEW from, NEW target, NEW closed, NEW prune, Sound(from), Sound(target),
           NEW some, some \subseteq closed.conds \cap Defined(from)
    PROVE  LET exprs == PromoteExprs(from, target, closed, prune)
               left == {c \in Conds : exprs[c] # None}
               new == PromoteOrder(from, target, closed, exprs)
           IN  InsertAllBySourceOrder(Kept(new, left \ some), Kept(from.order, some), from.order) = new
<1> DEFINE exprs == PromoteExprs(from, target, closed, prune)
           arriving == closed.conds \cap Defined(from)
           left == {c \in Conds : exprs[c] # None}
           remaining == Kept(target.order, left \ arriving)
           coming == Kept(from.order, arriving)
           again == Kept(from.order, some)
           new == PromoteOrder(from, target, closed, exprs)
<1>1. /\ left \ arriving \subseteq Defined(target) /\ arriving \subseteq left
      /\ new \in Seq(Conds) /\ IsInjective(new) /\ Range(new) = left
    <2>1. arriving \subseteq left /\ left \ arriving \subseteq Defined(target)
        BY DEF PromoteExprs, Defined
    <2>2. /\ new \in Seq(Conds) /\ IsInjective(new) /\ Range(new) = left
          /\ \A K : K \cap arriving = {} => Kept(new, K) = Kept(Kept(target.order, left \ arriving), K)
        BY PromotedOrder
    <2> QED
        BY <2>1, <2>2
<1>2. new = InsertAllBySourceOrder(remaining, coming, from.order)
    BY DEF PromoteOrder
<1>3. left \subseteq Conds
    OBVIOUS
<1> HIDE DEF exprs, new, left
<1>4. /\ from.order \in Seq(Conds) /\ IsInjective(from.order) /\ Range(from.order) = Defined(from)
      /\ target.order \in Seq(Conds) /\ IsInjective(target.order) /\ Range(target.order) = Defined(target)
    BY DEF Sound, Ordered
<1>5. remaining \in Seq(Conds) /\ IsInjective(remaining) /\ Range(remaining) = left \ arriving
    BY <1>1, <1>4, KeptType, KeptInjective
<1>6. coming \in Seq(Conds) /\ IsInjective(coming) /\ Range(coming) = arriving
    BY <1>4, KeptType, KeptInjective
<1>7. again \in Seq(Conds) /\ IsInjective(again) /\ Range(again) = some
    <2>1. again \in Seq(Conds) /\ IsInjective(again) /\ Range(again) = Range(from.order) \cap some
        BY <1>4, KeptType, KeptInjective
    <2>2. Range(from.order) \cap some = some
        BY <1>4
    <2> QED
        BY <2>1, <2>2
<1>8. SourceOrdered(coming, from.order)
    BY <1>4, KeptBefore, SourceFollowsItself DEF SourceOrdered
<1> HIDE DEF remaining, coming, again
<1>9. Settled(new, Range(coming), from.order)
    <2>1. Range(coming) \subseteq Range(from.order) /\ Range(remaining) \cap Range(coming) = {}
        BY <1>4, <1>5, <1>6
    <2> QED
        BY <1>2, <1>4, <1>5, <1>6, <1>8, <2>1, InsertedIsSettled
<1>10. InsertAllBySourceOrder(Kept(new, Conds \ Range(again)), again, from.order) = new
    <2>1. Range(again) \subseteq Range(coming)
        BY <1>6, <1>7
    <2> QED
        BY <1>1, <1>4, <1>7, <1>9, <2>1, PutBack
<1>11. Kept(new, Conds \ Range(again)) = Kept(new, left \ some)
    <2>1. Range(new) \cap (Conds \ Range(again)) = Range(new) \cap (left \ some)
        BY <1>1, <1>3, <1>7
    <2> QED
        BY <1>1, <2>1, KeptSame
<1>12. InsertAllBySourceOrder(Kept(new, left \ some), again, from.order) = new
    BY <1>10, <1>11
<1> QED
    BY <1>12 DEF new, left, exprs, again

\* Promoting the same selection onto the result changes nothing.
LEMMA PromoteAgain ==
    ASSUME NEW from, NEW target, NEW selected, NEW prune, IsSelection(selected), selected.slots \subseteq Slots,
           Clean(from), Single(from), Clean(target),
           Single(target) \/ selected.slots \subseteq ParameterItems(from, target, prune)
    PROVE  LET new == Apply(from, target, selected, prune)
           IN  Apply(from, new, selected, prune) = new
<1> DEFINE closed == WithDependencies(from, target, selected, prune)
           slots == PromoteSlots(from, target, selected.slots \cap ParameterItems(from, target, prune))
           groups == PromoteGroups(from, target, closed, prune, slots)
           exprs == PromoteExprs(from, target, closed, prune)
           new == Apply(from, target, selected, prune)
           chosen2 == selected.slots \cap ParameterItems(from, new, prune)
           closed2 == WithDependencies(from, new, selected, prune)
           slots2 == PromoteSlots(from, new, chosen2)
           groups2 == PromoteGroups(from, new, closed2, prune, slots2)
           exprs2 == PromoteExprs(from, new, closed2, prune)
           again == Apply(from, new, selected, prune)
<1>1. Sound(from) /\ Sound(target)
    BY CleanIsSound
<1>2. /\ Clean(new) /\ Fields(new, from, closed, slots, groups, exprs)
      /\ new.order = PromoteOrder(from, target, closed, exprs)
    BY <1>1, ApplyFields, Zenon
<1>3. /\ selected.conds \subseteq closed.conds
      /\ selected.groups \subseteq closed.groups
    BY DEF WithDependencies, IsSelection
<1>4. chosen2 = {}
    BY NothingLeftToSelect
<1> HIDE DEF new
<1>5. Sound(new)
    BY <1>2, CleanIsSound
<1>6. /\ Clean(again) /\ Fields(again, from, closed2, slots2, groups2, exprs2)
      /\ again.order = PromoteOrder(from, new, closed2, exprs2)
    BY <1>1, <1>5, ApplyFields, Zenon
<1> HIDE DEF again, chosen2
<1>7. closed2 = selected
    <2>1. /\ closed2.slots = selected.slots /\ closed2.groups = selected.groups /\ closed2.conds = selected.conds
          /\ closed2 = [slots |-> closed2.slots, groups |-> closed2.groups, conds |-> closed2.conds]
        BY <1>4 DEF WithDependencies, IsSelection, chosen2
    <2> QED
        BY <2>1 DEF IsSelection
<1> HIDE DEF closed2
<1>8. \A s \in Slots : slots2[s] = new.slots[s]
    BY <1>4 DEF PromoteSlots
<1>9. \A c \in Conds : exprs2[c] = new.exprs[c]
    <2>1. new.exprs = exprs
        <3> HIDE DEF closed, slots, groups, exprs
        <3> QED
            BY <1>2 DEF Fields
    <2>2. \A c \in Conds : exprs[c] = IF c \in closed.conds /\ (from.exprs[c] # None \/ prune) THEN from.exprs[c]
                                      ELSE target.exprs[c]
        BY DEF PromoteExprs
    <2>3. \A c \in Conds : exprs2[c] = IF c \in selected.conds /\ (from.exprs[c] # None \/ prune) THEN from.exprs[c]
                                       ELSE new.exprs[c]
        BY <1>7 DEF PromoteExprs
    <2> HIDE DEF closed, exprs, exprs2
    <2> QED
        BY <1>3, <2>1, <2>2, <2>3
<1>10. Fields(again, from, selected, slots2, groups2, exprs2)
    BY <1>6, <1>7
<1> HIDE DEF slots2, exprs2
<1>11. \A c \in Conds : again.exprs[c] = new.exprs[c]
    <2> HIDE DEF groups2
    <2> QED
        BY <1>9, <1>10 DEF Fields
<1>12. \A s \in Slots : again.slots[s] = new.slots[s]
    <2>1. \A s \in Slots : again.slots[s] =
            IF slots2[s] = None THEN None ELSE StripUnknown(slots2[s], Defined(again))
        <3> HIDE DEF groups2
        <3> QED
            BY <1>10 DEF Fields
    <2>2. Defined(again) = Defined(new)
        BY <1>11 DEF Defined
    <2>3. DropUnknownConditionReferences(new) = new
        BY <1>2, <1>5, CleanIsFixed
    <2>4. \A s \in Slots : new.slots[s] =
            IF new.slots[s] = None THEN None ELSE StripUnknown(new.slots[s], Defined(new))
        BY <1>5, <2>3, DropShape
    <2> QED
        BY <1>8, <2>1, <2>2, <2>4
<1>13. \A g \in Groups : again.groups[g] = new.groups[g]
    <2>1. \A g \in Groups : again.groups[g] =
            IF /\ g \in selected.groups /\ from.groups[g] = None
               /\ \A p \in Params : again.slots[<<g, p>>] = None
            THEN None ELSE groups2[g]
        <3> HIDE DEF groups2
        <3> QED
            BY <1>10 DEF Fields
    <2>2. \A g \in Groups : new.groups[g] =
            IF /\ g \in closed.groups /\ from.groups[g] = None
               /\ \A p \in Params : new.slots[<<g, p>>] = None
            THEN None ELSE groups[g]
        <3> HIDE DEF closed, slots, groups, exprs
        <3> QED
            BY <1>2 DEF Fields
    <2>3. \A g \in Groups, p \in Params : <<g, p>> \in Slots
        BY DEF Slots, Places
    <2>4. ASSUME NEW g \in Groups
          PROVE  groups2[g] = IF g \in selected.groups /\ from.groups[g] # None THEN from.groups[g]
                              ELSE IF new.groups[g] = None THEN None
                              ELSE IF g \in selected.groups /\ prune THEN EmptyDesc
                              ELSE new.groups[g]
        <3>1. new.groups[g] = None => \A p \in Params : slots2[<<g, p>>] = None
            BY <1>5, <1>8, <2>3 DEF Sound, Laid
        <3> QED
            BY <1>7, <3>1 DEF PromoteGroups
    <2>5. \A g \in Groups : groups[g] =
            IF g \in closed.groups /\ from.groups[g] # None THEN from.groups[g]
            ELSE IF target.groups[g] = None
                 THEN IF \E p \in Params : slots[<<g, p>>] # None THEN EmptyDesc ELSE None
            ELSE IF g \in closed.groups /\ prune THEN EmptyDesc
            ELSE target.groups[g]
        BY DEF PromoteGroups
    <2> HIDE DEF groups, groups2, slots, closed
    <2> QED
        BY <1>3, <1>12, <2>1, <2>2, <2>3, <2>4, <2>5
<1>14. again.order = new.order
    <2> DEFINE some == selected.conds \cap Defined(from)
               left == {c \in Conds : exprs[c] # None}
    <2>1. new.exprs = exprs
        <3> HIDE DEF closed, slots, groups, exprs
        <3> QED
            BY <1>2 DEF Fields
    <2>2. {c \in Conds : exprs2[c] # None} = left
        BY <1>9, <2>1
    <2>3. again.order = InsertAllBySourceOrder(Kept(new.order, {c \in Conds : exprs2[c] # None} \ some),
                                               Kept(from.order, some), from.order)
        BY <1>6, <1>7 DEF PromoteOrder
    <2>4. some \subseteq closed.conds \cap Defined(from)
        BY <1>3
    <2>5. InsertAllBySourceOrder(Kept(new.order, left \ some), Kept(from.order, some), from.order) = new.order
        <3> HIDE DEF some, closed
        <3> QED
            BY <1>1, <1>2, <2>4, OrderAgain
    <2> HIDE DEF left, some
    <2> QED
        BY <2>2, <2>3, <2>5
<1>15. Sound(again)
    BY <1>6, CleanIsSound
<1>16. again = new
    BY <1>5, <1>11, <1>12, <1>13, <1>14, <1>15, SameTemplate
<1> QED
    BY <1>16 DEF again, new

\* A round after a lost answer finds nothing left to promote (publishPromotePlan reads
\* the target again and applies the selection to it).
THEOREM PromotionsRepeat == Spec => []PromotionRepeats
<1>1. KInv => PromotionRepeats
    <2> SUFFICES ASSUME KInv, Promoting
                 PROVE  Apply(source, mem.candidate, mem.choice, mem.prune) = mem.candidate
        BY DEF PromotionRepeats
    <2>1. Good(source) /\ Applied
        BY PromotingIsApplied
    <2>2. LET new == Apply(source, mem.current, mem.choice, mem.prune)
          IN  Apply(source, new, mem.choice, mem.prune) = new
        BY <2>1, PromoteAgain DEF Good, Applied, Picked
    <2> QED
        BY <2>1, <2>2 DEF Applied
<1> QED
    BY <1>1, HeldInvariant, PTL

\* Whatever a promotion or an import makes, doing the same again changes nothing: both
\* can be run again after a lost answer or a broken run.
THEOREM TransfersRepeat == Spec => []TransferRepeats
<1>1. PromotionRepeats /\ ImportRepeats => TransferRepeats
    BY DEF TransferRepeats
<1> QED
    BY <1>1, PromotionsRepeat, ImportsRepeat, PTL

=============================================================================
