-------------------------- MODULE SelectionProofs --------------------------
(***************************************************************************)
(* What Select returns, for any sequence and any set: lemmas for the       *)
(* proofs about the session file (SessionWriterProofs) and about the       *)
(* messages of the turn loop (EngineCompactionProofs).                     *)
(***************************************************************************)
EXTENDS Selection, TLAPS, SequenceTheorems, WellFoundedInduction

(* The induction the proofs need is stated for a set of naturals, from the *)
(* least element the library guarantees.                                   *)

\* Every nonempty set of naturals has a least element.
LEMMA LeastElement ==
    ASSUME NEW T, T \subseteq Nat, T # {}
    PROVE  \E x \in T : \A y \in T : x <= y
<1> DEFINE R == OpToRel(<, Nat)
<1>1. \A y, x \in Nat : <<y, x>> \in R <=> y < x  BY DEF OpToRel
<1>2. IsWellFoundedOn(R, Nat)  BY NatLessThanWellFounded
<1> HIDE DEF R
<1>3. PICK x \in T : \A y \in T : ~(<<y, x>> \in R)  BY <1>2, WFMin
<1>4. \A y \in T : ~(y < x)  BY <1>3, <1>1, Zenon
<1> QED  BY <1>4

\* Induction over the naturals, for a set instead of a predicate.
LEMMA SetInduction ==
    ASSUME NEW T, 0 \in T, \A n \in Nat : n \in T => n + 1 \in T
    PROVE  Nat \subseteq T
<1> SUFFICES ASSUME Nat \ T # {} PROVE FALSE  OBVIOUS
<1>1. PICK x \in Nat \ T : \A y \in Nat \ T : x <= y  BY LeastElement
<1>2. x # 0  BY <1>1
<1>3. x - 1 \in Nat /\ x - 1 < x  BY <1>1, <1>2
<1>4. x - 1 \in T  BY <1>1, <1>3
<1> QED  BY <1>4, <1>3, <1>1

\* The recursion of SelectPrefix, read up to index n.
Solves(g, n, s, keep, S) ==
    /\ g \in [0..n -> Seq(S)]
    /\ g[0] = <<>>
    /\ \A i \in 1..n :
          g[i] = IF s[i] \in keep THEN Append(g[i - 1], s[i]) ELSE g[i - 1]

\* A solution up to n extends to n + 1.
LEMMA SolutionExtends ==
    ASSUME NEW S, NEW s \in Seq(S), NEW keep, NEW n \in Nat, n + 1 <= Len(s),
           NEW g, Solves(g, n, s, keep, S)
    PROVE  \E h : Solves(h, n + 1, s, keep, S)
<1> DEFINE next == IF s[n + 1] \in keep THEN Append(g[n], s[n + 1]) ELSE g[n]
           h == [i \in 0..(n + 1) |-> IF i = n + 1 THEN next ELSE g[i]]
<1>1. s[n + 1] \in S  BY LenProperties, ElementOfSeq
<1>2. g[n] \in Seq(S)  BY DEF Solves
<1>3. next \in Seq(S)  BY <1>1, <1>2, AppendProperties
<1>4. h \in [0..(n + 1) -> Seq(S)]
  <2> HIDE DEF next
  <2> QED  BY <1>3 DEF Solves
<1>5. h[0] = <<>>  BY DEF Solves
<1>6. ASSUME NEW i \in 1..(n + 1)
      PROVE  h[i] = IF s[i] \in keep THEN Append(h[i - 1], s[i]) ELSE h[i - 1]
  <2>1. CASE i = n + 1
    <3>1. h[i] = next /\ h[i - 1] = g[n]  BY <2>1
    <3> QED  BY <3>1, <2>1
  <2>2. CASE i # n + 1
    <3>1. i \in 1..n  BY <2>2
    <3>2. h[i] = g[i] /\ h[i - 1] = g[i - 1]  BY <3>1, <2>2
    <3> HIDE DEF h
    <3> QED  BY <3>1, <3>2 DEF Solves
  <2> QED  BY <2>1, <2>2
<1>7. Solves(h, n + 1, s, keep, S)
  <2> HIDE DEF h
  <2> QED  BY <1>4, <1>5, <1>6 DEF Solves
<1> QED  BY <1>7

\* So the recursion has a solution on the whole sequence.
LEMMA SolutionExists ==
    ASSUME NEW S, NEW s \in Seq(S), NEW keep
    PROVE  \E g : Solves(g, Len(s), s, keep, S)
<1> DEFINE Has(n) == n <= Len(s) => \E g : Solves(g, n, s, keep, S)
           T == {n \in Nat : Has(n)}
<1>1. Len(s) \in Nat  BY LenProperties
<1>2. Has(0)
  <2>1. Solves([i \in 0..0 |-> <<>>], 0, s, keep, S)  BY DEF Solves
  <2> QED  BY <2>1
<1>3. ASSUME NEW n \in Nat, Has(n) PROVE Has(n + 1)
  <2>1. SUFFICES ASSUME n + 1 <= Len(s)
                 PROVE  \E g : Solves(g, n + 1, s, keep, S)
    OBVIOUS
  <2>2. n <= Len(s)  BY <2>1, <1>1
  <2>3. PICK g : Solves(g, n, s, keep, S)  BY <1>3, <2>2
  <2> QED  BY <2>1, <2>3, SolutionExtends
<1> HIDE DEF Has
<1>4. 0 \in T  BY <1>2
<1>5. \A n \in Nat : n \in T => n + 1 \in T  BY <1>3
<1>6. Nat \subseteq T
  <2> HIDE DEF T
  <2> QED  BY <1>4, <1>5, SetInduction
<1>7. Has(Len(s))  BY <1>6, <1>1
<1> QED  BY <1>7, <1>1 DEF Has

\* ... and SelectPrefix, which chooses one, satisfies its own equation.
LEMMA SelectPrefixDef ==
    ASSUME NEW S, NEW s \in Seq(S), NEW keep
    PROVE  Solves(SelectPrefix(s, keep), Len(s), s, keep, S)
<1> DEFINE E(f) == [n \in 0..Len(s) |->
                      IF n = 0 THEN <<>>
                      ELSE IF s[n] \in keep THEN Append(f[n - 1], s[n])
                           ELSE f[n - 1]]
           p == SelectPrefix(s, keep)
<1>0. Len(s) \in Nat  BY LenProperties
<1>1. PICK g : Solves(g, Len(s), s, keep, S)  BY SolutionExists
<1>2. g = E(g)
  <2>1. g \in [0..Len(s) -> Seq(S)]  BY <1>1 DEF Solves
  <2>2. ASSUME NEW n \in 0..Len(s) PROVE g[n] = E(g)[n]
    <3>1. CASE n = 0  BY <3>1, <1>1, <1>0 DEF Solves
    <3>2. CASE n # 0
      <4>1. n \in 1..Len(s)  BY <3>2, <1>0
      <4> QED  BY <4>1, <3>2, <1>1 DEF Solves
    <3> QED  BY <3>1, <3>2
  <2> QED  BY <2>1, <2>2
<1>3. p = E(p)
  <2>1. p = CHOOSE f : f = E(f)  BY DEF SelectPrefix
  <2> HIDE DEF E, p
  <2>2. \E f : f = E(f)  BY <1>2
  <2> QED  BY <2>1, <2>2
<1> HIDE DEF p
<1>4. DOMAIN p = 0..Len(s)  BY <1>3
<1>5. p = [n \in 0..Len(s) |-> p[n]]  BY <1>3
<1>6. p[0] = <<>>  BY <1>3, <1>0
<1>7. \A n \in 1..Len(s) :
         p[n] = IF s[n] \in keep THEN Append(p[n - 1], s[n]) ELSE p[n - 1]
  <2> TAKE n \in 1..Len(s)
  <2>1. n \in 0..Len(s) /\ n # 0  BY <1>0
  <2> QED  BY <1>3, <2>1
<1> HIDE DEF E
<1>8. \A n \in 0..Len(s) : p[n] = g[n]
  <2> DEFINE Same(n) == n <= Len(s) => p[n] = g[n]
             T == {n \in Nat : Same(n)}
  <2>1. Same(0)  BY <1>6, <1>1 DEF Solves
  <2>2. ASSUME NEW n \in Nat, Same(n) PROVE Same(n + 1)
    <3>1. SUFFICES ASSUME n + 1 <= Len(s) PROVE p[n + 1] = g[n + 1]
      OBVIOUS
    <3>2. n + 1 \in 1..Len(s) /\ (n + 1) - 1 = n /\ n <= Len(s)  BY <3>1, <1>0
    <3>3. p[n] = g[n]  BY <2>2, <3>2
    <3> QED  BY <3>2, <3>3, <1>7, <1>1 DEF Solves
  <2> HIDE DEF Same
  <2>3. 0 \in T /\ \A n \in Nat : n \in T => n + 1 \in T  BY <2>1, <2>2
  <2>4. Nat \subseteq T
    <3> HIDE DEF T
    <3> QED  BY <2>3, SetInduction
  <2>5. \A n \in Nat : Same(n)  BY <2>4
  <2> QED  BY <2>5, <1>0 DEF Same
<1>9. p \in [0..Len(s) -> Seq(S)]
  <2>1. \A n \in 0..Len(s) : p[n] \in Seq(S)  BY <1>8, <1>1 DEF Solves
  <2> QED  BY <2>1, <1>5
<1>10. Solves(p, Len(s), s, keep, S)  BY <1>9, <1>6, <1>7 DEF Solves
<1> QED  BY <1>10 DEF p

-----------------------------------------------------------------------------
\* A statement about every prefix follows from the empty one and one more element.
LEMMA PrefixInduction ==
    ASSUME NEW L \in Nat, NEW Holds, 0 \in Holds,
           \A n \in 0..(L - 1) : n \in Holds => n + 1 \in Holds
    PROVE  0..L \subseteq Holds
<1> DEFINE T == {n \in Nat : n <= L => n \in Holds}
<1>1. 0 \in T  OBVIOUS
<1>2. \A n \in Nat : n \in T => n + 1 \in T  OBVIOUS
<1>3. Nat \subseteq T
  <2> HIDE DEF T
  <2> QED  BY <1>1, <1>2, SetInduction
<1> QED  BY <1>3

\* Select keeps elements of the sequence that are in the set, and only those.
LEMMA SelectType ==
    ASSUME NEW S, NEW s \in Seq(S), NEW keep
    PROVE  Select(s, keep) \in Seq(S \cap keep)
<1> DEFINE p == SelectPrefix(s, keep)
           Holds == {n \in 0..Len(s) : p[n] \in Seq(S \cap keep)}
<1>0. Len(s) \in Nat  BY LenProperties
<1>1. Solves(p, Len(s), s, keep, S)  BY SelectPrefixDef
<1> HIDE DEF p
<1>2. 0 \in Holds  BY <1>0, <1>1 DEF Solves
<1>3. ASSUME NEW n \in 0..(Len(s) - 1), n \in Holds PROVE n + 1 \in Holds
  <2>1. n + 1 \in 1..Len(s) /\ (n + 1) - 1 = n  BY <1>0
  <2>2. p[n + 1] = IF s[n + 1] \in keep THEN Append(p[n], s[n + 1]) ELSE p[n]
    BY <2>1, <1>1 DEF Solves
  <2>3. s[n + 1] \in S  BY <2>1, ElementOfSeq
  <2>4. p[n] \in Seq(S \cap keep)  BY <1>3
  <2>5. p[n + 1] \in Seq(S \cap keep)
    <3>1. CASE s[n + 1] \in keep
      <4>1. s[n + 1] \in S \cap keep  BY <2>3, <3>1
      <4>2. Append(p[n], s[n + 1]) \in Seq(S \cap keep)
        BY <2>4, <4>1, AppendProperties
      <4> QED  BY <4>2, <2>2, <3>1
    <3>2. CASE s[n + 1] \notin keep  BY <3>2, <2>2, <2>4
    <3> QED  BY <3>1, <3>2
  <2> QED  BY <2>5, <2>1, <1>0
<1>4. 0..Len(s) \subseteq Holds
  <2> HIDE DEF Holds
  <2> QED  BY <1>0, <1>2, <1>3, PrefixInduction
<1>5. p[Len(s)] \in Seq(S \cap keep)  BY <1>4, <1>0
<1> QED  BY <1>5 DEF Select, p

\* Two sequences that agree up to k are filtered alike up to k.
LEMMA SelectPrefixAgrees ==
    ASSUME NEW S, NEW s \in Seq(S), NEW t \in Seq(S), NEW keep,
           NEW k \in Nat, k <= Len(s), k <= Len(t),
           \A i \in 1..k : s[i] = t[i]
    PROVE  SelectPrefix(s, keep)[k] = SelectPrefix(t, keep)[k]
<1> DEFINE p == SelectPrefix(s, keep)
           q == SelectPrefix(t, keep)
           Holds == {n \in 0..k : p[n] = q[n]}
<1>0. Len(s) \in Nat /\ Len(t) \in Nat  BY LenProperties
<1>1. Solves(p, Len(s), s, keep, S) /\ Solves(q, Len(t), t, keep, S)
  BY SelectPrefixDef
<1> HIDE DEF p, q
<1>2. 0 \in Holds  BY <1>1 DEF Solves
<1>3. ASSUME NEW n \in 0..(k - 1), n \in Holds PROVE n + 1 \in Holds
  <2>1. n + 1 \in 1..Len(s) /\ n + 1 \in 1..Len(t) /\ n + 1 \in 1..k
        /\ (n + 1) - 1 = n
    BY <1>0
  <2>2. p[n + 1] = IF s[n + 1] \in keep THEN Append(p[n], s[n + 1]) ELSE p[n]
    BY <2>1, <1>1 DEF Solves
  <2>3. q[n + 1] = IF t[n + 1] \in keep THEN Append(q[n], t[n + 1]) ELSE q[n]
    BY <2>1, <1>1 DEF Solves
  <2>4. s[n + 1] = t[n + 1]  BY <2>1
  <2>5. p[n] = q[n]  BY <1>3
  <2>6. p[n + 1] = q[n + 1]  BY <2>2, <2>3, <2>4, <2>5
  <2> QED  BY <2>6, <2>1
<1>4. 0..k \subseteq Holds
  <2> HIDE DEF Holds
  <2> QED  BY <1>2, <1>3, PrefixInduction
<1>5. p[k] = q[k]  BY <1>4
<1> QED  BY <1>5 DEF p, q

\* Filtering after an append: the element is appended, or not.
LEMMA SelectAppend ==
    ASSUME NEW S, NEW s \in Seq(S), NEW x \in S, NEW keep
    PROVE  Select(Append(s, x), keep) =
               IF x \in keep THEN Append(Select(s, keep), x) ELSE Select(s, keep)
<1> DEFINE t == Append(s, x)
           p == SelectPrefix(s, keep)
           q == SelectPrefix(t, keep)
           L == Len(s)
<1>0. L \in Nat  BY LenProperties
<1>1. t \in Seq(S) /\ Len(t) = L + 1 /\ t[L + 1] = x
      /\ \A i \in 1..L : t[i] = s[i]
  BY AppendProperties
<1>2. Solves(q, L + 1, t, keep, S)
  <2>1. Solves(q, Len(t), t, keep, S)  BY <1>1, SelectPrefixDef
  <2> QED  BY <2>1, <1>1
<1>3. q[L] = p[L]
  <2> HIDE DEF t
  <2>1. L <= Len(s) /\ L <= Len(t) /\ \A i \in 1..L : t[i] = s[i]  BY <1>1, <1>0
  <2> HIDE DEF L
  <2> QED  BY <2>1, <1>0, <1>1, SelectPrefixAgrees
<1>4. q[L + 1] = IF x \in keep THEN Append(q[L], x) ELSE q[L]
  <2>1. L + 1 \in 1..(L + 1) /\ (L + 1) - 1 = L  BY <1>0
  <2> HIDE DEF q, t, L
  <2> QED  BY <2>1, <1>1, <1>2 DEF Solves
<1>5. Select(t, keep) = q[L + 1] /\ Select(s, keep) = p[L]
  <2> HIDE DEF t
  <2> QED  BY <1>1 DEF Select
<1> HIDE DEF p, q, L, t
<1>6. Select(t, keep) = IF x \in keep THEN Append(Select(s, keep), x)
                        ELSE Select(s, keep)
  BY <1>3, <1>4, <1>5
<1> QED  BY <1>6 DEF t

\* Nothing is left of a sequence whose elements are all outside the set.
LEMMA SelectNone ==
    ASSUME NEW S, NEW s \in Seq(S), NEW keep, S \cap keep = {}
    PROVE  Select(s, keep) = <<>>
<1>1. Select(s, keep) \in Seq({})  BY SelectType
<1> HIDE DEF Select
<1> QED  BY <1>1

\* A sequence whose elements are all in the set stays as it is.
LEMMA SelectAll ==
    ASSUME NEW S, NEW s \in Seq(S), NEW keep, S \subseteq keep
    PROVE  Select(s, keep) = s
<1> DEFINE p == SelectPrefix(s, keep)
           Holds == {n \in 0..Len(s) : p[n] = SubSeq(s, 1, n)}
<1>0. Len(s) \in Nat  BY LenProperties
<1>1. Solves(p, Len(s), s, keep, S)  BY SelectPrefixDef
<1> HIDE DEF p
<1>2. 0 \in Holds
  <2>1. SubSeq(s, 1, 0) = <<>>  BY SubSeqEmpty
  <2> QED  BY <2>1, <1>0, <1>1 DEF Solves
<1>3. ASSUME NEW n \in 0..(Len(s) - 1), n \in Holds PROVE n + 1 \in Holds
  <2>1. n + 1 \in 1..Len(s) /\ (n + 1) - 1 = n /\ n + 1 \in 0..Len(s)  BY <1>0
  <2>2. s[n + 1] \in keep  BY <2>1, ElementOfSeq
  <2>3. p[n + 1] = Append(p[n], s[n + 1])  BY <2>1, <2>2, <1>1 DEF Solves
  <2>4. p[n] = SubSeq(s, 1, n)  BY <1>3
  <2>5. Append(SubSeq(s, 1, n), s[n + 1]) = SubSeq(s, 1, n + 1)  BY <2>1, <1>0
  <2>6. p[n + 1] = SubSeq(s, 1, n + 1)  BY <2>3, <2>4, <2>5
  <2> QED  BY <2>6, <2>1
<1>4. 0..Len(s) \subseteq Holds
  <2> HIDE DEF Holds
  <2> QED  BY <1>0, <1>2, <1>3, PrefixInduction
<1>5. p[Len(s)] = SubSeq(s, 1, Len(s))  BY <1>4, <1>0
<1>6. SubSeq(s, 1, Len(s)) = s  BY SubSeqFull
<1> QED  BY <1>5, <1>6 DEF Select, p

\* Filtering a concatenation filters both parts.
LEMMA SelectConcat ==
    ASSUME NEW S, NEW s \in Seq(S), NEW t \in Seq(S), NEW keep
    PROVE  Select(s \o t, keep) = Select(s, keep) \o Select(t, keep)
<1> DEFINE Cut(n) == SubSeq(t, 1, n)
           Same(n) == Select(s \o Cut(n), keep)
                          = Select(s, keep) \o Select(Cut(n), keep)
           Holds == {n \in 0..Len(t) : Same(n)}
<1>0. Len(t) \in Nat  BY LenProperties
<1>1. Same(0)
  <2>1. Cut(0) = <<>>  BY SubSeqEmpty
  <2>2. s \o <<>> = s  BY ConcatEmptySeq
  <2>3. <<>> \in Seq({})  OBVIOUS
  <2>4. Select(<<>>, keep) = <<>>
    <3>1. {} \cap keep = {}  OBVIOUS
    <3> QED  BY <2>3, <3>1, SelectNone
  <2>5. Select(s, keep) \in Seq(S \cap keep)  BY SelectType
  <2>6. Select(s, keep) \o <<>> = Select(s, keep)  BY <2>5, ConcatEmptySeq
  <2> QED  BY <2>1, <2>2, <2>4, <2>6
<1>2. ASSUME NEW n \in 0..(Len(t) - 1), Same(n) PROVE Same(n + 1)
  <2>1. n + 1 \in 1..Len(t)  BY <1>0
  <2> DEFINE x == t[n + 1]
             a == Select(s, keep)
             b == Select(Cut(n), keep)
  <2>2. x \in S  BY <2>1, ElementOfSeq
  <2>3. Cut(n) \in Seq(S)  BY <1>0
  <2>4. Cut(n + 1) = Append(Cut(n), x)  BY <2>1, <1>0
  <2> HIDE DEF Cut, x
  <2>5. s \o Append(Cut(n), x) = Append(s \o Cut(n), x)  BY <2>2, <2>3
  <2>6. s \o Cut(n) \in Seq(S)  BY <2>3
  <2>7. a \in Seq(S) /\ b \in Seq(S)
    <3>1. a \in Seq(S \cap keep) /\ b \in Seq(S \cap keep)  BY <2>3, SelectType
    <3> HIDE DEF a, b
    <3> QED  BY <3>1, SeqMonotonic
  <2>8. Select(Append(s \o Cut(n), x), keep) =
            IF x \in keep THEN Append(Select(s \o Cut(n), keep), x)
            ELSE Select(s \o Cut(n), keep)
    BY <2>2, <2>6, SelectAppend
  <2>9. Select(Append(Cut(n), x), keep) = IF x \in keep THEN Append(b, x) ELSE b
    BY <2>2, <2>3, SelectAppend
  <2>10. Select(s \o Cut(n), keep) = a \o b  BY <1>2
  <2> HIDE DEF a, b
  <2>11. a \o Append(b, x) = Append(a \o b, x)  BY <2>2, <2>7
  <2> QED  BY <2>4, <2>5, <2>8, <2>9, <2>10, <2>11 DEF a, b
<1> HIDE DEF Same
<1>3. 0..Len(t) \subseteq Holds
  <2>1. 0 \in Holds  BY <1>0, <1>1
  <2>2. \A n \in 0..(Len(t) - 1) : n \in Holds => n + 1 \in Holds  BY <1>0, <1>2
  <2> HIDE DEF Holds
  <2> QED  BY <1>0, <2>1, <2>2, PrefixInduction
<1>4. Same(Len(t))  BY <1>3, <1>0
<1>5. Cut(Len(t)) = t  BY SubSeqFull
<1> QED  BY <1>4, <1>5 DEF Same

\* One more element of a prefix: it is appended, or not.
LEMMA SelectNext ==
    ASSUME NEW S, NEW s \in Seq(S), NEW keep, NEW n \in 0..(Len(s) - 1)
    PROVE  Select(SubSeq(s, 1, n + 1), keep) =
               IF s[n + 1] \in keep THEN Append(Select(SubSeq(s, 1, n), keep), s[n + 1])
               ELSE Select(SubSeq(s, 1, n), keep)
<1>0. Len(s) \in Nat  BY LenProperties
<1>1. n + 1 \in 1..Len(s)  BY <1>0
<1> DEFINE c == SubSeq(s, 1, n)
           x == s[n + 1]
<1>2. x \in S  BY <1>1, ElementOfSeq
<1>3. c \in Seq(S)  BY <1>0
<1>4. SubSeq(s, 1, n + 1) = Append(c, x)  BY <1>1, <1>0
<1> HIDE DEF c, x
<1>5. Select(Append(c, x), keep) = IF x \in keep THEN Append(Select(c, keep), x)
                                   ELSE Select(c, keep)
  BY <1>2, <1>3, SelectAppend
<1> QED  BY <1>4, <1>5 DEF c, x

\* Only which elements of the sequence are in the set matters.
LEMMA SelectSame ==
    ASSUME NEW S, NEW s \in Seq(S), NEW keep, NEW other,
           \A i \in 1..Len(s) : s[i] \in keep <=> s[i] \in other
    PROVE  Select(s, keep) = Select(s, other)
<1> DEFINE p == SelectPrefix(s, keep)
           q == SelectPrefix(s, other)
           Holds == {n \in 0..Len(s) : p[n] = q[n]}
<1>0. Len(s) \in Nat  BY LenProperties
<1>1. Solves(p, Len(s), s, keep, S) /\ Solves(q, Len(s), s, other, S)
  BY SelectPrefixDef
<1> HIDE DEF p, q
<1>2. 0 \in Holds  BY <1>0, <1>1 DEF Solves
<1>3. ASSUME NEW n \in 0..(Len(s) - 1), n \in Holds PROVE n + 1 \in Holds
  <2>1. n + 1 \in 1..Len(s) /\ n + 1 \in 0..Len(s) /\ (n + 1) - 1 = n  BY <1>0
  <2>2. p[n + 1] = IF s[n + 1] \in keep THEN Append(p[n], s[n + 1]) ELSE p[n]
    BY <2>1, <1>1 DEF Solves
  <2>3. q[n + 1] = IF s[n + 1] \in other THEN Append(q[n], s[n + 1]) ELSE q[n]
    BY <2>1, <1>1 DEF Solves
  <2>4. p[n] = q[n]  BY <1>3
  <2>5. s[n + 1] \in keep <=> s[n + 1] \in other  BY <2>1
  <2>6. p[n + 1] = q[n + 1]  BY <2>2, <2>3, <2>4, <2>5
  <2> QED  BY <2>6, <2>1
<1>4. 0..Len(s) \subseteq Holds
  <2> HIDE DEF Holds
  <2> QED  BY <1>0, <1>2, <1>3, PrefixInduction
<1>5. p[Len(s)] = q[Len(s)]  BY <1>4, <1>0
<1> QED  BY <1>5 DEF Select, p, q

\* What is in the set stays.
LEMMA SelectKeeps ==
    ASSUME NEW S, NEW s \in Seq(S), NEW keep, NEW k \in 1..Len(s), s[k] \in keep
    PROVE  \E i \in 1..Len(Select(s, keep)) : Select(s, keep)[i] = s[k]
<1> DEFINE a == SubSeq(s, 1, k - 1)
           b == SubSeq(s, k + 1, Len(s))
           x == <<s[k]>>
           u == Select(a, keep)
           v == Select(b, keep)
<1>0. Len(s) \in Nat /\ k \in Nat  BY LenProperties
<1>1. s[k] \in S  BY ElementOfSeq
<1>2. a \in Seq(S) /\ b \in Seq(S) /\ x \in Seq(S)
  <2>1. \A i \in 1..Len(s) : s[i] \in S  BY ElementOfSeq
  <2>2. a \in Seq(S)  BY <1>0, <2>1, SubSeqProperties
  <2>3. b \in Seq(S)  BY <1>0, <2>1, SubSeqProperties
  <2> QED  BY <1>1, <2>2, <2>3
<1>3. s = (a \o x) \o b
  <2>1. SubSeq(s, 1, k) = a \o x  BY <1>0, SubSeqRecursiveSecond
  <2>2. SubSeq(s, 1, k) \o b = SubSeq(s, 1, Len(s))  BY <1>0, ConcatAdjacentSubSeq
  <2>3. SubSeq(s, 1, Len(s)) = s  BY SubSeqFull
  <2> QED  BY <2>1, <2>2, <2>3
<1> HIDE DEF a, b
<1>4. Select(x, keep) = x
  <2>1. x \in Seq({s[k]})  OBVIOUS
  <2>2. {s[k]} \subseteq keep  OBVIOUS
  <2> HIDE DEF x
  <2> QED  BY <2>1, <2>2, SelectAll
<1>5. u \in Seq(S) /\ v \in Seq(S)
  <2>1. u \in Seq(S \cap keep) /\ v \in Seq(S \cap keep)  BY <1>2, SelectType
  <2> HIDE DEF u, v
  <2> QED  BY <2>1, SeqMonotonic
<1>6. a \o x \in Seq(S)  BY <1>2
<1> HIDE DEF u, v
<1>7. Select(s, keep) = (u \o x) \o v
  <2>1. Select(a \o x, keep) = u \o x
    <3> HIDE DEF x
    <3>1. Select(a \o x, keep) = Select(a, keep) \o Select(x, keep)  BY <1>2, SelectConcat, SMTT(30)
    <3> QED  BY <1>4, <3>1 DEF u
  <2>2. Select((a \o x) \o b, keep) = Select(a \o x, keep) \o v
    <3> DEFINE y == a \o x
    <3>1. y \in Seq(S)  BY <1>6
    <3> HIDE DEF y
    <3>2. Select(y \o b, keep) = Select(y, keep) \o Select(b, keep)  BY <1>2, <3>1, SelectConcat, SMTT(30)
    <3> QED  BY <3>2 DEF v, y
  <2> QED  BY <1>3, <2>1, <2>2
<1> HIDE DEF u, v
<1>8. /\ Len(u) + 1 \in 1..Len((u \o x) \o v)
      /\ ((u \o x) \o v)[Len(u) + 1] = s[k]
  BY <1>1, <1>5
<1> QED  BY <1>7, <1>8
=============================================================================
