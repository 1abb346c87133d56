----------------------- MODULE EngineCompactionProofs -----------------------
(***************************************************************************)
(* Proofs about EngineCompaction, for any number of turns that a summary   *)
(* leaves alone, any protected tail, any sizes and any bounds: what the    *)
(* loop's trims, prunes, summaries and lost swaps do to the messages that  *)
(* the model is shown and to the session they are kept in.                 *)
(***************************************************************************)
EXTENDS EngineCompaction, SelectionProofs

-----------------------------------------------------------------------------
(* What is asked of a list of messages.  No utterance is told twice and    *)
(* none is told that was not said; each call is directly followed by its   *)
(* result, and each result follows its call.                               *)
Spread(s, n) ==
    /\ \A i \in DOMAIN s : s[i].of # {} /\ s[i].of \subseteq 1..n
    /\ \A i, j \in DOMAIN s : i # j => s[i].of \cap s[j].of = {}
Paired(s) ==
    \A i \in DOMAIN s : /\ s[i].kind = "result" => Answered(s, i - 1)
                        /\ s[i].kind = "call" => Answered(s, i)

(* Trimming and pruning change texts only.                                 *)
Alike(s, t) ==
    /\ Len(t) = Len(s)
    /\ \A i \in 1..Len(s) : t[i].kind = s[i].kind /\ t[i].of = s[i].of

LEMMA MessageParts ==
    ASSUME NEW m \in Message
    PROVE  /\ m.kind \in {"prompt", "reply", "call", "result"}
           /\ m.of \in SUBSET Nat /\ m.text \in Texts
BY DEF Message

LEMMA ListParts ==
    ASSUME NEW s \in Seq(Message)
    PROVE  /\ DOMAIN s = 1..Len(s) /\ Len(s) \in Nat
           /\ \A i \in DOMAIN s : s[i] \in Message
BY LenProperties, ElementOfSeq

LEMMA MeaningIn ==
    ASSUME NEW s \in Seq(Message), NEW n
    PROVE  n \in Meaning(s) <=> \E i \in 1..Len(s) : n \in s[i].of
BY ListParts DEF Meaning

LEMMA AlikeMeaning ==
    ASSUME NEW s \in Seq(Message), NEW t \in Seq(Message), Alike(s, t)
    PROVE  Meaning(t) = Meaning(s)
<1>1. \A n : n \in Meaning(t) <=> n \in Meaning(s)
  BY MeaningIn DEF Alike
<1> QED
  BY <1>1

LEMMA AlikeSpread ==
    ASSUME NEW s \in Seq(Message), NEW t \in Seq(Message), Alike(s, t), NEW n, Spread(s, n)
    PROVE  Spread(t, n)
<1>1. DOMAIN s = 1..Len(s) /\ DOMAIN t = 1..Len(s)
  BY ListParts DEF Alike
<1> QED
  BY <1>1 DEF Alike, Spread

LEMMA AlikePaired ==
    ASSUME NEW s \in Seq(Message), NEW t \in Seq(Message), Alike(s, t), Paired(s)
    PROVE  Paired(t)
<1>1. DOMAIN s = 1..Len(s) /\ DOMAIN t = 1..Len(s) /\ Len(s) \in Nat
  BY ListParts DEF Alike
<1>2. \A i \in Int : Answered(s, i) => Answered(t, i)
  BY <1>1 DEF Alike, Answered
<1> QED
  BY <1>1, <1>2 DEF Alike, Paired

(* Both keep their lists alike, whatever is trimmed.                       *)
LEMMA Retold ==
    ASSUME NEW s \in Seq(Message), NEW part, NEW word \in Texts
    PROVE  LET t == [i \in DOMAIN s |-> IF i \in part THEN [s[i] EXCEPT !.text = word] ELSE s[i]]
           IN  t \in Seq(Message) /\ Alike(s, t)
<1> DEFINE t == [i \in DOMAIN s |-> IF i \in part THEN [s[i] EXCEPT !.text = word] ELSE s[i]]
<1>1. DOMAIN s = 1..Len(s) /\ Len(s) \in Nat /\ \A i \in 1..Len(s) : s[i] \in Message
  BY ListParts
<1>2. \A i \in 1..Len(s) : t[i] \in Message /\ t[i].kind = s[i].kind /\ t[i].of = s[i].of
  <2> SUFFICES ASSUME NEW i \in 1..Len(s)
               PROVE  t[i] \in Message /\ t[i].kind = s[i].kind /\ t[i].of = s[i].of
    OBVIOUS
  <2>1. t[i] = IF i \in part THEN [s[i] EXCEPT !.text = word] ELSE s[i]
    BY <1>1
  <2> HIDE DEF t
  <2> QED
    BY <1>1, <2>1 DEF Message
<1>3. t = [i \in 1..Len(s) |-> t[i]] /\ t \in [1..Len(s) -> Message]
  BY <1>1, <1>2
<1> HIDE DEF t
<1>4. t \in Seq(Message) /\ Len(t) = Len(s)
  BY <1>1, <1>3
<1>5. Alike(s, t)
  BY <1>2, <1>4 DEF Alike
<1> QED
  BY <1>4, <1>5 DEF t

LEMMA TrimmedAlike ==
    ASSUME NEW s \in Seq(Message), NEW from
    PROVE  Trimmed(s, from) \in Seq(Message) /\ Alike(s, Trimmed(s, from))
<1>1. "trimmed" \in Texts
  BY DEF Texts
<1> QED
  BY <1>1, Retold DEF Trimmed

LEMMA PrunedAlike ==
    ASSUME NEW s \in Seq(Message)
    PROVE  Pruned(s) \in Seq(Message) /\ Alike(s, Pruned(s))
<1>1. "pruned" \in Texts
  BY DEF Texts
<1> QED
  BY <1>1, Retold DEF Pruned

-----------------------------------------------------------------------------
(* A summary: what it is made of is disjoint from the turns that stay, and *)
(* these begin at a prompt, so that no call is cut from its result.        *)
LEMMA CompactedShape ==
    ASSUME NEW s \in Seq(Message), Split(s) # {}
    PROVE  \E k \in 3..Len(s) :
              /\ s[k].kind = "prompt"
              /\ Compacted(s) = << Summary(SubSeq(s, 1, k - 1)) >> \o SubSeq(s, k, Len(s))
<1> DEFINE k == CHOOSE i \in Split(s) : TRUE
<1>1. k \in Split(s)
  OBVIOUS
<1>2. Compacted(s) = << Summary(SubSeq(s, 1, k - 1)) >> \o SubSeq(s, k, Len(s))
  BY DEF Compacted
<1> HIDE DEF k
<1>3. k \in 3..Len(s) /\ s[k].kind = "prompt"
  BY <1>1 DEF Split, IsSplit
<1> QED
  BY <1>2, <1>3

LEMMA CompactedParts ==
    ASSUME NEW s \in Seq(Message), Split(s) # {}
    PROVE  \E k \in 3..Len(s) :
              /\ s[k].kind = "prompt"
              /\ Compacted(s) \in Seq(Message) /\ Len(Compacted(s)) = Len(s) - k + 2
              /\ Compacted(s)[1].kind = "prompt"
              /\ Compacted(s)[1].of = UNION {s[i].of : i \in 1..(k - 1)}
              /\ \A i \in 2..(Len(s) - k + 2) : Compacted(s)[i] = s[i + k - 2]
<1>0. Len(s) \in Nat /\ \A i \in 1..Len(s) : s[i] \in Message
  BY ListParts
<1>1. PICK k \in 3..Len(s) :
              /\ s[k].kind = "prompt"
              /\ Compacted(s) = << Summary(SubSeq(s, 1, k - 1)) >> \o SubSeq(s, k, Len(s))
  BY CompactedShape
<1> DEFINE old == SubSeq(s, 1, k - 1)
           tail == SubSeq(s, k, Len(s))
           m == Summary(old)
<1>2. /\ old \in Seq(Message) /\ Len(old) = k - 1
      /\ \A i \in 1..(k - 1) : old[i] = s[i]
  <2>1. SubSeq(s, 1, k - 1) \in Seq(Message)
    BY <1>0, SubSeqProperties
  <2> QED
    BY <1>0, <2>1
<1>3. /\ tail \in Seq(Message) /\ Len(tail) = Len(s) - k + 1
      /\ \A i \in 1..(Len(s) - k + 1) : tail[i] = s[k + i - 1]
  <2>1. SubSeq(s, k, Len(s)) \in Seq(Message)
    BY <1>0, SubSeqProperties
  <2> QED
    BY <1>0, <2>1
<1>4. Meaning(old) = UNION {s[i].of : i \in 1..(k - 1)}
  <2>1. DOMAIN old = 1..(k - 1)
    BY <1>2, ListParts
  <2> HIDE DEF old
  <2> QED
    BY <1>2, <2>1 DEF Meaning
<1>5. m.kind = "prompt" /\ m.of = UNION {s[i].of : i \in 1..(k - 1)} /\ m \in Message
  <2>1. \A i \in 1..(k - 1) : s[i].of \in SUBSET Nat
    BY <1>0, MessageParts
  <2>2. (UNION {s[i].of : i \in 1..(k - 1)}) \in SUBSET Nat
    BY <2>1
  <2> HIDE DEF old
  <2> QED
    BY <1>4, <2>2 DEF Summary, Message, Texts
<1>6. Compacted(s) = <<m>> \o tail
  BY <1>1
<1> HIDE DEF old, tail, m
<1>7. /\ <<m>> \in Seq(Message) /\ Len(<<m>>) = 1 /\ <<m>>[1] = m
  BY <1>5
<1>8. /\ Compacted(s) \in Seq(Message) /\ Len(Compacted(s)) = 1 + (Len(s) - k + 1)
      /\ \A i \in 1..(1 + (Len(s) - k + 1)) :
            Compacted(s)[i] = IF i <= 1 THEN <<m>>[i] ELSE tail[i - 1]
  <2>1. /\ <<m>> \o tail \in Seq(Message) /\ Len(<<m>> \o tail) = Len(<<m>>) + Len(tail)
        /\ \A i \in 1..(Len(<<m>>) + Len(tail)) :
              (<<m>> \o tail)[i] = IF i <= Len(<<m>>) THEN <<m>>[i] ELSE tail[i - Len(<<m>>)]
    BY <1>3, <1>7, ConcatProperties
  <2> QED
    BY <1>3, <1>6, <1>7, <2>1
<1>9. Compacted(s)[1] = m
  BY <1>0, <1>7, <1>8
<1>10. \A i \in 2..(Len(s) - k + 2) : Compacted(s)[i] = s[i + k - 2]
  <2> SUFFICES ASSUME NEW i \in 2..(Len(s) - k + 2) PROVE Compacted(s)[i] = s[i + k - 2]
    OBVIOUS
  <2>1. i - 1 \in 1..(Len(s) - k + 1) /\ k + (i - 1) - 1 = i + k - 2
        /\ i \in 1..(1 + (Len(s) - k + 1)) /\ ~(i <= 1)
    BY <1>0
  <2>2. Compacted(s)[i] = tail[i - 1] /\ tail[i - 1] = s[k + (i - 1) - 1]
    BY <1>3, <1>8, <2>1
  <2> QED
    BY <2>1, <2>2
<1>11. Len(Compacted(s)) = Len(s) - k + 2
  BY <1>0, <1>8
<1> QED
  BY <1>1, <1>5, <1>8, <1>9, <1>10, <1>11

LEMMA CompactedMeaning ==
    ASSUME NEW s \in Seq(Message), Split(s) # {}
    PROVE  Meaning(Compacted(s)) = Meaning(s)
<1>0. Len(s) \in Nat
  BY ListParts
<1> DEFINE t == Compacted(s)
<1>1. PICK k \in 3..Len(s) :
          /\ t \in Seq(Message) /\ Len(t) = Len(s) - k + 2
          /\ t[1].of = UNION {s[i].of : i \in 1..(k - 1)}
          /\ \A i \in 2..(Len(s) - k + 2) : t[i] = s[i + k - 2]
  BY CompactedParts
<1> HIDE DEF t
<1>2. ASSUME NEW n, n \in Meaning(t) PROVE n \in Meaning(s)
  <2>1. PICK i \in 1..Len(t) : n \in t[i].of
    BY <1>1, <1>2, MeaningIn
  <2>2. CASE i = 1
    <3>1. PICK j \in 1..(k - 1) : n \in s[j].of
      BY <1>1, <2>1, <2>2
    <3>2. j \in 1..Len(s)
      BY <1>0
    <3> QED
      BY <3>1, <3>2, MeaningIn
  <2>3. CASE i # 1
    <3>1. i \in 2..(Len(s) - k + 2) /\ i + k - 2 \in 1..Len(s)
      BY <1>0, <1>1, <2>3
    <3> QED
      BY <1>1, <2>1, <3>1, MeaningIn
  <2> QED
    BY <2>2, <2>3
<1>3. ASSUME NEW n, n \in Meaning(s) PROVE n \in Meaning(t)
  <2>1. PICK j \in 1..Len(s) : n \in s[j].of
    BY <1>3, MeaningIn
  <2>2. CASE j <= k - 1
    <3>1. j \in 1..(k - 1) /\ 1 \in 1..Len(t)
      BY <1>0, <1>1, <2>2
    <3>2. n \in t[1].of
      BY <1>1, <2>1, <3>1
    <3> QED
      BY <1>1, <3>1, <3>2, MeaningIn
  <2>3. CASE ~(j <= k - 1)
    <3>1. j - k + 2 \in 2..(Len(s) - k + 2) /\ (j - k + 2) + k - 2 = j
          /\ j - k + 2 \in 1..Len(t)
      BY <1>0, <1>1, <2>3
    <3>2. t[j - k + 2] = s[j]
      BY <1>1, <3>1
    <3> QED
      BY <1>1, <2>1, <3>1, <3>2, MeaningIn
  <2> QED
    BY <2>2, <2>3
<1>4. Meaning(t) = Meaning(s)
  BY <1>2, <1>3
<1> QED
  BY <1>4 DEF t

LEMMA CompactedSpread ==
    ASSUME NEW s \in Seq(Message), Split(s) # {}, NEW n, Spread(s, n)
    PROVE  Spread(Compacted(s), n)
<1>0. Len(s) \in Nat /\ DOMAIN s = 1..Len(s)
  BY ListParts
<1> DEFINE t == Compacted(s)
<1>1. PICK k \in 3..Len(s) :
          /\ t \in Seq(Message) /\ Len(t) = Len(s) - k + 2
          /\ t[1].of = UNION {s[i].of : i \in 1..(k - 1)}
          /\ \A i \in 2..(Len(s) - k + 2) : t[i] = s[i + k - 2]
  BY CompactedParts
<1> HIDE DEF t
<1>2. DOMAIN t = 1..(Len(s) - k + 2)
  BY <1>1, ListParts
(* The positions of s that position i of t tells of.                       *)
<1> DEFINE from(i) == IF i = 1 THEN 1..(k - 1) ELSE {i + k - 2}
<1>3. ASSUME NEW i \in DOMAIN t
      PROVE  /\ from(i) \subseteq DOMAIN s /\ from(i) # {}
             /\ \A u : u \in t[i].of <=> \E j \in from(i) : u \in s[j].of
  <2>1. CASE i = 1
    <3>1. from(i) = 1..(k - 1) /\ 1 \in 1..(k - 1) /\ 1..(k - 1) \subseteq 1..Len(s)
      BY <1>0, <2>1
    <3>2. \A u : u \in t[1].of <=> \E j \in 1..(k - 1) : u \in s[j].of
      BY <1>1
    <3> HIDE DEF from
    <3> QED
      BY <1>0, <2>1, <3>1, <3>2
  <2>2. CASE i # 1
    <3>1. i \in 2..(Len(s) - k + 2)
      BY <1>0, <1>2, <2>2
    <3>2. i + k - 2 \in 1..Len(s)
      BY <1>0, <3>1
    <3>3. t[i] = s[i + k - 2]
      BY <1>1, <3>1
    <3>4. from(i) = {i + k - 2}
      BY <2>2
    <3> HIDE DEF from
    <3> QED
      BY <1>0, <3>2, <3>3, <3>4
  <2> QED
    BY <2>1, <2>2
<1>4. ASSUME NEW i \in DOMAIN t, NEW j \in DOMAIN t, i # j PROVE from(i) \cap from(j) = {}
  BY <1>0, <1>2, <1>4
<1> HIDE DEF from
<1>5. \A i \in DOMAIN t : t[i].of # {} /\ t[i].of \subseteq 1..n
  <2> SUFFICES ASSUME NEW i \in DOMAIN t PROVE t[i].of # {} /\ t[i].of \subseteq 1..n
    OBVIOUS
  <2>1. PICK j : j \in from(i)
    BY <1>3
  <2>2. s[j].of # {} /\ s[j].of \subseteq t[i].of
    BY <1>3, <2>1 DEF Spread
  <2>3. \A j1 \in from(i) : s[j1].of \subseteq 1..n
    BY <1>3 DEF Spread
  <2> QED
    BY <1>3, <2>2, <2>3
<1>6. ASSUME NEW i \in DOMAIN t, NEW j \in DOMAIN t, i # j PROVE t[i].of \cap t[j].of = {}
  <2> SUFFICES ASSUME NEW u, u \in t[i].of, u \in t[j].of PROVE FALSE
    OBVIOUS
  <2>1. PICK i1 \in from(i) : u \in s[i1].of
    BY <1>3
  <2>2. PICK j1 \in from(j) : u \in s[j1].of
    BY <1>3
  <2>3. i1 # j1 /\ i1 \in DOMAIN s /\ j1 \in DOMAIN s
    BY <1>3, <1>4, <1>6, <2>1, <2>2
  <2> QED
    BY <2>1, <2>2, <2>3 DEF Spread
<1>7. Spread(t, n)
  BY <1>5, <1>6 DEF Spread
<1> QED
  BY <1>7 DEF t

LEMMA CompactedPaired ==
    ASSUME NEW s \in Seq(Message), Split(s) # {}, Paired(s)
    PROVE  Paired(Compacted(s))
<1>0. Len(s) \in Nat /\ DOMAIN s = 1..Len(s)
  BY ListParts
<1> DEFINE t == Compacted(s)
<1>1. PICK k \in 3..Len(s) :
          /\ s[k].kind = "prompt"
          /\ t \in Seq(Message) /\ Len(t) = Len(s) - k + 2
          /\ t[1].kind = "prompt"
          /\ \A i \in 2..(Len(s) - k + 2) : t[i] = s[i + k - 2]
  BY CompactedParts
<1> HIDE DEF t
<1>2. DOMAIN t = 1..(Len(s) - k + 2)
  BY <1>1, ListParts
<1>3. ASSUME NEW i \in 2..(Len(s) - k + 2), Answered(s, i + k - 2) PROVE Answered(t, i)
  <2>1. /\ i + k - 2 \in 1..Len(s) /\ (i + k - 2) + 1 \in 1..Len(s)
        /\ s[i + k - 2].kind = "call" /\ s[(i + k - 2) + 1].kind = "result"
        /\ s[(i + k - 2) + 1].of = {n + 1 : n \in s[i + k - 2].of}
    BY <1>0, <1>3 DEF Answered
  <2>0. (i + k - 2) + 1 \in 1..Len(s)
    BY <2>1
  <2>2. i + 1 \in 2..(Len(s) - k + 2) /\ (i + 1) + k - 2 = (i + k - 2) + 1
    BY <1>0, <2>0
  <2>3. t[i] = s[i + k - 2] /\ t[i + 1] = s[(i + k - 2) + 1]
    BY <1>1, <2>2
  <2> QED
    BY <1>2, <2>1, <2>2, <2>3, SMTT(30) DEF Answered
<1>4. ASSUME NEW i \in DOMAIN t
      PROVE  (t[i].kind = "result" => Answered(t, i - 1)) /\ (t[i].kind = "call" => Answered(t, i))
  <2>1. CASE i = 1
    BY <1>1, <2>1
  <2>2. CASE i # 1
    <3>1. i \in 2..(Len(s) - k + 2) /\ i + k - 2 \in DOMAIN s /\ t[i] = s[i + k - 2]
      BY <1>0, <1>1, <1>2, <2>2
    <3>2. t[i].kind = "call" => Answered(t, i)
      BY <1>3, <3>1 DEF Paired
    <3>3. ASSUME t[i].kind = "result" PROVE Answered(t, i - 1)
      <4>1. i # 2
        BY <1>1, <3>1, <3>3
      <4>2. i - 1 \in 2..(Len(s) - k + 2) /\ (i - 1) + k - 2 = (i + k - 2) - 1
        BY <1>0, <3>1, <4>1, SMTT(30)
      <4>3. Answered(s, (i + k - 2) - 1)
        BY <3>1, <3>3 DEF Paired
      <4> QED
        BY <1>3, <4>2, <4>3
    <3> QED
      BY <3>2, <3>3
  <2> QED
    BY <2>1, <2>2
<1>5. Paired(t)
  BY <1>4 DEF Paired
<1> QED
  BY <1>5 DEF t

-----------------------------------------------------------------------------
(* One more message, said just now.                                        *)
LEMMA AppendParts ==
    ASSUME NEW s \in Seq(Message), NEW m \in Message
    PROVE  /\ Append(s, m) \in Seq(Message) /\ Len(Append(s, m)) = Len(s) + 1
           /\ \A i \in 1..Len(s) : Append(s, m)[i] = s[i]
           /\ Append(s, m)[Len(s) + 1] = m
           /\ DOMAIN Append(s, m) = 1..(Len(s) + 1) /\ DOMAIN s = 1..Len(s) /\ Len(s) \in Nat
BY AppendProperties, ListParts

LEMMA AppendMeaning ==
    ASSUME NEW s \in Seq(Message), NEW m \in Message
    PROVE  Meaning(Append(s, m)) = Meaning(s) \cup m.of
<1> DEFINE t == Append(s, m)
<1>1. /\ t \in Seq(Message) /\ Len(t) = Len(s) + 1 /\ Len(s) \in Nat
      /\ \A i \in 1..Len(s) : t[i] = s[i]
      /\ t[Len(s) + 1] = m
  BY AppendParts
<1> HIDE DEF t
<1>2. \A n : n \in Meaning(t) <=> n \in Meaning(s) \/ n \in m.of
  <2> SUFFICES ASSUME NEW n PROVE n \in Meaning(t) <=> n \in Meaning(s) \/ n \in m.of
    OBVIOUS
  <2>1. n \in Meaning(t) <=> \E i \in 1..(Len(s) + 1) : n \in t[i].of
    BY <1>1, MeaningIn
  <2>2. n \in Meaning(s) <=> \E i \in 1..Len(s) : n \in s[i].of
    BY MeaningIn
  <2>3. \A i \in 1..(Len(s) + 1) : i \in 1..Len(s) \/ i = Len(s) + 1
    BY <1>1
  <2>4. \A i \in 1..Len(s) : i \in 1..(Len(s) + 1)
    BY <1>1
  <2>5. Len(s) + 1 \in 1..(Len(s) + 1)
    BY <1>1
  <2> QED
    BY <1>1, <2>1, <2>2, <2>3, <2>4, <2>5
<1>3. Meaning(t) = Meaning(s) \cup m.of
  BY <1>2
<1> QED
  BY <1>3 DEF t

LEMMA AppendSpread ==
    ASSUME NEW s \in Seq(Message), NEW n \in Nat, Spread(s, n),
           NEW m \in Message, m.of = {n + 1}
    PROVE  Spread(Append(s, m), n + 1)
<1> DEFINE t == Append(s, m)
<1>1. /\ DOMAIN t = 1..(Len(s) + 1) /\ Len(s) \in Nat /\ DOMAIN s = 1..Len(s)
      /\ \A i \in 1..Len(s) : t[i] = s[i]
      /\ t[Len(s) + 1] = m
  BY AppendParts
<1> HIDE DEF t
<1>2. \A i \in DOMAIN t : i \in 1..Len(s) \/ i = Len(s) + 1
  BY <1>1
<1>3. \A i \in 1..Len(s) : t[i].of # {} /\ t[i].of \subseteq 1..n /\ t[i].of \subseteq 1..(n + 1)
  <2>1. 1..n \subseteq 1..(n + 1)
    OBVIOUS
  <2> QED
    BY <1>1, <2>1 DEF Spread
<1>4. t[Len(s) + 1].of = {n + 1} /\ n + 1 \in 1..(n + 1) /\ n + 1 \notin 1..n
  BY <1>1
<1>5. \A i \in DOMAIN t : t[i].of # {} /\ t[i].of \subseteq 1..(n + 1)
  BY <1>2, <1>3, <1>4
<1>6. \A i, j \in 1..Len(s) : i # j => t[i].of \cap t[j].of = {}
  BY <1>1 DEF Spread
<1>7. \A i \in 1..Len(s) : t[i].of \cap t[Len(s) + 1].of = {}
  BY <1>3, <1>4
<1>8. \A i, j \in DOMAIN t : i # j => t[i].of \cap t[j].of = {}
  BY <1>2, <1>6, <1>7
<1>9. Spread(t, n + 1)
  BY <1>5, <1>8 DEF Spread
<1> QED
  BY <1>9 DEF t

LEMMA SpreadGrows ==
    ASSUME NEW s, NEW n \in Nat, Spread(s, n)
    PROVE  Spread(s, n + 1)
<1>1. 1..n \subseteq 1..(n + 1)
  OBVIOUS
<1> QED
  BY <1>1 DEF Spread

LEMMA AppendAnswered ==
    ASSUME NEW s \in Seq(Message), NEW m \in Message, NEW i \in Int
    PROVE  /\ Answered(s, i) => Answered(Append(s, m), i)
           /\ Answered(Append(s, m), i) => Answered(s, i) \/ (i = Len(s) /\ m.kind = "result")
<1> DEFINE t == Append(s, m)
<1>1. /\ DOMAIN t = 1..(Len(s) + 1) /\ Len(s) \in Nat /\ DOMAIN s = 1..Len(s)
      /\ \A j \in 1..Len(s) : t[j] = s[j]
      /\ t[Len(s) + 1] = m
  BY AppendParts
<1> HIDE DEF t
<1>2. Answered(s, i) => Answered(t, i)
  <2> SUFFICES ASSUME Answered(s, i) PROVE Answered(t, i)
    OBVIOUS
  <2>1. i \in 1..Len(s) /\ i + 1 \in 1..Len(s)
    BY <1>1 DEF Answered
  <2>2. i \in 1..(Len(s) + 1) /\ i + 1 \in 1..(Len(s) + 1)
    BY <1>1, <2>1
  <2> QED
    BY <1>1, <2>1, <2>2 DEF Answered
<1>3. Answered(t, i) => Answered(s, i) \/ (i = Len(s) /\ m.kind = "result")
  <2> SUFFICES ASSUME Answered(t, i), i # Len(s) PROVE Answered(s, i)
    BY <1>1 DEF Answered
  <2>1. i \in 1..(Len(s) + 1) /\ i + 1 \in 1..(Len(s) + 1)
    BY <1>1 DEF Answered
  <2>2. Len(s) \in Nat
    BY <1>1
  <2>3. i \in 1..Len(s) /\ i + 1 \in 1..Len(s)
    BY <2>1, <2>2
  <2> QED
    BY <1>1, <2>3 DEF Answered
<1> QED
  BY <1>2, <1>3 DEF t

(* A prompt or a reply breaks no pair.                                     *)
LEMMA AppendPaired ==
    ASSUME NEW s \in Seq(Message), Paired(s), NEW m \in Message, m.kind \in {"prompt", "reply"}
    PROVE  Paired(Append(s, m))
<1> DEFINE t == Append(s, m)
<1>1. /\ DOMAIN t = 1..(Len(s) + 1) /\ Len(s) \in Nat /\ DOMAIN s = 1..Len(s)
      /\ \A j \in 1..Len(s) : t[j] = s[j]
      /\ t[Len(s) + 1] = m
  BY AppendParts
<1>2. \A i \in Int : Answered(s, i) => Answered(t, i)
  BY AppendAnswered
<1> HIDE DEF t
<1>3. \A i \in DOMAIN t : i \in 1..Len(s) \/ i = Len(s) + 1
  BY <1>1
<1>4. Paired(t)
  BY <1>1, <1>2, <1>3 DEF Paired
<1> QED
  BY <1>4 DEF t

(* A call and its result are a pair.                                       *)
LEMMA PairAppended ==
    ASSUME NEW s \in Seq(Message), Paired(s),
           NEW c \in Message, c.kind = "call",
           NEW r \in Message, r.kind = "result", r.of = {n + 1 : n \in c.of}
    PROVE  Paired(Append(Append(s, c), r))
<1> DEFINE t == Append(s, c)
           u == Append(t, r)
<1>1. /\ t \in Seq(Message) /\ Len(t) = Len(s) + 1 /\ Len(s) \in Nat /\ DOMAIN s = 1..Len(s)
      /\ \A j \in 1..Len(s) : t[j] = s[j]
      /\ t[Len(s) + 1] = c
  BY AppendParts
<1>2. \A i \in Int : Answered(s, i) => Answered(t, i)
  BY AppendAnswered
<1> HIDE DEF t
<1>3. /\ DOMAIN u = 1..(Len(s) + 2)
      /\ \A j \in 1..(Len(s) + 1) : u[j] = t[j]
      /\ u[Len(s) + 2] = r
  <2>1. /\ DOMAIN u = 1..(Len(t) + 1)
        /\ \A j \in 1..Len(t) : u[j] = t[j]
        /\ u[Len(t) + 1] = r
    BY <1>1, AppendParts
  <2>2. Len(t) + 1 = Len(s) + 2
    BY <1>1
  <2> HIDE DEF u
  <2> QED
    BY <1>1, <2>1, <2>2
<1>4. \A i \in Int : Answered(t, i) => Answered(u, i)
  BY <1>1, AppendAnswered
<1> HIDE DEF u
<1>5. Answered(u, Len(s) + 1)
  <2>1. Len(s) + 1 \in 1..(Len(s) + 2) /\ (Len(s) + 1) + 1 = Len(s) + 2
        /\ Len(s) + 2 \in 1..(Len(s) + 2) /\ Len(s) + 1 \in 1..(Len(s) + 1)
    BY <1>1
  <2>2. u[Len(s) + 1] = c
    BY <1>1, <1>3, <2>1
  <2> QED
    BY <1>3, <2>1, <2>2 DEF Answered
<1>6. ASSUME NEW i \in 1..Len(s)
      PROVE  /\ u[i].kind = "result" => Answered(u, i - 1)
             /\ u[i].kind = "call" => Answered(u, i)
  <2>1. u[i] = s[i]
    BY <1>1, <1>3
  <2> QED
    BY <1>1, <1>2, <1>4, <2>1 DEF Paired
<1>7. \A i \in DOMAIN u : i \in 1..Len(s) \/ i = Len(s) + 1 \/ i = Len(s) + 2
  BY <1>1, <1>3
<1>8. u[Len(s) + 1] = c /\ (Len(s) + 2) - 1 = Len(s) + 1
  BY <1>1, <1>3
<1>9. Paired(u)
  BY <1>3, <1>5, <1>6, <1>7, <1>8 DEF Paired
<1> QED
  BY <1>9 DEF t, u

-----------------------------------------------------------------------------
(* What repair_tool_pairing returns.  Selecting by value selects by        *)
(* position, since no two messages tell the same.                          *)
KeptOf(s) == {i \in DOMAIN s : Substantial(s, i)}
TextOf(s) ==
    [i \in DOMAIN s |-> IF s[i].kind = "call" /\ ~Answered(s, i)
                        THEN [s[i] EXCEPT !.kind = "reply"] ELSE s[i]]
KeptTexts(s) == {TextOf(s)[i] : i \in KeptOf(s)}

LEMMA RepairIs ==
    ASSUME NEW s
    PROVE  RepairToolPairing(s) = Select(TextOf(s), KeptTexts(s))
BY DEF RepairToolPairing, TextOf, KeptTexts, KeptOf

LEMMA TextParts ==
    ASSUME NEW s \in Seq(Message)
    PROVE  /\ TextOf(s) \in Seq(Message) /\ Len(TextOf(s)) = Len(s) /\ Len(s) \in Nat
           /\ DOMAIN s = 1..Len(s)
           /\ \A i \in 1..Len(s) :
                 /\ TextOf(s)[i].of = s[i].of
                 /\ TextOf(s)[i].kind = "result" <=> s[i].kind = "result"
                 /\ TextOf(s)[i].kind = "call" => s[i].kind = "call" /\ Answered(s, i)
                 /\ Answered(s, i) => TextOf(s)[i] = s[i]
                 /\ s[i].kind # "call" => TextOf(s)[i] = s[i]
<1> DEFINE t == TextOf(s)
<1>1. DOMAIN s = 1..Len(s) /\ Len(s) \in Nat /\ \A i \in 1..Len(s) : s[i] \in Message
  BY ListParts
<1>2. ASSUME NEW i \in 1..Len(s)
      PROVE  t[i] = IF s[i].kind = "call" /\ ~Answered(s, i)
                    THEN [s[i] EXCEPT !.kind = "reply"] ELSE s[i]
  BY <1>1 DEF TextOf
<1>3. ASSUME NEW i \in 1..Len(s)
      PROVE  /\ t[i] \in Message /\ t[i].of = s[i].of
             /\ t[i].kind = "result" <=> s[i].kind = "result"
             /\ t[i].kind = "call" => s[i].kind = "call" /\ Answered(s, i)
             /\ Answered(s, i) => t[i] = s[i]
             /\ s[i].kind # "call" => t[i] = s[i]
  <2> HIDE DEF t
  <2>1. CASE s[i].kind = "call" /\ ~Answered(s, i)
    <3>1. t[i] = [s[i] EXCEPT !.kind = "reply"]
      BY <1>2, <2>1
    <3>2. s[i] \in Message
      BY <1>1
    <3> QED
      BY <2>1, <3>1, <3>2 DEF Message
  <2>2. CASE ~(s[i].kind = "call" /\ ~Answered(s, i))
    BY <1>1, <1>2, <2>2
  <2> QED
    BY <2>1, <2>2
<1>4. t \in [1..Len(s) -> Message]
  <2>1. t = [i \in 1..Len(s) |-> t[i]]
    BY <1>1 DEF TextOf
  <2> HIDE DEF t
  <2> QED
    BY <1>3, <2>1
<1> HIDE DEF t
<1>5. t \in Seq(Message) /\ Len(t) = Len(s)
  BY <1>1, <1>4
<1> QED
  BY <1>1, <1>3, <1>5 DEF t

LEMMA KeptByPosition ==
    ASSUME NEW s \in Seq(Message), NEW n, Spread(s, n), NEW i \in 1..Len(s)
    PROVE  TextOf(s)[i] \in KeptTexts(s) <=> i \in KeptOf(s)
<1> SUFFICES ASSUME NEW j \in KeptOf(s), TextOf(s)[i] = TextOf(s)[j] PROVE i = j
  BY DEF KeptTexts
<1>1. i \in DOMAIN s /\ j \in DOMAIN s /\ j \in 1..Len(s)
  BY TextParts DEF KeptOf
<1>2. s[i].of = s[j].of
  BY <1>1, TextParts
<1> QED
  BY <1>1, <1>2 DEF Spread

(* Nothing to repair.                                                      *)
LEMMA RepairOfPaired ==
    ASSUME NEW s \in Seq(Message), Paired(s)
    PROVE  RepairToolPairing(s) = s
<1>1. DOMAIN s = 1..Len(s) /\ TextOf(s) \in Seq(Message)
  BY TextParts
<1>2. TextOf(s) = s
  <2>1. \A i \in 1..Len(s) : TextOf(s)[i] = s[i]
    BY <1>1 DEF TextOf, Paired
  <2>2. DOMAIN TextOf(s) = DOMAIN s
    BY DEF TextOf
  <2> QED
    BY <1>1, <2>1, <2>2, TextParts, SeqEqual
<1>3. \A i \in 1..Len(s) : s[i] \in KeptTexts(s)
  BY <1>1, <1>2 DEF KeptTexts, KeptOf, Substantial, Paired
<1>4. Select(s, KeptTexts(s)) = Select(s, Message)
  <2>1. \A i \in 1..Len(s) : s[i] \in KeptTexts(s) <=> s[i] \in Message
    BY <1>1, <1>3, ListParts
  <2> QED
    BY <2>1, SelectSame
<1>5. Select(s, Message) = s
  BY SelectAll
<1> QED
  BY <1>2, <1>4, <1>5, RepairIs

(* What is built from the first n messages: it is paired, except that its  *)
(* last message may be a call whose result comes next.                     *)
Built(r, s, n) ==
    /\ r \in Seq(Message)
    /\ \A i \in 1..Len(r) : \E j \in 1..n : r[i] = TextOf(s)[j]
    /\ \A i, k \in 1..Len(r) : i # k => r[i].of \cap r[k].of = {}
    /\ \A i \in 1..Len(r) : r[i].kind = "result" => Answered(r, i - 1)
    /\ \A i \in 1..Len(r) :
          r[i].kind = "call" => Answered(r, i) \/ (i = Len(r) /\ Answered(s, n) /\ r[i] = s[n])
    /\ Answered(s, n) => Len(r) > 0 /\ r[Len(r)] = s[n]

LEMMA BuiltKept ==
    ASSUME NEW s \in Seq(Message), NEW N, Spread(s, N), NEW n \in 0..(Len(s) - 1),
           NEW r, Built(r, s, n), n + 1 \in KeptOf(s)
    PROVE  Built(Append(r, TextOf(s)[n + 1]), s, n + 1)
<1> DEFINE x == TextOf(s)[n + 1]
           u == Append(r, x)
<1>0. Len(s) \in Nat /\ DOMAIN s = 1..Len(s) /\ n + 1 \in 1..Len(s) /\ n \in Nat
  BY ListParts
<1>1. /\ x \in Message /\ x.of = s[n + 1].of
      /\ x.kind = "result" <=> s[n + 1].kind = "result"
      /\ x.kind = "call" => s[n + 1].kind = "call" /\ Answered(s, n + 1)
      /\ Answered(s, n + 1) => x = s[n + 1]
      /\ s[n + 1].kind # "call" => x = s[n + 1]
  BY <1>0, TextParts, ElementOfSeq
<1>2. r \in Seq(Message)
  BY DEF Built
<1> HIDE DEF x
<1>3. /\ u \in Seq(Message) /\ Len(u) = Len(r) + 1 /\ Len(r) \in Nat
      /\ DOMAIN u = 1..(Len(r) + 1) /\ DOMAIN r = 1..Len(r)
      /\ \A i \in 1..Len(r) : u[i] = r[i]
      /\ u[Len(r) + 1] = x
  BY <1>1, <1>2, AppendParts
<1>4. \A i \in Int : Answered(r, i) => Answered(u, i)
  BY <1>1, <1>2, AppendAnswered
<1> HIDE DEF u
<1>5. \A i \in 1..Len(u) : i \in 1..Len(r) \/ i = Len(r) + 1
  BY <1>3
<1>6. \A i \in 1..Len(u) : \E j \in 1..(n + 1) : u[i] = TextOf(s)[j]
  <2>1. \A i \in 1..Len(r) : \E j \in 1..n : u[i] = TextOf(s)[j]
    BY <1>3 DEF Built
  <2>2. 1..n \subseteq 1..(n + 1) /\ n + 1 \in 1..(n + 1)
    BY <1>0
  <2>3. u[Len(r) + 1] = TextOf(s)[n + 1]
    BY <1>3 DEF x
  <2> QED
    BY <1>5, <2>1, <2>2, <2>3
<1>7. \A i, k \in 1..Len(u) : i # k => u[i].of \cap u[k].of = {}
  <2>1. \A i, k \in 1..Len(r) : i # k => u[i].of \cap u[k].of = {}
    BY <1>3 DEF Built
  <2>2. ASSUME NEW i \in 1..Len(r) PROVE u[i].of \cap u[Len(r) + 1].of = {}
    <3>1. PICK j \in 1..n : r[i] = TextOf(s)[j]
      BY DEF Built
    <3>2. j \in 1..Len(s) /\ j # n + 1
      BY <1>0
    <3>3. r[i].of = s[j].of
      BY <3>1, <3>2, TextParts
    <3>4. s[j].of \cap s[n + 1].of = {}
      BY <1>0, <3>2 DEF Spread
    <3> QED
      BY <1>1, <1>3, <3>3, <3>4
  <2> QED
    BY <1>5, <2>1, <2>2
(* A call that was the last is answered by what follows it.                *)
<1>8. ASSUME Answered(s, n), Len(r) > 0, r[Len(r)] = s[n] PROVE Answered(u, Len(r))
  <2>1. s[n].kind = "call" /\ s[n + 1].kind = "result" /\ s[n + 1].of = {m + 1 : m \in s[n].of}
    BY <1>8 DEF Answered
  <2>2. x = s[n + 1]
    BY <1>1, <2>1
  <2>3. Len(r) \in 1..Len(r) /\ Len(r) \in 1..(Len(r) + 1) /\ Len(r) + 1 \in 1..(Len(r) + 1)
    BY <1>3, <1>8
  <2>4. u[Len(r)] = s[n] /\ u[Len(r) + 1] = s[n + 1]
    BY <1>3, <1>8, <2>2, <2>3
  <2> QED
    BY <1>3, <2>1, <2>3, <2>4 DEF Answered
<1>9. ASSUME NEW i \in 1..Len(u), u[i].kind = "result" PROVE Answered(u, i - 1)
  <2>1. CASE i \in 1..Len(r)
    <3>1. r[i].kind = "result"
      BY <1>3, <1>9, <2>1
    <3>2. Answered(r, i - 1)
      BY <2>1, <3>1 DEF Built
    <3>3. i - 1 \in Int
      OBVIOUS
    <3> QED
      BY <1>4, <3>2, <3>3
  <2>2. CASE i = Len(r) + 1
    <3>1. x.kind = "result" /\ s[n + 1].kind = "result"
      BY <1>1, <1>3, <1>9, <2>2
    <3>2. Answered(s, n)
      <4>1. (n + 1) - 1 = n
        BY <1>0
      <4> QED
        BY <3>1, <4>1 DEF KeptOf, Substantial
    <3>3. i - 1 = Len(r)
      BY <1>3, <2>2
    <3> QED
      BY <1>8, <3>2, <3>3 DEF Built
  <2> QED
    BY <1>5, <2>1, <2>2
<1>10. ASSUME NEW i \in 1..Len(u), u[i].kind = "call"
       PROVE  Answered(u, i) \/ (i = Len(u) /\ Answered(s, n + 1) /\ u[i] = s[n + 1])
  <2>1. CASE i \in 1..Len(r)
    <3>1. Answered(r, i) \/ (i = Len(r) /\ Answered(s, n) /\ r[i] = s[n])
      BY <1>3, <1>10, <2>1 DEF Built
    <3>2. i \in Int /\ (i = Len(r) => Len(r) > 0)
      BY <2>1
    <3> QED
      BY <1>4, <1>8, <3>1, <3>2
  <2>2. CASE i = Len(r) + 1
    BY <1>1, <1>3, <1>10, <2>2
  <2> QED
    BY <1>5, <2>1, <2>2
<1>11. Answered(s, n + 1) => Len(u) > 0 /\ u[Len(u)] = s[n + 1]
  BY <1>1, <1>3
<1>12. Built(u, s, n + 1)
  BY <1>3, <1>6, <1>7, <1>9, <1>10, <1>11 DEF Built
<1> QED
  BY <1>12 DEF u, x

LEMMA BuiltDropped ==
    ASSUME NEW s \in Seq(Message), NEW n \in 0..(Len(s) - 1),
           NEW r, Built(r, s, n), n + 1 \notin KeptOf(s)
    PROVE  Built(r, s, n + 1)
<1>1. Len(s) \in Nat /\ DOMAIN s = 1..Len(s) /\ n + 1 \in 1..Len(s) /\ (n + 1) - 1 = n
  BY ListParts
<1>2. \/ s[n + 1].kind = "result" /\ ~Answered(s, n)
      \/ s[n + 1].kind = "call" /\ ~Answered(s, n + 1)
  BY <1>1 DEF KeptOf, Substantial
<1>3. ~Answered(s, n) /\ ~Answered(s, n + 1)
  BY <1>2 DEF Answered
<1>4. 1..n \subseteq 1..(n + 1)
  BY <1>1
<1> QED
  BY <1>2, <1>3, <1>4 DEF Built

LEMMA RepairBuilds ==
    ASSUME NEW s \in Seq(Message), NEW N, Spread(s, N)
    PROVE  Built(RepairToolPairing(s), s, Len(s))
<1> DEFINE x == TextOf(s)
           K == KeptTexts(s)
           R(n) == Select(SubSeq(x, 1, n), K)
           Holds == {n \in 0..Len(s) : Built(R(n), s, n)}
<1>1. x \in Seq(Message) /\ Len(x) = Len(s) /\ Len(s) \in Nat /\ DOMAIN s = 1..Len(s)
  BY TextParts
<1> HIDE DEF x, K
<1>2. 0 \in Holds
  <2>1. SubSeq(x, 1, 0) = <<>> /\ <<>> \in Seq({}) /\ {} \cap K = {}
    BY SubSeqEmpty
  <2>2. R(0) = <<>>
    BY <2>1, SelectNone
  <2>3. ~Answered(s, 0)
    BY <1>1 DEF Answered
  <2>4. Built(<<>>, s, 0)
    BY <2>3 DEF Built
  <2> QED
    BY <1>1, <2>2, <2>4
<1>3. ASSUME NEW n \in 0..(Len(s) - 1), n \in Holds PROVE n + 1 \in Holds
  <2>1. n + 1 \in 1..Len(s) /\ n + 1 \in 0..Len(s)
    BY <1>1
  <2>2. x[n + 1] \in K <=> n + 1 \in KeptOf(s)
    BY <2>1, KeptByPosition DEF x, K
  <2>3. R(n + 1) = IF x[n + 1] \in K THEN Append(R(n), x[n + 1]) ELSE R(n)
    BY <1>1, SelectNext
  <2>4. Built(R(n), s, n)
    BY <1>3
  <2> HIDE DEF R
  <2>5. Built(R(n + 1), s, n + 1)
    <3>1. CASE n + 1 \in KeptOf(s)
      <4>1. Built(Append(R(n), TextOf(s)[n + 1]), s, n + 1)
        BY <2>4, <3>1, BuiltKept
      <4> QED
        BY <2>2, <2>3, <3>1, <4>1 DEF x
    <3>2. CASE n + 1 \notin KeptOf(s)
      BY <2>2, <2>3, <2>4, <3>2, BuiltDropped
    <3> QED
      BY <3>1, <3>2
  <2> QED
    BY <2>1, <2>5
<1>4. 0..Len(s) \subseteq Holds
  <2> HIDE DEF Holds
  <2> QED
    BY <1>1, <1>2, <1>3, PrefixInduction
<1>5. Built(R(Len(s)), s, Len(s))
  BY <1>1, <1>4
<1>6. R(Len(s)) = RepairToolPairing(s)
  <2>1. SubSeq(x, 1, Len(x)) = x
    BY <1>1, SubSeqFull
  <2> QED
    BY <1>1, <2>1, RepairIs DEF x, K
<1> QED
  BY <1>5, <1>6

(* A repaired list is paired, tells nothing twice and nothing new; only    *)
(* results without their call and bare calls without an answer are lost.   *)
LEMMA RepairSound ==
    ASSUME NEW s \in Seq(Message), NEW n, Spread(s, n)
    PROVE  /\ RepairToolPairing(s) \in Seq(Message)
           /\ Spread(RepairToolPairing(s), n) /\ Paired(RepairToolPairing(s))
           /\ \A i \in KeptOf(s) : s[i].of \subseteq Meaning(RepairToolPairing(s))
<1> DEFINE r == RepairToolPairing(s)
<1>0. Built(r, s, Len(s))
  BY RepairBuilds
<1> HIDE DEF r
<1>1. r \in Seq(Message) /\ DOMAIN r = 1..Len(r) /\ DOMAIN s = 1..Len(s) /\ Len(s) \in Nat
  BY <1>0, ListParts DEF Built
<1>2. ~Answered(s, Len(s))
  BY <1>1 DEF Answered
<1>3. Paired(r)
  BY <1>0, <1>1, <1>2 DEF Built, Paired
<1>4. Spread(r, n)
  <2>1. ASSUME NEW i \in 1..Len(r) PROVE r[i].of # {} /\ r[i].of \subseteq 1..n
    <3>1. PICK j \in 1..Len(s) : r[i] = TextOf(s)[j]
      BY <1>0 DEF Built
    <3>2. r[i].of = s[j].of
      BY <3>1, TextParts
    <3> QED
      BY <1>1, <3>2 DEF Spread
  <2> QED
    BY <1>0, <1>1, <2>1 DEF Built, Spread
<1>5. ASSUME NEW i \in KeptOf(s) PROVE s[i].of \subseteq Meaning(r)
  <2>1. i \in 1..Len(s) /\ TextOf(s)[i] \in KeptTexts(s)
    BY <1>1 DEF KeptOf, KeptTexts
  <2>2. TextOf(s) \in Seq(Message) /\ i \in 1..Len(TextOf(s)) /\ TextOf(s)[i].of = s[i].of
    BY <2>1, TextParts
  <2>3. \E j \in 1..Len(r) : r[j] = TextOf(s)[i]
    <3>1. \E j \in 1..Len(Select(TextOf(s), KeptTexts(s))) :
             Select(TextOf(s), KeptTexts(s))[j] = TextOf(s)[i]
      BY <2>1, <2>2, SelectKeeps, SMTT(30)
    <3> QED
      BY <3>1, RepairIs DEF r
  <2> QED
    BY <1>1, <2>2, <2>3, MeaningIn
<1> QED
  BY <1>1, <1>3, <1>4, <1>5 DEF r

(* A tail that is paired in itself is not touched, and touches nothing     *)
(* before it.                                                              *)
LEMMA ConcatParts ==
    ASSUME NEW s \in Seq(Message), NEW x \in Seq(Message)
    PROVE  /\ s \o x \in Seq(Message) /\ Len(s \o x) = Len(s) + Len(x)
           /\ \A i \in 1..Len(s) : (s \o x)[i] = s[i]
           /\ \A i \in 1..Len(x) : (s \o x)[Len(s) + i] = x[i]
           /\ DOMAIN s = 1..Len(s) /\ DOMAIN x = 1..Len(x)
           /\ DOMAIN (s \o x) = 1..(Len(s) + Len(x))
           /\ Len(s) \in Nat /\ Len(x) \in Nat
<1>1. /\ DOMAIN s = 1..Len(s) /\ DOMAIN x = 1..Len(x) /\ Len(s) \in Nat /\ Len(x) \in Nat
  BY ListParts
<1>2. /\ s \o x \in Seq(Message) /\ Len(s \o x) = Len(s) + Len(x)
      /\ \A i \in 1..(Len(s) + Len(x)) :
            (s \o x)[i] = IF i <= Len(s) THEN s[i] ELSE x[i - Len(s)]
  BY ConcatProperties
<1> DEFINE t == s \o x
<1> HIDE DEF t
<1>3. t \in Seq(Message) /\ Len(t) = Len(s) + Len(x)
      /\ \A i \in 1..(Len(s) + Len(x)) : t[i] = IF i <= Len(s) THEN s[i] ELSE x[i - Len(s)]
  BY <1>2 DEF t
<1>4. \A i \in 1..Len(s) : t[i] = s[i]
  BY <1>1, <1>3
<1>5. \A i \in 1..Len(x) : t[Len(s) + i] = x[i]
  <2> SUFFICES ASSUME NEW i \in 1..Len(x) PROVE t[Len(s) + i] = x[i]
    OBVIOUS
  <2>1. Len(s) + i \in 1..(Len(s) + Len(x)) /\ ~(Len(s) + i <= Len(s)) /\ (Len(s) + i) - Len(s) = i
    BY <1>1
  <2> QED
    BY <1>3, <2>1
<1>6. DOMAIN t = 1..(Len(s) + Len(x))
  BY <1>3, ListParts
<1> QED
  BY <1>1, <1>3, <1>4, <1>5, <1>6 DEF t

LEMMA ConcatAnswered ==
    ASSUME NEW s \in Seq(Message), NEW x \in Seq(Message), Paired(x)
    PROVE  /\ \A i \in 0..Len(s) : Answered(s \o x, i) <=> Answered(s, i)
           /\ \A i \in 1..Len(x) : Answered(x, i) => Answered(s \o x, Len(s) + i)
<1> DEFINE t == s \o x
<1>1. /\ t \in Seq(Message) /\ Len(t) = Len(s) + Len(x)
      /\ \A i \in 1..Len(s) : t[i] = s[i]
      /\ \A i \in 1..Len(x) : t[Len(s) + i] = x[i]
      /\ DOMAIN s = 1..Len(s) /\ DOMAIN x = 1..Len(x)
      /\ DOMAIN t = 1..(Len(s) + Len(x))
      /\ Len(s) \in Nat /\ Len(x) \in Nat
  BY ConcatParts
<1> HIDE DEF t
<1>2. ASSUME NEW i \in 0..Len(s) PROVE Answered(t, i) <=> Answered(s, i)
  <2>1. CASE i = 0
    BY <1>1, <2>1 DEF Answered
  <2>2. CASE i \in 1..(Len(s) - 1)
    <3>1. i \in 1..Len(s) /\ i + 1 \in 1..Len(s)
          /\ i \in 1..(Len(s) + Len(x)) /\ i + 1 \in 1..(Len(s) + Len(x))
      BY <1>1, <2>2
    <3>2. t[i] = s[i] /\ t[i + 1] = s[i + 1]
      BY <1>1, <3>1
    <3> QED
      BY <1>1, <3>1, <3>2 DEF Answered
  <2>3. CASE i = Len(s)
    <3>1. ~Answered(s, i)
      BY <1>1, <2>3 DEF Answered
    <3>2. ASSUME Answered(t, i) PROVE FALSE
      <4>1. Len(s) + 1 \in 1..(Len(s) + Len(x)) /\ t[Len(s) + 1].kind = "result"
        BY <1>1, <2>3, <3>2 DEF Answered
      <4>2. 1 \in 1..Len(x)
        BY <1>1, <4>1
      <4>3. x[1].kind = "result"
        BY <1>1, <4>1, <4>2
      <4>4. Answered(x, 0)
        <5>1. Answered(x, 1 - 1)
          BY <1>1, <4>2, <4>3 DEF Paired
        <5> QED
          BY <5>1
      <4> QED
        BY <1>1, <4>4 DEF Answered
    <3> QED
      BY <3>1, <3>2
  <2>4. i = 0 \/ i \in 1..(Len(s) - 1) \/ i = Len(s)
    <3>1. Len(s) \in Nat
      BY <1>1
    <3> QED
      BY <3>1
  <2> QED
    BY <2>1, <2>2, <2>3, <2>4
<1>3. ASSUME NEW i \in 1..Len(x), Answered(x, i) PROVE Answered(t, Len(s) + i)
  <2>1. i + 1 \in 1..Len(x)
    BY <1>1, <1>3 DEF Answered
  <2>2. /\ Len(s) + i \in 1..(Len(s) + Len(x))
        /\ (Len(s) + i) + 1 \in 1..(Len(s) + Len(x))
        /\ (Len(s) + i) + 1 = Len(s) + (i + 1)
    BY <1>1, <2>1
  <2>3. t[Len(s) + i] = x[i] /\ t[(Len(s) + i) + 1] = x[i + 1]
    BY <1>1, <2>1, <2>2
  <2> QED
    BY <1>1, <1>3, <2>2, <2>3 DEF Answered
<1> QED
  BY <1>2, <1>3 DEF t

LEMMA RepairConcat ==
    ASSUME NEW s \in Seq(Message), NEW x \in Seq(Message), Paired(x),
           NEW n, Spread(s \o x, n)
    PROVE  RepairToolPairing(s \o x) = RepairToolPairing(s) \o x
<1> DEFINE t == s \o x
           a == TextOf(s)
           K == KeptTexts(t)
<1>1. /\ t \in Seq(Message) /\ Len(t) = Len(s) + Len(x)
      /\ \A i \in 1..Len(s) : t[i] = s[i]
      /\ \A i \in 1..Len(x) : t[Len(s) + i] = x[i]
      /\ DOMAIN s = 1..Len(s) /\ DOMAIN x = 1..Len(x)
      /\ DOMAIN t = 1..(Len(s) + Len(x))
      /\ Len(s) \in Nat /\ Len(x) \in Nat
  BY ConcatParts
<1>2. /\ \A i \in 0..Len(s) : Answered(t, i) <=> Answered(s, i)
      /\ \A i \in 1..Len(x) : Answered(x, i) => Answered(t, Len(s) + i)
  BY ConcatAnswered
<1>3. Spread(t, n)
  OBVIOUS
<1>4. a \in Seq(Message) /\ Len(a) = Len(s)
  BY TextParts
<1> HIDE DEF t
<1>5. \A i \in 1..Len(s) : TextOf(t)[i] = a[i] /\ (i \in KeptOf(t) <=> i \in KeptOf(s))
  <2> SUFFICES ASSUME NEW i \in 1..Len(s)
               PROVE  TextOf(t)[i] = a[i] /\ (i \in KeptOf(t) <=> i \in KeptOf(s))
    OBVIOUS
  <2>1. /\ i \in DOMAIN s /\ i \in DOMAIN t /\ t[i] = s[i]
        /\ i \in 0..Len(s) /\ i - 1 \in 0..Len(s)
    BY <1>1
  <2>2. (Answered(t, i) <=> Answered(s, i)) /\ (Answered(t, i - 1) <=> Answered(s, i - 1))
    BY <1>2, <2>1
  <2> QED
    BY <2>1, <2>2 DEF TextOf, KeptOf, Substantial
<1>6. \A i \in 1..Len(x) : /\ Len(s) + i \in 1..Len(t)
                           /\ TextOf(t)[Len(s) + i] = x[i] /\ Len(s) + i \in KeptOf(t)
  <2> SUFFICES ASSUME NEW i \in 1..Len(x)
               PROVE  /\ Len(s) + i \in 1..Len(t)
                      /\ TextOf(t)[Len(s) + i] = x[i] /\ Len(s) + i \in KeptOf(t)
    OBVIOUS
  <2>1. Len(s) + i \in DOMAIN t /\ t[Len(s) + i] = x[i] /\ Len(s) + i \in 1..Len(t)
    BY <1>1
  <2>2. x[i].kind = "call" => Answered(t, Len(s) + i)
    BY <1>1, <1>2 DEF Paired
  <2>3. ASSUME x[i].kind = "result" PROVE Answered(t, (Len(s) + i) - 1)
    <3>1. Answered(x, i - 1)
      BY <1>1, <2>3 DEF Paired
    <3>2. i - 1 \in 1..Len(x)
      BY <1>1, <3>1 DEF Answered
    <3>3. Len(s) + (i - 1) = (Len(s) + i) - 1
      BY <1>1
    <3> QED
      BY <1>2, <3>1, <3>2, <3>3
  <2> QED
    BY <2>1, <2>2, <2>3 DEF TextOf, KeptOf, Substantial
<1>7. TextOf(t) = a \o x
  <2>1. /\ a \o x \in Seq(Message) /\ Len(a \o x) = Len(s) + Len(x)
        /\ \A i \in 1..Len(s) : (a \o x)[i] = a[i]
        /\ \A i \in 1..Len(x) : (a \o x)[Len(s) + i] = x[i]
    <3> HIDE DEF a
    <3>1. /\ a \o x \in Seq(Message) /\ Len(a \o x) = Len(a) + Len(x)
          /\ \A i \in 1..Len(a) : (a \o x)[i] = a[i]
          /\ \A i \in 1..Len(x) : (a \o x)[Len(a) + i] = x[i]
      BY <1>4, ConcatParts
    <3> QED
      BY <1>4, <3>1
  <2>2. TextOf(t) \in Seq(Message) /\ Len(TextOf(t)) = Len(s) + Len(x)
    BY <1>1, TextParts
  <2> DEFINE u == a \o x
             v == TextOf(t)
  <2> HIDE DEF a, u, v
  <2>3. \A i \in 1..(Len(s) + Len(x)) : v[i] = u[i]
    <3> SUFFICES ASSUME NEW i \in 1..(Len(s) + Len(x)) PROVE v[i] = u[i]
      OBVIOUS
    <3>1. CASE i \in 1..Len(s)
      BY <1>5, <2>1, <3>1 DEF u, v
    <3>2. CASE i \notin 1..Len(s)
      <4>1. i - Len(s) \in 1..Len(x) /\ Len(s) + (i - Len(s)) = i
        BY <1>1, <3>2
      <4> QED
        BY <1>6, <2>1, <4>1 DEF u, v
    <3> QED
      BY <3>1, <3>2
  <2>4. u \in Seq(Message) /\ v \in Seq(Message) /\ Len(u) = Len(s) + Len(x) /\ Len(v) = Len(u)
    BY <2>1, <2>2 DEF u, v
  <2>5. v = u
    BY <2>3, <2>4, SeqEqual
  <2> QED
    BY <2>5 DEF u, v
<1>8. Spread(s, n)
  <2>1. \A i \in 1..Len(s) : i \in 1..(Len(s) + Len(x))
    BY <1>1
  <2> QED
    BY <1>1, <1>3, <2>1 DEF Spread
<1>9. Select(a, K) = RepairToolPairing(s)
  <2>1. \A i \in 1..Len(a) : a[i] \in K <=> a[i] \in KeptTexts(s)
    <3> SUFFICES ASSUME NEW i \in 1..Len(s) PROVE a[i] \in K <=> a[i] \in KeptTexts(s)
      BY <1>4
    <3>1. i \in 1..Len(t)
      BY <1>1
    <3>2. TextOf(t)[i] \in K <=> i \in KeptOf(t)
      BY <1>1, <1>3, <3>1, KeptByPosition
    <3>3. a[i] \in KeptTexts(s) <=> i \in KeptOf(s)
      BY <1>8, KeptByPosition
    <3> QED
      BY <1>5, <3>2, <3>3
  <2> HIDE DEF a, K
  <2>2. Select(a, K) = Select(a, KeptTexts(s))
    BY <1>4, <2>1, SelectSame
  <2> QED
    BY <2>2, RepairIs DEF a
<1>10. Select(x, K) = x
  <2>1. \A i \in 1..Len(x) : x[i] \in K <=> x[i] \in Message
    <3> SUFFICES ASSUME NEW i \in 1..Len(x) PROVE x[i] \in K /\ x[i] \in Message
      OBVIOUS
    <3>1. x[i] \in Message
      BY ElementOfSeq
    <3>2. TextOf(t)[Len(s) + i] = x[i] /\ Len(s) + i \in KeptOf(t)
      BY <1>6
    <3> QED
      BY <3>1, <3>2 DEF KeptTexts
  <2> HIDE DEF K
  <2>2. Select(x, K) = Select(x, Message)
    BY <2>1, SelectSame
  <2> QED
    BY <2>2, SelectAll
<1>11. RepairToolPairing(t) = Select(a \o x, K)
  BY <1>7, RepairIs
<1> HIDE DEF a, K
<1>12. Select(a \o x, K) = Select(a, K) \o Select(x, K)
  BY <1>4, SelectConcat, SMTT(30)
<1> QED
  BY <1>9, <1>10, <1>11, <1>12 DEF t

-----------------------------------------------------------------------------
(* What the steps do to the engine and to the session.                     *)
LEMMA RevisionedParts ==
    ASSUME NEW r \in Revisioned
    PROVE  /\ r.revision \in Nat /\ r.messages \in Seq(Message)
           /\ r = [revision |-> r.revision, messages |-> r.messages]
  BY DEF Revisioned

LEMMA PersistOutcome ==
    ASSUME TypeOK, NEW new \in Seq(Message), NEW kept \in Seq(Message), NEW expected,
           PersistCompaction(new, kept, expected)
    PROVE  /\ stored' \in Revisioned /\ engine' \in Revisioned /\ faults' \in Nat
           /\ engine'.revision <= stored'.revision /\ stored.revision <= stored'.revision
           /\ \/ /\ expected = stored.revision
                 /\ engine'.messages = new /\ stored'.messages = new
                 /\ stored'.revision = stored.revision + 1 /\ faults' = faults
              \/ /\ expected # stored.revision
                 /\ engine'.messages = kept /\ stored' = stored /\ faults' = faults
              \/ /\ expected = stored.revision
                 /\ engine'.messages = kept /\ stored'.messages = new
                 /\ stored'.revision = stored.revision /\ faults' = faults + 1
<1>1. /\ stored.revision \in Nat /\ engine.revision \in Nat
      /\ engine.revision <= stored.revision /\ faults \in Nat
      /\ stored = [revision |-> stored.revision, messages |-> stored.messages]
      /\ engine = [revision |-> engine.revision, messages |-> engine.messages]
      /\ stored \in Revisioned
  BY RevisionedParts DEF TypeOK
<1>2. CASE Swap(new, expected)
  BY <1>1, <1>2 DEF Swap, Revisioned
<1>3. CASE SwapRefused(new, kept, expected)
  BY <1>1, <1>3 DEF SwapRefused, Revisioned
<1>4. CASE SwapFails(new, kept, expected)
  <2>1. /\ expected = stored.revision /\ faults' = faults + 1
        /\ stored' = [stored EXCEPT !.messages = new]
        /\ engine' = [engine EXCEPT !.messages = kept]
    BY <1>4 DEF SwapFails
  <2>2. /\ stored' = [revision |-> stored.revision, messages |-> new]
        /\ engine' = [revision |-> engine.revision, messages |-> kept]
    BY <1>1, <2>1
  <2> QED
    BY <1>1, <2>1, <2>2 DEF Revisioned
<1> QED
  BY <1>2, <1>3, <1>4 DEF PersistCompaction

LEMMA SaidMessage ==
    ASSUME NEW kind \in {"prompt", "reply", "call", "result"}, NEW n \in Nat, NEW size \in Texts
    PROVE  /\ Said(kind, n, size) \in Message
           /\ Said(kind, n, size).kind = kind /\ Said(kind, n, size).of = {n}
  BY DEF Said, Message

LEMMA HeardParts ==
    ASSUME TypeOK, NEW m \in Message
    PROVE  Heard(m) = [revision |-> engine.revision, messages |-> Append(engine.messages, m)]
<1>1. /\ DOMAIN engine = {"revision", "messages"}
      /\ engine = [f \in {"revision", "messages"} |-> engine[f]]
  BY DEF TypeOK, Revisioned
<1>2. Heard(m) = [f \in {"revision", "messages"} |->
                     IF f = "messages" THEN Append(engine.messages, m) ELSE engine[f]]
  BY <1>1 DEF Heard
<1> QED
  BY <1>2

LEMMA SayOutcome ==
    ASSUME TypeOK, NEW kind \in {"prompt", "reply", "call", "result"}, NEW size \in Texts,
           NEW next, Say(kind, size, next)
    PROVE  LET m == Said(kind, said + 1, size)
           IN  /\ m \in Message /\ m.kind = kind /\ m.of = {said + 1}
               /\ said' = said + 1 /\ said' \in 1..MaxUtterances
               /\ stored' \in Revisioned /\ engine' \in Revisioned /\ faults' \in Nat
               /\ engine'.revision <= stored'.revision
               /\ engine'.messages = Append(engine.messages, m)
               /\ phase' = next /\ UNCHANGED <<pending, force, injected>>
               /\ \/ /\ stored'.messages = Append(stored.messages, m)
                     /\ stored'.revision = stored.revision + 1
                     /\ UNCHANGED <<unsaved, faults>>
                  \/ /\ UNCHANGED stored
                     /\ unsaved' = unsaved \cup {said + 1} /\ faults' = faults + 1
<1> DEFINE m == Said(kind, said + 1, size)
<1>1. /\ stored.revision \in Nat /\ engine.revision \in Nat
      /\ stored.messages \in Seq(Message) /\ engine.messages \in Seq(Message)
      /\ engine.revision <= stored.revision /\ faults \in Nat /\ stored \in Revisioned
      /\ said \in 0..MaxUtterances
  BY RevisionedParts DEF TypeOK
<1>2. m \in Message /\ m.kind = kind /\ m.of = {said + 1}
  <2>1. said + 1 \in Nat
    BY <1>1, EngineAssumption
  <2> QED
    BY <2>1, SaidMessage
<1>3. /\ Append(engine.messages, m) \in Seq(Message)
      /\ Append(stored.messages, m) \in Seq(Message)
  BY <1>1, <1>2, AppendParts
<1>4. /\ said < MaxUtterances /\ said' = said + 1 /\ phase' = next
      /\ AppendAccepted(m) \/ AppendRefused(m)
      /\ UNCHANGED <<pending, force, injected>>
  BY DEF Say
<1>5. Heard(m) = [revision |-> engine.revision, messages |-> Append(engine.messages, m)]
  BY <1>2, HeardParts
<1> HIDE DEF m
<1>6. said' \in 1..MaxUtterances
  BY <1>1, <1>4, EngineAssumption
<1>7. CASE AppendAccepted(m)
  <2>0. [Heard(m) EXCEPT !.revision = stored.revision + 1] =
            [revision |-> stored.revision + 1, messages |-> Append(engine.messages, m)]
    <3>1. \A r, new : [[revision |-> r, messages |-> new] EXCEPT !.revision = stored.revision + 1]
                          = [revision |-> stored.revision + 1, messages |-> new]
      OBVIOUS
    <3> QED
      BY <1>5, <3>1, ZenonT(30)
  <2>1. /\ stored' = [revision |-> stored.revision + 1, messages |-> Append(stored.messages, m)]
        /\ engine' = [revision |-> stored.revision + 1, messages |-> Append(engine.messages, m)]
        /\ UNCHANGED <<unsaved, faults>>
    BY <2>0, <1>7 DEF AppendAccepted
  <2>2. stored' \in Revisioned /\ engine' \in Revisioned
    BY <1>1, <1>3, <2>1 DEF Revisioned
  <2> QED
    BY <1>1, <1>2, <1>4, <1>6, <2>1, <2>2, SMTT(30) DEF m
<1>8. CASE AppendRefused(m)
  <2>1. /\ stored' = stored /\ faults' = faults + 1 /\ unsaved' = unsaved \cup m.of
        /\ engine' = [revision |-> engine.revision, messages |-> Append(engine.messages, m)]
    BY <1>5, <1>8 DEF AppendRefused
  <2>2. engine' \in Revisioned
    BY <1>1, <1>3, <2>1 DEF Revisioned
  <2> QED
    BY <1>1, <1>2, <1>4, <1>6, <2>1, <2>2 DEF m
<1> QED
  BY <1>4, <1>7, <1>8

-----------------------------------------------------------------------------
(* The shape of the loop's state.  A forced compaction has something to    *)
(* summarise, or the message list it adopts would be no list.              *)
Forcing == phase = "forcing" => Split(engine.messages) # {}
TypeInv == TypeOK /\ Forcing

LEMMA TypeParts ==
    ASSUME TypeOK
    PROVE  /\ stored.messages \in Seq(Message) /\ engine.messages \in Seq(Message)
           /\ stored.revision \in Nat /\ engine.revision \in Nat
           /\ engine.revision <= stored.revision
           /\ Len(engine.messages) \in Nat
           /\ frozen \in 0..Len(engine.messages) /\ said \in Nat /\ faults \in Nat
           /\ pending.task # "none" =>
                 /\ pending.summary \in Seq(Message)
                 /\ pending.count \in Nat /\ pending.revision \in Nat
<1>1. Len(engine.messages) \in Nat
  BY RevisionedParts, LenProperties DEF TypeOK
<1>2. pending.task # "none" =>
          /\ pending.summary \in Seq(Message)
          /\ pending.count \in Nat /\ pending.revision \in Nat
  BY DEF TypeOK, Summaries, None
<1>3. /\ stored.messages \in Seq(Message) /\ engine.messages \in Seq(Message)
      /\ stored.revision \in Nat /\ engine.revision \in Nat
  BY RevisionedParts DEF TypeOK
<1>4. said \in Nat
  BY EngineAssumption DEF TypeOK
<1> QED
  BY <1>1, <1>2, <1>3, <1>4 DEF TypeOK

(* Steps that leave the messages alone.                                    *)
LEMMA TypeKept ==
    ASSUME TypeOK, engine' = engine, frozen' = frozen,
           UNCHANGED log, faults' = faults,
           stored' \in Revisioned, stored.revision <= stored'.revision,
           pending' \in Summaries \cup {None}, force' \in Nat \cup {NoForce},
           phase' \in {"idle", "inherit", "prompt", "top", "taken", "weigh", "heavy",
                       "forcing", "turn", "tools", "notice", "done"},
           foreign' \in Nat
    PROVE  TypeOK'
<1>1. stored.revision \in Nat /\ stored'.revision \in Nat /\ engine.revision \in Nat
  BY RevisionedParts DEF TypeOK
<1> QED
  BY <1>1 DEF TypeOK, log

(* Steps that say a message.                                               *)
LEMMA TypeSaid ==
    ASSUME TypeOK, NEW kind \in {"prompt", "reply", "call", "result"}, NEW size \in Texts,
           NEW next \in {"top", "notice", "tools", "done"}, Say(kind, size, next),
           frozen' \in 0..Len(engine.messages), foreign' = foreign,
           bare' \subseteq bare \cup {said + 1}
    PROVE  TypeInv'
<1> DEFINE m == Said(kind, said + 1, size)
<1>1. /\ m \in Message
      /\ said' = said + 1 /\ said' \in 1..MaxUtterances
      /\ stored' \in Revisioned /\ engine' \in Revisioned /\ faults' \in Nat
      /\ engine'.revision <= stored'.revision
      /\ engine'.messages = Append(engine.messages, m)
      /\ phase' = next /\ UNCHANGED <<pending, force, injected>>
      /\ unsaved' = unsaved \/ unsaved' = unsaved \cup {said + 1}
  BY SayOutcome
<1> HIDE DEF m
<1>2. frozen' \in 0..Len(engine'.messages)
  <2>1. Len(engine'.messages) = Len(engine.messages) + 1 /\ Len(engine.messages) \in Nat
    BY <1>1, TypeParts, AppendParts
  <2> QED
    BY <2>1
<1>3. unsaved' \subseteq 1..said' /\ injected' \subseteq 1..said' /\ bare' \subseteq 1..said'
  <2>1. 1..said \subseteq 1..said' /\ said + 1 \in 1..said'
    BY <1>1, TypeParts
  <2> QED
    BY <1>1, <2>1 DEF TypeOK
<1>4. said' \in 0..MaxUtterances
  BY <1>1
<1> QED
  BY <1>1, <1>2, <1>3, <1>4 DEF TypeInv, Forcing, TypeOK

(* Steps that swap the messages in the session.                            *)
LEMMA TypeSwapped ==
    ASSUME TypeOK, NEW new \in Seq(Message), NEW kept \in Seq(Message), NEW expected,
           PersistCompaction(new, kept, expected), UNCHANGED <<log, foreign>>,
           frozen' \in 0..Len(engine'.messages),
           phase' \in {"prompt", "taken", "weigh", "turn"},
           pending' \in Summaries \cup {None}, force' \in Nat \cup {NoForce}
    PROVE  TypeInv'
<1>1. /\ stored' \in Revisioned /\ engine' \in Revisioned /\ faults' \in Nat
      /\ engine'.revision <= stored'.revision
  BY PersistOutcome
<1> QED
  BY <1>1 DEF TypeInv, Forcing, TypeOK, log

(* What the engine goes on with after a swap.                              *)
LEMMA SwappedMessages ==
    ASSUME TypeOK, NEW new \in Seq(Message), NEW kept \in Seq(Message), NEW expected,
           PersistCompaction(new, kept, expected)
    PROVE  engine'.messages = new \/ engine'.messages = kept
  BY PersistOutcome

LEMMA CompactedType ==
    ASSUME NEW s \in Seq(Message), Split(s) # {}
    PROVE  Compacted(s) \in Seq(Message)
  BY CompactedParts

(* An answer of the provider.                                              *)
LEMMA TurnCases ==
    ASSUME Turn
    PROVE  \/ \E size \in {"none", "small"} :
                 /\ Say("call", size, "tools")
                 /\ bare' = IF size = "none" THEN bare \cup {said + 1} ELSE bare
           \/ \E next \in {"notice", "done"} : Say("reply", "small", next) /\ bare' = bare
  BY DEF Turn

LEMMA TypeStep ==
    ASSUME TypeInv, Next, Spread(stored.messages, said)
    PROVE  TypeInv'
<1> DEFINE E == engine.messages
<1>1. /\ TypeOK /\ E \in Seq(Message) /\ stored.messages \in Seq(Message)
      /\ Len(E) \in Nat /\ frozen \in 0..Len(E) /\ stored.revision \in Nat
      /\ stored \in Revisioned /\ engine.revision <= stored.revision
  BY TypeParts DEF TypeInv, TypeOK
<1>2. CASE StartRun
  <2>1. RepairToolPairing(stored.messages) \in Seq(Message)
    BY <1>1, RepairSound
  <2>2. engine' = [revision |-> stored.revision, messages |-> RepairToolPairing(stored.messages)]
    <3>1. Hydrated = [revision |-> stored.revision,
                      messages |-> RepairToolPairing(stored.messages)]
      BY <1>1 DEF Hydrated, Revisioned
    <3> QED
      BY <1>2, <3>1 DEF StartRun
  <2>3. engine' \in Revisioned /\ engine'.revision = stored.revision
        /\ engine'.messages = RepairToolPairing(stored.messages)
    BY <1>1, <2>1, <2>2 DEF Revisioned
  <2>4. frozen' \in 0..Len(engine'.messages)
    <3>1. Len(engine'.messages) \in Nat
      BY <2>1, <2>3, LenProperties
    <3> QED
      BY <1>2, <3>1 DEF StartRun
  <2> QED
    BY <1>1, <1>2, <2>3, <2>4 DEF StartRun, Goto, TypeInv, TypeOK, Forcing, log
<1>3. CASE TrimInherited
  <2> DEFINE new == Trimmed(E, 0)
  <2>1. new \in Seq(Message) /\ Len(new) = Len(E)
    BY <1>1, TrimmedAlike DEF Alike
  <2>2. PersistCompaction(new, E, engine.revision) /\ frozen' = frozen
    BY <1>3 DEF TrimInherited
  <2>3. phase' = "prompt" /\ pending' = pending /\ force' = force /\ UNCHANGED <<log, foreign>>
    BY <1>3 DEF TrimInherited, Goto
  <2> HIDE DEF new, E
  <2>4. frozen' \in 0..Len(engine'.messages)
    BY <1>1, <2>1, <2>2, SwappedMessages
  <2> QED
    BY <1>1, <2>1, <2>2, <2>3, <2>4, TypeSwapped DEF TypeOK
<1>4. CASE KeepInherited
  BY <1>1, <1>4, TypeKept DEF KeepInherited, Goto, TypeInv, Forcing, TypeOK
<1>5. CASE Prompt
  <2>1. PICK next \in {"top", "notice"} : Say("prompt", "small", next)
    BY <1>5 DEF Prompt
  <2>2. frozen' \in 0..Len(E) /\ foreign' = foreign /\ bare' = bare
    BY <1>1, <1>5, <2>1 DEF Prompt, Say
  <2> QED
    BY <1>1, <2>1, <2>2, TypeSaid DEF Texts
<1>6. CASE Inject
  <2> DEFINE m == Said("prompt", said + 1, "small")
  <2>1. said \in Nat /\ said + 1 \in 0..MaxUtterances /\ 1..said \subseteq 1..(said + 1)
        /\ said + 1 \in 1..(said + 1)
    BY <1>1, <1>6, EngineAssumption DEF Inject, TypeOK
  <2>2. m \in Message
    BY <2>1, SaidMessage DEF Texts
  <2>3. engine' = [revision |-> engine.revision, messages |-> Append(E, m)]
    BY <1>1, <1>6, <2>2, HeardParts DEF Inject
  <2> HIDE DEF m
  <2>4. Append(E, m) \in Seq(Message) /\ Len(Append(E, m)) = Len(E) + 1
    BY <1>1, <2>2, AppendParts
  <2> HIDE DEF E
  <2>5. /\ engine' \in Revisioned /\ engine'.revision = engine.revision
        /\ frozen' \in 0..Len(engine'.messages)
    <3>1. engine.revision \in Nat
      BY <1>1, TypeParts
    <3>2. engine'.messages = Append(E, m) /\ engine'.revision = engine.revision
      BY <2>3
    <3>3. engine' \in Revisioned
      BY <2>3, <2>4, <3>1 DEF Revisioned
    <3>4. frozen' = frozen
      BY <1>6 DEF Inject
    <3> QED
      BY <1>1, <2>4, <3>2, <3>3, <3>4
  <2> QED
    BY <1>1, <1>6, <2>1, <2>5 DEF Inject, TypeInv, TypeOK, Forcing
<1>7. CASE TakeBackground
  <2> DEFINE new == pending.summary
  <2>1. new \in Seq(Message)
    BY <1>1, <1>7, TypeParts DEF TakeBackground
  <2>2. /\ PersistCompaction(new, E, pending.revision) /\ UNCHANGED <<log, foreign>>
        /\ frozen' = IF engine'.messages = new THEN 0 ELSE frozen
        /\ phase' = "taken" /\ pending' = None /\ force' = force
    BY <1>7 DEF TakeBackground, Goto, BackgroundBase
  <2> HIDE DEF new, E
  <2>3. engine'.messages = new \/ engine'.messages = E
    BY <1>1, <2>1, <2>2, SwappedMessages
  <2>4. frozen' \in 0..Len(engine'.messages)
    BY <1>1, <2>1, <2>2, <2>3, LenProperties
  <2> QED
    BY <1>1, <2>1, <2>2, <2>4, TypeSwapped DEF TypeOK
<1>8. CASE DropBackground
  BY <1>1, <1>8, TypeKept DEF DropBackground, Goto, TypeInv, Forcing, TypeOK
<1>9. CASE PassBackground
  BY <1>1, <1>9, TypeKept DEF PassBackground, Goto, TypeInv, Forcing, TypeOK
<1>10. CASE TrimOld
  <2> DEFINE new == Trimmed(E, frozen)
  <2>1. new \in Seq(Message) /\ Len(new) = Len(E)
    BY <1>1, TrimmedAlike DEF Alike
  <2>2. PersistCompaction(new, new, engine.revision) /\ frozen' = frozen
    BY <1>10 DEF TrimOld
  <2>3. phase' = "weigh" /\ pending' = pending /\ force' = force /\ UNCHANGED <<log, foreign>>
    BY <1>10 DEF TrimOld, Goto
  <2> HIDE DEF new, E
  <2>4. frozen' \in 0..Len(engine'.messages)
    BY <1>1, <2>1, <2>2, SwappedMessages
  <2> QED
    BY <1>1, <2>1, <2>2, <2>3, <2>4, TypeSwapped DEF TypeOK
<1>11. CASE KeepOld
  BY <1>1, <1>11, TypeKept DEF KeepOld, Goto, TypeInv, Forcing, TypeOK
<1>12. CASE Prune
  <2>1. Pruned(E) \in Seq(Message) /\ Len(Pruned(E)) = Len(E)
    BY <1>1, PrunedAlike DEF Alike
  <2>2. engine' = [engine EXCEPT !.messages = Pruned(E)]
    BY <1>12 DEF Prune
  <2>3. engine' \in Revisioned /\ engine'.revision = engine.revision
        /\ engine'.messages = Pruned(E)
    <3>1. engine \in Revisioned
      BY <1>1 DEF TypeOK
    <3> HIDE DEF E
    <3> QED
      BY <2>1, <2>2, <3>1 DEF Revisioned
  <2> HIDE DEF E
  <2>4. frozen' \in 0..Len(engine'.messages)
    BY <1>1, <1>12, <2>1, <2>3 DEF Prune
  <2> QED
    BY <1>1, <1>12, <2>3, <2>4 DEF Prune, Goto, TypeInv, TypeOK, Forcing, log
<1>13. CASE NoCompaction
  BY <1>1, <1>13, TypeKept DEF NoCompaction, TypeInv, Forcing, TypeOK
<1>14. CASE Prefire
  <2>1. Compacted(E) \in Seq(Message) /\ engine.revision \in Nat
    BY <1>1, <1>14, CompactedType, TypeParts DEF Prefire
  <2>2. pending' = [task |-> "running", summary |-> Compacted(E),
                    count |-> Len(E), revision |-> engine.revision]
    BY <1>14 DEF Prefire
  <2>3. pending' \in Summaries
    BY <1>1, <2>1, <2>2 DEF Summaries
  <2> QED
    BY <1>1, <1>14, <2>3, TypeKept DEF Prefire, TypeInv, Forcing, TypeOK
<1>15. CASE StartForce
  <2>1. engine.revision \in Nat /\ engine' = engine /\ Split(engine.messages) # {}
    BY <1>1, <1>15, TypeParts DEF StartForce
  <2> QED
    BY <1>1, <1>15, <2>1, TypeKept DEF StartForce, TypeInv, Forcing, TypeOK
<1>16. CASE FinishForce
  <2> DEFINE new == Compacted(E)
  <2>1. new \in Seq(Message)
    BY <1>1, <1>16, CompactedType DEF FinishForce, Goto, TypeInv, Forcing
  <2>2. /\ PersistCompaction(new, E, force) /\ UNCHANGED <<log, foreign>>
        /\ frozen' = IF engine'.messages = new THEN 0 ELSE frozen
        /\ phase' = "turn" /\ pending' = pending /\ force' = NoForce
    BY <1>16 DEF FinishForce, Goto
  <2> HIDE DEF new, E
  <2>3. engine'.messages = new \/ engine'.messages = E
    BY <1>1, <2>1, <2>2, SwappedMessages
  <2>4. frozen' \in 0..Len(engine'.messages)
    BY <1>1, <2>1, <2>2, <2>3, LenProperties
  <2> QED
    BY <1>1, <2>1, <2>2, <2>4, TypeSwapped DEF TypeOK
<1>17. CASE Turn
  <2>1. frozen' \in 0..Len(E)
    BY <1>1, <1>17 DEF Turn
  <2>2. ASSUME NEW size \in {"none", "small"}, Say("call", size, "tools"),
               bare' = IF size = "none" THEN bare \cup {said + 1} ELSE bare
        PROVE  TypeInv'
    <3>1. foreign' = foreign /\ bare' \subseteq bare \cup {said + 1}
      BY <2>2 DEF Say
    <3> QED
      BY <1>1, <2>1, <2>2, <3>1, TypeSaid DEF Texts
  <2>3. ASSUME NEW next \in {"notice", "done"}, Say("reply", "small", next), bare' = bare
        PROVE  TypeInv'
    <3>1. foreign' = foreign
      BY <2>3 DEF Say
    <3> QED
      BY <1>1, <2>1, <2>3, <3>1, TypeSaid DEF Texts
  <2> QED
    BY <1>17, <2>2, <2>3, TurnCases
<1>18. CASE ToolResults
  <2>1. PICK size \in Sizes, next \in {"top", "notice"} : Say("result", size, next)
    BY <1>18 DEF ToolResults
  <2>2. frozen' \in 0..Len(E) /\ foreign' = foreign /\ size \in Texts
    BY <1>1, <1>18, <2>1, EngineAssumption DEF ToolResults, Say, Texts
  <2>3. bare' \subseteq bare \cup {said + 1}
    BY <1>18 DEF ToolResults
  <2> QED
    BY <1>1, <2>1, <2>2, <2>3, TypeSaid
<1>19. CASE Notice
  <2>1. PICK next \in {"top", "notice"} : Say("prompt", "small", next)
    BY <1>19 DEF Notice
  <2>2. frozen' \in 0..Len(E) /\ foreign' = foreign /\ bare' = bare
    BY <1>1, <1>19, <2>1 DEF Notice, Say
  <2> QED
    BY <1>1, <2>1, <2>2, TypeSaid DEF Texts
<1>20. CASE EndRun
  BY <1>1, <1>20, TypeKept DEF EndRun, Goto, TypeInv, Forcing, TypeOK
<1>21. CASE Cancel
  BY <1>1, <1>21, TypeKept DEF Cancel, TypeInv, Forcing, TypeOK
<1>22. CASE Fail
  BY <1>1, <1>22, TypeKept DEF Fail, TypeInv, Forcing, TypeOK
<1>23. CASE FinishBackground
  <2>1. PICK outcome \in {"finished", "failed"} : pending' = [pending EXCEPT !.task = outcome]
    BY <1>23 DEF FinishBackground
  <2>2. pending \in Summaries
    BY <1>1, <1>23 DEF FinishBackground, TypeOK, None
  <2>3. pending' \in Summaries
    BY <2>1, <2>2 DEF Summaries
  <2> QED
    BY <1>1, <1>23, <2>3, TypeKept DEF FinishBackground, loop, TypeInv, Forcing, TypeOK
<1>24. CASE WriteMetadata
  <2>1. stored' \in Revisioned /\ stored'.revision = stored.revision + 1
    BY <1>1, <1>24 DEF WriteMetadata, Revisioned
  <2>2. TypeOK'
    BY <1>1, <1>24, <2>1, TypeKept DEF WriteMetadata, loop, TypeOK
  <2> QED
    BY <1>24, <2>2 DEF WriteMetadata, loop, TypeInv, Forcing
<1> QED
  BY <1>2, <1>3, <1>4, <1>5, <1>6, <1>7, <1>8, <1>9, <1>10, <1>11, <1>12, <1>13, <1>14,
     <1>15, <1>16, <1>17, <1>18, <1>19, <1>20, <1>21, <1>22, <1>23, <1>24 DEF Next

-----------------------------------------------------------------------------
(* What a list tells, without its texts and without what is hidden.        *)
Tellings == [kind : {"prompt", "reply", "call", "result"}, of : SUBSET Nat]
Tellable(hidden) == {g \in Tellings : ~(g.of \subseteq hidden)}
GistList(s) == [i \in DOMAIN s |-> [kind |-> s[i].kind, of |-> s[i].of]]
Shown(s, hidden) == Select(GistList(s), Tellable(hidden))

LEMMA GistListParts ==
    ASSUME NEW s \in Seq(Message)
    PROVE  /\ GistList(s) \in Seq(Tellings) /\ Len(GistList(s)) = Len(s) /\ Len(s) \in Nat
           /\ DOMAIN s = 1..Len(s)
           /\ \A i \in 1..Len(s) :
                 /\ GistList(s)[i] = [kind |-> s[i].kind, of |-> s[i].of]
                 /\ GistList(s)[i] \in Tellings /\ GistList(s)[i].of = s[i].of
<1> DEFINE g == GistList(s)
<1>1. DOMAIN s = 1..Len(s) /\ Len(s) \in Nat /\ \A i \in 1..Len(s) : s[i] \in Message
  BY ListParts
<1>2. \A i \in 1..Len(s) : g[i] = [kind |-> s[i].kind, of |-> s[i].of]
  BY <1>1 DEF GistList
<1>3. \A i \in 1..Len(s) : g[i] \in Tellings /\ g[i].of = s[i].of
  <2> SUFFICES ASSUME NEW i \in 1..Len(s) PROVE g[i] \in Tellings /\ g[i].of = s[i].of
    OBVIOUS
  <2>1. s[i].kind \in {"prompt", "reply", "call", "result"} /\ s[i].of \in SUBSET Nat
    BY <1>1, MessageParts
  <2>2. g[i] = [kind |-> s[i].kind, of |-> s[i].of]
    BY <1>2
  <2> HIDE DEF g
  <2> QED
    BY <2>1, <2>2 DEF Tellings
<1>4. g \in [1..Len(s) -> Tellings]
  <2>1. g = [i \in 1..Len(s) |-> g[i]]
    BY <1>1 DEF GistList
  <2> HIDE DEF g
  <2> QED
    BY <1>3, <2>1
<1> HIDE DEF g
<1>5. g \in Seq(Tellings) /\ Len(g) = Len(s)
  BY <1>1, <1>4, IsASeq, LenProperties
<1> QED
  BY <1>1, <1>2, <1>3, <1>5 DEF g

LEMMA GistIs ==
    ASSUME NEW s \in Seq(Message)
    PROVE  Gist(s) = Shown(s, injected)
<1> DEFINE g == GistList(s)
           K == {g[i] : i \in {j \in DOMAIN s : ~(s[j].of \subseteq injected)}}
<1>1. Gist(s) = Select(g, K)
  BY DEF Gist, GistList
<1>2. /\ g \in Seq(Tellings) /\ Len(g) = Len(s) /\ DOMAIN s = 1..Len(s)
      /\ \A i \in 1..Len(s) : g[i] \in Tellings /\ g[i].of = s[i].of
  BY GistListParts
<1> HIDE DEF g
<1>3. \A i \in 1..Len(g) : g[i] \in K <=> g[i] \in Tellable(injected)
  <2> SUFFICES ASSUME NEW i \in 1..Len(s) PROVE g[i] \in K <=> ~(s[i].of \subseteq injected)
    BY <1>2 DEF Tellable
  <2> QED
    BY <1>2
<1> HIDE DEF K
<1>4. Select(g, K) = Select(g, Tellable(injected))
  BY <1>2, <1>3, SelectSame
<1> QED
  BY <1>1, <1>4 DEF Shown, g

LEMMA ShownAlike ==
    ASSUME NEW s \in Seq(Message), NEW t \in Seq(Message), Alike(s, t), NEW hidden
    PROVE  Shown(t, hidden) = Shown(s, hidden)
<1>1. \A i \in 1..Len(s) : GistList(t)[i] = GistList(s)[i]
  <2> SUFFICES ASSUME NEW i \in 1..Len(s) PROVE GistList(t)[i] = GistList(s)[i]
    OBVIOUS
  <2>1. t[i].kind = s[i].kind /\ t[i].of = s[i].of /\ Len(t) = Len(s)
    BY DEF Alike
  <2>2. GistList(s)[i] = [kind |-> s[i].kind, of |-> s[i].of]
    BY GistListParts
  <2>3. GistList(t)[i] = [kind |-> t[i].kind, of |-> t[i].of]
    BY <2>1, GistListParts
  <2> QED
    BY <2>1, <2>2, <2>3
<1>2. GistList(t) = GistList(s)
  <2>1. /\ GistList(t) \in Seq(Tellings) /\ GistList(s) \in Seq(Tellings)
        /\ Len(GistList(t)) = Len(s) /\ Len(GistList(s)) = Len(s)
    BY GistListParts DEF Alike
  <2> QED
    BY <1>1, <2>1, SeqEqual
<1> QED
  BY <1>2 DEF Shown

LEMMA ShownConcat ==
    ASSUME NEW s \in Seq(Message), NEW x \in Seq(Message), NEW hidden
    PROVE  Shown(s \o x, hidden) = Shown(s, hidden) \o Shown(x, hidden)
<1> DEFINE t == s \o x
           a == GistList(s)
           b == GistList(x)
           u == a \o b
           v == GistList(t)
<1>1. /\ t \in Seq(Message) /\ Len(t) = Len(s) + Len(x)
      /\ \A i \in 1..Len(s) : t[i] = s[i]
      /\ \A i \in 1..Len(x) : t[Len(s) + i] = x[i]
      /\ Len(s) \in Nat /\ Len(x) \in Nat
  BY ConcatParts
<1>2. /\ a \in Seq(Tellings) /\ Len(a) = Len(s)
      /\ \A i \in 1..Len(s) : a[i] = [kind |-> s[i].kind, of |-> s[i].of]
  BY GistListParts
<1>3. /\ b \in Seq(Tellings) /\ Len(b) = Len(x)
      /\ \A i \in 1..Len(x) : b[i] = [kind |-> x[i].kind, of |-> x[i].of]
  BY GistListParts
<1> HIDE DEF t, a, b
<1>4. /\ v \in Seq(Tellings) /\ Len(v) = Len(t)
      /\ \A i \in 1..Len(t) : v[i] = [kind |-> t[i].kind, of |-> t[i].of]
  BY <1>1, GistListParts
<1>5. /\ u \in Seq(Tellings) /\ Len(u) = Len(a) + Len(b)
      /\ \A i \in 1..(Len(a) + Len(b)) : u[i] = IF i <= Len(a) THEN a[i] ELSE b[i - Len(a)]
  <2>1. a \in Seq(Tellings) /\ b \in Seq(Tellings)
    BY <1>2, <1>3
  <2> QED
    BY <2>1, ConcatProperties
<1> HIDE DEF u, v
<1>6. \A i \in 1..Len(u) : v[i] = u[i]
  <2> SUFFICES ASSUME NEW i \in 1..(Len(s) + Len(x)) PROVE v[i] = u[i]
    BY <1>2, <1>3, <1>5
  <2>1. CASE i <= Len(s)
    <3>1. i \in 1..Len(s) /\ i \in 1..Len(t)
      BY <1>1, <2>1
    <3>2. v[i] = [kind |-> s[i].kind, of |-> s[i].of]
      BY <1>1, <1>4, <3>1
    <3>3. u[i] = a[i]
      BY <1>2, <1>3, <1>5, <2>1
    <3> QED
      BY <1>2, <3>1, <3>2, <3>3
  <2>2. CASE ~(i <= Len(s))
    <3>1. i - Len(s) \in 1..Len(x) /\ Len(s) + (i - Len(s)) = i /\ i \in 1..Len(t)
      BY <1>1, <2>2
    <3>2. t[i] = x[i - Len(s)]
      BY <1>1, <3>1
    <3>3. v[i] = [kind |-> x[i - Len(s)].kind, of |-> x[i - Len(s)].of]
      BY <1>4, <3>1, <3>2
    <3>4. u[i] = b[i - Len(s)]
      BY <1>2, <1>3, <1>5, <2>2
    <3> QED
      BY <1>3, <3>1, <3>3, <3>4
  <2> QED
    BY <2>1, <2>2
<1>7. v = u
  BY <1>1, <1>2, <1>3, <1>4, <1>5, <1>6, SeqEqual
<1>8. Select(a \o b, Tellable(hidden))
          = Select(a, Tellable(hidden)) \o Select(b, Tellable(hidden))
  BY <1>2, <1>3, SelectConcat, SMTT(30)
<1> QED
  BY <1>7, <1>8 DEF Shown, t, a, b, u, v

(* An utterance that no message of the list tells can be hidden.           *)
LEMMA ShownHidden ==
    ASSUME NEW s \in Seq(Message), NEW n \in Nat, Spread(s, n), NEW hidden
    PROVE  Shown(s, hidden \cup {n + 1}) = Shown(s, hidden)
<1> DEFINE g == GistList(s)
<1>1. /\ g \in Seq(Tellings) /\ Len(g) = Len(s) /\ DOMAIN s = 1..Len(s)
      /\ \A i \in 1..Len(s) : g[i] \in Tellings /\ g[i].of = s[i].of
  BY GistListParts
<1> HIDE DEF g
<1>2. \A i \in 1..Len(g) : g[i] \in Tellable(hidden \cup {n + 1}) <=> g[i] \in Tellable(hidden)
  <2> SUFFICES ASSUME NEW i \in 1..Len(s)
               PROVE  s[i].of \subseteq hidden \cup {n + 1} <=> s[i].of \subseteq hidden
    BY <1>1 DEF Tellable
  <2>1. s[i].of \subseteq 1..n /\ n + 1 \notin 1..n
    BY <1>1 DEF Spread
  <2> QED
    BY <2>1
<1>3. Select(g, Tellable(hidden \cup {n + 1})) = Select(g, Tellable(hidden))
  BY <1>1, <1>2, SelectSame
<1> QED
  BY <1>3 DEF Shown, g

LEMMA ShownNothing ==
    ASSUME NEW m \in Message, NEW hidden, m.of \subseteq hidden
    PROVE  Shown(<<m>>, hidden) = <<>>
<1> DEFINE g == [kind |-> m.kind, of |-> m.of]
<1>1. GistList(<<m>>) = <<g>>
  BY DEF GistList
<1>2. {g} \cap Tellable(hidden) = {}
  BY DEF Tellable
<1> HIDE DEF g
<1>3. <<g>> \in Seq({g})
  OBVIOUS
<1>4. Select(<<g>>, Tellable(hidden)) = <<>>
  BY <1>2, <1>3, SelectNone
<1> QED
  BY <1>1, <1>4 DEF Shown

LEMMA MessageAppended ==
    ASSUME NEW s \in Seq(Message), NEW m \in Message
    PROVE  Append(s, m) = s \o <<m>> /\ <<m>> \in Seq(Message)
  OBVIOUS

-----------------------------------------------------------------------------
(* The invariant of the two lists.  While tools run, the engine's list ends *)
(* in the call they answer, and so does the session's, unless it failed to *)
(* take the call.  A result the session holds follows its call, or the     *)
(* session failed to take that call; a call without text that it holds is  *)
(* answered, or known to be bare.  Both lists tell all that the session    *)
(* accepted; and as long as it failed nothing, the engine's shows what the *)
(* session's would show when repaired.                                     *)
OpenCall     == Said("call", said, IF said \in bare THEN "none" ELSE "small")
Before(s)    == SubSeq(s, 1, Len(s) - 1)
EndsIn(s, m) == Len(s) > 0 /\ s[Len(s)] = m

AllSpread == Spread(stored.messages, said) /\ Spread(engine.messages, said)
EnginePaired ==
    /\ phase \notin {"idle", "tools"} => Paired(engine.messages)
    /\ phase = "tools" => /\ Paired(Before(engine.messages))
                          /\ EndsIn(engine.messages, OpenCall)
FollowsCall(s, i) ==
    s[i].kind = "result" => Answered(s, i - 1) \/ \A n \in s[i].of : n - 1 \in unsaved
StoredResults ==
    /\ \A i \in DOMAIN stored.messages : FollowsCall(stored.messages, i)
    /\ phase = "tools" => EndsIn(stored.messages, OpenCall) \/ said \in unsaved
BareIn(s, known) ==
    \A i \in DOMAIN s :
        s[i].kind = "call" /\ s[i].text = "none" => Answered(s, i) \/ s[i].of \subseteq known
StoredBare == BareIn(stored.messages, bare \cup unsaved)
Known(s) ==
    \A n \in (1..said) \ (unsaved \cup injected \cup bare) :
        n \in Meaning(s) \/ n - 1 \in unsaved
AllKnown == Known(stored.messages) /\ Known(engine.messages)
Unfailed == faults = 0 => unsaved = {}
ShowSame(s, t) == Shown(s, injected) = Shown(RepairToolPairing(t), injected)
Matching ==
    faults = 0 =>
        /\ phase \notin {"idle", "tools"} => ShowSame(engine.messages, stored.messages)
        /\ phase = "tools" => /\ EndsIn(stored.messages, OpenCall)
                              /\ ShowSame(Before(engine.messages), Before(stored.messages))

ListInv ==
    /\ AllSpread /\ EnginePaired /\ StoredResults /\ StoredBare
    /\ AllKnown /\ Unfailed /\ Matching

LEMMA EndParts ==
    ASSUME NEW s \in Seq(Message), NEW m \in Message, EndsIn(s, m)
    PROVE  Before(s) \in Seq(Message) /\ s = Append(Before(s), m)
<1> DEFINE b == Before(s)
<1>1. Len(s) \in Nat /\ Len(s) > 0 /\ s[Len(s)] = m
  BY LenProperties DEF EndsIn
<1>2. b \in Seq(Message) /\ Len(b) = Len(s) - 1
      /\ \A i \in 1..(Len(s) - 1) : b[i] = s[i]
  <2>1. b \in Seq(Message)
    BY <1>1, SubSeqProperties, ElementOfSeq DEF Before
  <2>2. 1 \in Int /\ Len(s) - 1 \in Int /\ \A i \in 1..(Len(s) - 1) : s[i] \in Message
    BY <1>1, ElementOfSeq
  <2>3. /\ Len(b) = IF 1 <= Len(s) - 1 THEN (Len(s) - 1) - 1 + 1 ELSE 0
        /\ \A i \in 1..((Len(s) - 1) - 1 + 1) : b[i] = s[1 + i - 1]
    BY <2>2, SubSeqProperties DEF Before
  <2> HIDE DEF b
  <2>4. Len(b) = Len(s) - 1
    <3>1. Len(b) = IF 1 <= Len(s) - 1 THEN (Len(s) - 1) - 1 + 1 ELSE 0
      BY <2>3
    <3>2. Len(s) \in Nat /\ Len(s) > 0
      BY <1>1
    <3> DEFINE n == Len(s)
               k == Len(b)
    <3> HIDE DEF n, k
    <3>3. n \in Nat /\ n > 0 /\ k = IF 1 <= n - 1 THEN (n - 1) - 1 + 1 ELSE 0
      BY <3>1, <3>2 DEF n, k
    <3>4. k = n - 1
      BY <3>3
    <3> QED
      BY <3>4 DEF n, k
  <2>5. \A i \in 1..(Len(s) - 1) : 1 + i - 1 = i /\ i \in 1..((Len(s) - 1) - 1 + 1)
    BY <1>1
  <2> QED
    BY <2>1, <2>3, <2>4, <2>5
<1> HIDE DEF b
<1>3. /\ Append(b, m) \in Seq(Message) /\ Len(Append(b, m)) = Len(s)
      /\ \A i \in 1..(Len(s) - 1) : Append(b, m)[i] = b[i]
      /\ Append(b, m)[Len(s)] = m
  <2>1. Len(b) + 1 = Len(s)
    BY <1>1, <1>2
  <2> QED
    BY <1>2, <2>1, AppendParts
<1>4. \A i \in 1..Len(s) : s[i] = Append(b, m)[i]
  <2>1. \A i \in 1..Len(s) : i \in 1..(Len(s) - 1) \/ i = Len(s)
    BY <1>1
  <2> QED
    BY <1>1, <1>2, <1>3, <2>1
<1>5. s = Append(b, m)
  BY <1>3, <1>4, SeqEqual
<1> QED
  BY <1>2, <1>5 DEF b

LEMMA AppendEnds ==
    ASSUME NEW s \in Seq(Message), NEW m \in Message
    PROVE  Before(Append(s, m)) = s /\ EndsIn(Append(s, m), m)
<1> DEFINE t == Append(s, m)
<1>1. /\ t \in Seq(Message) /\ Len(t) = Len(s) + 1 /\ Len(s) \in Nat
      /\ \A i \in 1..Len(s) : t[i] = s[i]
      /\ t[Len(s) + 1] = m
  BY AppendParts
<1> HIDE DEF t
<1>2. EndsIn(t, m)
  BY <1>1 DEF EndsIn
<1>3. Before(t) = s
  <2> DEFINE b == SubSeq(t, 1, Len(s))
  <2>1. b \in Seq(Message)
    <3>1. \A i \in 1..Len(s) : t[i] \in Message
      BY <1>1, ElementOfSeq
    <3> QED
      BY <1>1, <3>1, SubSeqProperties
  <2>2. Len(b) = Len(s) /\ \A i \in 1..Len(s) : b[i] = t[i]
    BY <1>1, SubSeqProperties
  <2>3. Before(t) = b
    BY <1>1 DEF Before
  <2> HIDE DEF b
  <2>4. b = s
    BY <1>1, <2>1, <2>2, SeqEqual
  <2> QED
    BY <2>3, <2>4
<1> QED
  BY <1>2, <1>3 DEF t

(* Steps that leave both lists alone.                                      *)
LEMMA ListKept ==
    ASSUME ListInv, engine'.messages = engine.messages, stored'.messages = stored.messages,
           UNCHANGED log, faults' = faults,
           \/ phase' = phase \/ phase' = "idle"
           \/ phase \notin {"idle", "tools"} /\ phase' # "tools"
    PROVE  ListInv'
<1>1. said' = said /\ unsaved' = unsaved /\ injected' = injected /\ bare' = bare
  BY DEF log
<1>2. AllSpread' /\ Unfailed' /\ StoredBare'
  BY <1>1 DEF ListInv, AllSpread, Unfailed, StoredBare
<1>3. EnginePaired'
  BY <1>1 DEF ListInv, EnginePaired, OpenCall
<1>4. StoredResults'
  BY <1>1 DEF ListInv, StoredResults, FollowsCall, OpenCall
<1>5. AllKnown'
  BY <1>1 DEF ListInv, AllKnown, Known
<1>6. Matching'
  BY <1>1 DEF ListInv, Matching, ShowSame, OpenCall
<1> QED
  BY <1>2, <1>3, <1>4, <1>5, <1>6 DEF ListInv

(* Steps that swap the messages: a swap that is lost leaves the engine     *)
(* what it had, and one that fails has put the new list in the session.    *)
LEMMA ListSwapped ==
    ASSUME TypeOK, ListInv, NEW new \in Seq(Message), NEW kept \in Seq(Message), NEW expected,
           PersistCompaction(new, kept, expected), UNCHANGED log,
           phase \notin {"idle", "tools"}, phase' \notin {"idle", "tools"},
           Alike(engine.messages, kept), Spread(new, said), Paired(new),
           expected = stored.revision => Meaning(engine.messages) \subseteq Meaning(new)
    PROVE  ListInv' /\ Meaning(engine.messages) \subseteq Meaning(engine'.messages)
<1> DEFINE E == engine.messages
           S == stored.messages
<1>1. said' = said /\ unsaved' = unsaved /\ injected' = injected /\ bare' = bare
  BY DEF log
<1>2. E \in Seq(Message) /\ S \in Seq(Message) /\ faults \in Nat
  BY TypeParts
<1>3. Paired(E) /\ Spread(E, said) /\ Spread(S, said) /\ Known(S) /\ Known(E)
  BY DEF ListInv, AllSpread, EnginePaired, AllKnown
<1>4. Paired(kept) /\ Spread(kept, said) /\ Meaning(kept) = Meaning(E)
  <2> HIDE DEF E
  <2> QED
    BY <1>2, <1>3, AlikePaired, AlikeSpread, AlikeMeaning DEF E
<1>5. \/ /\ expected = stored.revision
         /\ engine'.messages = new /\ stored'.messages = new /\ faults' = faults
      \/ /\ expected # stored.revision
         /\ engine'.messages = kept /\ stored'.messages = S /\ faults' = faults
      \/ /\ expected = stored.revision
         /\ engine'.messages = kept /\ stored'.messages = new /\ faults' = faults + 1
  BY PersistOutcome
<1> HIDE DEF E, S
<1>6. AllSpread'
  BY <1>1, <1>3, <1>4, <1>5 DEF AllSpread
<1>7. EnginePaired'
  BY <1>1, <1>4, <1>5 DEF EnginePaired
<1>8. StoredResults'
  <2>1. CASE stored'.messages = new
    <3>1. \A i \in DOMAIN new : new[i].kind = "result" => Answered(new, i - 1)
      BY DEF Paired
    <3> QED
      BY <2>1, <3>1 DEF StoredResults, FollowsCall
  <2>2. CASE stored'.messages = S
    <3>1. \A i \in DOMAIN S : FollowsCall(S, i)
      BY DEF ListInv, StoredResults, S
    <3> QED
      BY <1>1, <2>2, <3>1 DEF StoredResults, FollowsCall
  <2> QED
    BY <1>5, <2>1, <2>2
<1>9. Meaning(E) \subseteq Meaning(engine'.messages)
  BY <1>4, <1>5 DEF E
<1>10. AllKnown'
  <2>1. expected = stored.revision => Known(new)
    BY <1>3 DEF Known, E
  <2>2. Known(kept)
    BY <1>3, <1>4 DEF Known
  <2>3. Known(stored'.messages) /\ Known(engine'.messages)
    BY <1>3, <1>5, <2>1, <2>2
  <2> QED
    BY <1>1, <2>3 DEF AllKnown, Known
<1>11. Unfailed' /\ StoredBare'
  <2>1. BareIn(new, bare \cup unsaved)
    BY DEF BareIn, Paired
  <2>2. BareIn(S, bare \cup unsaved)
    BY DEF ListInv, StoredBare, S
  <2>3. StoredBare'
    BY <1>1, <1>5, <2>1, <2>2 DEF StoredBare
  <2> QED
    BY <1>1, <1>2, <1>5, <2>3 DEF ListInv, Unfailed
<1>12. Matching'
  <2>1. SUFFICES ASSUME faults' = 0 PROVE ShowSame(engine'.messages, stored'.messages)
    BY <1>1 DEF Matching, ShowSame
  <2>2. CASE engine'.messages = new /\ stored'.messages = new
    BY <2>2, RepairOfPaired DEF ShowSame
  <2>3. CASE engine'.messages = kept /\ stored'.messages = S /\ faults' = faults
    <3>1. ShowSame(E, S)
      BY <2>1, <2>3 DEF ListInv, Matching, E, S
    <3>2. Shown(kept, injected) = Shown(E, injected)
      BY <1>2, ShownAlike DEF E
    <3> QED
      BY <2>3, <3>1, <3>2 DEF ShowSame
  <2> QED
    BY <1>2, <1>5, <2>1, <2>2, <2>3
<1> QED
  BY <1>6, <1>7, <1>8, <1>9, <1>10, <1>11, <1>12 DEF ListInv, E

(* Steps that say a message: what holds whatever is said.                  *)
LEMMA SaidSpread ==
    ASSUME TypeOK, ListInv, NEW kind \in {"prompt", "reply", "call", "result"},
           NEW size \in Texts, NEW next, Say(kind, size, next),
           \A n \in bare \ bare' :
              n \in unsaved \/ n \in Meaning(engine.messages) \cap Meaning(stored.messages)
    PROVE  AllSpread' /\ AllKnown' /\ Unfailed'
<1> DEFINE m == Said(kind, said + 1, size)
           E == engine.messages
           S == stored.messages
<1>1. /\ E \in Seq(Message) /\ S \in Seq(Message) /\ faults \in Nat /\ said \in Nat
      /\ Spread(E, said) /\ Spread(S, said) /\ Known(S) /\ Known(E)
  BY TypeParts DEF ListInv, AllSpread, AllKnown
<1>2. /\ m \in Message /\ m.of = {said + 1} /\ said' = said + 1
      /\ engine'.messages = Append(E, m) /\ injected' = injected
      /\ \/ stored'.messages = Append(S, m) /\ unsaved' = unsaved /\ faults' = faults
         \/ /\ stored'.messages = S
            /\ unsaved' = unsaved \cup {said + 1} /\ faults' = faults + 1
  BY SayOutcome
<1> HIDE DEF m, E, S
<1>3. /\ Spread(Append(E, m), said + 1) /\ Spread(Append(S, m), said + 1)
      /\ Spread(S, said + 1)
  BY <1>1, <1>2, AppendSpread, SpreadGrows
<1>4. AllSpread'
  BY <1>2, <1>3 DEF AllSpread
<1>5. AllKnown'
  <2>1. Meaning(Append(E, m)) = Meaning(E) \cup {said + 1}
        /\ Meaning(Append(S, m)) = Meaning(S) \cup {said + 1}
    BY <1>1, <1>2, AppendMeaning
  <2>2. \A n \in 1..(said + 1) : n \in 1..said \/ n = said + 1
    BY <1>1
  <2>3. \A n \in bare \ bare' : n \in unsaved' \/ (n \in Meaning(E) /\ n \in Meaning(S))
    BY <1>2 DEF E, S
  <2>4. \A n \in (1..said') \ (unsaved' \cup injected' \cup bare') :
            n \in Meaning(Append(E, m)) \/ n - 1 \in unsaved'
    BY <1>1, <1>2, <2>1, <2>2, <2>3 DEF Known
  <2>5. \A n \in (1..said') \ (unsaved' \cup injected' \cup bare') :
            n \in Meaning(stored'.messages) \/ n - 1 \in unsaved'
    BY <1>1, <1>2, <2>1, <2>2, <2>3 DEF Known
  <2> QED
    BY <1>2, <2>4, <2>5 DEF AllKnown, Known
<1>6. Unfailed'
  BY <1>1, <1>2 DEF ListInv, Unfailed
<1> QED
  BY <1>4, <1>5, <1>6

LEMMA StoredResultsKept ==
    ASSUME TypeOK, NEW s \in Seq(Message), NEW m \in Message, m.kind # "result",
           \A i \in DOMAIN s : FollowsCall(s, i), unsaved \subseteq unsaved'
    PROVE  /\ \A i \in DOMAIN s : s[i].kind = "result" =>
                 Answered(s, i - 1) \/ \A n \in s[i].of : n - 1 \in unsaved'
           /\ \A i \in DOMAIN Append(s, m) : Append(s, m)[i].kind = "result" =>
                 Answered(Append(s, m), i - 1) \/ \A n \in Append(s, m)[i].of : n - 1 \in unsaved'
<1> DEFINE t == Append(s, m)
<1>1. /\ DOMAIN t = 1..(Len(s) + 1) /\ Len(s) \in Nat /\ DOMAIN s = 1..Len(s)
      /\ \A j \in 1..Len(s) : t[j] = s[j]
      /\ t[Len(s) + 1] = m
  BY AppendParts
<1>2. \A i \in Int : Answered(s, i) => Answered(t, i)
  BY AppendAnswered
<1> HIDE DEF t
<1>3. \A i \in DOMAIN s : s[i].kind = "result" =>
          Answered(s, i - 1) \/ \A n \in s[i].of : n - 1 \in unsaved'
  BY DEF FollowsCall
<1>4. \A i \in DOMAIN t : t[i].kind = "result" =>
          Answered(t, i - 1) \/ \A n \in t[i].of : n - 1 \in unsaved'
  <2> SUFFICES ASSUME NEW i \in 1..(Len(s) + 1), t[i].kind = "result"
               PROVE  Answered(t, i - 1) \/ \A n \in t[i].of : n - 1 \in unsaved'
    BY <1>1
  <2>1. i \in 1..Len(s)
    BY <1>1
  <2>2. t[i] = s[i] /\ i - 1 \in Int
    BY <1>1, <2>1
  <2> QED
    BY <1>1, <1>2, <1>3, <2>1, <2>2
<1> QED
  BY <1>3, <1>4 DEF t

LEMMA BareAppended ==
    ASSUME NEW s \in Seq(Message), NEW m \in Message, NEW known, NEW more,
           BareIn(s, known), known \subseteq more,
           m.kind = "call" /\ m.text = "none" => m.of \subseteq more
    PROVE  BareIn(s, more) /\ BareIn(Append(s, m), more)
<1> DEFINE t == Append(s, m)
<1>1. /\ DOMAIN t = 1..(Len(s) + 1) /\ Len(s) \in Nat /\ DOMAIN s = 1..Len(s)
      /\ \A j \in 1..Len(s) : t[j] = s[j]
      /\ t[Len(s) + 1] = m
  BY AppendParts
<1>2. \A i \in Int : Answered(s, i) => Answered(t, i)
  BY AppendAnswered
<1> HIDE DEF t
<1>3. \A i \in 1..(Len(s) + 1) : i \in 1..Len(s) \/ i = Len(s) + 1
  BY <1>1
<1>4. BareIn(s, more)
  BY DEF BareIn
<1>5. BareIn(t, more)
  BY <1>1, <1>2, <1>3, <1>4 DEF BareIn
<1> QED
  BY <1>4, <1>5 DEF t

LEMMA RepairAppended ==
    ASSUME NEW s \in Seq(Message), NEW n \in Nat, Spread(s, n),
           NEW m \in Message, m.of = {n + 1}, m.kind \in {"prompt", "reply"}
    PROVE  RepairToolPairing(Append(s, m)) = RepairToolPairing(s) \o <<m>>
<1>1. Append(s, m) = s \o <<m>> /\ <<m>> \in Seq(Message) /\ Len(<<m>>) = 1 /\ <<m>>[1] = m
  BY MessageAppended
<1>2. Spread(s \o <<m>>, n + 1)
  BY <1>1, AppendSpread
<1>3. Paired(<<m>>)
  <2>1. DOMAIN <<m>> = {1}
    OBVIOUS
  <2> QED
    BY <1>1, <2>1 DEF Paired
<1>4. RepairToolPairing(s \o <<m>>) = RepairToolPairing(s) \o <<m>>
  BY <1>1, <1>2, <1>3, RepairConcat
<1> QED
  BY <1>1, <1>4

(* A prompt or a reply.                                                    *)
LEMMA ListSaid ==
    ASSUME TypeOK, ListInv, NEW kind \in {"prompt", "reply"},
           NEW next \in {"top", "notice", "done"}, Say(kind, "small", next),
           phase \notin {"idle", "tools"}, bare' = bare
    PROVE  ListInv'
<1> DEFINE m == Said(kind, said + 1, "small")
           E == engine.messages
           S == stored.messages
<1>0. "small" \in Texts
  BY DEF Texts
<1>1. /\ E \in Seq(Message) /\ S \in Seq(Message) /\ faults \in Nat /\ said \in Nat
      /\ Spread(E, said) /\ Spread(S, said) /\ Paired(E)
      /\ \A i \in DOMAIN S : FollowsCall(S, i)
  BY TypeParts DEF ListInv, AllSpread, EnginePaired, StoredResults
<1>2. /\ m \in Message /\ m.kind = kind /\ m.of = {said + 1} /\ said' = said + 1
      /\ engine'.messages = Append(E, m) /\ injected' = injected /\ phase' = next
      /\ \/ stored'.messages = Append(S, m) /\ unsaved' = unsaved /\ faults' = faults
         \/ /\ stored'.messages = S
            /\ unsaved' = unsaved \cup {said + 1} /\ faults' = faults + 1
  BY <1>0, SayOutcome
<1>3. AllSpread' /\ AllKnown' /\ Unfailed'
  BY <1>0, SaidSpread
<1>4. EnginePaired'
  <2>1. Paired(Append(E, m))
    BY <1>1, <1>2, AppendPaired
  <2> QED
    BY <1>2, <2>1 DEF EnginePaired
<1>5. StoredResults'
  <2>1. m.kind # "result" /\ unsaved \subseteq unsaved'
    BY <1>2
  <2> HIDE DEF m, E, S
  <2>2. /\ \A i \in DOMAIN S : S[i].kind = "result" =>
              Answered(S, i - 1) \/ \A n \in S[i].of : n - 1 \in unsaved'
        /\ \A i \in DOMAIN Append(S, m) : Append(S, m)[i].kind = "result" =>
              Answered(Append(S, m), i - 1) \/ \A n \in Append(S, m)[i].of : n - 1 \in unsaved'
    BY <1>1, <1>2, <2>1, StoredResultsKept
  <2> QED
    BY <1>2, <2>2 DEF StoredResults, FollowsCall
<1>6. Matching'
  <2> SUFFICES ASSUME faults' = 0
               PROVE  ShowSame(Append(E, m), stored'.messages)
    BY <1>2 DEF Matching, ShowSame
  <2>1. stored'.messages = Append(S, m) /\ faults = 0
    BY <1>1, <1>2
  <2>2. Shown(E, injected) = Shown(RepairToolPairing(S), injected)
    BY <2>1 DEF ListInv, Matching, ShowSame
  <2> HIDE DEF m, E, S
  <2>3. RepairToolPairing(Append(S, m)) = RepairToolPairing(S) \o <<m>>
    BY <1>1, <1>2, RepairAppended
  <2>4. RepairToolPairing(S) \in Seq(Message)
    BY <1>1, RepairSound
  <2>5. Append(E, m) = E \o <<m>> /\ <<m>> \in Seq(Message)
    BY <1>1, <1>2, MessageAppended
  <2>6. /\ Shown(E \o <<m>>, injected) = Shown(E, injected) \o Shown(<<m>>, injected)
        /\ Shown(RepairToolPairing(S) \o <<m>>, injected)
              = Shown(RepairToolPairing(S), injected) \o Shown(<<m>>, injected)
    <3> DEFINE r == RepairToolPairing(S)
               x == <<m>>
    <3>1. E \in Seq(Message) /\ r \in Seq(Message) /\ x \in Seq(Message)
      BY <1>1, <2>4, <2>5
    <3> HIDE DEF r, x
    <3>2. /\ Shown(E \o x, injected) = Shown(E, injected) \o Shown(x, injected)
          /\ Shown(r \o x, injected) = Shown(r, injected) \o Shown(x, injected)
      BY <3>1, ShownConcat, SMTT(30)
    <3> QED
      BY <3>2 DEF r, x
  <2> QED
    BY <2>1, <2>2, <2>3, <2>5, <2>6 DEF ShowSame
<1>7. StoredBare'
  <2>1. BareIn(S, bare \cup unsaved) /\ bare \cup unsaved \subseteq bare' \cup unsaved'
    BY <1>2 DEF ListInv, StoredBare
  <2>2. m.kind # "call"
    BY <1>2
  <2> HIDE DEF m, E, S
  <2>3. BareIn(S, bare' \cup unsaved') /\ BareIn(Append(S, m), bare' \cup unsaved')
    BY <1>1, <1>2, <2>1, <2>2, BareAppended
  <2> QED
    BY <1>2, <2>3 DEF StoredBare
<1> QED
  BY <1>3, <1>4, <1>5, <1>6, <1>7 DEF ListInv

(* A call: the lists before it are what the loop had.                      *)
LEMMA ListCalled ==
    ASSUME TypeOK, ListInv, NEW size \in {"none", "small"}, Say("call", size, "tools"),
           phase \notin {"idle", "tools"},
           bare' = IF size = "none" THEN bare \cup {said + 1} ELSE bare
    PROVE  ListInv'
<1> DEFINE m == Said("call", said + 1, size)
           E == engine.messages
           S == stored.messages
<1>0. size \in Texts
  BY DEF Texts
<1>1. /\ E \in Seq(Message) /\ S \in Seq(Message) /\ faults \in Nat /\ said \in Nat
      /\ Paired(E) /\ \A i \in DOMAIN S : FollowsCall(S, i)
  BY TypeParts DEF ListInv, AllSpread, EnginePaired, StoredResults
<1>2. /\ m \in Message /\ m.kind = "call" /\ m.of = {said + 1} /\ said' = said + 1
      /\ engine'.messages = Append(E, m) /\ injected' = injected /\ phase' = "tools"
      /\ \/ stored'.messages = Append(S, m) /\ unsaved' = unsaved /\ faults' = faults
         \/ /\ stored'.messages = S
            /\ unsaved' = unsaved \cup {said + 1} /\ faults' = faults + 1
  BY <1>0, SayOutcome
<1>3. AllSpread' /\ AllKnown' /\ Unfailed'
  BY <1>0, SaidSpread
<1>4. OpenCall' = m /\ m.text = size
  <2>1. said + 1 \notin bare
    BY <1>1 DEF TypeOK
  <2>2. IF said' \in bare' THEN size = "none" ELSE size = "small"
    BY <1>2, <2>1
  <2> QED
    BY <1>2, <2>2 DEF OpenCall, Said
<1> HIDE DEF m, E, S
<1>5. /\ Before(Append(E, m)) = E /\ EndsIn(Append(E, m), m)
      /\ Before(Append(S, m)) = S /\ EndsIn(Append(S, m), m)
  BY <1>1, <1>2, AppendEnds
<1>6. EnginePaired'
  BY <1>1, <1>2, <1>4, <1>5 DEF EnginePaired
<1>7. StoredResults'
  <2>1. m.kind # "result" /\ unsaved \subseteq unsaved'
    BY <1>2
  <2>2. /\ \A i \in DOMAIN S : S[i].kind = "result" =>
              Answered(S, i - 1) \/ \A n \in S[i].of : n - 1 \in unsaved'
        /\ \A i \in DOMAIN Append(S, m) : Append(S, m)[i].kind = "result" =>
              Answered(Append(S, m), i - 1) \/ \A n \in Append(S, m)[i].of : n - 1 \in unsaved'
    BY <1>1, <1>2, <2>1, StoredResultsKept
  <2>3. EndsIn(stored'.messages, m) \/ said' \in unsaved'
    BY <1>2, <1>5
  <2> QED
    BY <1>2, <1>4, <2>2, <2>3 DEF StoredResults, FollowsCall
<1>8. Matching'
  <2> SUFFICES ASSUME faults' = 0
               PROVE  /\ EndsIn(stored'.messages, m)
                      /\ ShowSame(Before(engine'.messages), Before(stored'.messages))
    BY <1>2, <1>4 DEF Matching, ShowSame
  <2>1. stored'.messages = Append(S, m) /\ faults = 0
    BY <1>1, <1>2
  <2>2. ShowSame(E, S)
    BY <2>1 DEF ListInv, Matching, E, S
  <2> QED
    BY <1>2, <1>5, <2>1, <2>2 DEF ShowSame
<1>9. StoredBare'
  <2>1. BareIn(S, bare \cup unsaved) /\ bare \cup unsaved \subseteq bare' \cup unsaved'
    BY <1>2 DEF ListInv, StoredBare, S
  <2>2. m.text = "none" => m.of \subseteq bare' \cup unsaved'
    BY <1>2, <1>4
  <2>3. BareIn(S, bare' \cup unsaved') /\ BareIn(Append(S, m), bare' \cup unsaved')
    BY <1>1, <1>2, <2>1, <2>2, BareAppended
  <2> QED
    BY <1>2, <2>3 DEF StoredBare
<1> QED
  BY <1>3, <1>6, <1>7, <1>8, <1>9 DEF ListInv

(* Its result: both lists end in the call, and now in the pair.            *)
LEMMA PairRepaired ==
    ASSUME NEW b \in Seq(Message), NEW n \in Nat,
           NEW c \in Message, c.kind = "call", NEW r \in Message, r.kind = "result",
           r.of = {k + 1 : k \in c.of}, Spread(Append(Append(b, c), r), n)
    PROVE  RepairToolPairing(Append(Append(b, c), r)) = RepairToolPairing(b) \o <<c, r>>
<1> DEFINE x == <<c, r>>
<1>1. x \in Seq(Message) /\ x[1] = c /\ x[2] = r /\ DOMAIN x = {1, 2}
  OBVIOUS
<1>2. Append(Append(b, c), r) = b \o x
  OBVIOUS
<1> HIDE DEF x
<1>3. Answered(x, 1)
  BY <1>1 DEF Answered
<1>4. Paired(x)
  <2>1. Answered(x, 2 - 1)
    BY <1>3
  <2> QED
    BY <1>1, <1>3, <2>1 DEF Paired
<1>5. RepairToolPairing(b \o x) = RepairToolPairing(b) \o x
  BY <1>1, <1>2, <1>4, RepairConcat
<1> QED
  BY <1>2, <1>5 DEF x

LEMMA ListAnswered ==
    ASSUME TypeOK, ListInv, phase = "tools", NEW size \in Texts,
           NEW next \in {"top", "notice"}, Say("result", size, next),
           bare' = IF unsaved' = unsaved THEN bare \ {said} ELSE bare
    PROVE  ListInv'
<1> DEFINE r == Said("result", said + 1, size)
           c == OpenCall
           E == engine.messages
           S == stored.messages
<1>1. /\ E \in Seq(Message) /\ S \in Seq(Message) /\ faults \in Nat /\ said \in Nat
      /\ \A i \in DOMAIN S : FollowsCall(S, i)
      /\ Paired(Before(E)) /\ EndsIn(E, c)
      /\ EndsIn(S, c) \/ said \in unsaved
      /\ faults = 0 => EndsIn(S, c) /\ ShowSame(Before(E), Before(S))
  BY TypeParts DEF ListInv, EnginePaired, StoredResults, Matching
<1>2. /\ r \in Message /\ r.kind = "result" /\ r.of = {said + 1} /\ said' = said + 1
      /\ engine'.messages = Append(E, r) /\ injected' = injected /\ phase' = next
      /\ \/ stored'.messages = Append(S, r) /\ unsaved' = unsaved /\ faults' = faults
         \/ /\ stored'.messages = S
            /\ unsaved' = unsaved \cup {said + 1} /\ faults' = faults + 1
  BY SayOutcome
<1>3. c \in Message /\ c.kind = "call" /\ c.of = {said} /\ r.of = {k + 1 : k \in c.of}
  <2> DEFINE text == IF said \in bare THEN "none" ELSE "small"
  <2>1. text \in Texts
    BY DEF Texts
  <2> HIDE DEF text
  <2>2. Said("call", said, text) \in Message /\ Said("call", said, text).kind = "call"
        /\ Said("call", said, text).of = {said}
    BY <1>1, <2>1, SaidMessage
  <2>3. c = Said("call", said, text)
    BY DEF OpenCall, text
  <2> QED
    BY <1>2, <2>2, <2>3
<1> HIDE DEF r, c
<1>4. AllSpread' /\ AllKnown' /\ Unfailed'
  <2>1. \A s \in Seq(Message) : EndsIn(s, c) => said \in Meaning(s)
    <3> SUFFICES ASSUME NEW s \in Seq(Message), EndsIn(s, c) PROVE said \in Meaning(s)
      OBVIOUS
    <3>1. Len(s) \in 1..Len(s) /\ said \in s[Len(s)].of
      BY <1>3, LenProperties DEF EndsIn
    <3> QED
      BY <3>1, MeaningIn
  <2>2. said \in unsaved \/ said \in Meaning(E) \cap Meaning(S)
    BY <1>1, <2>1
  <2>3. \A n \in bare \ bare' : n = said
    OBVIOUS
  <2> QED
    BY <2>2, <2>3, SaidSpread
<1> HIDE DEF E, S
<1>5. Before(E) \in Seq(Message) /\ E = Append(Before(E), c)
  BY <1>1, <1>3, EndParts
<1>6. EnginePaired'
  <2>1. Paired(Append(Append(Before(E), c), r))
    BY <1>1, <1>2, <1>3, <1>5, PairAppended
  <2>2. Paired(Append(E, r))
    BY <1>5, <2>1
  <2> QED
    BY <1>2, <2>2 DEF EnginePaired
<1>7. StoredResults'
  <2> DEFINE t == Append(S, r)
  <2>1. /\ DOMAIN t = 1..(Len(S) + 1) /\ Len(S) \in Nat /\ DOMAIN S = 1..Len(S)
        /\ \A j \in 1..Len(S) : t[j] = S[j]
        /\ t[Len(S) + 1] = r
    BY <1>1, <1>2, AppendParts
  <2>2. \A i \in Int : Answered(S, i) => Answered(t, i)
    BY <1>1, <1>2, AppendAnswered
  <2> HIDE DEF t
  <2>3. unsaved \subseteq unsaved'
    BY <1>2
  <2>4. \A i \in DOMAIN S : S[i].kind = "result" =>
            Answered(S, i - 1) \/ \A n \in S[i].of : n - 1 \in unsaved'
    BY <1>1, <2>3 DEF FollowsCall
  <2>5. Answered(t, Len(S)) \/ \A n \in r.of : n - 1 \in unsaved'
    <3>1. CASE EndsIn(S, c)
      <4>1. Len(S) > 0 /\ S[Len(S)] = c /\ Len(S) \in 1..Len(S)
        BY <2>1, <3>1 DEF EndsIn
      <4>2. Len(S) \in DOMAIN t /\ Len(S) + 1 \in DOMAIN t
        BY <2>1, <4>1
      <4>3. t[Len(S)] = c
        BY <2>1, <4>1
      <4> QED
        BY <1>2, <1>3, <2>1, <4>2, <4>3 DEF Answered
    <3>2. CASE said \in unsaved
      BY <1>1, <1>2, <2>3, <3>2
    <3> QED
      BY <1>1, <3>1, <3>2
  <2>6. \A i \in DOMAIN t : t[i].kind = "result" =>
            Answered(t, i - 1) \/ \A n \in t[i].of : n - 1 \in unsaved'
    <3> SUFFICES ASSUME NEW i \in 1..(Len(S) + 1), t[i].kind = "result"
                 PROVE  Answered(t, i - 1) \/ \A n \in t[i].of : n - 1 \in unsaved'
      BY <2>1
    <3>1. CASE i \in 1..Len(S)
      <4>1. t[i] = S[i] /\ i - 1 \in Int
        BY <2>1, <3>1
      <4> QED
        BY <2>1, <2>2, <2>4, <3>1, <4>1
    <3>2. CASE i = Len(S) + 1
      <4>1. i - 1 = Len(S) /\ t[i] = r
        BY <2>1, <3>2
      <4> QED
        BY <2>5, <4>1
    <3>3. i \in 1..Len(S) \/ i = Len(S) + 1
      <4>1. Len(S) \in Nat
        BY <2>1
      <4> QED
        BY <4>1
    <3> QED
      BY <3>1, <3>2, <3>3
  <2> QED
    BY <1>2, <2>4, <2>6 DEF StoredResults, FollowsCall, t
<1>8. Matching'
  <2> SUFFICES ASSUME faults' = 0
               PROVE  ShowSame(Append(E, r), stored'.messages)
    BY <1>2 DEF Matching, ShowSame
  <2>1. stored'.messages = Append(S, r) /\ faults = 0
    BY <1>1, <1>2
  <2>2. Before(S) \in Seq(Message) /\ S = Append(Before(S), c)
    BY <1>1, <1>3, <2>1, EndParts
  <2> DEFINE a == Before(E)
             b == Before(S)
             x == <<c, r>>
             q == RepairToolPairing(b)
  <2>3. Shown(a, injected) = Shown(q, injected)
    BY <1>1, <2>1 DEF ShowSame
  <2>4. Spread(Append(S, r), said + 1) /\ Spread(S, said)
    BY <1>2, <1>4, <2>1 DEF AllSpread, ListInv, S
  <2> HIDE DEF a, b
  <2>5. a \in Seq(Message) /\ b \in Seq(Message) /\ E = Append(a, c) /\ S = Append(b, c)
    BY <1>5, <2>2 DEF a, b
  <2>6. RepairToolPairing(Append(S, r)) = q \o x
    <3>1. said + 1 \in Nat /\ Spread(Append(Append(b, c), r), said + 1)
      BY <1>1, <2>4, <2>5
    <3>2. RepairToolPairing(Append(Append(b, c), r)) = RepairToolPairing(b) \o <<c, r>>
      <4>1. c \in Message /\ c.kind = "call" /\ r \in Message /\ r.kind = "result"
        BY <1>2, <1>3
      <4>2. r.of = {k + 1 : k \in c.of}
        BY <1>3
      <4>3. b \in Seq(Message)
        BY <2>5
      <4> QED
        BY <3>1, <4>1, <4>2, <4>3, PairRepaired
    <3> QED
      BY <2>5, <3>2
  <2>7. q \in Seq(Message)
    <3>1. \A i \in DOMAIN b : i \in DOMAIN S /\ S[i] = b[i]
      BY <1>3, <2>5, AppendParts
    <3>2. Spread(b, said)
      BY <2>4, <3>1 DEF Spread
    <3> QED
      BY <2>5, <3>2, RepairSound
  <2>8. Append(E, r) = a \o x /\ x \in Seq(Message)
    BY <1>2, <1>3, <2>5, SMTT(30)
  <2> HIDE DEF x, q
  <2>9. /\ Shown(a \o x, injected) = Shown(a, injected) \o Shown(x, injected)
        /\ Shown(q \o x, injected) = Shown(q, injected) \o Shown(x, injected)
    <3>1. a \in Seq(Message) /\ q \in Seq(Message) /\ x \in Seq(Message)
      BY <2>5, <2>7, <2>8
    <3> QED
      BY <3>1, ShownConcat, SMTT(30)
  <2> QED
    BY <2>1, <2>3, <2>6, <2>8, <2>9 DEF ShowSame
<1>9. StoredBare'
  <2>1. BareIn(S, bare \cup unsaved) /\ Spread(S, said)
    BY DEF ListInv, StoredBare, AllSpread, S
  <2>2. CASE stored'.messages = S /\ unsaved' = unsaved \cup {said + 1}
    <3>1. said + 1 \notin unsaved
      BY <1>1 DEF TypeOK
    <3>2. bare' = bare
      BY <2>2, <3>1
    <3> QED
      BY <2>1, <2>2, <3>2 DEF StoredBare, BareIn
  <2>3. CASE stored'.messages = Append(S, r) /\ unsaved' = unsaved
    <3>1. bare' = bare \ {said}
      BY <2>3
    <3> DEFINE t == Append(S, r)
    <3>2. /\ DOMAIN t = 1..(Len(S) + 1) /\ Len(S) \in Nat /\ DOMAIN S = 1..Len(S)
          /\ \A j \in 1..Len(S) : t[j] = S[j]
          /\ t[Len(S) + 1] = r
      BY <1>1, <1>2, AppendParts
    <3>3. \A i \in Int : Answered(S, i) => Answered(t, i)
      BY <1>1, <1>2, AppendAnswered
    <3> HIDE DEF t
    <3>4. ASSUME NEW i \in 1..Len(S), S[i].kind = "call", S[i].text = "none"
          PROVE  Answered(t, i) \/ S[i].of \subseteq bare' \cup unsaved'
      <4>1. CASE Answered(S, i)
        BY <3>3, <4>1
      <4>2. CASE said \in unsaved /\ ~Answered(S, i)
        BY <2>1, <2>3, <3>1, <3>2, <3>4, <4>2 DEF BareIn
      <4>3. CASE EndsIn(S, c) /\ ~Answered(S, i)
        <5>1. Len(S) \in 1..Len(S) /\ S[Len(S)] = c
          BY <3>2, <4>3 DEF EndsIn
        <5>2. CASE i = Len(S)
          <6>1. t[i] = c /\ t[i + 1] = r /\ i \in DOMAIN t /\ i + 1 \in DOMAIN t
            BY <3>2, <5>1, <5>2
          <6> QED
            BY <1>2, <1>3, <6>1 DEF Answered
        <5>3. CASE i # Len(S)
          <6>1. said \notin S[i].of
            BY <1>3, <2>1, <3>2, <5>1, <5>3 DEF Spread
          <6> QED
            BY <2>1, <2>3, <3>1, <3>2, <3>4, <4>3, <6>1 DEF BareIn
        <5> QED
          BY <5>2, <5>3
      <4> QED
        BY <1>1, <4>1, <4>2, <4>3
    <3>5. \A i \in 1..(Len(S) + 1) : i \in 1..Len(S) \/ i = Len(S) + 1
      BY <3>2
    <3>6. BareIn(t, bare' \cup unsaved')
      BY <1>2, <3>2, <3>4, <3>5 DEF BareIn
    <3> QED
      BY <2>3, <3>6 DEF StoredBare, t
  <2> QED
    BY <1>2, <2>2, <2>3
<1> QED
  BY <1>4, <1>6, <1>7, <1>8, <1>9 DEF ListInv

(* A message the session is not told of.                                   *)
LEMMA ListInjected ==
    ASSUME TypeOK, ListInv, Inject
    PROVE  ListInv' /\ Meaning(engine.messages) \subseteq Meaning(engine'.messages)
<1> DEFINE m == Said("prompt", said + 1, "small")
           E == engine.messages
           S == stored.messages
           r == RepairToolPairing(S)
<1>1. /\ E \in Seq(Message) /\ S \in Seq(Message) /\ said \in Nat
      /\ Spread(E, said) /\ Spread(S, said) /\ Paired(E) /\ Known(S) /\ Known(E)
      /\ \A i \in DOMAIN S : FollowsCall(S, i)
      /\ faults = 0 => ShowSame(E, S)
  BY TypeParts DEF Inject, ListInv, AllSpread, EnginePaired, StoredResults, AllKnown, Matching
<1>2. m \in Message /\ m.kind = "prompt" /\ m.of = {said + 1}
  <2>1. said + 1 \in Nat
    BY <1>1
  <2> QED
    BY <2>1, SaidMessage DEF Texts
<1>3. /\ said' = said + 1 /\ injected' = injected \cup {said + 1}
      /\ unsaved' = unsaved /\ bare' = bare
      /\ stored' = stored /\ faults' = faults /\ phase' = phase /\ phase = "top"
      /\ engine'.messages = Append(E, m)
  BY <1>2, HeardParts DEF Inject
<1> HIDE DEF m, E, S
<1>4. AllSpread'
  <2>1. Spread(Append(E, m), said + 1) /\ Spread(S, said + 1)
    BY <1>1, <1>2, AppendSpread, SpreadGrows
  <2> QED
    BY <1>3, <2>1 DEF AllSpread, S
<1>5. EnginePaired'
  <2>1. Paired(Append(E, m))
    BY <1>1, <1>2, AppendPaired
  <2> QED
    BY <1>3, <2>1 DEF EnginePaired
<1>6. StoredResults'
  BY <1>1, <1>3 DEF StoredResults, FollowsCall, S
<1>7. Meaning(Append(E, m)) = Meaning(E) \cup {said + 1}
  BY <1>1, <1>2, AppendMeaning
<1>8. AllKnown'
  <2>1. \A n \in 1..(said + 1) : n \in 1..said \/ n = said + 1
    BY <1>1
  <2>2. \A n \in (1..said') \ (unsaved' \cup injected' \cup bare') :
            n \in (1..said) \ (unsaved \cup injected \cup bare)
    BY <1>3, <2>1
  <2>3. \A n \in (1..said') \ (unsaved' \cup injected' \cup bare') :
            n \in Meaning(S) \/ n - 1 \in unsaved'
    BY <1>1, <1>3, <2>2 DEF Known
  <2>4. \A n \in (1..said') \ (unsaved' \cup injected' \cup bare') :
            n \in Meaning(Append(E, m)) \/ n - 1 \in unsaved'
    BY <1>1, <1>3, <1>7, <2>2 DEF Known
  <2> QED
    BY <1>3, <2>3, <2>4 DEF AllKnown, Known, S
<1>9. Unfailed' /\ StoredBare'
  BY <1>3 DEF ListInv, Unfailed, StoredBare
<1>10. Matching'
  <2> DEFINE h == injected \cup {said + 1}
  <2> SUFFICES ASSUME faults = 0 PROVE Shown(Append(E, m), h) = Shown(r, h)
    BY <1>3 DEF Matching, ShowSame, S
  <2>1. r \in Seq(Message) /\ Spread(r, said)
    BY <1>1, RepairSound
  <2>2. Shown(E, injected) = Shown(r, injected)
    BY <1>1 DEF ShowSame
  <2> HIDE DEF r
  <2>3. Shown(E, h) = Shown(E, injected) /\ Shown(r, h) = Shown(r, injected)
    BY <1>1, <2>1, ShownHidden
  <2>4. Append(E, m) = E \o <<m>> /\ <<m>> \in Seq(Message)
    BY <1>1, <1>2, MessageAppended
  <2>5. Shown(<<m>>, h) = <<>>
    BY <1>2, ShownNothing
  <2>6. Shown(E \o <<m>>, h) = Shown(E, h) \o Shown(<<m>>, h)
    <3>1. E \in Seq(Message)
      BY <1>1
    <3> HIDE DEF h
    <3> QED
      BY <2>4, <3>1, ShownConcat
  <2>7. Shown(E, h) \o <<>> = Shown(E, h)
    <3>1. Shown(E, h) \in Seq(Tellings \cap Tellable(h))
      BY <1>1, GistListParts, SelectType DEF Shown
    <3> QED
      BY <3>1, ConcatEmptySeq
  <2> QED
    BY <2>2, <2>3, <2>4, <2>5, <2>6, <2>7
<1> QED
  BY <1>3, <1>4, <1>5, <1>6, <1>7, <1>8, <1>9, <1>10 DEF ListInv, E

(* Pruned results are told all the same.                                   *)
LEMMA ListPruned ==
    ASSUME TypeOK, ListInv, Prune
    PROVE  /\ ListInv' /\ Len(engine'.messages) = Len(engine.messages)
           /\ Meaning(engine'.messages) = Meaning(engine.messages)
<1> DEFINE E == engine.messages
           P == Pruned(E)
<1>1. E \in Seq(Message) /\ engine \in Revisioned
  BY TypeParts DEF TypeOK
<1>2. P \in Seq(Message) /\ Alike(E, P)
  BY <1>1, PrunedAlike
<1>3. /\ engine' = [engine EXCEPT !.messages = P]
      /\ stored' = stored /\ UNCHANGED log /\ faults' = faults
      /\ phase = "weigh" /\ phase' \in {"turn", "heavy"}
  BY DEF Prune, Goto
<1> HIDE DEF P, E
<1>4. /\ engine'.messages = P /\ said' = said /\ unsaved' = unsaved
      /\ injected' = injected /\ bare' = bare
  BY <1>1, <1>3 DEF log, Revisioned
<1>5. /\ Spread(E, said) /\ Paired(E) /\ Known(E)
      /\ faults = 0 => ShowSame(E, stored.messages)
      /\ Spread(stored.messages, said) /\ Known(stored.messages)
  BY <1>3 DEF ListInv, AllSpread, EnginePaired, AllKnown, Matching, E
<1>6. Spread(P, said) /\ Paired(P) /\ Meaning(P) = Meaning(E)
  BY <1>1, <1>2, <1>5, AlikeSpread, AlikePaired, AlikeMeaning DEF E
<1>7. AllSpread' /\ EnginePaired'
  BY <1>3, <1>4, <1>5, <1>6 DEF AllSpread, EnginePaired
<1>8. StoredResults' /\ StoredBare' /\ Unfailed'
  BY <1>3, <1>4 DEF ListInv, StoredResults, FollowsCall, StoredBare, Unfailed
<1>9. AllKnown'
  BY <1>3, <1>4, <1>5, <1>6 DEF AllKnown, Known
<1>10. Matching'
  <2>1. Shown(P, injected) = Shown(E, injected)
    BY <1>1, <1>2, ShownAlike DEF E
  <2> QED
    BY <1>3, <1>4, <1>5, <2>1 DEF Matching, ShowSame
<1> QED
  BY <1>2, <1>4, <1>6, <1>7, <1>8, <1>9, <1>10 DEF ListInv, Alike, E

(* A run begins with the session, repaired.                                *)
LEMMA ListStarted ==
    ASSUME TypeOK, ListInv, StartRun
    PROVE  ListInv'
<1> DEFINE S == stored.messages
           R == RepairToolPairing(S)
<1>1. /\ S \in Seq(Message) /\ Spread(S, said) /\ Known(S)
      /\ \A i \in DOMAIN S : FollowsCall(S, i)
      /\ BareIn(S, bare \cup unsaved)
  BY TypeParts DEF ListInv, AllSpread, AllKnown, StoredResults, StoredBare
<1>2. /\ R \in Seq(Message) /\ Spread(R, said) /\ Paired(R)
      /\ \A i \in KeptOf(S) : S[i].of \subseteq Meaning(R)
  BY <1>1, RepairSound
<1>3. /\ engine'.messages = R /\ stored' = stored /\ faults' = faults
      /\ phase' = "inherit"
      /\ said' = said /\ unsaved' = unsaved /\ injected' = injected /\ bare' = bare
  <2>1. Hydrated.messages = R
    <3>1. stored \in Revisioned
      BY DEF TypeOK
    <3> QED
      BY <3>1 DEF Hydrated, Revisioned
  <2> QED
    BY <2>1 DEF StartRun, Goto, log
<1> HIDE DEF R, S
<1>4. AllSpread' /\ EnginePaired' /\ StoredResults' /\ StoredBare' /\ Unfailed'
  <2>1. AllSpread' /\ EnginePaired'
    BY <1>1, <1>2, <1>3 DEF AllSpread, EnginePaired, S
  <2>2. StoredResults' /\ StoredBare' /\ Unfailed'
    BY <1>1, <1>3 DEF ListInv, StoredResults, FollowsCall, StoredBare, Unfailed, S
  <2> QED
    BY <2>1, <2>2
<1>5. Known(R)
  <2> SUFFICES ASSUME NEW n \in (1..said) \ (unsaved \cup injected \cup bare), n - 1 \notin unsaved
               PROVE  n \in Meaning(R)
    BY DEF Known
  <2>1. PICK i \in 1..Len(S) : n \in S[i].of
    <3>1. n \in Meaning(S)
      BY <1>1 DEF Known
    <3> QED
      BY <1>1, <3>1, MeaningIn
  <2>2. i \in DOMAIN S
    BY <1>1, ListParts
  <2>3. i \in KeptOf(S)
    <3>1. S[i].kind = "result" => Answered(S, i - 1)
      BY <1>1, <2>1, <2>2 DEF FollowsCall
    <3>2. S[i].kind = "call" /\ S[i].text = "none" => Answered(S, i)
      BY <1>1, <2>1, <2>2 DEF BareIn
    <3> QED
      BY <2>2, <3>1, <3>2 DEF KeptOf, Substantial
  <2> QED
    BY <1>2, <2>1, <2>3
<1>6. AllKnown'
  BY <1>1, <1>3, <1>5 DEF AllKnown, Known, S
<1>7. Matching'
  <2>1. RepairToolPairing(S) = R
    BY DEF R
  <2> QED
    BY <1>3, <2>1 DEF Matching, ShowSame, S
<1> QED
  BY <1>4, <1>6, <1>7 DEF ListInv

-----------------------------------------------------------------------------
(* The background summary.  As long as the session's revision is the one   *)
(* it was based on, the list has only grown since, and one that did not    *)
(* grow tells nothing that the summary does not tell.                      *)
Covers ==
    pending.task \in {"running", "finished"} =>
        /\ pending.revision <= stored.revision
        /\ pending.revision = stored.revision =>
              /\ pending.count <= Len(engine.messages)
              /\ pending.count = Len(engine.messages) =>
                    Meaning(engine.messages) \subseteq Meaning(pending.summary)
PendingInv ==
    /\ pending.task # "none" => Spread(pending.summary, said) /\ Paired(pending.summary)
    /\ Covers

LEMMA PendingKept ==
    ASSUME TypeOK, TypeOK', PendingInv,
           \/ pending'.task = "none"
           \/ /\ pending.task # "none"
              /\ pending'.summary = pending.summary /\ pending'.count = pending.count
              /\ pending'.revision = pending.revision
              /\ pending'.task \in {"running", "finished"} => pending.task \in {"running", "finished"},
           said' = said \/ said' = said + 1,
           \/ stored.revision < stored'.revision
           \/ /\ stored'.revision = stored.revision
              /\ \/ Len(engine.messages) < Len(engine'.messages)
                 \/ /\ Len(engine'.messages) = Len(engine.messages)
                    /\ Meaning(engine'.messages) \subseteq Meaning(engine.messages)
    PROVE  PendingInv'
<1>1. /\ stored.revision \in Nat /\ stored'.revision \in Nat /\ said \in Nat
      /\ Len(engine.messages) \in Nat /\ Len(engine'.messages) \in Nat
      /\ pending.task # "none" => pending.count \in Nat /\ pending.revision \in Nat
  <2>1. stored'.revision \in Nat /\ Len(engine'.messages) \in Nat
    BY RevisionedParts, LenProperties DEF TypeOK
  <2> QED
    BY <2>1, TypeParts
<1>2. CASE pending'.task = "none"
  BY <1>2 DEF PendingInv, Covers
<1>3. CASE pending'.task # "none"
  <2>1. Spread(pending.summary, said)
    BY <1>3 DEF PendingInv
  <2>2. Spread(pending'.summary, said')
    BY <1>1, <1>3, <2>1, SpreadGrows
  <2>3. Covers'
    BY <1>1, <1>3 DEF PendingInv, Covers
  <2> QED
    BY <1>3, <2>2, <2>3 DEF PendingInv
<1> QED
  BY <1>2, <1>3

(* Steps that say a message, and steps that swap the messages.             *)
LEMMA PendingSaid ==
    ASSUME TypeOK, TypeOK', PendingInv, NEW kind \in {"prompt", "reply", "call", "result"},
           NEW size \in Texts, NEW next, Say(kind, size, next)
    PROVE  PendingInv' /\ Meaning(engine.messages) \subseteq Meaning(engine'.messages)
<1> DEFINE m == Said(kind, said + 1, size)
           E == engine.messages
<1>1. E \in Seq(Message) /\ stored.revision \in Nat
  BY TypeParts
<1>2. /\ m \in Message /\ said' = said + 1 /\ pending' = pending
      /\ engine'.messages = Append(E, m)
      /\ stored'.revision = stored.revision + 1 \/ stored' = stored
  BY SayOutcome
<1> HIDE DEF m, E
<1>3. /\ Len(Append(E, m)) = Len(E) + 1 /\ Len(E) \in Nat
      /\ Meaning(E) \subseteq Meaning(Append(E, m))
  BY <1>1, <1>2, AppendParts, AppendMeaning
<1>4. Len(engine.messages) < Len(engine'.messages)
  BY <1>2, <1>3 DEF E
<1>5. stored.revision < stored'.revision \/ stored'.revision = stored.revision
  BY <1>1, <1>2
<1>6. PendingInv'
  BY <1>2, <1>4, <1>5, PendingKept
<1> QED
  BY <1>2, <1>3, <1>6 DEF E

LEMMA PendingSwapped ==
    ASSUME TypeOK, TypeOK', PendingInv, pending' = pending, said' = said,
           NEW new \in Seq(Message), NEW kept \in Seq(Message), NEW expected,
           PersistCompaction(new, kept, expected), Alike(engine.messages, kept)
    PROVE  PendingInv'
<1>1. engine.messages \in Seq(Message) /\ stored.revision \in Nat
  BY TypeParts
<1>2. Len(kept) = Len(engine.messages) /\ Meaning(kept) = Meaning(engine.messages)
  BY <1>1, AlikeMeaning DEF Alike
<1>3. \/ stored'.revision = stored.revision + 1
      \/ engine'.messages = kept /\ stored'.revision = stored.revision
  BY PersistOutcome
<1> QED
  BY <1>1, <1>2, <1>3, PendingKept

-----------------------------------------------------------------------------
(* Every step keeps it all, and inside a run nothing is told less.         *)
LoopInv == TypeInv /\ ListInv /\ PendingInv
Grows   == phase # "idle" => Meaning(engine.messages) \subseteq Meaning(engine'.messages)

(* Steps that leave both lists and the log alone.                          *)
LEMMA StepKept ==
    ASSUME LoopInv, TypeOK', engine' = engine, stored'.messages = stored.messages,
           stored'.revision = stored.revision \/ stored'.revision = stored.revision + 1,
           UNCHANGED log, faults' = faults,
           \/ phase' = phase \/ phase' = "idle"
           \/ phase \notin {"idle", "tools"} /\ phase' # "tools",
           \/ pending'.task = "none" \/ pending' = pending
           \/ /\ pending.task = "running" /\ pending'.summary = pending.summary
              /\ pending'.count = pending.count /\ pending'.revision = pending.revision
    PROVE  ListInv' /\ PendingInv' /\ Grows
<1>1. TypeOK /\ ListInv /\ PendingInv
  BY DEF LoopInv, TypeInv
<1>2. ListInv'
  BY <1>1, ListKept
<1>3. stored.revision \in Nat /\ said' = said
  BY <1>1, TypeParts DEF log
<1>4. \/ pending'.task = "none"
      \/ /\ pending.task # "none"
         /\ pending'.summary = pending.summary /\ pending'.count = pending.count
         /\ pending'.revision = pending.revision
         /\ pending'.task \in {"running", "finished"} => pending.task \in {"running", "finished"}
  OBVIOUS
<1>5. stored.revision < stored'.revision \/ stored'.revision = stored.revision
  BY <1>3
<1>6. PendingInv'
  BY <1>1, <1>3, <1>4, <1>5, PendingKept
<1> QED
  BY <1>2, <1>6 DEF Grows

LEMMA LoopStep ==
    ASSUME LoopInv, Next
    PROVE  LoopInv' /\ Grows
<1> DEFINE E == engine.messages
<1>1. /\ TypeInv /\ TypeOK /\ ListInv /\ PendingInv
      /\ E \in Seq(Message) /\ stored.messages \in Seq(Message)
      /\ stored.revision \in Nat /\ Spread(E, said) /\ Spread(stored.messages, said)
  BY TypeParts DEF LoopInv, TypeInv, ListInv, AllSpread
<1>2. TypeInv' /\ TypeOK'
  <2>1. TypeInv'
    BY <1>1, TypeStep
  <2> QED
    BY <2>1 DEF TypeInv
<1> SUFFICES ListInv' /\ PendingInv' /\ Grows
  BY <1>2 DEF LoopInv
<1>3. CASE StartRun
  <2>1. pending'.task = "none" /\ phase = "idle"
    BY <1>3 DEF StartRun, Goto, None
  <2> QED
    BY <1>1, <1>3, <2>1, ListStarted DEF PendingInv, Covers, Grows
<1>4. CASE TrimInherited
  <2> DEFINE new == Trimmed(E, 0)
  <2>1. /\ PersistCompaction(new, E, engine.revision) /\ UNCHANGED log /\ pending' = pending
        /\ phase = "inherit" /\ phase' = "prompt"
    BY <1>4 DEF TrimInherited, Goto
  <2>2. new \in Seq(Message) /\ Alike(E, new) /\ Alike(E, E)
    BY <1>1, TrimmedAlike DEF Alike
  <2>3. Paired(E)
    BY <1>1, <2>1 DEF ListInv, EnginePaired
  <2> HIDE DEF new
  <2>4. Spread(new, said) /\ Paired(new) /\ Meaning(new) = Meaning(E)
    BY <1>1, <2>2, <2>3, AlikeSpread, AlikePaired, AlikeMeaning
  <2>5. ListInv' /\ Meaning(E) \subseteq Meaning(engine'.messages)
    BY <1>1, <2>1, <2>2, <2>4, ListSwapped
  <2>6. PendingInv'
    BY <1>1, <1>2, <2>1, <2>2, PendingSwapped DEF log
  <2> QED
    BY <2>5, <2>6 DEF Grows
<1>5. CASE KeepInherited
  BY <1>2, <1>5, StepKept DEF KeepInherited, Goto
<1>6. CASE Prompt
  <2>1. PICK next \in {"top", "notice"} : Say("prompt", "small", next)
    BY <1>6 DEF Prompt
  <2>2. phase = "prompt" /\ "small" \in Texts /\ bare' = bare
    BY <1>6 DEF Prompt, Texts
  <2>3. ListInv'
    BY <1>1, <2>1, <2>2, ListSaid
  <2>4. PendingInv' /\ Meaning(E) \subseteq Meaning(engine'.messages)
    BY <1>1, <1>2, <2>1, <2>2, PendingSaid
  <2> QED
    BY <2>3, <2>4 DEF Grows
<1>7. CASE Inject
  <2>1. ListInv' /\ Meaning(E) \subseteq Meaning(engine'.messages)
    BY <1>1, <1>7, ListInjected
  <2> DEFINE m == Said("prompt", said + 1, "small")
  <2>2. m \in Message
    <3>1. said + 1 \in Nat
      BY <1>1, TypeParts
    <3> QED
      BY <3>1, SaidMessage DEF Texts
  <2>3. engine'.messages = Append(E, m) /\ stored' = stored /\ pending' = pending
        /\ said' = said + 1
    BY <1>1, <1>7, <2>2, HeardParts DEF Inject
  <2> HIDE DEF m
  <2>4. Len(Append(E, m)) = Len(E) + 1 /\ Len(E) \in Nat
    BY <1>1, <2>2, AppendParts
  <2>5. Len(engine.messages) < Len(engine'.messages)
    BY <2>3, <2>4
  <2>6. PendingInv'
    BY <1>1, <1>2, <2>3, <2>5, PendingKept
  <2> QED
    BY <2>1, <2>6 DEF Grows
<1>8. CASE TakeBackground
  <2> DEFINE new == pending.summary
  <2>1. /\ PersistCompaction(new, E, pending.revision) /\ UNCHANGED log
        /\ phase = "top" /\ phase' = "taken" /\ pending' = None
        /\ pending.task = "finished" /\ pending.count = Len(E)
    BY <1>8 DEF TakeBackground, Goto, BackgroundBase, Unchanged
  <2>2. new \in Seq(Message) /\ Alike(E, E)
    BY <1>1, <2>1, TypeParts DEF Alike
  <2>3. Spread(new, said) /\ Paired(new)
    BY <1>1, <2>1 DEF PendingInv
  <2>4. pending.revision = stored.revision => Meaning(E) \subseteq Meaning(new)
    BY <1>1, <2>1 DEF PendingInv, Covers
  <2> HIDE DEF new
  <2>5. ListInv' /\ Meaning(E) \subseteq Meaning(engine'.messages)
    BY <1>1, <2>1, <2>2, <2>3, <2>4, ListSwapped
  <2>6. PendingInv'
    BY <2>1 DEF PendingInv, Covers, None
  <2> QED
    BY <2>5, <2>6 DEF Grows
<1>9. CASE DropBackground
  BY <1>2, <1>9, StepKept DEF DropBackground, Goto, None
<1>10. CASE PassBackground
  BY <1>2, <1>10, StepKept DEF PassBackground, Goto
<1>11. CASE TrimOld
  <2> DEFINE new == Trimmed(E, frozen)
  <2>1. /\ PersistCompaction(new, new, engine.revision) /\ UNCHANGED log /\ pending' = pending
        /\ phase = "taken" /\ phase' = "weigh"
    BY <1>11 DEF TrimOld, Goto
  <2>2. new \in Seq(Message) /\ Alike(E, new)
    BY <1>1, TrimmedAlike
  <2>3. Paired(E)
    BY <1>1, <2>1 DEF ListInv, EnginePaired
  <2> HIDE DEF new
  <2>4. Spread(new, said) /\ Paired(new) /\ Meaning(new) = Meaning(E)
    BY <1>1, <2>2, <2>3, AlikeSpread, AlikePaired, AlikeMeaning
  <2>5. ListInv' /\ Meaning(E) \subseteq Meaning(engine'.messages)
    BY <1>1, <2>1, <2>2, <2>4, ListSwapped
  <2>6. PendingInv'
    BY <1>1, <1>2, <2>1, <2>2, PendingSwapped DEF log
  <2> QED
    BY <2>5, <2>6 DEF Grows
<1>12. CASE KeepOld
  BY <1>2, <1>12, StepKept DEF KeepOld, Goto
<1>13. CASE Prune
  <2>1. /\ ListInv' /\ Len(engine'.messages) = Len(E)
        /\ Meaning(engine'.messages) = Meaning(E)
    BY <1>1, <1>13, ListPruned
  <2>2. stored' = stored /\ pending' = pending /\ said' = said
    BY <1>13 DEF Prune, log
  <2>3. PendingInv'
    BY <1>1, <1>2, <2>1, <2>2, PendingKept
  <2> QED
    BY <2>1, <2>3 DEF Grows
<1>14. CASE NoCompaction
  BY <1>2, <1>14, StepKept DEF NoCompaction
<1>15. CASE Prefire
  <2> DEFINE new == Compacted(E)
  <2>1. /\ engine' = engine /\ stored' = stored /\ UNCHANGED log /\ faults' = faults
        /\ phase \in {"weigh", "heavy"} /\ phase' = "turn" /\ Split(E) # {}
        /\ pending' = [task |-> "running", summary |-> new,
                       count |-> Len(E), revision |-> engine.revision]
    BY <1>15 DEF Prefire, Heavy
  <2>2. Paired(E)
    BY <1>1, <2>1 DEF ListInv, EnginePaired
  <2>3. Spread(new, said) /\ Paired(new) /\ Meaning(new) = Meaning(E)
    BY <1>1, <2>1, <2>2, CompactedSpread, CompactedPaired, CompactedMeaning
  <2> HIDE DEF new
  <2>4. ListInv'
    BY <1>1, <2>1, ListKept
  <2>5. PendingInv'
    <3>1. engine.revision <= stored.revision /\ said' = said /\ Len(E) \in Nat
      BY <1>1, <2>1, TypeParts DEF log
    <3>2. /\ pending'.summary = new /\ pending'.count = Len(E)
          /\ pending'.revision = engine.revision
      BY <2>1
    <3>3. Covers'
      BY <2>1, <2>3, <3>1, <3>2 DEF Covers
    <3> QED
      BY <2>3, <3>1, <3>2, <3>3 DEF PendingInv
  <2> QED
    BY <2>1, <2>4, <2>5 DEF Grows
<1>16. CASE StartForce
  BY <1>2, <1>16, StepKept DEF StartForce, Heavy
<1>17. CASE FinishForce
  <2> DEFINE new == Compacted(E)
  <2>1. /\ PersistCompaction(new, E, force) /\ UNCHANGED log /\ pending' = pending
        /\ phase = "forcing" /\ phase' = "turn"
    BY <1>17 DEF FinishForce, Goto
  <2>2. Split(E) # {} /\ Paired(E) /\ Alike(E, E)
    BY <1>1, <2>1 DEF TypeInv, Forcing, ListInv, EnginePaired, Alike
  <2>3. new \in Seq(Message)
    BY <1>1, <2>2, CompactedType
  <2>4. Spread(new, said) /\ Paired(new) /\ Meaning(new) = Meaning(E)
    BY <1>1, <2>2, CompactedSpread, CompactedPaired, CompactedMeaning
  <2> HIDE DEF new
  <2>5. ListInv' /\ Meaning(E) \subseteq Meaning(engine'.messages)
    BY <1>1, <2>1, <2>2, <2>3, <2>4, ListSwapped
  <2>6. PendingInv'
    BY <1>1, <1>2, <2>1, <2>2, <2>3, PendingSwapped DEF log
  <2> QED
    BY <2>5, <2>6 DEF Grows
<1>18. CASE Turn
  <2>1. phase = "turn" /\ "small" \in Texts
    BY <1>18 DEF Turn, Texts
  <2>2. ASSUME NEW size \in {"none", "small"}, Say("call", size, "tools"),
               bare' = IF size = "none" THEN bare \cup {said + 1} ELSE bare
        PROVE  ListInv' /\ PendingInv' /\ Grows
    <3>0. size \in Texts
      BY DEF Texts
    <3>1. ListInv'
      BY <1>1, <2>1, <2>2, ListCalled
    <3>2. PendingInv' /\ Meaning(E) \subseteq Meaning(engine'.messages)
      BY <1>1, <1>2, <2>1, <2>2, <3>0, PendingSaid
    <3> QED
      BY <3>1, <3>2 DEF Grows
  <2>3. ASSUME NEW next \in {"notice", "done"}, Say("reply", "small", next), bare' = bare
        PROVE  ListInv' /\ PendingInv' /\ Grows
    <3>1. ListInv'
      BY <1>1, <2>1, <2>3, ListSaid
    <3>2. PendingInv' /\ Meaning(E) \subseteq Meaning(engine'.messages)
      BY <1>1, <1>2, <2>1, <2>3, PendingSaid
    <3> QED
      BY <3>1, <3>2 DEF Grows
  <2> QED
    BY <1>18, <2>2, <2>3, TurnCases
<1>19. CASE ToolResults
  <2>1. PICK size \in Sizes, next \in {"top", "notice"} : Say("result", size, next)
    BY <1>19 DEF ToolResults
  <2>2. /\ phase = "tools" /\ size \in Texts
        /\ bare' = IF unsaved' = unsaved THEN bare \ {said} ELSE bare
    BY <1>19, EngineAssumption DEF ToolResults, Texts
  <2>3. ListInv'
    BY <1>1, <2>1, <2>2, ListAnswered
  <2>4. PendingInv' /\ Meaning(E) \subseteq Meaning(engine'.messages)
    BY <1>1, <1>2, <2>1, <2>2, PendingSaid
  <2> QED
    BY <2>3, <2>4 DEF Grows
<1>20. CASE Notice
  <2>1. PICK next \in {"top", "notice"} : Say("prompt", "small", next)
    BY <1>20 DEF Notice
  <2>2. phase = "notice" /\ "small" \in Texts /\ bare' = bare
    BY <1>20 DEF Notice, Texts
  <2>3. ListInv'
    BY <1>1, <2>1, <2>2, ListSaid
  <2>4. PendingInv' /\ Meaning(E) \subseteq Meaning(engine'.messages)
    BY <1>1, <1>2, <2>1, <2>2, PendingSaid
  <2> QED
    BY <2>3, <2>4 DEF Grows
<1>21. CASE EndRun
  BY <1>2, <1>21, StepKept DEF EndRun, Goto, None
<1>22. CASE Cancel
  BY <1>2, <1>22, StepKept DEF Cancel, None
<1>23. CASE Fail
  BY <1>2, <1>23, StepKept DEF Fail
<1>24. CASE FinishBackground
  <2>1. PICK outcome \in {"finished", "failed"} : pending' = [pending EXCEPT !.task = outcome]
    BY <1>24 DEF FinishBackground
  <2>2. pending \in Summaries /\ pending.task = "running"
    BY <1>1, <1>24 DEF FinishBackground, TypeOK, None
  <2>3. pending'.summary = pending.summary /\ pending'.count = pending.count
        /\ pending'.revision = pending.revision
    BY <2>1, <2>2 DEF Summaries
  <2> QED
    BY <1>2, <1>24, <2>2, <2>3, StepKept DEF FinishBackground, loop
<1>25. CASE WriteMetadata
  <2>1. stored'.messages = stored.messages /\ stored'.revision = stored.revision + 1
    BY <1>1, <1>25 DEF WriteMetadata, TypeOK, Revisioned
  <2> QED
    BY <1>2, <1>25, <2>1, StepKept DEF WriteMetadata, loop
<1> QED
  BY <1>3, <1>4, <1>5, <1>6, <1>7, <1>8, <1>9, <1>10, <1>11, <1>12, <1>13, <1>14, <1>15,
     <1>16, <1>17, <1>18, <1>19, <1>20, <1>21, <1>22, <1>23, <1>24, <1>25 DEF LoopInv, Next

LEMMA LoopStart ==
    ASSUME Init
    PROVE  LoopInv
<1>1. /\ stored = [revision |-> 0, messages |-> <<>>] /\ engine = [revision |-> 0, messages |-> <<>>]
      /\ phase = "idle" /\ pending = None /\ said = 0 /\ faults = 0 /\ unsaved = {}
  BY DEF Init
<1>2. /\ stored.messages = <<>> /\ engine.messages = <<>> /\ <<>> \in Seq(Message)
      /\ DOMAIN <<>> = {} /\ Len(<<>>) = 0
  BY <1>1
<1>3. TypeInv
  <2>1. stored \in Revisioned /\ engine \in Revisioned
    BY <1>1, <1>2 DEF Revisioned
  <2>2. frozen \in 0..Len(engine.messages) /\ engine.revision <= stored.revision
    BY <1>1, <1>2 DEF Init
  <2> QED
    BY <1>1, <2>1, <2>2, EngineAssumption DEF Init, TypeInv, TypeOK, Forcing, NoForce
<1>4. AllSpread /\ StoredResults /\ StoredBare /\ Unfailed
  BY <1>1, <1>2 DEF AllSpread, Spread, StoredResults, StoredBare, BareIn, Unfailed
<1>5. EnginePaired /\ Matching
  BY <1>1 DEF EnginePaired, Matching
<1>6. AllKnown
  BY <1>1 DEF AllKnown, Known
<1>7. PendingInv
  BY <1>1 DEF PendingInv, Covers, None
<1> QED
  BY <1>3, <1>4, <1>5, <1>6, <1>7 DEF LoopInv, ListInv

LEMMA LoopStutter ==
    ASSUME LoopInv, UNCHANGED vars
    PROVE  LoopInv'
<1>1. /\ stored' = stored /\ engine' = engine /\ frozen' = frozen /\ pending' = pending
      /\ force' = force /\ phase' = phase /\ said' = said /\ unsaved' = unsaved
      /\ injected' = injected /\ bare' = bare /\ foreign' = foreign /\ faults' = faults
  BY DEF vars
<1>2. TypeInv'
  BY <1>1 DEF LoopInv, TypeInv, TypeOK, Forcing
<1>3. ListInv'
  BY <1>1, ListKept DEF LoopInv, log
<1>4. PendingInv'
  BY <1>1 DEF LoopInv, PendingInv, Covers
<1> QED
  BY <1>2, <1>3, <1>4 DEF LoopInv

LEMMA LoopInvariant == Spec => []LoopInv
<1>1. Init => LoopInv
  BY LoopStart
<1>2. LoopInv /\ [Next]_vars => LoopInv'
  BY LoopStep, LoopStutter
<1> QED
  BY <1>1, <1>2, PTL DEF Spec

-----------------------------------------------------------------------------
(* TypeOK of EngineCompaction: the loop's two lists are lists of messages  *)
(* whatever trims, prunes, summaries and lost or failed swaps made them    *)
(* of, the engine's revision is never ahead of the session's, and the      *)
(* sealed prefix never longer than the list.                               *)
THEOREM EngineTypes == Spec => []TypeOK
<1>1. LoopInv => TypeOK
  BY DEF LoopInv, TypeInv
<1> QED
  BY <1>1, LoopInvariant, PTL

(* NothingForgotten: what the session accepted is in its transcript, said  *)
(* or summarised, in every state and for every number of turns kept.  The  *)
(* exceptions are what the repair of a list removes (loop_.rs:4147-4178):  *)
(* the answer of a call that the session never got, and a call without a   *)
(* text whose answer it never got.                                         *)
THEOREM CompactionForgetsNothing == Spec => []NothingForgotten
<1>1. LoopInv => NothingForgotten
  BY DEF LoopInv, ListInv, AllKnown, Known, NothingForgotten
<1> QED
  BY <1>1, LoopInvariant, PTL

(* RequestWellPaired (loop_.rs:1413-1419): the request of a turn has each  *)
(* call directly before its result, so that repairing it changes nothing.  *)
THEOREM RequestsAreWellPaired == Spec => []RequestWellPaired
<1>1. LoopInv => RequestWellPaired
  <2> SUFFICES ASSUME LoopInv, phase = "turn"
               PROVE  RepairToolPairing(engine.messages) = engine.messages
    BY DEF RequestWellPaired
  <2>1. engine.messages \in Seq(Message)
    BY TypeParts DEF LoopInv, TypeInv
  <2>2. Paired(engine.messages)
    BY DEF LoopInv, ListInv, EnginePaired
  <2> QED
    BY <2>1, <2>2, RepairOfPaired
<1> QED
  BY <1>1, LoopInvariant, PTL

(* RequestMatchesSession (loop_.rs:2274-2282): as long as the session has  *)
(* failed nothing, a request shows the messages that the next run would    *)
(* start from, but for those the session was never told of.                *)
THEOREM RequestsMatchTheSession == Spec => []RequestMatchesSession
<1>1. LoopInv => RequestMatchesSession
  <2> SUFFICES ASSUME LoopInv, faults = 0, phase = "turn"
               PROVE  Gist(engine.messages) = Gist(RepairToolPairing(stored.messages))
    BY DEF RequestMatchesSession
  <2>1. /\ engine.messages \in Seq(Message) /\ stored.messages \in Seq(Message)
        /\ Spread(stored.messages, said)
    BY TypeParts DEF LoopInv, TypeInv, ListInv, AllSpread
  <2>2. RepairToolPairing(stored.messages) \in Seq(Message)
    BY <2>1, RepairSound
  <2>3. ShowSame(engine.messages, stored.messages)
    BY DEF LoopInv, ListInv, Matching
  <2>4. Gist(engine.messages) = Shown(engine.messages, injected)
    BY <2>1, GistIs
  <2>5. Gist(RepairToolPairing(stored.messages))
            = Shown(RepairToolPairing(stored.messages), injected)
    BY <2>2, GistIs
  <2> QED
    BY <2>3, <2>4, <2>5 DEF ShowSame
<1> QED
  BY <1>1, LoopInvariant, PTL

(* ContextNeverShrinks (loop_.rs:2212-2226): inside a run no step replaces *)
(* the messages by a list that tells less; a background summary that is    *)
(* out of date is never taken.                                             *)
THEOREM ContextOnlyGrows == Spec => ContextNeverShrinks
<1>1. LoopInv /\ [Next]_vars =>
          [phase # "idle" => Meaning(engine.messages) \subseteq Meaning(engine'.messages)]_vars
  <2> SUFFICES ASSUME LoopInv, Next
               PROVE  phase # "idle" =>
                          Meaning(engine.messages) \subseteq Meaning(engine'.messages)
    OBVIOUS
  <2> QED
    BY LoopStep DEF Grows
<1> QED
  BY <1>1, LoopInvariant, PTL DEF Spec, ContextNeverShrinks
=============================================================================
