--------------------------- MODULE SequenceLemmas ---------------------------
(***************************************************************************)
(* What the sequence operators the queues and channels use do to the set   *)
(* of values a sequence holds.                                             *)
(***************************************************************************)
EXTENDS Sequences, Naturals, Integers, Functions, SequenceTheorems, TLAPS

\* The head of a queue is one of its elements.
LEMMA HeadInRange ==
  ASSUME NEW S, NEW s \in Seq(S), s # << >>
  PROVE  Head(s) \in Range(s) /\ Head(s) \in S
<1>1. 1 \in DOMAIN s /\ Head(s) = s[1]
  OBVIOUS
<1>2. Head(s) \in S
  BY HeadTailProperties
<1> QED
  BY <1>1, <1>2 DEF Range

\* What remains of a queue was in it.
LEMMA TailRange ==
  ASSUME NEW S, NEW s \in Seq(S), s # << >>
  PROVE  Tail(s) \in Seq(S) /\ Range(Tail(s)) \subseteq Range(s)
<1>1. /\ Tail(s) \in Seq(S)
      /\ Len(Tail(s)) = Len(s) - 1
      /\ \A i \in 1 .. Len(Tail(s)) : Tail(s)[i] = s[i + 1]
  BY HeadTailProperties
<1>2. DOMAIN s = 1 .. Len(s) /\ DOMAIN Tail(s) = 1 .. Len(Tail(s)) /\ Len(s) \in Nat
  BY <1>1, LenProperties
<1>3. ASSUME NEW i \in DOMAIN Tail(s) PROVE Tail(s)[i] \in Range(s)
  <2>1. i + 1 \in DOMAIN s /\ Tail(s)[i] = s[i + 1]
    BY <1>1, <1>2, <1>3
  <2> QED
    BY <2>1 DEF Range
<1> QED
  BY <1>1, <1>3 DEF Range

\* Putting an element on a queue adds that element and no other.
LEMMA AppendRange ==
  ASSUME NEW S, NEW s \in Seq(S), NEW x \in S
  PROVE  Append(s, x) \in Seq(S) /\ Range(Append(s, x)) = Range(s) \cup {x}
<1> DEFINE a == Append(s, x)
<1>1. /\ a \in Seq(S)
      /\ Len(a) = Len(s) + 1
      /\ \A i \in 1 .. Len(s) : a[i] = s[i]
      /\ a[Len(s) + 1] = x
  BY AppendProperties
<1>2. DOMAIN s = 1 .. Len(s) /\ DOMAIN a = 1 .. Len(s) + 1 /\ Len(s) \in Nat
  BY <1>1, LenProperties
<1>3. ASSUME NEW i \in DOMAIN a PROVE a[i] \in Range(s) \cup {x}
  BY <1>1, <1>2, <1>3 DEF Range
<1>4. ASSUME NEW i \in DOMAIN s PROVE s[i] \in Range(a)
  <2>1. i \in DOMAIN a /\ a[i] = s[i]
    BY <1>1, <1>2, <1>4
  <2> QED
    BY <2>1 DEF Range
<1>5. x \in Range(a)
  <2>1. Len(s) + 1 \in DOMAIN a /\ a[Len(s) + 1] = x
    BY <1>1, <1>2
  <2> HIDE DEF a
  <2> QED
    BY <2>1 DEF Range
<1> HIDE DEF a
<1>6. Range(a) \subseteq Range(s) \cup {x}
  BY <1>3 DEF Range
<1>7. Range(s) \subseteq Range(a)
  BY <1>4 DEF Range
<1> QED
  BY <1>1, <1>5, <1>6, <1>7 DEF a

\* A prefix of a channel holds only what the channel held.
LEMMA PrefixRange ==
  ASSUME NEW S, NEW s \in Seq(S), NEW k \in 0 .. Len(s)
  PROVE  SubSeq(s, 1, k) \in Seq(S) /\ Range(SubSeq(s, 1, k)) \subseteq Range(s)
<1> DEFINE p == SubSeq(s, 1, k)
<1>1. DOMAIN s = 1 .. Len(s) /\ Len(s) \in Nat /\ k \in Int
  BY LenProperties
<1>2. \A i \in 1 .. k : s[i] \in S
  BY <1>1, ElementOfSeq
<1>3. /\ p \in Seq(S)
      /\ Len(p) = IF 1 <= k THEN k - 1 + 1 ELSE 0
      /\ \A i \in 1 .. k - 1 + 1 : p[i] = s[1 + i - 1]
  BY <1>1, <1>2, SubSeqProperties
<1>4. DOMAIN p = 1 .. k
  BY <1>1, <1>3, LenProperties
<1> HIDE DEF p
<1>5. ASSUME NEW i \in DOMAIN p PROVE p[i] \in Range(s)
  <2>1. i \in DOMAIN s /\ p[i] = s[i]
    BY <1>1, <1>3, <1>4, <1>5
  <2> QED
    BY <2>1 DEF Range
<1> QED
  BY <1>3, <1>5 DEF Range, p

\* What is not the first of a queue is in the rest of it.
LEMMA HeadOrTail ==
  ASSUME NEW S, NEW s \in Seq(S), s # << >>, NEW x \in Range(s)
  PROVE  x = Head(s) \/ x \in Range(Tail(s))
<1>1. /\ Tail(s) \in Seq(S)
      /\ Len(Tail(s)) = Len(s) - 1
      /\ \A i \in 1 .. Len(Tail(s)) : Tail(s)[i] = s[i + 1]
  BY HeadTailProperties
<1>2. DOMAIN s = 1 .. Len(s) /\ DOMAIN Tail(s) = 1 .. Len(Tail(s)) /\ Len(s) \in Nat
  BY <1>1, LenProperties
<1>3. PICK i \in 1 .. Len(s) : s[i] = x
  BY <1>2 DEF Range
<1>4. CASE i = 1
  BY <1>3, <1>4
<1>5. CASE i # 1
  <2>1. i - 1 \in DOMAIN Tail(s) /\ Tail(s)[i - 1] = x
    BY <1>1, <1>2, <1>3, <1>5
  <2> QED
    BY <2>1 DEF Range
<1> QED
  BY <1>4, <1>5

\* Nothing is in an empty queue.
LEMMA EmptyRange == Range(<< >>) = {}
  BY DEF Range

\* Appending to the queue is appending to the whole.
LEMMA AppendToConcat ==
    ASSUME NEW S, NEW a \in Seq(S), NEW b \in Seq(S), NEW x \in S
    PROVE  Append(a \o b, x) = a \o Append(b, x)
  OBVIOUS

\* Moving the first item of the queue to those taken leaves the whole as it is.
LEMMA MoveHead ==
    ASSUME NEW S, NEW a \in Seq(S), NEW b \in Seq(S), b # << >>
    PROVE  /\ Append(a, Head(b)) \o Tail(b) = a \o b
           /\ Head(b) \in S
           /\ Tail(b) \in Seq(S)
  OBVIOUS

-----------------------------------------------------------------------------
(* Queues and channels without repetitions.                                *)

Distinct(s) == \A i, j \in DOMAIN s : s[i] = s[j] => i = j

\* A queue after one more element, place by place.
LEMMA AppendShape ==
  ASSUME NEW S, NEW s \in Seq(S), NEW x \in S
  PROVE  /\ Len(s) \in Nat /\ DOMAIN s = 1..Len(s)
         /\ DOMAIN Append(s, x) = 1..(Len(s) + 1)
         /\ \A i \in 1..Len(s) : Append(s, x)[i] = s[i]
         /\ Append(s, x)[Len(s) + 1] = x
BY LenProperties, AppendProperties

\* A queue after its first was taken, place by place.
LEMMA TailShape ==
  ASSUME NEW S, NEW s \in Seq(S), s # << >>
  PROVE  /\ Len(s) \in Nat \ {0} /\ DOMAIN s = 1..Len(s)
         /\ DOMAIN Tail(s) = 1..(Len(s) - 1)
         /\ \A i \in 1..(Len(s) - 1) : Tail(s)[i] = s[i + 1]
         /\ Head(s) = s[1]
<1>1. /\ Tail(s) \in Seq(S) /\ Len(Tail(s)) = Len(s) - 1
      /\ \A i \in 1 .. Len(Tail(s)) : Tail(s)[i] = s[i + 1]
  BY HeadTailProperties
<1>2. Head(s) = s[1] /\ Len(s) # 0
  OBVIOUS
<1> QED
  BY <1>1, <1>2, LenProperties

\* A new element repeats none.
LEMMA AppendDistinct ==
  ASSUME NEW S, NEW s \in Seq(S), NEW x \in S, Distinct(s), x \notin Range(s)
  PROVE  Distinct(Append(s, x))
<1> DEFINE a == Append(s, x)
<1>1. /\ Len(s) \in Nat /\ DOMAIN s = 1..Len(s) /\ DOMAIN a = 1..(Len(s) + 1)
      /\ \A i \in 1..Len(s) : a[i] = s[i]
      /\ a[Len(s) + 1] = x
  BY AppendShape
<1> HIDE DEF a
<1>2. \A i \in 1..Len(s) : a[i] # x
  BY <1>1 DEF Range
<1>3. Distinct(a)
  BY <1>1, <1>2 DEF Distinct
<1> QED
  BY <1>3 DEF a

\* What was taken from a queue without repetitions is not in the rest of it.
LEMMA TailDistinct ==
  ASSUME NEW S, NEW s \in Seq(S), s # << >>, Distinct(s)
  PROVE  Distinct(Tail(s)) /\ Head(s) \notin Range(Tail(s))
<1> DEFINE u == Tail(s)
           h == Head(s)
<1>1. /\ Len(s) \in Nat \ {0} /\ DOMAIN s = 1..Len(s) /\ DOMAIN u = 1..(Len(s) - 1)
      /\ \A i \in 1..(Len(s) - 1) : u[i] = s[i + 1]
      /\ h = s[1]
  BY TailShape
<1> HIDE DEF u, h
<1>2. Distinct(u)
  BY <1>1 DEF Distinct
<1>3. \A i \in DOMAIN u : u[i] # h
  BY <1>1 DEF Distinct
<1> QED
  BY <1>2, <1>3 DEF u, h, Range

\* A connection that breaks repeats nothing.
LEMMA PrefixDistinct ==
  ASSUME NEW S, NEW s \in Seq(S), NEW k \in 0..Len(s), Distinct(s)
  PROVE  Distinct(SubSeq(s, 1, k))
<1> DEFINE u == SubSeq(s, 1, k)
<1>1. DOMAIN s = 1 .. Len(s) /\ Len(s) \in Nat /\ k \in Int
  BY LenProperties
<1>2. \A i \in 1 .. k : s[i] \in S
  BY <1>1, ElementOfSeq
<1>3. /\ u \in Seq(S)
      /\ Len(u) = IF 1 <= k THEN k - 1 + 1 ELSE 0
      /\ \A i \in 1 .. k - 1 + 1 : u[i] = s[1 + i - 1]
  BY <1>1, <1>2, SubSeqProperties
<1>4. DOMAIN u = 1 .. k
  BY <1>1, <1>3, LenProperties
<1> HIDE DEF u
<1>5. \A i \in 1..k : i \in DOMAIN s /\ u[i] = s[i]
  BY <1>1, <1>3
<1>6. Distinct(u)
  BY <1>4, <1>5 DEF Distinct
<1> QED
  BY <1>6 DEF u
=============================================================================
