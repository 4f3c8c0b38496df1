---------------------------- MODULE Spool_proofs ----------------------------
(***************************************************************************)
(* Theorems about Spool, for any number of things, any limit of the        *)
(* buffer, and any number of faults and restarts, with one pass handing    *)
(* over or with two; and that a buffer with its file is a Mailbox.         *)
(***************************************************************************)
EXTENDS Spool, TLAPS

-----------------------------------------------------------------------------
\* Sequences.

\* Two buffers have nothing in common; the one is older than the other.
Apart(s, t) == ToSet(s) \cap ToSet(t) = {}
Before(s, t) == \A x \in ToSet(s), y \in ToSet(t) : x < y

LEMMA SetOf ==
    ASSUME NEW S, NEW s \in Seq(S)
    PROVE  /\ \A n \in 1..Len(s) : s[n] \in ToSet(s)
           /\ \A x \in ToSet(s) : \E n \in 1..Len(s) : s[n] = x
           /\ ToSet(s) \subseteq S
           /\ (s = <<>> <=> ToSet(s) = {})
  <1>1. DOMAIN s = 1..Len(s) /\ Len(s) \in Nat
    OBVIOUS
  <1>2. ToSet(s) = {s[n] : n \in 1..Len(s)}
    BY <1>1 DEF ToSet
  <1>3. \A n \in 1..Len(s) : s[n] \in S
    OBVIOUS
  <1>4. s # <<>> => 1 \in 1..Len(s)
    OBVIOUS
  <1>5. s = <<>> => 1..Len(s) = {}
    OBVIOUS
  <1> QED
    BY <1>2, <1>3, <1>4, <1>5

LEMMA SetOfEmpty == ToSet(<<>>) = {} /\ Once(<<>>) /\ Rising(<<>>)
  BY DEF ToSet, Once, Rising

LEMMA SetOfAppend ==
    ASSUME NEW S, NEW s \in Seq(S), NEW x \in S
    PROVE  Append(s, x) \in Seq(S) /\ ToSet(Append(s, x)) = ToSet(s) \cup {x}
  <1> DEFINE t == Append(s, x)
  <1>1. t \in Seq(S) /\ Len(t) = Len(s) + 1 /\ Len(s) \in Nat
    OBVIOUS
  <1>2. (\A n \in 1..Len(s) : t[n] = s[n]) /\ t[Len(s) + 1] = x
    OBVIOUS
  <1> HIDE DEF t
  <1>3. ASSUME NEW y \in ToSet(t) PROVE y \in ToSet(s) \cup {x}
    <2>1. PICK n \in 1..Len(t) : t[n] = y
      BY <1>1, SetOf
    <2> QED
      BY <1>1, <1>2, <2>1, SetOf
  <1>4. ASSUME NEW y \in ToSet(s) PROVE y \in ToSet(t)
    <2>1. PICK n \in 1..Len(s) : s[n] = y
      BY SetOf
    <2>2. n \in 1..Len(t) /\ t[n] = y
      BY <1>1, <1>2, <2>1
    <2> QED
      BY <1>1, <2>2, SetOf
  <1>5. x \in ToSet(t)
    <2>1. Len(s) + 1 \in 1..Len(t)
      BY <1>1
    <2> QED
      BY <1>1, <1>2, <2>1, SetOf
  <1>6. ToSet(t) = ToSet(s) \cup {x}
    BY <1>3, <1>4, <1>5
  <1> QED
    BY <1>1, <1>6 DEF t

LEMMA Concat ==
    ASSUME NEW S, NEW s \in Seq(S), NEW t \in Seq(S)
    PROVE  /\ s \o t \in Seq(S) /\ Len(s \o t) = Len(s) + Len(t) /\ Len(s) \in Nat /\ Len(t) \in Nat
           /\ \A n \in 1..Len(s) : (s \o t)[n] = s[n]
           /\ \A n \in 1..Len(t) : (s \o t)[Len(s) + n] = t[n]
           /\ \A n \in 1..(Len(s) + Len(t)) : n > Len(s) => (s \o t)[n] = t[n - Len(s)]
  OBVIOUS

LEMMA SetOfConcat ==
    ASSUME NEW S, NEW s \in Seq(S), NEW t \in Seq(S)
    PROVE  ToSet(s \o t) = ToSet(s) \cup ToSet(t)
  <1> DEFINE u == s \o t
  <1>1. /\ u \in Seq(S) /\ Len(u) = Len(s) + Len(t) /\ Len(s) \in Nat /\ Len(t) \in Nat
        /\ \A n \in 1..Len(s) : u[n] = s[n]
        /\ \A n \in 1..Len(t) : u[Len(s) + n] = t[n]
        /\ \A n \in 1..(Len(s) + Len(t)) : n > Len(s) => u[n] = t[n - Len(s)]
    BY Concat
  <1> HIDE DEF u
  <1>2. ASSUME NEW y \in ToSet(u) PROVE y \in ToSet(s) \cup ToSet(t)
    <2>1. PICK n \in 1..Len(u) : u[n] = y
      BY <1>1, SetOf
    <2>2. CASE n <= Len(s)
      <3>1. n \in 1..Len(s) /\ s[n] = y
        BY <1>1, <2>1, <2>2
      <3> QED
        BY <3>1, SetOf
    <2>3. CASE n > Len(s)
      <3>1. n - Len(s) \in 1..Len(t) /\ t[n - Len(s)] = y
        BY <1>1, <2>1, <2>3
      <3> QED
        BY <3>1, SetOf
    <2> QED
      BY <1>1, <2>1, <2>2, <2>3
  <1>3. ASSUME NEW y \in ToSet(s) PROVE y \in ToSet(u)
    <2>1. PICK n \in 1..Len(s) : s[n] = y
      BY SetOf
    <2>2. n \in 1..Len(u) /\ u[n] = y
      BY <1>1, <2>1
    <2> QED
      BY <1>1, <2>2, SetOf
  <1>4. ASSUME NEW y \in ToSet(t) PROVE y \in ToSet(u)
    <2>1. PICK n \in 1..Len(t) : t[n] = y
      BY SetOf
    <2>2. Len(s) + n \in 1..Len(u) /\ u[Len(s) + n] = y
      BY <1>1, <2>1
    <2> QED
      BY <1>1, <2>2, SetOf
  <1>5. ToSet(u) = ToSet(s) \cup ToSet(t)
    BY <1>2, <1>3, <1>4
  <1> QED
    BY <1>5 DEF u

\* What is apart holds nothing twice when it is put together, and stays in
\* order when it was.
LEMMA ConcatOnce ==
    ASSUME NEW S, NEW s \in Seq(S), NEW t \in Seq(S), Once(s), Once(t), Apart(s, t)
    PROVE  Once(s \o t)
  <1> DEFINE u == s \o t
  <1>1. /\ DOMAIN u = 1..(Len(s) + Len(t)) /\ Len(s) \in Nat /\ Len(t) \in Nat
        /\ \A n \in 1..Len(s) : u[n] = s[n]
        /\ \A n \in 1..(Len(s) + Len(t)) : n > Len(s) => u[n] = t[n - Len(s)]
    BY Concat
  <1> HIDE DEF u
  <1>2. ASSUME NEW i \in DOMAIN u, NEW j \in DOMAIN u, u[i] = u[j], i <= j PROVE i = j
    <2>1. CASE j <= Len(s)
      <3>1. i \in DOMAIN s /\ j \in DOMAIN s /\ s[i] = s[j]
        BY <1>1, <1>2, <2>1
      <3> QED
        BY <3>1 DEF Once
    <2>2. CASE i > Len(s)
      <3>1. i - Len(s) \in DOMAIN t /\ j - Len(s) \in DOMAIN t /\ t[i - Len(s)] = t[j - Len(s)]
        BY <1>1, <1>2, <2>2
      <3>2. i - Len(s) = j - Len(s)
        BY <3>1 DEF Once
      <3> QED
        BY <1>1, <3>2
    <2>3. CASE i <= Len(s) /\ j > Len(s)
      <3>1. i \in 1..Len(s) /\ j - Len(s) \in 1..Len(t) /\ s[i] = t[j - Len(s)]
        BY <1>1, <1>2, <2>3
      <3>2. s[i] \in ToSet(s) /\ s[i] \in ToSet(t)
        BY <3>1, SetOf
      <3> QED
        BY <3>2 DEF Apart
    <2> QED
      BY <1>1, <2>1, <2>2, <2>3
  <1>3. \A i, j \in DOMAIN u : i <= j \/ j <= i
    BY <1>1
  <1>4. Once(u)
    BY <1>2, <1>3 DEF Once
  <1> QED
    BY <1>4 DEF u

LEMMA ConcatRising ==
    ASSUME NEW s \in Seq(Nat), NEW t \in Seq(Nat), Rising(s), Rising(t), Before(s, t)
    PROVE  Rising(s \o t)
  <1> DEFINE u == s \o t
  <1>1. /\ DOMAIN u = 1..(Len(s) + Len(t)) /\ Len(s) \in Nat /\ Len(t) \in Nat
        /\ \A n \in 1..Len(s) : u[n] = s[n]
        /\ \A n \in 1..(Len(s) + Len(t)) : n > Len(s) => u[n] = t[n - Len(s)]
    BY Concat
  <1> HIDE DEF u
  <1>2. ASSUME NEW i \in DOMAIN u, NEW j \in DOMAIN u, i < j PROVE u[i] < u[j]
    <2>1. CASE j <= Len(s)
      <3>1. i \in 1..Len(s) /\ j \in 1..Len(s)
        BY <1>1, <1>2, <2>1
      <3>2. u[i] = s[i] /\ u[j] = s[j] /\ DOMAIN s = 1..Len(s)
        BY <1>1, <3>1
      <3> QED
        BY <1>2, <3>1, <3>2 DEF Rising
    <2>2. CASE i > Len(s)
      <3>1. i - Len(s) \in DOMAIN t /\ j - Len(s) \in DOMAIN t /\ i - Len(s) < j - Len(s)
        BY <1>1, <1>2, <2>2
      <3>2. t[i - Len(s)] < t[j - Len(s)]
        BY <3>1 DEF Rising
      <3> QED
        BY <1>1, <1>2, <2>2, <3>2
    <2>3. CASE i <= Len(s) /\ j > Len(s)
      <3>1. i \in 1..Len(s) /\ j - Len(s) \in 1..Len(t) /\ u[i] = s[i] /\ u[j] = t[j - Len(s)]
        BY <1>1, <1>2, <2>3
      <3>2. u[i] \in ToSet(s) /\ u[j] \in ToSet(t)
        BY <3>1, SetOf
      <3> QED
        BY <3>2 DEF Before
    <2> QED
      BY <1>1, <2>1, <2>2, <2>3
  <1>3. Rising(u)
    BY <1>2 DEF Rising
  <1> QED
    BY <1>3 DEF u

\* One more at the end.
LEMMA AppendKeeps ==
    ASSUME NEW s \in Seq(Nat), NEW x \in Nat, \A y \in ToSet(s) : y < x
    PROVE  /\ Once(s) => Once(Append(s, x))
           /\ Rising(s) => Rising(Append(s, x))
  <1>1. \A n \in 1..Len(s) : s[n] \in Nat /\ s[n] < x
    BY SetOf
  <1>2. /\ DOMAIN Append(s, x) = 1..(Len(s) + 1) /\ Len(s) \in Nat
        /\ \A n \in 1..Len(s) : Append(s, x)[n] = s[n]
        /\ Append(s, x)[Len(s) + 1] = x
    OBVIOUS
  <1> DEFINE t == Append(s, x)
  <1> HIDE DEF t
  <1>3. /\ DOMAIN t = 1..(Len(s) + 1) /\ Len(s) \in Nat /\ (\A n \in 1..Len(s) : t[n] = s[n])
        /\ t[Len(s) + 1] = x
    BY <1>2 DEF t
  <1>4. ASSUME Once(s) PROVE Once(t)
    <2> SUFFICES ASSUME NEW i \in DOMAIN t, NEW j \in DOMAIN t, t[i] = t[j] PROVE i = j
      BY DEF Once
    <2>1. CASE i \in 1..Len(s) /\ j \in 1..Len(s)
      BY <1>3, <1>4, <2>1 DEF Once
    <2>2. CASE ~(i \in 1..Len(s) /\ j \in 1..Len(s))
      BY <1>1, <1>3, <2>2
    <2> QED
      BY <2>1, <2>2
  <1>5. ASSUME Rising(s) PROVE Rising(t)
    <2> SUFFICES ASSUME NEW i \in DOMAIN t, NEW j \in DOMAIN t, i < j PROVE t[i] < t[j]
      BY DEF Rising
    <2>1. CASE j \in 1..Len(s)
      BY <1>3, <1>5, <2>1 DEF Rising
    <2>2. CASE j = Len(s) + 1
      BY <1>1, <1>3, <2>2
    <2> QED
      BY <1>3, <2>1, <2>2
  <1> QED
    BY <1>4, <1>5 DEF t

\* A piece of a buffer.
LEMMA PieceKeeps ==
    ASSUME NEW S, NEW s \in Seq(S), NEW m \in Nat, m <= Len(s)
    PROVE  /\ SubSeq(s, m + 1, Len(s)) \in Seq(S)
           /\ ToSet(SubSeq(s, m + 1, Len(s))) \subseteq ToSet(s)
           /\ Once(s) => Once(SubSeq(s, m + 1, Len(s)))
           /\ Rising(s) => Rising(SubSeq(s, m + 1, Len(s)))
  <1> DEFINE t == SubSeq(s, m + 1, Len(s))
  <1>1. /\ t \in Seq(S) /\ Len(t) = Len(s) - m /\ Len(s) \in Nat /\ DOMAIN t = 1..Len(t)
        /\ \A n \in 1..Len(t) : t[n] = s[m + n] /\ m + n \in 1..Len(s)
    OBVIOUS
  <1> HIDE DEF t
  <1>2. ASSUME NEW y \in ToSet(t) PROVE y \in ToSet(s)
    <2>1. PICK n \in 1..Len(t) : t[n] = y
      BY <1>1, SetOf
    <2> QED
      BY <1>1, <2>1, SetOf
  <1>3. ASSUME Once(s), NEW i \in DOMAIN t, NEW j \in DOMAIN t, t[i] = t[j] PROVE i = j
    <2>1. m + i \in DOMAIN s /\ m + j \in DOMAIN s /\ s[m + i] = s[m + j]
      BY <1>1, <1>3
    <2>2. m + i = m + j
      BY <1>3, <2>1 DEF Once
    <2> QED
      BY <1>1, <2>2
  <1>4. ASSUME Rising(s), NEW i \in DOMAIN t, NEW j \in DOMAIN t, i < j PROVE t[i] < t[j]
    <2>1. m + i \in DOMAIN s /\ m + j \in DOMAIN s /\ m + i < m + j /\ t[i] = s[m + i] /\ t[j] = s[m + j]
      BY <1>1, <1>4
    <2> QED
      BY <1>4, <2>1 DEF Rising
  <1>5. (Once(s) => Once(t)) /\ (Rising(s) => Rising(t))
    BY <1>3, <1>4 DEF Once, Rising
  <1> QED
    BY <1>1, <1>2, <1>5 DEF t

\* At the limit the older part goes.
LEMMA TrimmedKeeps ==
    ASSUME NEW S, NEW s \in Seq(S)
    PROVE  /\ Trimmed(s) \in Seq(S) /\ ToSet(Trimmed(s)) \subseteq ToSet(s)
           /\ Once(s) => Once(Trimmed(s))
           /\ Rising(s) => Rising(Trimmed(s))
  <1>1. CASE Len(s) >= MaxQueue
    <2>1. Len(s) \in Nat /\ MaxQueue \div 2 \in Nat /\ MaxQueue \div 2 <= MaxQueue
      BY SpoolAssumption
    <2> DEFINE m == Len(s) - MaxQueue \div 2
    <2>2. m \in Nat /\ m <= Len(s)
      BY <1>1, <2>1, SpoolAssumption
    <2>3. Trimmed(s) = SubSeq(s, m + 1, Len(s))
      BY <1>1 DEF Trimmed, Newer
    <2> HIDE DEF m
    <2> QED
      BY <2>2, <2>3, PieceKeeps
  <1>2. CASE ~(Len(s) >= MaxQueue)
    BY <1>2 DEF Trimmed
  <1> QED
    BY <1>1, <1>2

\* What a hand-over gives the centre in one request, and what it keeps.
LEMMA PartAndRest ==
    ASSUME NEW S, NEW s \in Seq(S), s # <<>>, batch \in BOOLEAN
    PROVE  /\ Part(s) \in Seq(S) /\ Rest(s) \in Seq(S)
           /\ ToSet(s) = ToSet(Part(s)) \cup ToSet(Rest(s))
           /\ Once(s) => Once(Rest(s)) /\ Once(Part(s)) /\ Apart(Part(s), Rest(s))
           /\ Rising(s) => Rising(Part(s)) /\ Rising(Rest(s)) /\ Before(Part(s), Rest(s))
  <1>1. CASE batch
    <2>1. Part(s) = s /\ Rest(s) = <<>> /\ <<>> \in Seq(S)
      BY <1>1 DEF Part, Rest
    <2> QED
      BY <2>1, SetOfEmpty DEF Before, Apart
  <1>2. CASE ~batch
    <2>1. Part(s) = <<Head(s)>> /\ Rest(s) = Tail(s)
      BY <1>2 DEF Part, Rest
    <2>2. /\ Len(s) \in Nat /\ 1 <= Len(s) /\ Head(s) = s[1] /\ Head(s) \in S /\ DOMAIN s = 1..Len(s)
          /\ Tail(s) = SubSeq(s, 2, Len(s)) /\ Tail(s) \in Seq(S)
      OBVIOUS
    <2>3. /\ ToSet(Tail(s)) \subseteq ToSet(s)
          /\ Once(s) => Once(Tail(s))
          /\ Rising(s) => Rising(Tail(s))
      <3>1. 1 \in Nat /\ 1 + 1 = 2
        OBVIOUS
      <3> QED
        BY <2>2, <3>1, PieceKeeps
    <2>4. ToSet(<<Head(s)>>) = {Head(s)} /\ <<Head(s)>> \in Seq(S) /\ Once(<<Head(s)>>) /\ Rising(<<Head(s)>>)
      <3>1. <<Head(s)>> \in Seq(S) /\ DOMAIN <<Head(s)>> = {1} /\ <<Head(s)>>[1] = Head(s)
        BY <2>2
      <3> QED
        BY <3>1 DEF ToSet, Once, Rising
    <2>5. Head(s) \in ToSet(s)
      BY <2>2, SetOf
    <2>6. ASSUME NEW n \in 1..Len(s), n # 1
          PROVE  n - 1 \in 1..Len(Tail(s)) /\ Tail(s)[n - 1] = s[n]
      BY <2>2, <2>6
    <2>7. ASSUME NEW x \in ToSet(s) PROVE x = Head(s) \/ x \in ToSet(Tail(s))
      <3>1. PICK n \in 1..Len(s) : s[n] = x
        BY SetOf
      <3>2. CASE n = 1
        BY <2>2, <3>1, <3>2
      <3>3. CASE n # 1
        <4>1. n - 1 \in 1..Len(Tail(s)) /\ Tail(s)[n - 1] = x
          BY <2>6, <3>1, <3>3
        <4> QED
          BY <2>2, <4>1, SetOf
      <3> QED
        BY <3>2, <3>3
    <2>8. ASSUME Rising(s), NEW y \in ToSet(Tail(s)) PROVE Head(s) < y
      <3>1. PICK n \in 1..Len(Tail(s)) : Tail(s)[n] = y
        BY <2>2, SetOf
      <3>2. n + 1 \in 1..Len(s) /\ s[n + 1] = y /\ 1 < n + 1 /\ 1 \in 1..Len(s)
        BY <2>2, <3>1
      <3> QED
        BY <2>2, <2>8, <3>2 DEF Rising
    <2>9. ToSet(s) = {Head(s)} \cup ToSet(Tail(s))
      BY <2>3, <2>5, <2>7
    <2>10. ASSUME Once(s) PROVE Head(s) \notin ToSet(Tail(s))
      <3> SUFFICES ASSUME Head(s) \in ToSet(Tail(s)) PROVE FALSE
        OBVIOUS
      <3>1. PICK n \in 1..Len(Tail(s)) : Tail(s)[n] = Head(s)
        BY <2>2, SetOf
      <3>2. n + 1 \in 1..Len(s) /\ s[n + 1] = s[1] /\ 1 # n + 1 /\ 1 \in 1..Len(s)
        BY <2>2, <3>1
      <3> QED
        BY <2>2, <2>10, <3>2 DEF Once
    <2> QED
      BY <2>1, <2>2, <2>3, <2>4, <2>8, <2>9, <2>10 DEF Before, Apart
  <1> QED
    BY <1>1, <1>2

\* The order of first arrivals among the members of K.
FirstInOrder(s, K) ==
    \A j \in DOMAIN s : \A i \in 1..(j - 1) :
        s[i] \in K /\ s[j] \in K /\ s[j] < s[i] => \E k \in 1..(i - 1) : s[k] = s[j]

LEMMA OrderOfConcat ==
    ASSUME NEW K, NEW s \in Seq(Nat), NEW t \in Seq(Nat), FirstInOrder(s, K), Rising(t),
           \A x \in ToSet(s) \cap K, y \in ToSet(t) : x < y \/ y \in ToSet(s)
    PROVE  FirstInOrder(s \o t, K)
  <1> DEFINE u == s \o t
  <1>1. /\ DOMAIN u = 1..(Len(s) + Len(t)) /\ Len(s) \in Nat /\ Len(t) \in Nat
        /\ \A n \in 1..Len(s) : u[n] = s[n] /\ s[n] \in Nat
        /\ \A n \in 1..(Len(s) + Len(t)) :
              n > Len(s) => u[n] = t[n - Len(s)] /\ n - Len(s) \in 1..Len(t) /\ t[n - Len(s)] \in Nat
    BY Concat
  <1> HIDE DEF u
  <1>2. ASSUME NEW j \in DOMAIN u, NEW i \in 1..(j - 1), u[i] \in K, u[j] \in K, u[j] < u[i]
        PROVE  \E k \in 1..(i - 1) : u[k] = u[j]
    <2>1. CASE j <= Len(s)
      <3>1. j \in DOMAIN s /\ i \in 1..Len(s) /\ u[j] = s[j] /\ u[i] = s[i]
        BY <1>1, <2>1
      <3>2. PICK k \in 1..(i - 1) : s[k] = s[j]
        BY <1>2, <3>1 DEF FirstInOrder
      <3>3. k \in 1..Len(s)
        BY <1>1, <3>1
      <3>4. u[k] = s[k]
        BY <1>1, <3>3
      <3> QED
        BY <3>1, <3>2, <3>4
    <2>2. CASE i > Len(s)
      <3>1. /\ i - Len(s) \in DOMAIN t /\ j - Len(s) \in DOMAIN t /\ i - Len(s) < j - Len(s)
            /\ u[i] = t[i - Len(s)] /\ u[j] = t[j - Len(s)] /\ u[i] \in Nat /\ u[j] \in Nat
        BY <1>1, <2>2
      <3>2. u[i] < u[j]
        BY <3>1 DEF Rising
      <3> QED
        BY <1>2, <3>1, <3>2
    <2>3. CASE i <= Len(s) /\ j > Len(s)
      <3>1. /\ i \in 1..Len(s) /\ j - Len(s) \in 1..Len(t) /\ u[i] = s[i] /\ u[j] = t[j - Len(s)]
            /\ u[i] \in Nat /\ u[j] \in Nat
        BY <1>1, <2>3
      <3>2. u[i] \in ToSet(s) /\ u[j] \in ToSet(t)
        BY <3>1, SetOf
      <3>3. u[j] \in ToSet(s)
        BY <1>2, <3>1, <3>2
      <3>4. PICK n \in 1..Len(s) : s[n] = u[j]
        BY <3>3, SetOf
      <3>5. CASE n < i
        <4>1. n \in 1..(i - 1) /\ u[n] = u[j]
          BY <1>1, <3>1, <3>4, <3>5
        <4> QED
          BY <4>1
      <3>6. CASE n = i
        BY <1>2, <3>1, <3>4, <3>6
      <3>7. CASE n > i
        <4>1. n \in DOMAIN s /\ i \in 1..(n - 1) /\ s[i] \in K /\ s[n] \in K /\ s[n] < s[i]
          BY <1>1, <1>2, <3>1, <3>4, <3>7
        <4>2. PICK k \in 1..(i - 1) : s[k] = s[n]
          BY <4>1 DEF FirstInOrder
        <4>3. u[k] = u[j]
          BY <1>1, <3>1, <3>4, <4>2
        <4> QED
          BY <4>2, <4>3
      <3> QED
        BY <3>1, <3>4, <3>5, <3>6, <3>7
    <2> QED
      BY <1>1, <2>1, <2>2, <2>3
  <1>3. FirstInOrder(u, K)
    BY <1>2 DEF FirstInOrder
  <1> QED
    BY <1>3 DEF u

LEMMA OrderOfAppend ==
    ASSUME NEW K, NEW s \in Seq(Nat), NEW x \in Nat, x \notin K, FirstInOrder(s, K)
    PROVE  FirstInOrder(Append(s, x), K)
  <1> DEFINE t == Append(s, x)
  <1>1. /\ DOMAIN t = 1..(Len(s) + 1) /\ Len(s) \in Nat /\ (\A n \in 1..Len(s) : t[n] = s[n])
        /\ t[Len(s) + 1] = x
    OBVIOUS
  <1> HIDE DEF t
  <1>2. ASSUME NEW j \in DOMAIN t, NEW i \in 1..(j - 1), t[i] \in K, t[j] \in K, t[j] < t[i]
        PROVE  \E k \in 1..(i - 1) : t[k] = t[j]
    <2>1. j \in DOMAIN s /\ i \in 1..Len(s)
      BY <1>1, <1>2
    <2>2. PICK k \in 1..(i - 1) : s[k] = s[j]
      BY <1>1, <1>2, <2>1 DEF FirstInOrder
    <2>3. k \in 1..Len(s) /\ j \in 1..Len(s)
      BY <1>1, <2>1
    <2>4. t[k] = s[k] /\ t[j] = s[j]
      BY <1>1, <2>3
    <2> QED
      BY <2>2, <2>4
  <1>3. FirstInOrder(t, K)
    BY <1>2 DEF FirstInOrder
  <1> QED
    BY <1>3 DEF t

LEMMA OrderOfMore ==
    ASSUME NEW K, NEW s \in Seq(Nat), NEW x \in Nat, x \notin ToSet(s), FirstInOrder(s, K)
    PROVE  FirstInOrder(s, K \cup {x})
  <1>1. \A n \in 1..Len(s) : s[n] # x
    BY SetOf
  <1>2. DOMAIN s = 1..Len(s) /\ Len(s) \in Nat
    OBVIOUS
  <1>3. ASSUME NEW j \in DOMAIN s, NEW i \in 1..(j - 1), s[i] \in K \cup {x}, s[j] \in K \cup {x}, s[j] < s[i]
        PROVE  \E k \in 1..(i - 1) : s[k] = s[j]
    BY <1>1, <1>2, <1>3 DEF FirstInOrder
  <1> QED
    BY <1>3 DEF FirstInOrder

-----------------------------------------------------------------------------
\* The inductive invariant.

Known == Held \cup ToSet(sent) \cup dropped \cup refused

\* Nothing is ahead of its time.
Happened == kept \cup Known \subseteq 1..count

\* A hand-over has something in its hand exactly while it sends.
Hands == \A d \in Drainer : doing[d] = "sending" <=> hand[d] # <<>>

\* What waits is in one place, once.
OnePlace ==
    /\ Once(pending) /\ Once(file)
    /\ \A d \in Drainer : Once(hand[d]) /\ Apart(hand[d], pending)
    /\ Apart(hand["loop"], hand["refresh"])
    /\ \A w \in Writer : Once(snap[w])

\* What is on disk, or on its way there, is nothing the service did not know.
Saved == ToSet(file) \subseteq Known /\ \A w \in Writer : ToSet(snap[w]) \subseteq Known

\* With one pass at a time all of it is in order ...
Ordered ==
    ~second =>
        /\ doing["refresh"] = "idle"
        /\ Rising(hand["loop"]) /\ Rising(pending) /\ Before(hand["loop"], pending)
        /\ Rising(file) /\ \A w \in Writer : Rising(snap[w])

\* ... and younger than what the centre has, unless the centre has it too.
Younger ==
    ~second /\ stops = 0 =>
        /\ FirstInOrder(sent, kept)
        /\ \A x \in ToSet(sent) \cap kept, y \in Held : x < y \/ y \in ToSet(sent)

\* The service is down only after it was stopped.
Down == ~up => stops # 0

SpoolInv ==
    /\ SpoolTypeOK /\ Down /\ Happened /\ Hands /\ OnePlace /\ Saved
    /\ Ordered /\ Younger

LEMMA ItemsAreNumbers ==
    ASSUME NEW s \in Seq(Item)
    PROVE  s \in Seq(Nat) /\ ToSet(s) \subseteq Item /\ ToSet(s) \subseteq Nat
  <1>1. Item \subseteq Nat
    BY SpoolAssumption DEF Item
  <1>2. s \in Seq(Nat)
    <2>1. /\ Len(s) \in Nat /\ DOMAIN s = 1..Len(s) /\ \A n \in 1..Len(s) : s[n] \in Item
          /\ s = [n \in 1..Len(s) |-> s[n]]
      OBVIOUS
    <2>2. \A n \in 1..Len(s) : s[n] \in Nat
      BY <1>1, <2>1
    <2>3. s \in [1..Len(s) -> Nat]
      BY <2>1, <2>2
    <2> QED
      BY <2>1, <2>3
  <1> QED
    BY <1>1, <1>2, SetOf

LEMMA HeldIs ==
    Held = ToSet(pending) \cup ToSet(hand["loop"]) \cup ToSet(hand["refresh"])
  BY DEF Held, Drainer

\* The same of the next state.
LEMMA HeldIsNext ==
    Held' = ToSet(pending') \cup ToSet(hand'["loop"]) \cup ToSet(hand'["refresh"])
  BY DEF Held, Drainer

LEMMA Types ==
    ASSUME SpoolInv
    PROVE  /\ pending \in Seq(Item) /\ file \in Seq(Item) /\ sent \in Seq(Item)
           /\ \A d \in Drainer : hand[d] \in Seq(Item) /\ hand[d] \in Seq(Nat)
           /\ \A w \in Writer : snap[w] \in Seq(Item)
           /\ pending \in Seq(Nat) /\ sent \in Seq(Nat)
           /\ count \in 0..MaxItems /\ MaxItems \in Nat /\ batch \in BOOLEAN /\ second \in BOOLEAN
           /\ "loop" \in Drainer /\ "refresh" \in Drainer /\ Drainer \subseteq Writer
  <1>1. /\ pending \in Seq(Item) /\ file \in Seq(Item) /\ sent \in Seq(Item)
        /\ (\A d \in Drainer : hand[d] \in Seq(Item)) /\ \A w \in Writer : snap[w] \in Seq(Item)
    BY DEF SpoolInv, SpoolTypeOK
  <1>2. /\ count \in 0..MaxItems /\ MaxItems \in Nat /\ batch \in BOOLEAN /\ second \in BOOLEAN
        /\ "loop" \in Drainer /\ "refresh" \in Drainer /\ Drainer \subseteq Writer
    BY SpoolAssumption DEF SpoolInv, SpoolTypeOK, Drainer, Writer
  <1> QED
    BY <1>1, <1>2, ItemsAreNumbers

\* What is said of first arrivals holds by the invariant.
LEMMA InvInOrder ==
    ASSUME SpoolInv
    PROVE  InOrder
  BY DEF SpoolInv, InOrder, Ordered, Younger, OnePlace, FirstInOrder

-----------------------------------------------------------------------------
\* Writing the file: the buffer does not notice.
LEMMA SaveStep ==
    ASSUME SpoolInv, NEW w \in Writer, doing[w] # "sending", w = "ticker" \/ doing[w] # "idle",
           UNCHANGED <<batch, second, pending, hand, up, count, kept, sent, dropped, refused, stops>>,
           dirty' \in BOOLEAN, faults' \in 0..MaxFaults,
           NEW where \in {"idle", "writing"}, Stays(w, where),
           NEW s \in {<<>>, pending}, snap' = snap \/ snap' = [snap EXCEPT ![w] = s],
           file' = file \/ file' = snap[w]
    PROVE  SpoolInv' /\ Held' = Held
  <1>1. Held' = Held /\ Known' = Known
    BY DEF Held, Known
  <1>2. /\ doing' \in [Writer -> {"idle", "sending", "saving", "writing"}]
        /\ doing'["ticker"] \in {"idle", "writing"}
        /\ \A d \in Drainer : doing'[d] = "sending" <=> doing[d] = "sending"
        /\ ~second => doing'["refresh"] = "idle"
    BY DEF SpoolInv, SpoolTypeOK, Stays, Drainer, Writer, Ordered
  <1>3. /\ s \in Seq(Item) /\ Once(s) /\ ToSet(s) \subseteq Known /\ (~second => Rising(s))
        /\ snap[w] \in Seq(Item) /\ Once(snap[w]) /\ ToSet(snap[w]) \subseteq Known
        /\ (~second => Rising(snap[w]))
    <2>1. s = <<>> => s \in Seq(Item) /\ ToSet(s) = {} /\ Once(s) /\ Rising(s)
      BY SetOfEmpty
    <2>2. s = pending => /\ s \in Seq(Item) /\ Once(s) /\ ToSet(s) \subseteq Known /\ (~second => Rising(s))
      BY Types DEF SpoolInv, OnePlace, Known, Held, Ordered
    <2>3. /\ snap[w] \in Seq(Item) /\ Once(snap[w]) /\ ToSet(snap[w]) \subseteq Known
          /\ (~second => Rising(snap[w]))
      BY Types DEF SpoolInv, OnePlace, Saved, Ordered
    <2> QED
      BY <2>1, <2>2, <2>3
  <1>4. /\ snap' \in [Writer -> Seq(Item)] /\ file' \in Seq(Item)
        /\ \A v \in Writer : snap'[v] = snap[v] \/ snap'[v] = s
    BY <1>3 DEF SpoolInv, SpoolTypeOK
  <1>5. SpoolTypeOK'
    BY <1>2, <1>4 DEF SpoolInv, SpoolTypeOK
  <1>6. Down' /\ Happened' /\ Hands'
    BY <1>1, <1>2 DEF SpoolInv, Down, Happened, Hands
  <1>7. OnePlace'
    BY <1>3, <1>4 DEF SpoolInv, OnePlace, Apart
  <1>8. Saved'
    BY <1>1, <1>3, <1>4 DEF SpoolInv, Saved
  <1>9. Ordered'
    BY <1>2, <1>3, <1>4 DEF SpoolInv, Ordered, Before
  <1>10. Younger'
    BY <1>1 DEF SpoolInv, Younger, FirstInOrder
  <1> QED
    BY <1>1, <1>5, <1>6, <1>7, <1>8, <1>9, <1>10 DEF SpoolInv

LEMMA SaveSteps ==
    ASSUME SpoolInv, NEW w \in Writer, Save(w) \/ writeFails(w)
    PROVE  SpoolInv' /\ UNCHANGED <<up, sent, dropped, refused>> /\ Held' = Held
  <1>1. CASE snapshot(w)
    <2>1. doing[w] # "sending" /\ (w = "ticker" \/ doing[w] # "idle")
      BY <1>1 DEF snapshot, MayWrite
    <2>2. /\ UNCHANGED <<batch, second, pending, hand, file, up, count, kept, sent, dropped, refused, faults, stops>>
          /\ dirty' = FALSE /\ Stays(w, "writing") /\ snap' = [snap EXCEPT ![w] = pending]
          /\ faults \in 0..MaxFaults
      BY <1>1 DEF snapshot, fixed, SpoolInv, SpoolTypeOK
    <2> QED
      BY <2>1, <2>2, SaveStep
  <1>2. CASE clean(w)
    <2>1. doing[w] # "sending" /\ (w = "ticker" \/ doing[w] # "idle")
      BY <1>2 DEF clean, MayWrite
    <2>2. /\ UNCHANGED <<batch, second, pending, hand, dirty, snap, file, up, count, kept, sent, dropped, refused, faults, stops>>
          /\ dirty \in BOOLEAN /\ Stays(w, "idle") /\ faults \in 0..MaxFaults
      BY <1>2 DEF clean, fixed, SpoolInv, SpoolTypeOK
    <2> QED
      BY <2>1, <2>2, SaveStep
  <1>3. CASE rename(w)
    <2>1. /\ doing[w] = "writing" /\ file' = snap[w] /\ snap' = [snap EXCEPT ![w] = <<>>]
          /\ UNCHANGED <<batch, second, pending, hand, dirty, up, count, kept, sent, dropped, refused, faults, stops>>
          /\ dirty \in BOOLEAN /\ Stays(w, "idle") /\ faults \in 0..MaxFaults
      BY <1>3 DEF rename, fixed, SpoolInv, SpoolTypeOK
    <2> QED
      BY <2>1, SaveStep
  <1>4. CASE writeFails(w)
    <2>1. /\ doing[w] = "writing" /\ snap' = [snap EXCEPT ![w] = <<>>]
          /\ UNCHANGED <<batch, second, pending, hand, file, up, count, kept, sent, dropped, refused, stops>>
          /\ dirty' \in BOOLEAN /\ Stays(w, "idle") /\ faults' \in 0..MaxFaults
      BY <1>4, SpoolAssumption DEF writeFails, Fault, fixed, SpoolInv, SpoolTypeOK
    <2> QED
      BY <2>1, SaveStep
  <1> QED
    BY <1>1, <1>2, <1>3, <1>4 DEF Save

-----------------------------------------------------------------------------
\* Something happens.

\* The buffer takes it, and loses what had to make room.
LEMMA AcceptStep ==
    ASSUME SpoolInv, count < MaxItems, count' = count + 1,
           NEW p \in Seq(Item), ToSet(p) \subseteq ToSet(pending), Once(p), ~second => Rising(p),
           pending' = Append(p, count + 1), kept' = kept \cup {count + 1}, dirty' = TRUE,
           dropped' = dropped \cup (ToSet(pending) \ ToSet(p)),
           UNCHANGED <<batch, second, hand, doing, snap, file, up, sent, refused, faults, stops>>
    PROVE  /\ SpoolInv'
           /\ count + 1 \in Item /\ count + 1 \notin Known /\ ToSet(pending) \subseteq Held
           /\ Held' = (Held \ (ToSet(pending) \ ToSet(p))) \cup {count + 1}
  <1> DEFINE n == count + 1
             lost == ToSet(pending) \ ToSet(p)
  <1>1. count \in Nat /\ n \in Nat /\ n \in Item /\ n \notin 1..count /\ 1..count \subseteq 1..n
        /\ \A x \in 1..count : x < n
    BY Types DEF Item
  <1>2. kept \cup Known \subseteq 1..count
    BY DEF SpoolInv, Happened
  <1>3. /\ pending' \in Seq(Item) /\ ToSet(pending') = ToSet(p) \cup {n}
    BY <1>1, SetOfAppend
  <1>4. ToSet(pending) \subseteq Held /\ Held \subseteq Known
    BY HeldIs DEF Known
  <1>5. \A d \in Drainer : Apart(hand[d], pending) /\ ToSet(hand[d]) \subseteq Held
    BY DEF SpoolInv, OnePlace, Held
  <1>6. Held' = (Held \ lost) \cup {n}
    BY <1>3, <1>5, HeldIs, HeldIsNext DEF Apart, Drainer
  <1>7. Known' = Known \cup {n}
    BY <1>4, <1>6 DEF Known
  <1>8. Once(pending') /\ (~second => Rising(pending'))
    <2>1. \A y \in ToSet(p) : y < n
      BY <1>1, <1>2, <1>4
    <2>2. p \in Seq(Nat)
      BY ItemsAreNumbers
    <2> QED
      BY <1>1, <2>1, <2>2, AppendKeeps
  <1>9. SpoolTypeOK'
    <2>1. count' \in 0..MaxItems /\ kept' \subseteq Item /\ dropped' \subseteq Item
      <3>1. ToSet(pending) \subseteq Item
        BY Types, ItemsAreNumbers
      <3> QED
        BY <1>1, <3>1, Types DEF SpoolInv, SpoolTypeOK
    <2> QED
      BY <1>3, <2>1 DEF SpoolInv, SpoolTypeOK
  <1>10. Down' /\ Hands' /\ Happened'
    BY <1>1, <1>2, <1>7 DEF SpoolInv, Down, Hands, Happened
  <1>11. OnePlace'
    <2>1. \A d \in Drainer : Apart(hand[d], pending)'
      BY <1>1, <1>2, <1>3, <1>4, <1>5 DEF Apart
    <2> QED
      BY <1>8, <2>1 DEF SpoolInv, OnePlace, Apart
  <1>12. Saved'
    BY <1>7 DEF SpoolInv, Saved
  <1>13. Ordered'
    <2>1. ~second => Before(hand["loop"], pending)'
      BY <1>1, <1>2, <1>3, <1>4, <1>5 DEF SpoolInv, Ordered, Before, Drainer
    <2> QED
      BY <1>8, <2>1 DEF SpoolInv, Ordered
  <1>14. Younger'
    <2> SUFFICES ASSUME ~second, stops = 0
                 PROVE  /\ FirstInOrder(sent, kept')
                        /\ \A x \in ToSet(sent) \cap kept', y \in Held' : x < y \/ y \in ToSet(sent)
      BY DEF Younger, FirstInOrder
    <2>1. n \notin ToSet(sent) /\ ToSet(sent) \subseteq 1..count
      BY <1>1, <1>2 DEF Known
    <2>2. FirstInOrder(sent, kept')
      BY <1>1, <2>1, Types, OrderOfMore DEF SpoolInv, Younger
    <2>3. ASSUME NEW x \in ToSet(sent) \cap kept', NEW y \in Held' PROVE x < y \/ y \in ToSet(sent)
      <3>1. x \in ToSet(sent) \cap kept /\ x < n
        BY <1>1, <2>1
      <3>2. CASE y = n
        BY <3>1, <3>2
      <3>3. CASE y \in Held
        BY <3>1, <3>3 DEF SpoolInv, Younger
      <3> QED
        BY <1>6, <3>2, <3>3
    <2> QED
      BY <2>2, <2>3
  <1>16. n \notin Known
    BY <1>1, <1>2
  <1> QED
    BY <1>1, <1>4, <1>6, <1>9, <1>10, <1>11, <1>12, <1>13, <1>14, <1>16 DEF SpoolInv

LEMMA KeepStep ==
    ASSUME SpoolInv, keep
    PROVE  /\ SpoolInv' /\ up /\ UNCHANGED <<up, sent, refused>>
           /\ \E i \in Item, lost \in SUBSET Item :
                 /\ i \notin Known /\ lost \subseteq Held
                 /\ Held' = (Held \ lost) \cup {i} /\ dropped' = dropped \cup lost
  <1> DEFINE p == Trimmed(pending)
             lost == ToSet(pending) \ ToSet(p)
  <1>1. /\ up /\ count < MaxItems /\ count' = count + 1 /\ pending' = Append(p, count + 1)
        /\ kept' = kept \cup {count + 1} /\ dirty' = TRUE
        /\ dropped' = dropped \cup (ToSet(pending) \ ToSet(pending'))
        /\ UNCHANGED <<batch, second, hand, doing, snap, file, up, sent, refused, faults, stops>>
    BY DEF keep, fixed
  <1>2. p \in Seq(Item) /\ ToSet(p) \subseteq ToSet(pending) /\ Once(p) /\ (~second => Rising(p))
    BY Types, TrimmedKeeps DEF SpoolInv, OnePlace, Ordered
  <1> HIDE DEF p
  <1>3. count + 1 \in Item /\ count + 1 \notin ToSet(pending) /\ ToSet(pending) \subseteq Item
    <2>1. ToSet(pending) \subseteq 1..count
      BY HeldIs DEF SpoolInv, Happened, Known
    <2> QED
      BY <1>1, <2>1, Types, ItemsAreNumbers DEF Item
  <1>4. dropped' = dropped \cup lost
    BY <1>1, <1>2, <1>3, SetOfAppend
  <1>5. /\ SpoolInv' /\ count + 1 \notin Known /\ ToSet(pending) \subseteq Held
        /\ Held' = (Held \ lost) \cup {count + 1}
    BY <1>1, <1>2, <1>4, AcceptStep
  <1>6. lost \in SUBSET Item /\ lost \subseteq Held
    BY <1>3, <1>5
  <1> QED
    BY <1>1, <1>3, <1>4, <1>5, <1>6

LEMMA StageStep ==
    ASSUME SpoolInv, stageIP
    PROVE  /\ SpoolInv' /\ up /\ UNCHANGED <<up, sent, dropped, refused>>
           /\ \E i \in Item : i \notin Known /\ Held' = Held \cup {i}
  <1>1. /\ up /\ count < MaxItems /\ count' = count + 1 /\ pending' = Append(pending, count + 1)
        /\ kept' = kept \cup {count + 1} /\ dirty' = TRUE /\ dropped' = dropped
        /\ UNCHANGED <<batch, second, hand, doing, snap, file, up, sent, refused, faults, stops>>
    BY DEF stageIP, fixed
  <1>2. pending \in Seq(Item) /\ Once(pending) /\ (~second => Rising(pending))
    BY Types DEF SpoolInv, OnePlace, Ordered
  <1>3. dropped' = dropped \cup (ToSet(pending) \ ToSet(pending))
    BY <1>1
  <1>4. /\ SpoolInv' /\ count + 1 \in Item /\ count + 1 \notin Known
        /\ Held' = (Held \ (ToSet(pending) \ ToSet(pending))) \cup {count + 1}
    BY <1>1, <1>2, <1>3, AcceptStep
  <1> QED
    BY <1>1, <1>4

\* A report that gets through at once is not one of those that were queued.
LEMMA ForwardStep ==
    ASSUME SpoolInv, forward
    PROVE  /\ SpoolInv' /\ up /\ UNCHANGED <<up, dropped, refused>> /\ Held' = Held
           /\ \E i \in Item : i \notin Known /\ ToSet(sent') = ToSet(sent) \cup {i}
  <1>1. /\ up /\ count < MaxItems /\ count' = count + 1 /\ sent' = Append(sent, count + 1)
        /\ UNCHANGED <<batch, second, pending, hand, doing, dirty, snap, file, up, kept, dropped, refused, faults, stops>>
    BY DEF forward, fixed, memory
  <1>2. count \in Nat /\ count + 1 \in Item /\ count + 1 \in Nat /\ count + 1 \notin 1..count
        /\ 1..count \subseteq 1..(count + 1)
    BY <1>1, Types DEF Item
  <1>3. sent' \in Seq(Item) /\ ToSet(sent') = ToSet(sent) \cup {count + 1}
    BY <1>1, <1>2, Types, SetOfAppend
  <1>4. Held' = Held /\ kept \cup Known \subseteq 1..count /\ Known' = Known \cup {count + 1}
    BY <1>1, <1>3 DEF Held, SpoolInv, Happened, Known
  <1>5. SpoolTypeOK'
    <2>1. count' \in 0..MaxItems
      BY <1>1, Types
    <2> QED
      BY <1>1, <1>3, <2>1 DEF SpoolInv, SpoolTypeOK
  <1>6. Down' /\ Hands' /\ Happened'
    BY <1>1, <1>2, <1>4 DEF SpoolInv, Down, Hands, Happened
  <1>7. OnePlace' /\ Saved' /\ Ordered'
    BY <1>1, <1>4 DEF SpoolInv, OnePlace, Saved, Ordered, Apart, Before
  <1>8. Younger'
    <2> SUFFICES ASSUME ~second, stops = 0
                 PROVE  /\ FirstInOrder(sent', kept)
                        /\ \A x \in ToSet(sent') \cap kept, y \in Held : x < y \/ y \in ToSet(sent')
      BY <1>1, <1>4 DEF Younger, FirstInOrder
    <2>1. count + 1 \notin kept
      BY <1>2, <1>4
    <2>2. FirstInOrder(sent', kept)
      BY <1>1, <1>2, <2>1, Types, OrderOfAppend DEF SpoolInv, Younger
    <2> QED
      BY <1>3, <2>1, <2>2 DEF SpoolInv, Younger
  <1>10. count + 1 \notin Known
    BY <1>2, <1>4
  <1> QED
    BY <1>1, <1>2, <1>3, <1>4, <1>5, <1>6, <1>7, <1>8, <1>10 DEF SpoolInv

\* A report nobody keeps leaves everything as it is, but for the count.
LEMMA TurnAwayStep ==
    ASSUME SpoolInv, turnAway
    PROVE  SpoolInv' /\ UNCHANGED <<up, sent, dropped, refused>> /\ Held' = Held
  <1>1. /\ count < MaxItems /\ count' = count + 1 /\ faults' \in 0..MaxFaults
        /\ UNCHANGED <<batch, second, pending, hand, doing, dirty, snap, file, up, kept, sent, dropped, refused, stops>>
    BY SpoolAssumption DEF turnAway, Fault, fixed, memory, SpoolInv, SpoolTypeOK
  <1>2. count' \in 0..MaxItems /\ 1..count \subseteq 1..count'
    BY <1>1, Types
  <1>3. Held' = Held /\ Known' = Known
    BY <1>1 DEF Held, Known
  <1>4. SpoolTypeOK'
    BY <1>1, <1>2 DEF SpoolInv, SpoolTypeOK
  <1>5. Down' /\ Hands' /\ Happened' /\ Saved'
    BY <1>1, <1>2, <1>3 DEF SpoolInv, Down, Hands, Happened, Saved
  <1>6. OnePlace' /\ Ordered' /\ Younger'
    BY <1>1, <1>3 DEF SpoolInv, OnePlace, Ordered, Younger, Apart, Before, FirstInOrder
  <1> QED
    BY <1>1, <1>3, <1>4, <1>5, <1>6 DEF SpoolInv

-----------------------------------------------------------------------------
\* Handing over.

\* One hand and the other.
LEMMA TwoHands ==
    ASSUME NEW d \in Drainer
    PROVE  \E e \in Drainer :
              /\ e # d /\ Drainer = {d, e}
              /\ Held = ToSet(pending) \cup ToSet(hand[d]) \cup ToSet(hand[e])
              /\ Held' = ToSet(pending') \cup ToSet(hand'[d]) \cup ToSet(hand'[e])
              /\ (Apart(hand["loop"], hand["refresh"]) <=> Apart(hand[d], hand[e]))
              /\ (Apart(hand["loop"], hand["refresh"])' <=> Apart(hand[d], hand[e])')
  <1>1. CASE d = "loop"
    <2>1. "refresh" \in Drainer /\ "refresh" # d /\ Drainer = {d, "refresh"}
      BY <1>1 DEF Drainer
    <2> QED
      BY <1>1, <2>1, HeldIs, HeldIsNext DEF Apart
  <1>2. CASE d = "refresh"
    <2>1. "loop" \in Drainer /\ "loop" # d /\ Drainer = {d, "loop"}
      BY <1>2 DEF Drainer
    <2> QED
      BY <1>2, <2>1, HeldIs, HeldIsNext DEF Apart
  <1> QED
    BY <1>1, <1>2 DEF Drainer

LEMMA TakeStep ==
    ASSUME SpoolInv, NEW d \in Drainer, take(d)
    PROVE  SpoolInv' /\ UNCHANGED <<up, sent, dropped, refused>> /\ Held' = Held
  <1>1. /\ doing[d] = "idle" /\ (d = "refresh" => second) /\ pending # <<>>
        /\ hand' = [hand EXCEPT ![d] = pending] /\ pending' = <<>> /\ dirty' = TRUE
        /\ doing' = [doing EXCEPT ![d] = "sending"]
        /\ UNCHANGED <<batch, second, snap, file, up, count, kept, sent, dropped, refused, faults, stops>>
    BY DEF take, Stays, fixed
  <1>2. PICK e \in Drainer :
          /\ e # d /\ Drainer = {d, e}
          /\ Held = ToSet(pending) \cup ToSet(hand[d]) \cup ToSet(hand[e])
          /\ Held' = ToSet(pending') \cup ToSet(hand'[d]) \cup ToSet(hand'[e])
          /\ (Apart(hand["loop"], hand["refresh"])' <=> Apart(hand[d], hand[e])')
    BY TwoHands
  <1>3. hand[d] = <<>> /\ hand'[d] = pending /\ hand'[e] = hand[e] /\ ToSet(pending') = {}
    BY <1>1, <1>2, SetOfEmpty DEF SpoolInv, SpoolTypeOK, Hands
  <1>4. Held' = Held /\ Known' = Known
    BY <1>1, <1>2, <1>3, SetOfEmpty DEF Known
  <1>5. SpoolTypeOK'
    <2>1. pending' \in Seq(Item) /\ hand' \in [Drainer -> Seq(Item)]
      BY <1>1, Types DEF SpoolInv, SpoolTypeOK
    <2>2. /\ doing' \in [Writer -> {"idle", "sending", "saving", "writing"}]
          /\ doing'["ticker"] \in {"idle", "writing"}
      <3>1. d \in Writer /\ d # "ticker" /\ "ticker" \in Writer
        BY DEF Drainer, Writer
      <3> QED
        BY <1>1, <3>1 DEF SpoolInv, SpoolTypeOK
    <2> QED
      BY <1>1, <2>1, <2>2 DEF SpoolInv, SpoolTypeOK
  <1>6. Down' /\ Happened' /\ Saved'
    BY <1>1, <1>4 DEF SpoolInv, Down, Happened, Saved
  <1>7. Hands'
    <2>1. doing'[d] = "sending" /\ doing'[e] = doing[e]
      BY <1>1, <1>2, Types DEF SpoolInv, SpoolTypeOK
    <2> QED
      BY <1>1, <1>2, <1>3, <2>1 DEF SpoolInv, Hands
  <1>8. OnePlace'
    <2>1. Once(hand[d])' /\ Once(hand[e])' /\ Once(pending)'
      BY <1>1, <1>3, SetOfEmpty DEF SpoolInv, OnePlace
    <2>2. Apart(hand[d], pending)' /\ Apart(hand[e], pending)' /\ Apart(hand[d], hand[e])'
      BY <1>3 DEF SpoolInv, OnePlace, Apart
    <2> QED
      BY <1>1, <1>2, <2>1, <2>2 DEF SpoolInv, OnePlace
  <1>9. Ordered'
    <2> SUFFICES ASSUME ~second PROVE Ordered'
      BY <1>1 DEF Ordered
    <2>1. d = "loop" /\ doing'["refresh"] = doing["refresh"]
      BY <1>1 DEF Drainer, SpoolInv, SpoolTypeOK, Writer
    <2> QED
      BY <1>1, <1>3, <2>1, SetOfEmpty DEF SpoolInv, Ordered, Before
  <1>10. Younger'
    BY <1>1, <1>4 DEF SpoolInv, Younger, FirstInOrder
  <1> QED
    BY <1>1, <1>4, <1>5, <1>6, <1>7, <1>8, <1>9, <1>10 DEF SpoolInv

\* The centre is given a part of what one hand holds: first arrivals stay in
\* order, and what is left is younger.
LEMMA GivenInOrder ==
    ASSUME SpoolInv, NEW d \in Drainer, doing[d] = "sending", ~second, stops = 0,
           NEW got, got = <<>> \/ got = Part(hand[d])
    PROVE  /\ FirstInOrder(sent \o got, kept)
           /\ \A x \in ToSet(sent \o got) \cap kept, y \in Held : x < y \/ y \in ToSet(sent \o got)
  <1> DEFINE P == Part(hand[d])
             R == Rest(hand[d])
  <1>1. d = "loop" /\ hand["refresh"] = <<>> /\ hand[d] # <<>>
    BY DEF SpoolInv, Ordered, Hands, Drainer
  <1>2. /\ hand[d] \in Seq(Nat) /\ Rising(hand[d]) /\ Before(hand[d], pending)
        /\ batch \in BOOLEAN /\ sent \in Seq(Nat) /\ ToSet(hand[d]) \subseteq Held
    BY <1>1, Types DEF SpoolInv, Ordered, Held
  <1>3. /\ P \in Seq(Nat) /\ ToSet(hand[d]) = ToSet(P) \cup ToSet(R)
        /\ Rising(P) /\ Before(P, R)
    BY <1>1, <1>2, PartAndRest
  <1> HIDE DEF P, R
  <1>4. /\ got \in Seq(Nat) /\ Rising(got) /\ ToSet(got) \subseteq ToSet(P)
        /\ (ToSet(got) = {} \/ ToSet(got) = ToSet(P))
    <2>1. CASE got = <<>>
      <3>1. <<>> \in Seq(Nat) /\ ToSet(<<>>) = {} /\ Rising(<<>>)
        BY SetOfEmpty
      <3> QED
        BY <2>1, <3>1
    <2>2. CASE got = P
      BY <1>3, <2>2
    <2> QED
      BY <2>1, <2>2 DEF P
  <1>5. ToSet(sent \o got) = ToSet(sent) \cup ToSet(got)
    BY <1>2, <1>4, SetOfConcat
  <1>6. \A x \in ToSet(sent) \cap kept, y \in Held : x < y \/ y \in ToSet(sent)
    BY DEF SpoolInv, Younger
  <1>7. FirstInOrder(sent \o got, kept)
    <2>1. \A x \in ToSet(sent) \cap kept, y \in ToSet(got) : x < y \/ y \in ToSet(sent)
      BY <1>2, <1>3, <1>4, <1>6
    <2> QED
      BY <1>2, <1>4, <2>1, OrderOfConcat DEF SpoolInv, Younger
  <1>8. ASSUME NEW x \in ToSet(sent \o got) \cap kept, NEW y \in Held
        PROVE  x < y \/ y \in ToSet(sent \o got)
    <2>1. CASE x \in ToSet(sent)
      BY <1>5, <1>6, <2>1
    <2>2. CASE x \in ToSet(got)
      <3>1. y \in ToSet(pending) \/ y \in ToSet(P) \/ y \in ToSet(R)
        BY <1>1, <1>3, HeldIs, SetOfEmpty
      <3>2. x \in ToSet(P) /\ x \in ToSet(hand[d]) /\ ToSet(got) = ToSet(P)
        BY <1>3, <1>4, <2>2
      <3> QED
        BY <1>2, <1>3, <1>5, <3>1, <3>2 DEF Before
    <2> QED
      BY <1>5, <2>1, <2>2
  <1> QED
    BY <1>7, <1>8

\* A part leaves one hand, for the centre or refused by it.
LEMMA PartLeaves ==
    ASSUME SpoolInv, NEW d \in Drainer, doing[d] = "sending",
           hand' = [hand EXCEPT ![d] = Rest(hand[d])],
           doing' = [doing EXCEPT ![d] = IF Rest(hand[d]) = <<>> THEN "saving" ELSE "sending"],
           UNCHANGED <<batch, second, pending, dirty, snap, file, up, count, kept, dropped, stops>>,
           sent' \in Seq(Item), refused' \subseteq Item, faults' \in 0..MaxFaults,
           ToSet(sent') \cup refused' = ToSet(sent) \cup refused \cup ToSet(Part(hand[d])),
           ~second /\ stops = 0 =>
               /\ FirstInOrder(sent', kept)
               /\ \A x \in ToSet(sent') \cap kept, y \in Held : x < y \/ y \in ToSet(sent')
    PROVE  /\ SpoolInv' /\ Held' = Held \ ToSet(Part(hand[d]))
           /\ ToSet(Part(hand[d])) \subseteq Held /\ ToSet(Part(hand[d])) \in SUBSET Item
  <1> DEFINE P == Part(hand[d])
             R == Rest(hand[d])
  <1>1. PICK e \in Drainer :
          /\ e # d /\ Drainer = {d, e}
          /\ Held = ToSet(pending) \cup ToSet(hand[d]) \cup ToSet(hand[e])
          /\ Held' = ToSet(pending') \cup ToSet(hand'[d]) \cup ToSet(hand'[e])
          /\ (Apart(hand["loop"], hand["refresh"]) <=> Apart(hand[d], hand[e]))
          /\ (Apart(hand["loop"], hand["refresh"])' <=> Apart(hand[d], hand[e])')
    BY TwoHands
  <1>2. hand[d] # <<>> /\ hand[d] \in Seq(Item) /\ batch \in BOOLEAN
    BY Types DEF SpoolInv, Hands
  <1>3. /\ P \in Seq(Item) /\ R \in Seq(Item) /\ ToSet(hand[d]) = ToSet(P) \cup ToSet(R)
        /\ (Once(hand[d]) => Once(R) /\ Apart(P, R)) /\ (Rising(hand[d]) => Rising(R))
    BY <1>2, PartAndRest
  <1>4. ToSet(P) \in SUBSET Item
    BY <1>3, SetOf
  <1> HIDE DEF P, R
  <1>5. /\ hand'[d] = R /\ hand'[e] = hand[e] /\ pending' = pending
        /\ doing'[d] = (IF R = <<>> THEN "saving" ELSE "sending") /\ doing'[e] = doing[e]
    BY <1>1, Types DEF SpoolInv, SpoolTypeOK, R
  <1>6. Once(hand[d]) /\ Apart(hand[d], pending) /\ Apart(hand[e], pending) /\ Apart(hand[d], hand[e])
    BY <1>1 DEF SpoolInv, OnePlace
  <1>7. Held' = Held \ ToSet(P) /\ ToSet(P) \subseteq Held
    BY <1>1, <1>3, <1>5, <1>6 DEF Apart
  <1>8. Known' = Known
    BY <1>7 DEF Known, P
  <1>9. SpoolTypeOK'
    <2>1. hand' \in [Drainer -> Seq(Item)]
      BY <1>3 DEF SpoolInv, SpoolTypeOK, R
    <2>2. /\ doing' \in [Writer -> {"idle", "sending", "saving", "writing"}]
          /\ doing'["ticker"] \in {"idle", "writing"}
      <3>1. d \in Writer /\ d # "ticker" /\ "ticker" \in Writer
        BY DEF Drainer, Writer
      <3> QED
        BY <3>1 DEF SpoolInv, SpoolTypeOK
    <2> QED
      BY <2>1, <2>2 DEF SpoolInv, SpoolTypeOK
  <1>10. Down' /\ Happened' /\ Saved'
    BY <1>8 DEF SpoolInv, Down, Happened, Saved
  <1>11. Hands'
    BY <1>1, <1>5 DEF SpoolInv, Hands
  <1>12. OnePlace'
    <2>1. Once(hand[d])' /\ Once(hand[e])' /\ Once(pending)'
      BY <1>3, <1>5 DEF SpoolInv, OnePlace
    <2>2. Apart(hand[d], pending)' /\ Apart(hand[e], pending)' /\ Apart(hand[d], hand[e])'
      BY <1>3, <1>5, <1>6 DEF Apart
    <2> QED
      BY <1>1, <2>1, <2>2 DEF SpoolInv, OnePlace
  <1>13. Ordered'
    <2> SUFFICES ASSUME ~second PROVE Ordered'
      BY DEF Ordered
    <2>1. d = "loop" /\ doing'["refresh"] = doing["refresh"]
      BY DEF Drainer, SpoolInv, SpoolTypeOK, Writer, Ordered
    <2>2. Before(hand["loop"], pending)'
      BY <1>3, <1>5, <2>1 DEF SpoolInv, Ordered, Before
    <2> QED
      BY <1>3, <1>5, <2>1, <2>2 DEF SpoolInv, Ordered
  <1>14. Younger'
    BY <1>7 DEF Younger, FirstInOrder
  <1> QED
    BY <1>4, <1>7, <1>9, <1>10, <1>11, <1>12, <1>13, <1>14 DEF SpoolInv, P

LEMMA DeliverStep ==
    ASSUME SpoolInv, NEW d \in Drainer, deliver(d)
    PROVE  /\ SpoolInv' /\ up /\ UNCHANGED <<up, dropped, refused>> /\ Held' \subseteq Held
           /\ \E some \in SUBSET Item :
                 /\ some \subseteq Held /\ ToSet(sent') = ToSet(sent) \cup some
                 /\ Held \ Held' \subseteq some
  <1> DEFINE P == Part(hand[d])
  <1>1. /\ up /\ doing[d] = "sending" /\ sent' = sent \o P
        /\ hand' = [hand EXCEPT ![d] = Rest(hand[d])]
        /\ doing' = [doing EXCEPT ![d] = IF Rest(hand[d]) = <<>> THEN "saving" ELSE "sending"]
        /\ UNCHANGED <<batch, second, pending, dirty, snap, file, up, count, kept, dropped, refused, faults, stops>>
    BY DEF deliver, Stays, fixed, Rest
  <1>2. ~second /\ stops = 0 =>
           /\ FirstInOrder(sent', kept)
           /\ \A x \in ToSet(sent') \cap kept, y \in Held : x < y \/ y \in ToSet(sent')
    <2>1. P = <<>> \/ P = Part(hand[d])
      OBVIOUS
    <2> QED
      BY <1>1, <2>1, GivenInOrder
  <1>3. P \in Seq(Item)
    <2>1. hand[d] # <<>> /\ hand[d] \in Seq(Item) /\ batch \in BOOLEAN
      BY <1>1, Types DEF SpoolInv, Hands
    <2> QED
      BY <2>1, PartAndRest
  <1>4. sent' \in Seq(Item) /\ ToSet(sent') = ToSet(sent) \cup ToSet(P)
    BY <1>1, <1>3, Types, Concat, SetOfConcat
  <1>5. refused' \subseteq Item /\ faults' \in 0..MaxFaults
    BY <1>1 DEF SpoolInv, SpoolTypeOK
  <1>6. ToSet(sent') \cup refused' = ToSet(sent) \cup refused \cup ToSet(P)
    BY <1>1, <1>4
  <1>7. /\ SpoolInv' /\ Held' = Held \ ToSet(P) /\ ToSet(P) \subseteq Held /\ ToSet(P) \in SUBSET Item
    BY <1>1, <1>2, <1>4, <1>5, <1>6, PartLeaves
  <1> QED
    BY <1>1, <1>4, <1>7

LEMMA RefuseStep ==
    ASSUME SpoolInv, NEW d \in Drainer, refuse(d)
    PROVE  /\ SpoolInv' /\ up /\ UNCHANGED <<up, sent, dropped>>
           /\ \E i \in Item : i \in Held /\ Held' = Held \ {i} /\ refused' = refused \cup {i}
  <1> DEFINE h == Head(hand[d])
  <1>1. /\ up /\ doing[d] = "sending" /\ ~batch /\ refused' = refused \cup {h}
        /\ hand' = [hand EXCEPT ![d] = Rest(hand[d])]
        /\ doing' = [doing EXCEPT ![d] = IF Rest(hand[d]) = <<>> THEN "saving" ELSE "sending"]
        /\ faults' \in 0..MaxFaults
        /\ UNCHANGED <<batch, second, pending, dirty, snap, file, up, count, kept, sent, dropped, stops>>
    BY SpoolAssumption DEF refuse, Fault, Stays, fixed, Rest, SpoolInv, SpoolTypeOK
  <1>2. hand[d] # <<>> /\ hand[d] \in Seq(Item)
    BY <1>1, Types DEF SpoolInv, Hands
  <1>3. h \in Item /\ ToSet(Part(hand[d])) = {h}
    <2>1. h \in Item /\ Part(hand[d]) = <<h>> /\ DOMAIN <<h>> = {1} /\ <<h>>[1] = h
      BY <1>1, <1>2 DEF Part
    <2> QED
      BY <2>1 DEF ToSet
  <1> HIDE DEF h
  <1>4. sent' \in Seq(Item) /\ refused' \subseteq Item
    BY <1>1, <1>3 DEF SpoolInv, SpoolTypeOK
  <1>5. ToSet(sent') \cup refused' = ToSet(sent) \cup refused \cup ToSet(Part(hand[d]))
    BY <1>1, <1>3
  <1>6. ~second /\ stops = 0 =>
           /\ FirstInOrder(sent', kept)
           /\ \A x \in ToSet(sent') \cap kept, y \in Held : x < y \/ y \in ToSet(sent')
    BY <1>1 DEF SpoolInv, Younger
  <1>7. /\ SpoolInv' /\ Held' = Held \ {h} /\ {h} \subseteq Held
    BY <1>1, <1>3, <1>4, <1>5, <1>6, PartLeaves
  <1> QED
    BY <1>1, <1>3, <1>7

\* What could not be delivered is put back in front, also when it arrived and
\* only the answer was lost.
LEMMA PutBackStep ==
    ASSUME SpoolInv, NEW d \in Drainer, NEW got \in {<<>>, Part(hand[d])}, putBack(d, got)
    PROVE  /\ SpoolInv' /\ up /\ UNCHANGED <<up, dropped, refused>> /\ Held' = Held
           /\ \E some \in SUBSET Item : some \subseteq Held /\ ToSet(sent') = ToSet(sent) \cup some
  <1>1. /\ up /\ doing[d] = "sending" /\ sent' = sent \o got /\ pending' = hand[d] \o pending
        /\ hand' = [hand EXCEPT ![d] = <<>>] /\ dirty' = TRUE
        /\ doing' = [doing EXCEPT ![d] = "saving"] /\ faults' \in 0..MaxFaults
        /\ UNCHANGED <<batch, second, snap, file, up, count, kept, dropped, refused, stops>>
    BY SpoolAssumption DEF putBack, Fault, Stays, fixed, SpoolInv, SpoolTypeOK
  <1>2. PICK e \in Drainer :
          /\ e # d /\ Drainer = {d, e}
          /\ Held = ToSet(pending) \cup ToSet(hand[d]) \cup ToSet(hand[e])
          /\ Held' = ToSet(pending') \cup ToSet(hand'[d]) \cup ToSet(hand'[e])
          /\ (Apart(hand["loop"], hand["refresh"]) <=> Apart(hand[d], hand[e]))
          /\ (Apart(hand["loop"], hand["refresh"])' <=> Apart(hand[d], hand[e])')
    BY TwoHands
  <1>3. hand[d] # <<>> /\ hand[d] \in Seq(Item) /\ batch \in BOOLEAN /\ pending \in Seq(Item)
    BY <1>1, Types DEF SpoolInv, Hands
  <1>4. got \in Seq(Item) /\ ToSet(got) \subseteq ToSet(hand[d])
    <2>1. Part(hand[d]) \in Seq(Item) /\ ToSet(Part(hand[d])) \subseteq ToSet(hand[d])
      BY <1>3, PartAndRest
    <2>2. <<>> \in Seq(Item) /\ ToSet(<<>>) = {}
      BY SetOfEmpty
    <2>3. CASE got = <<>>
      BY <2>2, <2>3
    <2>4. CASE got = Part(hand[d])
      BY <2>1, <2>4
    <2> QED
      BY <2>3, <2>4
  <1>5. ~second /\ stops = 0 =>
           /\ FirstInOrder(sent', kept)
           /\ \A x \in ToSet(sent') \cap kept, y \in Held : x < y \/ y \in ToSet(sent')
    BY <1>1, GivenInOrder
  <1>6. hand'[d] = <<>> /\ hand'[e] = hand[e] /\ ToSet(hand'[d]) = {}
    BY <1>1, <1>2, SetOfEmpty DEF SpoolInv, SpoolTypeOK
  <1>7. /\ sent' \in Seq(Item) /\ ToSet(sent') = ToSet(sent) \cup ToSet(got)
        /\ pending' \in Seq(Item) /\ ToSet(pending') = ToSet(hand[d]) \cup ToSet(pending)
    BY <1>1, <1>3, <1>4, Types, Concat, SetOfConcat
  <1>8. Held' = Held /\ ToSet(got) \subseteq Held /\ Known' = Known
    BY <1>1, <1>2, <1>4, <1>6, <1>7 DEF Known
  <1>9. SpoolTypeOK'
    <2>1. hand' \in [Drainer -> Seq(Item)]
      BY <1>1 DEF SpoolInv, SpoolTypeOK
    <2>2. /\ doing' \in [Writer -> {"idle", "sending", "saving", "writing"}]
          /\ doing'["ticker"] \in {"idle", "writing"}
      <3>1. d \in Writer /\ d # "ticker" /\ "ticker" \in Writer
        BY DEF Drainer, Writer
      <3> QED
        BY <1>1, <3>1 DEF SpoolInv, SpoolTypeOK
    <2> QED
      BY <1>1, <1>7, <2>1, <2>2 DEF SpoolInv, SpoolTypeOK
  <1>10. Down' /\ Happened' /\ Saved'
    BY <1>1, <1>8 DEF SpoolInv, Down, Happened, Saved
  <1>11. Hands'
    <2>1. doing'[d] = "saving" /\ doing'[e] = doing[e]
      BY <1>1, <1>2, Types DEF SpoolInv, SpoolTypeOK
    <2> QED
      BY <1>2, <1>6, <2>1 DEF SpoolInv, Hands
  <1>12. OnePlace'
    <2>1. Once(hand[d])' /\ Once(hand[e])' /\ Once(pending)'
      <3>1. Once(pending')
        BY <1>1, <1>3, ConcatOnce DEF SpoolInv, OnePlace
      <3> QED
        BY <1>6, <3>1, SetOfEmpty DEF SpoolInv, OnePlace
    <2>2. Apart(hand[d], pending)' /\ Apart(hand[e], pending)' /\ Apart(hand[d], hand[e])'
      BY <1>2, <1>6, <1>7 DEF SpoolInv, OnePlace, Apart
    <2> QED
      BY <1>1, <1>2, <2>1, <2>2 DEF SpoolInv, OnePlace
  <1>13. Ordered'
    <2> SUFFICES ASSUME ~second PROVE Ordered'
      BY <1>1 DEF Ordered
    <2>1. d = "loop" /\ doing'["refresh"] = doing["refresh"]
      BY <1>1 DEF Drainer, SpoolInv, SpoolTypeOK, Writer, Ordered
    <2>2. Rising(pending')
      BY <1>1, <2>1, Types, ConcatRising DEF SpoolInv, Ordered
    <2>3. Before(hand["loop"], pending)' /\ Rising(hand["loop"])'
      BY <1>6, <2>1, SetOfEmpty DEF Before
    <2> QED
      BY <1>1, <2>1, <2>2, <2>3 DEF SpoolInv, Ordered
  <1>14. Younger'
    BY <1>1, <1>5, <1>8 DEF Younger, FirstInOrder
  <1>16. ToSet(got) \in SUBSET Item
    BY <1>4, SetOf
  <1> QED
    BY <1>1, <1>7, <1>8, <1>9, <1>10, <1>11, <1>12, <1>13, <1>14, <1>16 DEF SpoolInv

-----------------------------------------------------------------------------
\* The service ends and comes back.

LEMMA EndStep ==
    ASSUME SpoolInv, crash \/ stop
    PROVE  SpoolInv' /\ up /\ ~up' /\ UNCHANGED <<sent, dropped, refused>> /\ Held' = Held
  <1>1. /\ up /\ up' = FALSE /\ stops' = stops + 1 /\ stops < MaxStops
        /\ file' = file \/ file' = pending
        /\ UNCHANGED <<batch, second, pending, hand, doing, dirty, snap, count, kept, sent, dropped, refused, faults>>
    BY DEF crash, stop, fixed, memory
  <1>2. stops' \in 0..MaxStops /\ stops' # 0
    BY <1>1, SpoolAssumption DEF SpoolInv, SpoolTypeOK
  <1>3. Held' = Held /\ Known' = Known
    BY <1>1 DEF Held, Known
  <1>4. /\ file' \in Seq(Item) /\ Once(file') /\ (~second => Rising(file')) /\ ToSet(file') \subseteq Known
    BY <1>1, Types, HeldIs DEF SpoolInv, OnePlace, Ordered, Saved, Known
  <1>5. SpoolTypeOK'
    BY <1>1, <1>2, <1>4 DEF SpoolInv, SpoolTypeOK
  <1>6. Down' /\ Happened' /\ Hands' /\ Saved'
    BY <1>1, <1>2, <1>3, <1>4 DEF SpoolInv, Down, Happened, Hands, Saved
  <1>7. OnePlace' /\ Ordered'
    BY <1>1, <1>4 DEF SpoolInv, OnePlace, Ordered, Apart, Before
  <1>8. Younger'
    BY <1>2 DEF Younger
  <1> QED
    BY <1>1, <1>3, <1>5, <1>6, <1>7, <1>8 DEF SpoolInv

LEMMA StartStep ==
    ASSUME SpoolInv, start
    PROVE  SpoolInv' /\ ~up /\ up' /\ UNCHANGED <<sent, dropped, refused>> /\ Held' \subseteq Known
  <1>1. /\ ~up /\ up' = TRUE /\ pending' = file /\ hand' = [d \in Drainer |-> <<>>]
        /\ doing' = [w \in Writer |-> "idle"] /\ dirty' = FALSE /\ snap' = [w \in Writer |-> <<>>]
        /\ UNCHANGED <<batch, second, file, count, kept, sent, dropped, refused, faults, stops>>
    BY DEF start, Loaded, fixed
  <1>2. stops # 0
    BY <1>1 DEF SpoolInv, Down
  <1>3. <<>> \in Seq(Item) /\ ToSet(<<>>) = {} /\ Once(<<>>) /\ Rising(<<>>)
    BY SetOfEmpty
  <1>4. /\ \A d \in Drainer : hand'[d] = <<>> /\ doing'[d] = "idle"
        /\ \A w \in Writer : snap'[w] = <<>>
        /\ hand'["loop"] = <<>> /\ hand'["refresh"] = <<>> /\ doing'["refresh"] = "idle"
    BY <1>1 DEF Drainer, Writer
  <1>5. Held' = ToSet(file) /\ ToSet(file) \subseteq Known /\ Known' \subseteq Known
    BY <1>1, <1>3, <1>4, HeldIsNext DEF SpoolInv, Saved, Known
  <1>6. SpoolTypeOK'
    <2>1. hand' \in [Drainer -> Seq(Item)] /\ snap' \in [Writer -> Seq(Item)]
      BY <1>1, <1>3
    <2>2. doing' \in [Writer -> {"idle", "sending", "saving", "writing"}] /\ doing'["ticker"] \in {"idle", "writing"}
      BY <1>1 DEF Writer
    <2> QED
      BY <1>1, <2>1, <2>2 DEF SpoolInv, SpoolTypeOK
  <1>7. Down' /\ Happened'
    BY <1>1, <1>5 DEF SpoolInv, Down, Happened
  <1>8. Hands'
    BY <1>4 DEF Hands
  <1>9. OnePlace'
    BY <1>1, <1>3, <1>4 DEF SpoolInv, OnePlace, Apart
  <1>10. Saved'
    BY <1>1, <1>3, <1>4, <1>5 DEF Saved, Known
  <1>11. Ordered'
    BY <1>1, <1>3, <1>4 DEF SpoolInv, Ordered, Before
  <1>12. Younger'
    BY <1>1, <1>2 DEF Younger
  <1> QED
    BY <1>1, <1>5, <1>6, <1>7, <1>8, <1>9, <1>10, <1>11, <1>12 DEF SpoolInv

-----------------------------------------------------------------------------
\* The invariant, and what follows from it.

LEMMA SpoolStart ==
    ASSUME SpoolInit
    PROVE  SpoolInv /\ Held = {} /\ ToSet(sent) = {}
  <1>1. <<>> \in Seq(Item) /\ ToSet(<<>>) = {} /\ Once(<<>>) /\ Rising(<<>>)
    BY SetOfEmpty
  <1>2. /\ pending = <<>> /\ file = <<>> /\ sent = <<>> /\ dropped = {} /\ refused = {} /\ kept = {}
        /\ (\A d \in Drainer : hand[d] = <<>> /\ doing[d] = "idle") /\ \A w \in Writer : snap[w] = <<>>
    BY DEF SpoolInit, Drainer, Writer
  <1>3. "loop" \in Drainer /\ "refresh" \in Drainer /\ "ticker" \in Writer
    BY DEF Drainer, Writer
  <1>4. Held = {} /\ Known = {} /\ ToSet(sent) = {}
    BY <1>1, <1>2, <1>3, HeldIs DEF Known
  <1>5. SpoolTypeOK
    <2>1. hand \in [Drainer -> Seq(Item)] /\ snap \in [Writer -> Seq(Item)]
      BY <1>1 DEF SpoolInit
    <2>2. doing \in [Writer -> {"idle", "sending", "saving", "writing"}] /\ doing["ticker"] \in {"idle", "writing"}
      BY <1>3 DEF SpoolInit
    <2>3. count \in 0..MaxItems /\ faults \in 0..MaxFaults /\ stops \in 0..MaxStops
      BY SpoolAssumption DEF SpoolInit
    <2>4. up \in BOOLEAN /\ dirty \in BOOLEAN /\ batch \in BOOLEAN /\ second \in BOOLEAN
      BY DEF SpoolInit
    <2> QED
      BY <1>1, <1>2, <2>1, <2>2, <2>3, <2>4 DEF SpoolTypeOK
  <1>6. Down /\ Happened /\ Hands /\ Saved
    BY <1>1, <1>2, <1>4 DEF SpoolInit, Down, Happened, Hands, Saved
  <1>7. OnePlace /\ Ordered
    BY <1>1, <1>2, <1>3 DEF OnePlace, Ordered, Apart, Before
  <1>8. Younger
    <2>1. FirstInOrder(<<>>, kept)
      BY DEF FirstInOrder
    <2> QED
      BY <1>2, <1>4, <2>1 DEF Younger
  <1> QED
    BY <1>4, <1>5, <1>6, <1>7, <1>8 DEF SpoolInv

LEMMA SpoolStutter ==
    ASSUME SpoolInv, UNCHANGED vars
    PROVE  SpoolInv' /\ UNCHANGED <<up, sent, dropped, refused>> /\ Held' = Held
  <1>1. UNCHANGED <<batch, second, pending, hand, doing, dirty, snap, file, up, count, kept, sent, dropped, refused, faults, stops>>
    BY DEF vars, memory
  <1>2. Held' = Held /\ Known' = Known
    BY <1>1 DEF Held, Known
  <1>3. SpoolTypeOK' /\ Down' /\ Happened' /\ Hands' /\ Saved'
    BY <1>1, <1>2 DEF SpoolInv, SpoolTypeOK, Down, Happened, Hands, Saved
  <1>4. OnePlace' /\ Ordered' /\ Younger'
    BY <1>1, <1>2 DEF SpoolInv, OnePlace, Ordered, Younger, Apart, Before, FirstInOrder
  <1> QED
    BY <1>1, <1>2, <1>3, <1>4 DEF SpoolInv

LEMMA SpoolKept ==
    ASSUME SpoolInv, [SpoolNext]_vars
    PROVE  SpoolInv'
  <1>1. CASE Happens
    BY <1>1, ForwardStep, TurnAwayStep, KeepStep, StageStep DEF Happens
  <1>2. CASE \E d \in Drainer : HandOver(d) \/ (doing[d] = "sending" /\ Fails(d))
    BY <1>2, TakeStep, DeliverStep, RefuseStep, PutBackStep DEF HandOver, Fails
  <1>3. CASE \E w \in Writer : Save(w) \/ writeFails(w)
    BY <1>3, SaveSteps
  <1>4. CASE crash \/ stop \/ start
    BY <1>4, EndStep, StartStep
  <1>5. CASE UNCHANGED vars
    BY <1>5, SpoolStutter
  <1> QED
    BY <1>1, <1>2, <1>3, <1>4, <1>5 DEF SpoolNext

\* Buffer, hands, file and centre stay in step (site/relay.go, site/site.go,
\* site/spool.go), whatever fails and whenever the service ends.
THEOREM SpoolInvariant == SpoolSpec => []SpoolInv
  <1>1. SpoolInit => SpoolInv
    BY SpoolStart
  <1> QED
    BY <1>1, SpoolKept, PTL DEF SpoolSpec

\* The buffer, the hands and the file hold what they are there for.
THEOREM SpoolTypeCorrect == SpoolSpec => []SpoolTypeOK
  <1>1. SpoolInv => SpoolTypeOK
    BY DEF SpoolInv
  <1> QED
    BY <1>1, SpoolInvariant, PTL

\* One pass at a time delivers and saves in the order things happened, and no
\* file holds a report twice (drain, writeJSONFile).
THEOREM DeliveredInOrder == SpoolSpec => []InOrder
  BY InvInOrder, SpoolInvariant, PTL

-----------------------------------------------------------------------------
\* The buffer with its file is a mailbox.

\* A step that leaves what waits, what arrived and what was given up alone.
LEMMA BoxStutters ==
    ASSUME UNCHANGED <<up, sent, dropped, refused>>, Held' = Held
    PROVE  UNCHANGED Box!mvars
  BY DEF Box!mvars

LEMMA BoxItems == Box!Item = Item
  BY DEF Box!Item, Item

LEMMA BoxAccepts ==
    ASSUME SpoolInv, keep \/ stageIP
    PROVE  Box!MNext
  <1>1. up /\ UNCHANGED <<up, sent, refused>>
    BY KeepStep, StageStep
  <1>2. PICK i \in Item, lost \in SUBSET Item :
          /\ i \notin Known /\ lost \subseteq Held
          /\ Held' = (Held \ lost) \cup {i} /\ dropped' = dropped \cup lost
    <2>1. CASE keep
      BY <2>1, KeepStep
    <2>2. CASE stageIP
      <3>1. PICK i \in Item : i \notin Known /\ Held' = Held \cup {i} /\ dropped' = dropped
        BY <2>2, StageStep
      <3>2. Held' = (Held \ {}) \cup {i} /\ dropped' = dropped \cup {} /\ {} \subseteq Held /\ {} \in SUBSET Item
        BY <3>1
      <3> QED
        BY <3>1, <3>2
    <2> QED
      BY <2>1, <2>2
  <1>3. Box!Accept(i, lost)
    BY <1>1, <1>2 DEF Box!Accept, Box!settled, Known
  <1> QED
    BY <1>3, BoxItems DEF Box!MNext

LEMMA BoxArrives ==
    ASSUME SpoolInv, NEW d \in Drainer,
           forward \/ deliver(d) \/ \E got \in {<<>>, Part(hand[d])} : putBack(d, got)
    PROVE  Box!MNext
  <1>1. /\ up /\ UNCHANGED <<up, dropped, refused>> /\ Held' \subseteq Held
        /\ \E some \in SUBSET Item : /\ some \cap ((dropped \cup refused) \ Held) = {}
                                     /\ ToSet(sent') = ToSet(sent) \cup some /\ Held \ Held' \subseteq some
    <2>1. CASE forward
      <3>1. PICK i \in Item : i \notin Known /\ ToSet(sent') = ToSet(sent) \cup {i}
        BY <2>1, ForwardStep
      <3>2. {i} \in SUBSET Item /\ {i} \cap ((dropped \cup refused) \ Held) = {}
        BY <3>1 DEF Known
      <3>3. up /\ UNCHANGED <<up, dropped, refused>> /\ Held' = Held
        BY <2>1, ForwardStep
      <3> QED
        BY <3>1, <3>2, <3>3
    <2>2. CASE deliver(d)
      <3>1. /\ up /\ UNCHANGED <<up, dropped, refused>> /\ Held' \subseteq Held
            /\ \E some \in SUBSET Item : /\ some \subseteq Held /\ ToSet(sent') = ToSet(sent) \cup some
                                         /\ Held \ Held' \subseteq some
        BY <2>2, DeliverStep
      <3> QED
        BY <3>1
    <2>3. CASE \E got \in {<<>>, Part(hand[d])} : putBack(d, got)
      <3>1. /\ up /\ UNCHANGED <<up, dropped, refused>> /\ Held' = Held
            /\ \E some \in SUBSET Item : some \subseteq Held /\ ToSet(sent') = ToSet(sent) \cup some
        BY <2>3, PutBackStep
      <3> QED
        BY <3>1
    <2> QED
      BY <2>1, <2>2, <2>3
  <1>2. PICK some \in SUBSET Item : /\ some \cap ((dropped \cup refused) \ Held) = {}
                                    /\ ToSet(sent') = ToSet(sent) \cup some /\ Held \ Held' \subseteq some
    BY <1>1
  <1>3. Box!Arrive(some)
    BY <1>1, <1>2 DEF Box!Arrive
  <1>4. Item # {}
    <2>1. CASE forward
      BY <2>1, ForwardStep
    <2>2. CASE doing[d] = "sending"
      <3>1. hand[d] \in Seq(Item) /\ hand[d] # <<>>
        BY <2>2, Types DEF SpoolInv, Hands
      <3>2. ToSet(hand[d]) # {} /\ ToSet(hand[d]) \subseteq Item
        BY <3>1, SetOf
      <3> QED
        BY <3>2
    <2> QED
      BY <2>1, <2>2 DEF deliver, putBack
  <1> QED
    BY <1>3, <1>4, BoxItems DEF Box!MNext

LEMMA BoxRefuses ==
    ASSUME SpoolInv, NEW d \in Drainer, refuse(d)
    PROVE  Box!MNext
  <1>1. PICK i \in Item : /\ up /\ UNCHANGED <<up, sent, dropped>>
                          /\ i \in Held /\ Held' = Held \ {i} /\ refused' = refused \cup {i}
    BY RefuseStep
  <1>2. Box!Refuse(i)
    BY <1>1 DEF Box!Refuse
  <1> QED
    BY <1>2, BoxItems DEF Box!MNext

LEMMA BoxEndsAndReturns ==
    ASSUME SpoolInv, crash \/ stop \/ start
    PROVE  Box!MNext
  <1>1. CASE crash \/ stop
    <2>1. /\ up /\ ~up' /\ UNCHANGED <<sent, dropped, refused>> /\ Held' = Held
      BY <1>1, EndStep
    <2>2. up' = FALSE
      BY <1>1 DEF crash, stop
    <2>3. Box!End
      BY <2>1, <2>2 DEF Box!End
    <2> QED
      BY <2>3 DEF Box!MNext
  <1>2. CASE start
    <2>1. ~up /\ UNCHANGED <<sent, dropped, refused>> /\ Held' \subseteq Known
      BY <1>2, StartStep
    <2>2. up' = TRUE
      BY <1>2 DEF start
    <2>3. Box!Return
      BY <2>1, <2>2 DEF Box!Return, Box!settled, Known
    <2> QED
      BY <2>3 DEF Box!MNext
  <1> QED
    BY <1>1, <1>2

\* A buffer with its spool file keeps what a mailbox promises, step by step:
\* what it took waits until the centre has it or has refused it (drain), until
\* it was given up at the limit, or until a restart that finds less on disk
\* (site/spool.go).
THEOREM SpoolIsAMailbox == SpoolSpec => IsMailbox
  <1>1. SpoolInit => Box!MInit
    <2> SUFFICES ASSUME SpoolInit PROVE Box!MInit
      OBVIOUS
    <2>1. Held = {} /\ ToSet(sent) = {} /\ dropped = {} /\ refused = {} /\ up = TRUE
      BY SpoolStart DEF SpoolInit
    <2> QED
      BY <2>1 DEF Box!MInit
  <1>2. SpoolInv /\ [SpoolNext]_vars => [Box!MNext]_(Box!mvars)
    <2> SUFFICES ASSUME SpoolInv, [SpoolNext]_vars PROVE Box!MNext \/ UNCHANGED Box!mvars
      OBVIOUS
    <2>1. CASE Happens
      <3>1. "loop" \in Drainer
        BY DEF Drainer
      <3> QED
        BY <2>1, <3>1, BoxAccepts, BoxArrives, TurnAwayStep, BoxStutters DEF Happens
    <2>2. CASE \E d \in Drainer : HandOver(d) \/ (doing[d] = "sending" /\ Fails(d))
      BY <2>2, TakeStep, BoxStutters, BoxArrives, BoxRefuses DEF HandOver, Fails
    <2>3. CASE \E w \in Writer : Save(w) \/ writeFails(w)
      BY <2>3, SaveSteps, BoxStutters
    <2>4. CASE crash \/ stop \/ start
      BY <2>4, BoxEndsAndReturns
    <2>5. CASE UNCHANGED vars
      BY <2>5, SpoolStutter, BoxStutters
    <2> QED
      BY <2>1, <2>2, <2>3, <2>4, <2>5 DEF SpoolNext
  <1> QED
    BY <1>1, <1>2, SpoolInvariant, PTL DEF SpoolSpec, IsMailbox, Box!MSpec
=============================================================================
