---------------------------- MODULE ClientProofs ----------------------------
(***************************************************************************)
(* TLAPS proofs about the client: the chat session (redirects followed in  *)
(* order, lines that do not depend on how the stream was cut into reads),  *)
(* and the life of the process around it.                                  *)
(***************************************************************************)
EXTENDS ChatSession, ClientJobs, FiniteSetTheorems, SequenceTheorems, TLAPS

\* A non-empty set of naturals has a least element.
LEMMA LeastElement ==
  ASSUME NEW T, T \subseteq Nat, T # {}
  PROVE  \E i \in T : \A j \in T : i <= j
  <1>1. PICK i \in T : \A j \in T : ~(<<j, i>> \in OpToRel(<, Nat))
    BY NatLessThanWellFounded, WFMin
  <1>2. \A j \in T : <<j, i>> \in Nat \X Nat
    OBVIOUS
  <1>3. \A j \in T : ~(j < i)
    BY <1>1, <1>2, Zenon DEF OpToRel
  <1>4. \A j \in T : i <= j
    BY <1>3
  <1> QED
    BY <1>4

\* A bounded set of naturals that is not empty has a greatest element.
LEMMA GreatestElement ==
  ASSUME NEW T, T \subseteq Nat, T # {}, NEW m \in Nat, \A i \in T : i <= m
  PROVE  /\ Max(T) \in T
         /\ \A j \in T : j <= Max(T)
  <1> DEFINE U == {k \in Nat : \A j \in T : j <= k}
  <1>1. PICK k \in U : \A l \in U : k <= l
    <2>1. U \subseteq Nat /\ m \in U
      OBVIOUS
    <2> QED
      BY <2>1, LeastElement
  <1>2. k \in T
    <2>1. SUFFICES ASSUME k \notin T PROVE FALSE
      OBVIOUS
    <2>2. \A j \in T : j <= k /\ j # k /\ j \in Nat
      BY <1>1, <2>1
    <2>3. PICK j \in T : TRUE
      OBVIOUS
    <2>4. k - 1 \in U
      BY <1>1, <2>2, <2>3
    <2> QED
      BY <1>1, <2>4
  <1>3. \E x \in T : \A y \in T : x >= y
    BY <1>1, <1>2
  <1> QED
    BY <1>3 DEF Max

----------------------------------------------------------------------------
\* How many numbers of a set are not greater than i.
Count(N, i) == Cardinality({j \in N : j <= i})

\* The sets that are counted are finite.
LEMMA CountFinite ==
  ASSUME NEW m \in Nat, NEW N \in SUBSET (1..m), NEW i
  PROVE  /\ IsFiniteSet(N) /\ Cardinality(N) \in Nat
         /\ IsFiniteSet({j \in N : j <= i}) /\ Count(N, i) \in Nat
         /\ \A j \in N : j \in Nat /\ 1 <= j /\ j <= m
  <1>1. IsFiniteSet(1..m)
    BY FS_Interval
  <1>2. IsFiniteSet(N)
    BY <1>1, FS_Subset
  <1>3. {j \in N : j <= i} \in SUBSET N
    OBVIOUS
  <1>4. IsFiniteSet({j \in N : j <= i})
    BY <1>2, <1>3, FS_Subset
  <1>5. \A j \in N : j \in Nat /\ 1 <= j /\ j <= m
    OBVIOUS
  <1> QED
    BY <1>2, <1>4, <1>5, FS_CardinalityType DEF Count

\* Counting one number further.
LEMMA CountStep ==
  ASSUME NEW m \in Nat, NEW N \in SUBSET (1..m), NEW i \in Nat
  PROVE  /\ Count(N, i) \in Nat
         /\ i + 1 \in N => Count(N, i + 1) = Count(N, i) + 1
         /\ i + 1 \notin N => Count(N, i + 1) = Count(N, i)
  <1> DEFINE S == {j \in N : j <= i}
  <1>0. \A j \in N : j \in Nat
    OBVIOUS
  <1>1. IsFiniteSet(S) /\ Cardinality(S) \in Nat
    BY CountFinite DEF Count
  <1>2. CASE i + 1 \in N
    <2>1. {j \in N : j <= i + 1} = S \cup {i + 1}
      <3>1. \A j \in N : j <= i + 1 <=> (j <= i \/ j = i + 1)
        BY <1>0
      <3> QED
        BY <1>2, <3>1
    <2>2. i + 1 \notin S
      OBVIOUS
    <2> QED
      BY <1>1, <1>2, <2>1, <2>2, FS_AddElement DEF Count
  <1>3. CASE i + 1 \notin N
    <2>1. {j \in N : j <= i + 1} = S
      <3>1. \A j \in N : j <= i + 1 <=> j <= i
        BY <1>0, <1>3
      <3> QED
        BY <3>1
    <2> QED
      BY <1>1, <1>3, <2>1 DEF Count
  <1> QED
    BY <1>2, <1>3

\* Two numbers of the set at which the count is the same are the same.
LEMMA CountInjective ==
  ASSUME NEW m \in Nat, NEW N \in SUBSET (1..m), NEW i \in N, NEW j \in N,
         Count(N, i) = Count(N, j)
  PROVE  i = j
  <1>1. ASSUME NEW a \in N, NEW b \in N, a < b PROVE Count(N, a) # Count(N, b)
    <2> DEFINE S == {k \in N : k <= a}
               T == {k \in N : k <= b}
    <2>1. IsFiniteSet(T) /\ S \in SUBSET T /\ b \in T /\ b \notin S
      <3>1. IsFiniteSet(T)
        BY CountFinite
      <3>2. \A k \in N : k \in Nat
        OBVIOUS
      <3>3. \A k \in N : k <= a => k <= b
        BY <1>1, <3>2
      <3>4. b <= b /\ ~(b <= a)
        BY <1>1, <3>2
      <3> QED
        BY <3>1, <3>3, <3>4
    <2> HIDE DEF S, T
    <2>2. Cardinality(S) # Cardinality(T)
      BY <2>1, FS_Subset
    <2> QED
      BY <2>2 DEF Count, S, T
  <1> QED
    BY <1>1

\* Every count up to the size of the set is reached at a number of the set.
LEMMA CountReaches ==
  ASSUME NEW m \in Nat, NEW N \in SUBSET (1..m), NEW n \in 1..Cardinality(N)
  PROVE  \E i \in N : Count(N, i) = n
  <1>1. /\ IsFiniteSet(N) /\ Cardinality(N) \in Nat
        /\ \A j \in N : j \in Nat /\ 1 <= j /\ j <= m
        /\ \A j \in Nat : Count(N, j) \in Nat
    BY CountFinite
  <1>2. Count(N, m) = Cardinality(N)
    <2>1. {j \in N : j <= m} = N
      BY <1>1
    <2> QED
      BY <2>1 DEF Count
  <1>3. Count(N, 0) = 0
    <2>1. \A j \in N : ~(j <= 0)
      BY <1>1
    <2>2. {j \in N : j <= 0} = {}
      BY <2>1
    <2> QED
      BY <2>2, FS_EmptySet DEF Count
  <1> DEFINE U == {k \in Nat : Count(N, k) >= n}
  <1>4. PICK k \in U : \A l \in U : k <= l
    <2>1. U \subseteq Nat /\ m \in U
      BY <1>1, <1>2
    <2> QED
      BY <2>1, LeastElement
  <1>5. k # 0
    BY <1>1, <1>3, <1>4
  <1>6. k - 1 \in Nat /\ k - 1 \notin U
    BY <1>4, <1>5
  <1>7. /\ Count(N, k - 1) \in Nat /\ Count(N, k - 1) < n
        /\ Count(N, k) \in Nat /\ Count(N, k) >= n
    BY <1>1, <1>4, <1>6
  <1>8. (k - 1) + 1 = k
    BY <1>4
  <1>9. k \in N /\ Count(N, k) = Count(N, k - 1) + 1
    <2>1. /\ (k - 1) + 1 \in N => Count(N, (k - 1) + 1) = Count(N, k - 1) + 1
          /\ (k - 1) + 1 \notin N => Count(N, (k - 1) + 1) = Count(N, k - 1)
      BY <1>6, CountStep
    <2> QED
      BY <1>7, <1>8, <2>1
  <1> QED
    BY <1>1, <1>7, <1>9
----------------------------------------------------------------------------
\* Lines and newlines are texts; a stream carries them with a connection.
Texts == {"newline", "join", "me", "partner", "FAILED"} \X Nat
Tokens == [conn : Nat, text : Texts]

\* The positions of the newlines are positions of the stream.
LEMMA NewLinesType ==
  ASSUME NEW data \in Seq(Tokens)
  PROVE  /\ Len(data) \in Nat
         /\ NewLines(data) \in SUBSET (1..Len(data))
         /\ IsFiniteSet(NewLines(data)) /\ Cardinality(NewLines(data)) \in Nat
         /\ \A i \in 1..Len(data) : data[i] \in Tokens
         /\ \A i : i \in NewLines(data) <=> i \in 1..Len(data) /\ data[i].text = NewLine
  <1>1. /\ Len(data) \in Nat /\ NewLines(data) \in SUBSET (1..Len(data))
        /\ \A i \in 1..Len(data) : data[i] \in Tokens
    BY DEF NewLines
  <1>2. IsFiniteSet(NewLines(data)) /\ Cardinality(NewLines(data)) \in Nat
    BY <1>1, CountFinite
  <1> QED
    BY <1>1, <1>2 DEF NewLines

\* NthNewLine is the one newline at which n of them have been counted.
LEMMA NthNewLineProperties ==
  ASSUME NEW data \in Seq(Tokens), NEW n \in 1..Cardinality(NewLines(data))
  PROVE  /\ NthNewLine(data, n) \in NewLines(data)
         /\ Count(NewLines(data), NthNewLine(data, n)) = n
         /\ \A i \in NewLines(data) : Count(NewLines(data), i) = n => i = NthNewLine(data, n)
  <1>1. \E i \in NewLines(data) : Count(NewLines(data), i) = n
    BY NewLinesType, CountReaches
  <1>2. /\ NthNewLine(data, n) \in NewLines(data)
        /\ Count(NewLines(data), NthNewLine(data, n)) = n
    BY <1>1 DEF NthNewLine, Count
  <1>3. ASSUME NEW i \in NewLines(data), Count(NewLines(data), i) = n
        PROVE  i = NthNewLine(data, n)
    BY <1>2, <1>3, NewLinesType, CountInjective
  <1> QED
    BY <1>2, <1>3

\* What comes between the newline before a position and the position.
IsLastIndex(data, i, a) ==
  /\ a \in 0..(i - 1)
  /\ a = 0 \/ a \in NewLines(data)
  /\ \A j \in NewLines(data) : j < i => j <= a

\* LastIndex is that newline, or 0.
LEMMA LastIndexProperties ==
  ASSUME NEW data \in Seq(Tokens), NEW i \in 1..(Len(data) + 1)
  PROVE  /\ IsLastIndex(data, i, LastIndex(data, i))
         /\ \A a : IsLastIndex(data, i, a) => a = LastIndex(data, i)
  <1> DEFINE T == {0} \cup {j \in NewLines(data) : j < i}
  <1>1. /\ Len(data) \in Nat /\ i \in Nat /\ i >= 1
        /\ \A j \in NewLines(data) : j \in Nat /\ 1 <= j /\ j <= Len(data)
    BY NewLinesType
  <1>2. T \subseteq Nat /\ T # {} /\ i - 1 \in Nat /\ \A j \in T : j <= i - 1
    BY <1>1
  <1>3. LastIndex(data, i) = Max(T)
    BY DEF LastIndex
  <1> HIDE DEF T
  <1>4. Max(T) \in T /\ \A j \in T : j <= Max(T)
    BY <1>2, GreatestElement
  <1>5. IsLastIndex(data, i, LastIndex(data, i))
    <2>1. Max(T) \in 0..(i - 1)
      <3>1. Max(T) \in Nat /\ Max(T) <= i - 1
        BY <1>2, <1>4
      <3> QED
        BY <1>1, <3>1
    <2>2. Max(T) = 0 \/ Max(T) \in NewLines(data)
      BY <1>4 DEF T
    <2>3. \A j \in NewLines(data) : j < i => j <= Max(T)
      BY <1>4 DEF T
    <2> QED
      BY <1>3, <2>1, <2>2, <2>3 DEF IsLastIndex
  <1>6. ASSUME NEW a, IsLastIndex(data, i, a) PROVE a = LastIndex(data, i)
    <2> DEFINE b == LastIndex(data, i)
    <2>1. /\ a \in Nat /\ b \in Nat /\ a < i /\ b < i
          /\ a = 0 \/ a \in NewLines(data)
          /\ b = 0 \/ b \in NewLines(data)
          /\ \A j \in NewLines(data) : j < i => j <= a /\ j <= b
      BY <1>1, <1>5, <1>6 DEF IsLastIndex
    <2> HIDE DEF b
    <2>2. a <= b /\ b <= a
      BY <2>1
    <2>3. a = b
      BY <2>1, <2>2
    <2> QED
      BY <2>3 DEF b
  <1> QED
    BY <1>5, <1>6

\* The newlines of two streams in a row.
LEMMA NewLinesJoin ==
  ASSUME NEW p \in Seq(Tokens), NEW q \in Seq(Tokens)
  PROVE  /\ p \o q \in Seq(Tokens) /\ Len(p) \in Nat /\ Len(q) \in Nat
         /\ Len(p \o q) = Len(p) + Len(q)
         /\ \A i \in 1..Len(p) : (p \o q)[i] = p[i]
         /\ \A i \in 1..Len(q) : (p \o q)[Len(p) + i] = q[i]
         /\ \A i \in 1..Len(p) : i \in NewLines(p \o q) <=> i \in NewLines(p)
         /\ \A i \in 1..Len(q) : Len(p) + i \in NewLines(p \o q) <=> i \in NewLines(q)
  <1> DEFINE r == p \o q
  <1>1. /\ r \in Seq(Tokens) /\ Len(p) \in Nat /\ Len(q) \in Nat
        /\ Len(r) = Len(p) + Len(q)
        /\ \A i \in 1..Len(p) : r[i] = p[i] /\ i \in 1..Len(r)
        /\ \A i \in 1..Len(q) : r[Len(p) + i] = q[i] /\ Len(p) + i \in 1..Len(r)
    BY ConcatProperties, LenProperties
  <1> HIDE DEF r
  <1>2. /\ \A i : i \in NewLines(p) <=> i \in 1..Len(p) /\ p[i].text = NewLine
        /\ \A i : i \in NewLines(q) <=> i \in 1..Len(q) /\ q[i].text = NewLine
    BY NewLinesType
  <1>3. \A i : i \in NewLines(r) <=> i \in 1..Len(r) /\ r[i].text = NewLine
    BY <1>1, NewLinesType
  <1>4. ASSUME NEW i \in 1..Len(p) PROVE i \in NewLines(r) <=> i \in NewLines(p)
    <2>1. r[i] = p[i] /\ i \in 1..Len(r)
      BY <1>1
    <2> QED
      BY <1>2, <1>3, <2>1
  <1>5. ASSUME NEW i \in 1..Len(q) PROVE Len(p) + i \in NewLines(r) <=> i \in NewLines(q)
    <2>1. r[Len(p) + i] = q[i] /\ Len(p) + i \in 1..Len(r)
      BY <1>1
    <2> QED
      BY <1>2, <1>3, <2>1
  <1> QED
    BY <1>1, <1>4, <1>5 DEF r

\* Counting newlines through two streams in a row.
LEMMA CountJoin ==
  ASSUME NEW p \in Seq(Tokens), NEW q \in Seq(Tokens)
  PROVE  /\ \A i \in 0..Len(p) : Count(NewLines(p \o q), i) = Count(NewLines(p), i)
         /\ \A i \in 0..Len(q) : Count(NewLines(p \o q), Len(p) + i)
                                   = Cardinality(NewLines(p)) + Count(NewLines(q), i)
         /\ Cardinality(NewLines(p \o q))
              = Cardinality(NewLines(p)) + Cardinality(NewLines(q))
  <1> DEFINE r == p \o q
  <1>1. /\ r \in Seq(Tokens) /\ Len(p) \in Nat /\ Len(q) \in Nat /\ Len(r) = Len(p) + Len(q)
        /\ Len(r) \in Nat
        /\ \A i \in 1..Len(p) : i \in NewLines(r) <=> i \in NewLines(p)
        /\ \A i \in 1..Len(q) : Len(p) + i \in NewLines(r) <=> i \in NewLines(q)
    BY NewLinesJoin
  <1> HIDE DEF r
  <1>2. /\ NewLines(p) \in SUBSET (1..Len(p)) /\ NewLines(q) \in SUBSET (1..Len(q))
        /\ NewLines(r) \in SUBSET (1..Len(r))
        /\ \A i \in Nat : /\ Count(NewLines(p), i) \in Nat /\ Count(NewLines(q), i) \in Nat
                          /\ Count(NewLines(r), i) \in Nat
        /\ Cardinality(NewLines(p)) \in Nat /\ Cardinality(NewLines(q)) \in Nat
    BY <1>1, NewLinesType, CountFinite
  <1>3. ASSUME NEW i \in 0..Len(p) PROVE Count(NewLines(r), i) = Count(NewLines(p), i)
    <2>1. {j \in NewLines(r) : j <= i} = {j \in NewLines(p) : j <= i}
      <3>1. \A j : j \in NewLines(r) /\ j <= i => j \in 1..Len(p)
        <4>1. \A j \in NewLines(r) : j \in Nat /\ 1 <= j
          <5>1. Len(r) \in Nat /\ NewLines(r) \in SUBSET (1..Len(r))
            BY <1>1, <1>2
          <5> QED
            BY <5>1
        <4>2. i \in Nat /\ i <= Len(p)
          BY <1>1
        <4> QED
          BY <1>1, <4>1, <4>2
      <3>2. \A j : j \in NewLines(p) => j \in 1..Len(p)
        BY <1>2
      <3>3. \A j : (j \in NewLines(r) /\ j <= i) <=> (j \in NewLines(p) /\ j <= i)
        BY <1>1, <3>1, <3>2
      <3> QED
        BY <3>3
    <2> QED
      BY <2>1 DEF Count
  <1>4. ASSUME NEW t \in Seq(Tokens)
        PROVE  Count(NewLines(t), Len(t)) = Cardinality(NewLines(t)) /\ Count(NewLines(t), 0) = 0
    <2>1. \A j \in NewLines(t) : j <= Len(t) /\ ~(j <= 0)
      BY NewLinesType
    <2>2. {j \in NewLines(t) : j <= Len(t)} = NewLines(t) /\ {j \in NewLines(t) : j <= 0} = {}
      BY <2>1
    <2> QED
      BY <2>2, FS_EmptySet DEF Count
  <1> DEFINE Off(i) == Count(NewLines(r), Len(p) + i)
                         # Cardinality(NewLines(p)) + Count(NewLines(q), i)
             T == {i \in Nat : i <= Len(q) /\ Off(i)}
  <1>5. T = {}
    <2>1. SUFFICES ASSUME T # {} PROVE FALSE
      OBVIOUS
    <2>2. PICK i \in T : \A j \in T : i <= j
      <3>1. T \subseteq Nat
        OBVIOUS
      <3> QED
        BY <2>1, <3>1, LeastElement
    <2>3. i # 0
      <3>1. Len(p) \in 0..Len(p) /\ Len(p) + 0 = Len(p)
        BY <1>1
      <3> QED
        BY <1>2, <1>3, <1>4, <2>2, <3>1
    <2>4. i \in Nat /\ i - 1 \in Nat /\ i <= Len(q) /\ i - 1 <= Len(q) /\ i - 1 \notin T /\ i \in 1..Len(q)
      BY <1>1, <2>2, <2>3
    <2>5. Count(NewLines(r), Len(p) + (i - 1)) = Cardinality(NewLines(p)) + Count(NewLines(q), i - 1)
      BY <2>4
    <2>6. (i - 1) + 1 = i /\ (Len(p) + (i - 1)) + 1 = Len(p) + i /\ Len(p) + (i - 1) \in Nat
      BY <1>1, <2>4
    <2>7. /\ i \in NewLines(q) => Count(NewLines(q), i) = Count(NewLines(q), i - 1) + 1
          /\ i \notin NewLines(q) => Count(NewLines(q), i) = Count(NewLines(q), i - 1)
      <3>1. /\ (i - 1) + 1 \in NewLines(q)
                 => Count(NewLines(q), (i - 1) + 1) = Count(NewLines(q), i - 1) + 1
            /\ (i - 1) + 1 \notin NewLines(q)
                 => Count(NewLines(q), (i - 1) + 1) = Count(NewLines(q), i - 1)
        BY <1>1, <1>2, <2>4, CountStep
      <3> QED
        BY <2>6, <3>1
    <2>8. /\ Len(p) + i \in NewLines(r)
               => Count(NewLines(r), Len(p) + i) = Count(NewLines(r), Len(p) + (i - 1)) + 1
          /\ Len(p) + i \notin NewLines(r)
               => Count(NewLines(r), Len(p) + i) = Count(NewLines(r), Len(p) + (i - 1))
      <3> DEFINE k == Len(p) + (i - 1)
      <3>1. k \in Nat
        BY <2>6
      <3> HIDE DEF k
      <3>2. /\ k + 1 \in NewLines(r) => Count(NewLines(r), k + 1) = Count(NewLines(r), k) + 1
            /\ k + 1 \notin NewLines(r) => Count(NewLines(r), k + 1) = Count(NewLines(r), k)
        BY <1>1, <1>2, <3>1, CountStep
      <3>3. k + 1 = Len(p) + i
        BY <2>6 DEF k
      <3> QED
        BY <3>2, <3>3 DEF k
    <2>9. Len(p) + i \in NewLines(r) <=> i \in NewLines(q)
      BY <1>1, <2>4
    <2>10. Count(NewLines(r), Len(p) + i) # Cardinality(NewLines(p)) + Count(NewLines(q), i)
      BY <2>2
    <2>11. Count(NewLines(q), i - 1) \in Nat /\ Cardinality(NewLines(p)) \in Nat
      BY <1>2, <2>4
    <2> HIDE DEF T, Off
    <2> QED
      BY <2>5, <2>7, <2>8, <2>9, <2>10, <2>11
  <1>6. \A i \in 0..Len(q) : Count(NewLines(r), Len(p) + i)
                               = Cardinality(NewLines(p)) + Count(NewLines(q), i)
    BY <1>1, <1>5
  <1>7. Cardinality(NewLines(r)) = Cardinality(NewLines(p)) + Cardinality(NewLines(q))
    <2>1. Len(q) \in 0..Len(q)
      BY <1>1
    <2> QED
      BY <1>1, <1>4, <1>6, <2>1
  <1> QED
    BY <1>3, <1>6, <1>7 DEF r

\* A stream that is empty or ends in a newline.
Whole(p) == p = <<>> \/ Len(p) \in NewLines(p)

\* After whole lines the search for the last newline does not go back.
LEMMA LastIndexJoin ==
  ASSUME NEW p \in Seq(Tokens), NEW q \in Seq(Tokens), Whole(p)
  PROVE  /\ \A i \in 1..Len(p) : LastIndex(p \o q, i) = LastIndex(p, i)
         /\ \A i \in 1..(Len(q) + 1) : LastIndex(p \o q, Len(p) + i) = Len(p) + LastIndex(q, i)
  <1> DEFINE r == p \o q
  <1>1. /\ r \in Seq(Tokens) /\ Len(p) \in Nat /\ Len(q) \in Nat /\ Len(r) = Len(p) + Len(q)
        /\ \A i \in 1..Len(p) : i \in NewLines(r) <=> i \in NewLines(p)
        /\ \A i \in 1..Len(q) : Len(p) + i \in NewLines(r) <=> i \in NewLines(q)
    BY NewLinesJoin
  <1> HIDE DEF r
  <1>2. /\ \A j \in NewLines(r) : j \in Nat /\ 1 <= j /\ j <= Len(p) + Len(q)
        /\ \A j \in NewLines(p) : j \in Nat /\ 1 <= j /\ j <= Len(p)
        /\ \A j \in NewLines(q) : j \in Nat /\ 1 <= j /\ j <= Len(q)
    <2>1. /\ NewLines(r) \in SUBSET (1..(Len(p) + Len(q))) /\ NewLines(p) \in SUBSET (1..Len(p))
          /\ NewLines(q) \in SUBSET (1..Len(q))
      BY <1>1, NewLinesType
    <2> QED
      BY <1>1, <2>1
  <1>3. ASSUME NEW i \in 1..Len(p) PROVE LastIndex(r, i) = LastIndex(p, i)
    <2> DEFINE a == LastIndex(p, i)
    <2>1. i \in Nat /\ i \in 1..(Len(p) + 1) /\ i \in 1..(Len(r) + 1) /\ i <= Len(p)
      BY <1>1
    <2>2. IsLastIndex(p, i, a)
      BY <2>1, LastIndexProperties
    <2> HIDE DEF a
    <2>3. a \in 0..(i - 1) /\ (a = 0 \/ a \in NewLines(p))
          /\ \A j \in NewLines(p) : j < i => j <= a
      BY <2>2 DEF IsLastIndex
    <2>4. a = 0 \/ a \in NewLines(r)
      BY <1>1, <1>2, <2>3
    <2>5. ASSUME NEW j \in NewLines(r), j < i PROVE j <= a
      <3>1. j \in 1..Len(p)
        BY <1>1, <1>2, <2>1, <2>5
      <3> QED
        BY <1>1, <2>3, <2>5, <3>1
    <2>6. IsLastIndex(r, i, a)
      BY <2>3, <2>4, <2>5 DEF IsLastIndex
    <2> QED
      BY <1>1, <2>1, <2>6, LastIndexProperties DEF a
  <1>4. ASSUME NEW i \in 1..(Len(q) + 1) PROVE LastIndex(r, Len(p) + i) = Len(p) + LastIndex(q, i)
    <2> DEFINE a == LastIndex(q, i)
    <2>1. i \in Nat /\ i >= 1 /\ i <= Len(q) + 1 /\ Len(p) + i \in 1..(Len(r) + 1)
      BY <1>1
    <2>2. IsLastIndex(q, i, a)
      BY LastIndexProperties
    <2> HIDE DEF a
    <2>3. a \in 0..(i - 1) /\ (a = 0 \/ a \in NewLines(q))
          /\ \A j \in NewLines(q) : j < i => j <= a
      BY <2>2 DEF IsLastIndex
    <2>4. a \in Nat /\ a <= i - 1 /\ Len(p) + a \in 0..((Len(p) + i) - 1)
      BY <1>1, <2>1, <2>3
    <2>5. Len(p) + a = 0 \/ Len(p) + a \in NewLines(r)
      <3>1. CASE a = 0
        <4>1. Len(p) = 0 \/ Len(p) \in NewLines(p)
          BY EmptySeq DEF Whole
        <4> QED
          BY <1>1, <1>2, <3>1, <4>1
      <3>2. CASE a # 0
        <4>1. a \in NewLines(q) /\ a \in 1..Len(q)
          BY <1>1, <1>2, <2>3, <3>2
        <4> QED
          BY <1>1, <4>1
      <3> QED
        BY <3>1, <3>2
    <2>6. ASSUME NEW j \in NewLines(r), j < Len(p) + i PROVE j <= Len(p) + a
      <3>1. j \in Nat /\ j <= Len(p) + Len(q)
        BY <1>2
      <3>2. CASE j <= Len(p)
        BY <1>1, <2>4, <3>1, <3>2
      <3>3. CASE j > Len(p)
        <4>1. j - Len(p) \in 1..Len(q) /\ Len(p) + (j - Len(p)) = j /\ j - Len(p) < i
          BY <1>1, <2>1, <2>6, <3>1, <3>3
        <4>2. j - Len(p) \in NewLines(q)
          BY <1>1, <4>1
        <4>3. j - Len(p) <= a
          BY <2>3, <4>1, <4>2
        <4> QED
          BY <1>1, <2>4, <3>1, <4>3
      <3> QED
        BY <1>1, <3>1, <3>2, <3>3
    <2>7. IsLastIndex(r, Len(p) + i, Len(p) + a)
      BY <2>4, <2>5, <2>6 DEF IsLastIndex
    <2> QED
      BY <1>1, <2>1, <2>7, LastIndexProperties DEF a
  <1> QED
    BY <1>3, <1>4 DEF r

\* splitMessages: one part for every newline, from the newline before.
LEMMA PartsProperties ==
  ASSUME NEW data \in Seq(Tokens)
  PROVE  /\ Parts(data) \in Seq(Seq(Tokens))
         /\ Len(Parts(data)) = Cardinality(NewLines(data))
         /\ \A n \in 1..Cardinality(NewLines(data)) :
              Parts(data)[n] = SubSeq(data, LastIndex(data, NthNewLine(data, n)) + 1,
                                      NthNewLine(data, n) - 1)
  <1> DEFINE c == Cardinality(NewLines(data))
             Part(n) == SubSeq(data, LastIndex(data, NthNewLine(data, n)) + 1,
                               NthNewLine(data, n) - 1)
  <1>1. c \in Nat
    BY NewLinesType
  <1>2. Parts(data) = [n \in 1..c |-> Part(n)]
    BY DEF Parts
  <1>3. ASSUME NEW n \in 1..c PROVE Part(n) \in Seq(Tokens)
    <2>1. NthNewLine(data, n) \in NewLines(data)
      BY NthNewLineProperties
    <2>2. NthNewLine(data, n) \in 1..Len(data) /\ Len(data) \in Nat
      BY <2>1, NewLinesType
    <2> DEFINE i == NthNewLine(data, n)
               a == LastIndex(data, i)
    <2>3. IsLastIndex(data, i, a)
      BY <2>2, LastIndexProperties
    <2>4. a \in Nat /\ i \in Nat /\ i <= Len(data)
      BY <2>2, <2>3 DEF IsLastIndex
    <2> HIDE DEF i, a
    <2>5. \A j \in (a + 1)..(i - 1) : data[j] \in Tokens
      BY <2>2, <2>4
    <2>6. SubSeq(data, a + 1, i - 1) \in Seq(Tokens)
      BY <2>4, <2>5, SubSeqProperties
    <2> QED
      BY <2>6 DEF i, a
  <1> HIDE DEF c, Part
  <1>4. [n \in 1..c |-> Part(n)] \in Seq(Seq(Tokens))
    BY <1>1, <1>3
  <1>5. Len([n \in 1..c |-> Part(n)]) = c
    BY <1>1
  <1> QED
    BY <1>2, <1>4, <1>5 DEF c, Part

\* A slice of two streams in a row that lies in one of them.
LEMMA SliceJoin ==
  ASSUME NEW p \in Seq(Tokens), NEW q \in Seq(Tokens)
  PROVE  /\ \A a \in Nat, i \in Nat : i <= Len(p) + 1
              => SubSeq(p \o q, a + 1, i - 1) = SubSeq(p, a + 1, i - 1)
         /\ \A a \in Nat, i \in Nat : i <= Len(q) + 1
              => SubSeq(p \o q, Len(p) + a + 1, Len(p) + i - 1) = SubSeq(q, a + 1, i - 1)
  <1> DEFINE r == p \o q
  <1>1. /\ r \in Seq(Tokens) /\ Len(p) \in Nat /\ Len(q) \in Nat /\ Len(r) = Len(p) + Len(q)
        /\ \A i \in 1..Len(p) : r[i] = p[i]
        /\ \A i \in 1..Len(q) : r[Len(p) + i] = q[i]
    BY NewLinesJoin
  <1> HIDE DEF r
  <1>2. /\ \A i \in 1..Len(r) : r[i] \in Tokens
        /\ \A i \in 1..Len(p) : p[i] \in Tokens
        /\ \A i \in 1..Len(q) : q[i] \in Tokens
    BY <1>1, ElementOfSeq
  <1>3. ASSUME NEW a \in Nat, NEW i \in Nat, i <= Len(p) + 1
        PROVE  SubSeq(r, a + 1, i - 1) = SubSeq(p, a + 1, i - 1)
    <2>1. \A j \in (a + 1)..(i - 1) : r[j] \in Tokens /\ p[j] \in Tokens /\ r[j] = p[j]
      BY <1>1, <1>2, <1>3
    <2> DEFINE s == SubSeq(r, a + 1, i - 1)
               t == SubSeq(p, a + 1, i - 1)
               m == a + 1
               n == i - 1
    <2>2. m \in Int /\ n \in Int
      OBVIOUS
    <2>3. /\ s \in Seq(Tokens) /\ Len(s) = (IF m <= n THEN n - m + 1 ELSE 0)
          /\ \A k \in 1..(n - m + 1) : s[k] = r[m + k - 1]
      BY <2>1, <2>2, SubSeqProperties
    <2>4. /\ t \in Seq(Tokens) /\ Len(t) = (IF m <= n THEN n - m + 1 ELSE 0)
          /\ \A k \in 1..(n - m + 1) : t[k] = p[m + k - 1]
      BY <2>1, <2>2, SubSeqProperties
    <2> HIDE DEF s, t
    <2>5. \A k \in 1..Len(s) : s[k] = t[k]
      BY <2>1, <2>2, <2>3, <2>4
    <2>6. s = t
      BY <2>3, <2>4, <2>5, SeqEqual
    <2> QED
      BY <2>6 DEF s, t
  <1>4. ASSUME NEW a \in Nat, NEW i \in Nat, i <= Len(q) + 1
        PROVE  SubSeq(r, Len(p) + a + 1, Len(p) + i - 1) = SubSeq(q, a + 1, i - 1)
    <2> DEFINE s == SubSeq(r, Len(p) + a + 1, Len(p) + i - 1)
               t == SubSeq(q, a + 1, i - 1)
    <2>1. ASSUME NEW j \in (Len(p) + a + 1)..(Len(p) + i - 1) PROVE r[j] \in Tokens
      BY <1>1, <1>2, <1>4
    <2>2. ASSUME NEW j \in (a + 1)..(i - 1) PROVE q[j] \in Tokens /\ r[Len(p) + j] = q[j]
      BY <1>1, <1>2, <1>4
    <2>3. /\ s \in Seq(Tokens)
          /\ Len(s) = (IF Len(p) + a + 1 <= Len(p) + i - 1
                         THEN (Len(p) + i - 1) - (Len(p) + a + 1) + 1 ELSE 0)
          /\ \A k \in 1..((Len(p) + i - 1) - (Len(p) + a + 1) + 1) : s[k] = r[(Len(p) + a + 1) + k - 1]
      <3>1. Len(p) + a + 1 \in Int /\ Len(p) + i - 1 \in Int
        BY <1>1
      <3> QED
        BY <2>1, <3>1, SubSeqProperties
    <2>4. /\ t \in Seq(Tokens) /\ Len(t) = (IF a + 1 <= i - 1 THEN (i - 1) - (a + 1) + 1 ELSE 0)
          /\ \A k \in 1..((i - 1) - (a + 1) + 1) : t[k] = q[(a + 1) + k - 1]
      BY <2>2, SubSeqProperties
    <2> HIDE DEF s, t
    <2>5. Len(s) = Len(t) /\ Len(t) \in Nat /\ (Len(t) # 0 => Len(t) = (i - 1) - a)
      BY <1>1, <2>3, <2>4
    <2>6. ASSUME NEW k \in 1..Len(s) PROVE s[k] = t[k]
      <3>1. k \in Nat /\ a + k \in (a + 1)..(i - 1) /\ k \in 1..((i - 1) - (a + 1) + 1)
        BY <2>5
      <3>2. s[k] = r[Len(p) + (a + k)]
        <4>1. (Len(p) + a + 1) + k - 1 = Len(p) + (a + k)
              /\ (Len(p) + i - 1) - (Len(p) + a + 1) + 1 = (i - 1) - (a + 1) + 1
          BY <1>1, <3>1
        <4> QED
          BY <2>3, <3>1, <4>1
      <3>3. t[k] = q[a + k]
        <4>1. (a + 1) + k - 1 = a + k
          BY <3>1
        <4> QED
          BY <2>4, <3>1, <4>1
      <3> QED
        BY <2>2, <3>1, <3>2, <3>3
    <2>7. s = t
      BY <2>3, <2>4, <2>5, <2>6, SeqEqual
    <2> QED
      BY <2>7 DEF s, t
  <1> QED
    BY <1>3, <1>4 DEF r

\* Whole lines and what follows them are split independently.
LEMMA PartsJoin ==
  ASSUME NEW p \in Seq(Tokens), NEW q \in Seq(Tokens), Whole(p)
  PROVE  /\ Parts(p \o q) = Parts(p) \o Parts(q)
         /\ Rest(p \o q) = Rest(q)
  <1> DEFINE r == p \o q
             cp == Cardinality(NewLines(p))
             cq == Cardinality(NewLines(q))
  <1>1. /\ r \in Seq(Tokens) /\ Len(p) \in Nat /\ Len(q) \in Nat /\ Len(r) = Len(p) + Len(q)
        /\ \A i \in 1..Len(p) : i \in NewLines(r) <=> i \in NewLines(p)
        /\ \A i \in 1..Len(q) : Len(p) + i \in NewLines(r) <=> i \in NewLines(q)
    BY NewLinesJoin
  <1>2. /\ \A i \in 0..Len(p) : Count(NewLines(r), i) = Count(NewLines(p), i)
        /\ \A i \in 0..Len(q) : Count(NewLines(r), Len(p) + i) = cp + Count(NewLines(q), i)
        /\ Cardinality(NewLines(r)) = cp + cq
    BY CountJoin
  <1>3. /\ \A i \in 1..Len(p) : LastIndex(r, i) = LastIndex(p, i)
        /\ \A i \in 1..(Len(q) + 1) : LastIndex(r, Len(p) + i) = Len(p) + LastIndex(q, i)
    BY LastIndexJoin
  <1>4. /\ \A a \in Nat, i \in Nat : i <= Len(p) + 1
             => SubSeq(r, a + 1, i - 1) = SubSeq(p, a + 1, i - 1)
        /\ \A a \in Nat, i \in Nat : i <= Len(q) + 1
             => SubSeq(r, Len(p) + a + 1, Len(p) + i - 1) = SubSeq(q, a + 1, i - 1)
    BY SliceJoin
  <1>5. cp \in Nat /\ cq \in Nat
    BY NewLinesType
  <1> HIDE DEF r
  <1>6. ASSUME NEW n \in 1..cp PROVE Parts(r)[n] = Parts(p)[n]
    <2> DEFINE i == NthNewLine(p, n)
    <2>1. i \in NewLines(p) /\ Count(NewLines(p), i) = n
      BY NthNewLineProperties
    <2> HIDE DEF i
    <2>2. i \in 1..Len(p)
      BY <2>1, NewLinesType
    <2>3. i \in NewLines(r) /\ Count(NewLines(r), i) = n
      BY <1>1, <1>2, <2>1, <2>2
    <2>4. n \in 1..Cardinality(NewLines(r))
      BY <1>2, <1>5
    <2>5. i = NthNewLine(r, n)
      BY <1>1, <2>3, <2>4, NthNewLineProperties
    <2>6. LastIndex(r, i) = LastIndex(p, i) /\ LastIndex(p, i) \in Nat /\ i \in Nat /\ i <= Len(p) + 1
      <3>1. i \in 1..(Len(p) + 1) /\ i \in Nat /\ i <= Len(p) + 1
        BY <1>1, <2>2
      <3>2. IsLastIndex(p, i, LastIndex(p, i))
        BY <3>1, LastIndexProperties
      <3> QED
        BY <1>3, <2>2, <3>1, <3>2 DEF IsLastIndex
    <2>7. Parts(r)[n] = SubSeq(r, LastIndex(r, i) + 1, i - 1)
      BY <1>1, <2>4, <2>5, PartsProperties
    <2>8. Parts(p)[n] = SubSeq(p, LastIndex(p, i) + 1, i - 1)
      BY PartsProperties DEF i
    <2> QED
      BY <1>4, <2>6, <2>7, <2>8
  <1>7. ASSUME NEW n \in 1..cq PROVE Parts(r)[cp + n] = Parts(q)[n]
    <2> DEFINE i == NthNewLine(q, n)
    <2>1. i \in NewLines(q) /\ Count(NewLines(q), i) = n
      BY NthNewLineProperties
    <2> HIDE DEF i
    <2>2. i \in 1..Len(q) /\ i \in 0..Len(q) /\ i \in Nat /\ i \in 1..(Len(q) + 1) /\ i <= Len(q) + 1
      <3>1. i \in 1..Len(q)
        BY <2>1, NewLinesType
      <3> QED
        BY <1>1, <3>1
    <2>3. Len(p) + i \in NewLines(r) /\ Count(NewLines(r), Len(p) + i) = cp + n
      BY <1>1, <1>2, <2>1, <2>2
    <2>4. cp + n \in 1..Cardinality(NewLines(r))
      BY <1>2, <1>5
    <2>5. Len(p) + i = NthNewLine(r, cp + n)
      BY <1>1, <2>3, <2>4, NthNewLineProperties
    <2>6. LastIndex(r, Len(p) + i) = Len(p) + LastIndex(q, i) /\ LastIndex(q, i) \in Nat
      <3>1. IsLastIndex(q, i, LastIndex(q, i))
        BY <2>2, LastIndexProperties
      <3> QED
        BY <1>3, <2>2, <3>1 DEF IsLastIndex
    <2>7. Parts(r)[cp + n] = SubSeq(r, LastIndex(r, Len(p) + i) + 1, Len(p) + i - 1)
      <3> DEFINE k == NthNewLine(r, cp + n)
      <3>1. Parts(r)[cp + n] = SubSeq(r, LastIndex(r, k) + 1, k - 1)
        BY <1>1, <2>4, PartsProperties
      <3>2. Len(p) + i = k
        BY <2>5
      <3> HIDE DEF k
      <3>3. Len(p) + i \in Nat /\ k \in Nat /\ Len(p) + i - 1 = k - 1
        BY <1>1, <2>2, <3>2
      <3> QED
        BY <3>1, <3>2, <3>3
    <2>8. Parts(q)[n] = SubSeq(q, LastIndex(q, i) + 1, i - 1)
      BY PartsProperties DEF i
    <2> QED
      BY <1>4, <2>2, <2>6, <2>7, <2>8
  <1>8. Parts(r) = Parts(p) \o Parts(q)
    <2>1. /\ Parts(r) \in Seq(Seq(Tokens)) /\ Parts(p) \in Seq(Seq(Tokens))
          /\ Parts(q) \in Seq(Seq(Tokens)) /\ Len(Parts(p)) = cp /\ Len(Parts(q)) = cq
          /\ Len(Parts(r)) = cp + cq
      BY <1>1, <1>2, PartsProperties
    <2> DEFINE w == Parts(p) \o Parts(q)
    <2>2. /\ w \in Seq(Seq(Tokens)) /\ Len(w) = cp + cq
          /\ \A n \in 1..(cp + cq) : w[n] = IF n <= cp THEN Parts(p)[n] ELSE Parts(q)[n - cp]
      <3> HIDE DEF cp, cq
      <3> QED
        BY <2>1, ConcatProperties
    <2> HIDE DEF w, cp, cq
    <2>3. ASSUME NEW n \in 1..(cp + cq) PROVE Parts(r)[n] = w[n]
      <3>1. CASE n <= cp
        <4>1. n \in 1..cp
          BY <1>5, <3>1
        <4>2. w[n] = Parts(p)[n]
          BY <2>2, <3>1
        <4> QED
          BY <1>6, <4>1, <4>2
      <3>2. CASE ~(n <= cp)
        <4>1. n - cp \in 1..cq /\ cp + (n - cp) = n
          BY <1>5, <3>2
        <4> QED
          BY <1>7, <2>2, <3>2, <4>1
      <3> QED
        BY <3>1, <3>2
    <2>4. Parts(r) = w
      BY <2>1, <2>2, <2>3, SeqEqual
    <2> QED
      BY <2>4 DEF w
  <1>9. Rest(r) = Rest(q)
    <2> DEFINE a == LastIndex(q, Len(q) + 1)
    <2>1. Len(q) + 1 \in 1..(Len(q) + 1) /\ Len(q) + 1 \in Nat /\ Len(q) + 1 <= Len(q) + 1
      BY <1>1
    <2>2. a \in Nat
      <3>1. IsLastIndex(q, Len(q) + 1, a)
        BY <2>1, LastIndexProperties
      <3> QED
        BY <3>1 DEF IsLastIndex
    <2>3. LastIndex(r, Len(p) + (Len(q) + 1)) = Len(p) + a
      BY <1>3, <2>1
    <2>4. Len(p) + (Len(q) + 1) = Len(r) + 1 /\ Len(p) + (Len(q) + 1) - 1 = Len(r)
          /\ (Len(q) + 1) - 1 = Len(q)
      BY <1>1
    <2> HIDE DEF a
    <2>5. SubSeq(r, Len(p) + a + 1, Len(p) + (Len(q) + 1) - 1) = SubSeq(q, a + 1, (Len(q) + 1) - 1)
      BY <1>4, <2>1, <2>2
    <2> QED
      BY <2>3, <2>4, <2>5 DEF Rest, a
  <1> QED
    BY <1>8, <1>9 DEF r

\* Without a newline there are no parts, and everything is kept.
LEMMA NoNewLineNoParts ==
  ASSUME NEW data \in Seq(Tokens), NewLines(data) = {}
  PROVE  Parts(data) = <<>> /\ Rest(data) = data
  <1>1. Len(data) \in Nat
    BY NewLinesType
  <1>2. Parts(data) = <<>>
    <2>1. Parts(data) \in Seq(Seq(Tokens)) /\ Len(Parts(data)) = 0
      BY PartsProperties, FS_EmptySet
    <2> QED
      BY <2>1, EmptySeq
  <1>3. LastIndex(data, Len(data) + 1) = 0
    <2>1. IsLastIndex(data, Len(data) + 1, 0) /\ Len(data) + 1 \in 1..(Len(data) + 1)
      BY <1>1 DEF IsLastIndex
    <2> QED
      BY <2>1, LastIndexProperties
  <1>4. Rest(data) = data
    BY <1>3, SubSeqFull DEF Rest
  <1> QED
    BY <1>2, <1>4

\* A stream is its whole lines and the rest, which has no newline.
LEMMA StreamSplits ==
  ASSUME NEW data \in Seq(Tokens)
  PROVE  /\ Rest(data) \in Seq(Tokens)
         /\ NewLines(Rest(data)) = {}
         /\ \E p \in Seq(Tokens) : Whole(p) /\ data = p \o Rest(data)
  <1> DEFINE a == LastIndex(data, Len(data) + 1)
             p == SubSeq(data, 1, a)
             q == SubSeq(data, a + 1, Len(data))
  <1>1. /\ Len(data) \in Nat /\ \A i \in 1..Len(data) : data[i] \in Tokens
        /\ \A i : i \in NewLines(data) <=> i \in 1..Len(data) /\ data[i].text = NewLine
    BY NewLinesType
  <1>2. IsLastIndex(data, Len(data) + 1, a)
    <2>1. Len(data) + 1 \in 1..(Len(data) + 1)
      BY <1>1
    <2> QED
      BY <2>1, LastIndexProperties
  <1>3. /\ a \in Nat /\ a <= Len(data)
        /\ a = 0 \/ a \in NewLines(data)
        /\ \A j \in NewLines(data) : j <= a
    <2>1. \A j \in NewLines(data) : j < Len(data) + 1
      BY <1>1
    <2>2. Len(data) + 1 - 1 = Len(data)
      BY <1>1
    <2> QED
      BY <1>1, <1>2, <2>1, <2>2 DEF IsLastIndex
  <1>4. Rest(data) = q
    BY DEF Rest
  <1> HIDE DEF a
  <1>5. /\ p \in Seq(Tokens) /\ Len(p) = a
        /\ \A i \in 1..a : p[i] = data[i]
    <2>1. \A i \in 1..a : data[i] \in Tokens
      BY <1>1, <1>3
    <2>2. 1 \in Int /\ a \in Int
      BY <1>3
    <2>3. /\ p \in Seq(Tokens) /\ Len(p) = (IF 1 <= a THEN a - 1 + 1 ELSE 0)
          /\ \A i \in 1..(a - 1 + 1) : p[i] = data[1 + i - 1]
      BY <2>1, <2>2, SubSeqProperties
    <2> HIDE DEF p
    <2>4. a - 1 + 1 = a /\ \A i \in 1..a : 1 + i - 1 = i
      BY <1>3
    <2> QED
      BY <1>3, <2>3, <2>4
  <1>6. /\ q \in Seq(Tokens) /\ Len(q) = Len(data) - a
        /\ \A i \in 1..Len(q) : q[i] = data[a + i]
    <2>1. \A i \in (a + 1)..Len(data) : data[i] \in Tokens
      BY <1>1, <1>3
    <2>2. a + 1 \in Int /\ Len(data) \in Int
      BY <1>1, <1>3
    <2>3. /\ q \in Seq(Tokens)
          /\ Len(q) = (IF a + 1 <= Len(data) THEN Len(data) - (a + 1) + 1 ELSE 0)
          /\ \A i \in 1..(Len(data) - (a + 1) + 1) : q[i] = data[(a + 1) + i - 1]
      BY <2>1, <2>2, SubSeqProperties
    <2> HIDE DEF q
    <2>4. /\ Len(data) - (a + 1) + 1 = Len(data) - a
          /\ \A i \in 1..(Len(data) - a) : (a + 1) + i - 1 = a + i
      BY <1>1, <1>3
    <2>5. Len(q) = Len(data) - a
      <3>1. a + 1 <= Len(data) \/ Len(data) - a = 0
        BY <1>1, <1>3
      <3> QED
        BY <1>1, <1>3, <2>3, <2>4, <3>1
    <2> QED
      BY <2>3, <2>4, <2>5
  <1>7. data = p \o q
    <2> HIDE DEF p, q
    <2>1. /\ p \o q \in Seq(Tokens) /\ Len(p \o q) = Len(data)
          /\ \A i \in 1..Len(data) : (p \o q)[i] = IF i <= a THEN p[i] ELSE q[i - a]
      <3>1. /\ p \o q \in Seq(Tokens) /\ Len(p \o q) = Len(p) + Len(q)
            /\ \A i \in 1..(Len(p) + Len(q)) : (p \o q)[i] = IF i <= Len(p) THEN p[i] ELSE q[i - Len(p)]
        BY <1>5, <1>6, ConcatProperties
      <3>2. Len(p) = a /\ Len(p) + Len(q) = Len(data)
        BY <1>1, <1>3, <1>5, <1>6
      <3> QED
        BY <3>1, <3>2
    <2>2. ASSUME NEW i \in 1..Len(data) PROVE (p \o q)[i] = data[i]
      <3>1. CASE i <= a
        BY <1>3, <1>5, <2>1, <3>1
      <3>2. CASE ~(i <= a)
        <4>1. i - a \in 1..Len(q) /\ a + (i - a) = i
          BY <1>1, <1>3, <1>6, <3>2
        <4> QED
          BY <1>6, <2>1, <3>2, <4>1
      <3> QED
        BY <3>1, <3>2
    <2> QED
      BY <2>1, <2>2, SeqEqual
  <1>8. Whole(p)
    <2> HIDE DEF p
    <2>1. CASE a = 0
      BY <1>5, <2>1, EmptySeq DEF Whole
    <2>2. CASE a # 0
      <3>1. data[a].text = NewLine /\ a \in 1..a
        BY <1>1, <1>3, <2>2
      <3>2. a \in NewLines(p)
        BY <1>5, <3>1, NewLinesType
      <3> QED
        BY <1>5, <3>2 DEF Whole
    <2> QED
      BY <2>1, <2>2
  <1>9. NewLines(q) = {}
    <2> HIDE DEF q
    <2>1. SUFFICES ASSUME NEW i \in NewLines(q) PROVE FALSE
      OBVIOUS
    <2>2. i \in 1..Len(q) /\ q[i].text = NewLine
      BY <1>6, NewLinesType
    <2>3. a + i \in 1..Len(data) /\ a + i > a
      BY <1>1, <1>3, <1>6, <2>2
    <2>4. a + i \in NewLines(data)
      BY <1>1, <1>6, <2>2, <2>3
    <2> QED
      BY <1>3, <2>2, <2>3, <2>4
  <1> QED
    BY <1>4, <1>5, <1>6, <1>7, <1>8, <1>9

\* Splitting what was kept, followed by the next read, continues the split of
\* the whole stream.
LEMMA ChunkSplit ==
  ASSUME NEW h \in Seq(Tokens), NEW b \in Seq(Tokens)
  PROVE  /\ Parts(h \o b) = Parts(h) \o Parts(Rest(h) \o b)
         /\ Rest(h \o b) = Rest(Rest(h) \o b)
  <1> DEFINE q == Rest(h)
  <1>1. q \in Seq(Tokens) /\ NewLines(q) = {}
    BY StreamSplits
  <1>2. PICK p \in Seq(Tokens) : Whole(p) /\ h = p \o q
    BY StreamSplits
  <1> HIDE DEF q
  <1>3. Parts(q) = <<>>
    BY <1>1, NoNewLineNoParts
  <1>4. Parts(h) = Parts(p)
    <2>1. Parts(h) = Parts(p) \o Parts(q)
      BY <1>1, <1>2, PartsJoin
    <2>2. Parts(p) \in Seq(Seq(Tokens))
      BY PartsProperties
    <2> QED
      BY <1>3, <2>1, <2>2, ConcatEmptySeq
  <1>5. h \o b = p \o (q \o b) /\ q \o b \in Seq(Tokens)
    BY <1>1, <1>2, ConcatAssociative, ConcatProperties
  <1>6. Parts(p \o (q \o b)) = Parts(p) \o Parts(q \o b) /\ Rest(p \o (q \o b)) = Rest(q \o b)
    BY <1>2, <1>5, PartsJoin
  <1> QED
    BY <1>4, <1>5, <1>6 DEF q

\* A part is a piece of the stream without a newline in it.
LEMMA PartIsPiece ==
  ASSUME NEW data \in Seq(Tokens), NEW n \in 1..Len(Parts(data))
  PROVE  \E a \in Nat :
           /\ Parts(data)[n] \in Seq(Tokens)
           /\ \A k \in 1..Len(Parts(data)[n]) :
                /\ a + k \in 1..Len(data)
                /\ Parts(data)[n][k] = data[a + k]
                /\ data[a + k].text # NewLine
  <1> DEFINE i == NthNewLine(data, n)
             a == LastIndex(data, i)
             t == Parts(data)[n]
  <1>1. n \in 1..Cardinality(NewLines(data))
    BY PartsProperties
  <1>2. i \in NewLines(data)
    BY <1>1, NthNewLineProperties
  <1>3. /\ Len(data) \in Nat /\ \A j \in 1..Len(data) : data[j] \in Tokens
        /\ \A j : j \in NewLines(data) <=> j \in 1..Len(data) /\ data[j].text = NewLine
    BY NewLinesType
  <1>4. t = SubSeq(data, a + 1, i - 1)
    BY <1>1, PartsProperties
  <1> HIDE DEF i, t
  <1>5. i \in Nat /\ i >= 1 /\ i <= Len(data) /\ i \in 1..(Len(data) + 1)
    BY <1>2, <1>3
  <1>6. IsLastIndex(data, i, a)
    BY <1>5, LastIndexProperties
  <1> HIDE DEF a
  <1>7. a \in Nat /\ a < i /\ \A j \in NewLines(data) : j < i => j <= a
    BY <1>5, <1>6 DEF IsLastIndex
  <1>8. \A j \in (a + 1)..(i - 1) : data[j] \in Tokens
    BY <1>3, <1>5, <1>7
  <1>9. /\ t \in Seq(Tokens) /\ Len(t) = (IF a + 1 <= i - 1 THEN (i - 1) - (a + 1) + 1 ELSE 0)
        /\ \A k \in 1..((i - 1) - (a + 1) + 1) : t[k] = data[(a + 1) + k - 1]
    <2>1. a + 1 \in Int /\ i - 1 \in Int
      BY <1>5, <1>7
    <2> QED
      BY <1>4, <1>8, <2>1, SubSeqProperties
  <1>10. ASSUME NEW k \in 1..Len(t)
         PROVE  a + k \in 1..Len(data) /\ t[k] = data[a + k] /\ data[a + k].text # NewLine
    <2>1. k \in Nat /\ k >= 1 /\ a + k < i /\ k \in 1..((i - 1) - (a + 1) + 1)
      BY <1>5, <1>7, <1>9
    <2>2. a + k \in 1..Len(data) /\ a + k > a
      BY <1>3, <1>5, <1>7, <2>1
    <2>3. (a + 1) + k - 1 = a + k
      BY <1>7, <2>1
    <2>4. t[k] = data[a + k]
      BY <1>9, <2>1, <2>3
    <2>5. a + k \notin NewLines(data)
      BY <1>7, <2>1, <2>2
    <2> QED
      BY <1>3, <2>2, <2>4, <2>5
  <1> QED
    BY <1>7, <1>9, <1>10 DEF t
----------------------------------------------------------------------------
\* The chat session.

SessionShape ==
  /\ page \in {"waiting", "chat"}
  /\ starter \in {"dial", "join", "announce", "listen", "done", "ended"}
  /\ accepter \in {"none", "accept", "hand"}
  /\ loop \in {"none", "select", "redirect", "dial", "join", "read", "show"}
  /\ dialled \in Nat /\ handed \in Nat /\ taken \in Nat /\ typed \in Nat /\ spoken \in Nat
  /\ backlog \in Seq(Nat) /\ moves \in Seq(Nat) /\ redirects \in Seq({"address", "nothing"})
  /\ silent \subseteq 1..Len(redirects)
  /\ incomplete \in Seq(Tokens) /\ heard \in Seq(Tokens)
  /\ pending \in Seq(Seq(Tokens)) /\ shown \in Seq(Seq(Tokens))
  /\ toServer \in [Conn -> Seq(Texts)] /\ fromServer \in [Conn -> Seq(Tokens)]
  /\ room \in [Conn -> {"none", "joined", "closed"}]

\* How many redirects the loop has taken from the channel.
Passed == Len(redirects) - Len(backlog) - (IF accepter = "hand" THEN 1 ELSE 0)

\* The redirects are numbered in the order in which Central dialled.  The ones
\* in the backlog are the last, the one handed over comes before them, and the
\* loop is busy with the one before that or has finished with it.
RouteOK ==
  /\ Len(redirects) <= MaxRedirects /\ Passed \in Nat
  /\ \A i \in 1..Len(backlog) : backlog[i] = Len(redirects) - Len(backlog) + i
  /\ handed = IF accepter = "hand" THEN Passed + 1 ELSE 0
  /\ taken <= Passed
  /\ Len(moves) <= Passed
  /\ \A i \in 1..Len(moves) : moves[i] \in 1..Passed /\ redirects[moves[i]] = "address"
  /\ \A i, j \in 1..Len(moves) : i < j => moves[i] < moves[j]
  /\ loop \in {"redirect", "dial"} =>
       taken = Passed /\ Len(moves) < taken /\ \A i \in 1..Len(moves) : moves[i] < taken
  /\ loop = "dial" => redirects[taken] = "address"

\* A connection is dialled by StartChat and one more for every move.
DialOK ==
  /\ currentChatConn = dialled /\ dialled <= Len(moves) + 1
  /\ dialled = 0 => starter \in {"dial", "ended"}
  /\ (loop = "none") <=> (starter # "done")
  /\ (accepter = "none") <=> (starter # "done")

\* The page has the lines of what was read, except for those still pending; a
\* session that failed to listen has read nothing.
TextOK ==
  /\ incomplete = Rest(heard)
  /\ starter # "ended" => shown \o pending = Parts(heard)
  /\ starter = "ended" => shown \in {<<>>, <<Failed>>}
  /\ loop = "none" => heard = <<>> /\ pending = <<>>
  /\ starter \notin {"done", "ended"} => shown = <<>>
  /\ loop # "show" => pending = <<>>

\* A text is followed by a newline, or by what a later connection brought.
TextsEnd(s) ==
  \A p \in 1..(Len(s) - 1) :
    s[p].text # NewLine => s[p + 1].text = NewLine \/ s[p].conn < s[p + 1].conn

\* The stream of a server has texts and newlines in turn and a newline at the
\* end.
StreamOK(k) ==
  /\ \A p \in 1..Len(fromServer[k]) : fromServer[k][p].conn = k
  /\ TextsEnd(fromServer[k])
  /\ fromServer[k] # <<>> => fromServer[k][Len(fromServer[k])].text = NewLine

\* What was read came from one connection after the other, and continues in
\* the stream of the current one.
HeardOK ==
  /\ TextsEnd(heard)
  /\ \A p \in 1..Len(heard) : heard[p].conn <= currentChatConn
  /\ \A p, q \in 1..Len(heard) : p < q => heard[p].conn <= heard[q].conn
  /\ (/\ heard # <<>>
      /\ heard[Len(heard)].text # NewLine /\ heard[Len(heard)].conn = currentChatConn)
       => /\ fromServer[currentChatConn] # <<>>
          /\ fromServer[currentChatConn][1].text = NewLine

StreamsOK == HeardOK /\ \A k \in Conn : StreamOK(k)

SessionInv == SessionShape /\ RouteOK /\ DialOK /\ TextOK /\ StreamsOK

\* The client talks to connections that it has dialled.
LEMMA ConnRange ==
  ASSUME SessionInv
  PROVE  /\ Conn = 1..(MaxRedirects + 1) /\ MaxRedirects \in Nat
         /\ dialled \in 0..(MaxRedirects + 1) /\ currentChatConn = dialled
         /\ dialled # 0 => currentChatConn \in Conn
  <1>1. MaxRedirects \in Nat /\ Conn = 1..(MaxRedirects + 1)
    BY BoundsAssumption DEF Conn
  <1>2. Len(moves) \in Nat /\ Len(redirects) \in Nat /\ Len(backlog) \in Nat
    BY DEF SessionInv, SessionShape
  <1>3. Len(moves) <= Passed /\ Len(redirects) <= MaxRedirects /\ Passed \in Nat
        /\ dialled <= Len(moves) + 1 /\ currentChatConn = dialled /\ dialled \in Nat
    BY DEF SessionInv, SessionShape, RouteOK, DialOK
  <1>4. Passed <= Len(redirects)
    BY <1>2 DEF Passed
  <1> QED
    BY <1>1, <1>2, <1>3, <1>4

\* A line for the server is appended to its stream, or lost.
LEMMA WriteLineType ==
  ASSUME SessionInv, NEW line \in Texts, WriteLine(line)
  PROVE  toServer' \in [Conn -> Seq(Texts)]
  <1>1. CASE UNCHANGED toServer
    BY <1>1 DEF SessionInv, SessionShape
  <1>2. CASE toServer' = [toServer EXCEPT ![currentChatConn] = Append(@, line)]
    <2>1. toServer \in [Conn -> Seq(Texts)]
      BY DEF SessionInv, SessionShape
    <2>2. \A k \in Conn : Append(toServer[k], line) \in Seq(Texts)
      BY <2>1, AppendProperties
    <2> QED
      BY <1>2, <2>1, <2>2
  <1> QED
    BY <1>1, <1>2 DEF WriteLine

\* The line that joins, the user's and the partner's are texts.
LEMMA TextTypes ==
  /\ NewLine \in Texts /\ JoinLine \in Texts
  /\ \A n \in Nat : <<"me", n>> \in Texts /\ <<"partner", n>> \in Texts
  BY DEF NewLine, JoinLine, Texts

\* What a broadcast brings to a connection: texts and newlines in turn, and a
\* newline at the end.
LEMMA BroadcastProperties ==
  ASSUME NEW k \in Conn, NEW lines \in Seq(Texts)
  PROVE  /\ Broadcast(k, lines) \in Seq(Tokens)
         /\ Len(Broadcast(k, lines)) = 2 * Len(lines) + 1
         /\ \A i \in 1..Len(Broadcast(k, lines)) : Broadcast(k, lines)[i].conn = k
         /\ Broadcast(k, lines)[Len(Broadcast(k, lines))].text = NewLine
         /\ \A i \in 1..(Len(Broadcast(k, lines)) - 1) :
              \/ Broadcast(k, lines)[i].text = NewLine
              \/ Broadcast(k, lines)[i + 1].text = NewLine
  <1> DEFINE n == 2 * Len(lines) + 1
             e(i) == Token(k, IF i % 2 = 1 /\ i < 2 * Len(lines) THEN lines[(i + 1) \div 2] ELSE NewLine)
             b == [i \in 1..n |-> e(i)]
  <1>1. Len(lines) \in Nat /\ n \in Nat /\ k \in Nat
    BY BoundsAssumption DEF Conn
  <1>2. ASSUME NEW i \in 1..n PROVE e(i) \in Tokens /\ e(i).conn = k
    <2>1. i % 2 = 1 /\ i < 2 * Len(lines) => (i + 1) \div 2 \in 1..Len(lines)
      BY <1>1
    <2>2. (IF i % 2 = 1 /\ i < 2 * Len(lines) THEN lines[(i + 1) \div 2] ELSE NewLine) \in Texts
      BY <1>1, <2>1, TextTypes, ElementOfSeq
    <2> QED
      BY <1>1, <2>2 DEF Token, Tokens
  <1>3. e(n).text = NewLine
    BY <1>1 DEF Token
  <1>4. ASSUME NEW i \in 1..(n - 1) PROVE e(i).text = NewLine \/ e(i + 1).text = NewLine
    <2>1. i % 2 = 1 \/ i % 2 = 0
      BY <1>1
    <2>2. CASE i % 2 = 0
      BY <2>2 DEF Token
    <2>3. CASE i % 2 = 1
      <3>1. (i + 1) % 2 = 0
        BY <1>1, <2>3
      <3> QED
        BY <3>1 DEF Token
    <2> QED
      BY <2>1, <2>2, <2>3
  <1>5. Broadcast(k, lines) = b
    BY DEF Broadcast
  <1> HIDE DEF e, n
  <1>6. b \in Seq(Tokens) /\ Len(b) = n
    BY <1>1, <1>2
  <1>7. n \in 1..n /\ \A i \in 1..(n - 1) : i \in 1..n /\ i + 1 \in 1..n
    BY <1>1 DEF n
  <1>8. \A i \in 1..n : b[i] = e(i)
    OBVIOUS
  <1> HIDE DEF b
  <1>9. /\ \A i \in 1..n : b[i].conn = k
        /\ b[n].text = NewLine
        /\ \A i \in 1..(n - 1) : b[i].text = NewLine \/ b[i + 1].text = NewLine
    BY <1>2, <1>3, <1>4, <1>7, <1>8
  <1>10. Len(b) = 2 * Len(lines) + 1
    BY <1>6 DEF n
  <1> QED
    BY <1>5, <1>6, <1>9, <1>10
----------------------------------------------------------------------------
\* Types are kept by what StartChat and the user do.
LEMMA StarterShape ==
  ASSUME SessionInv, SendMessage \/ Starter
  PROVE  SessionShape'
  <1>1. SessionShape
    BY DEF SessionInv
  <1>2. CASE SendMessage
    <2>1. typed' = typed + 1 /\ typed' \in Nat
          /\ UNCHANGED <<startVars, redirectVars, loop, currentChatConn, textVars, room, fromServer, spoken>>
      BY <1>1, <1>2 DEF SendMessage, SessionShape
    <2>2. toServer' \in [Conn -> Seq(Texts)]
      <3>1. CASE UNCHANGED toServer
        BY <1>1, <3>1 DEF SessionShape
      <3>2. CASE WriteLine(<<"me", typed'>>)
        BY <2>1, <3>2, TextTypes, WriteLineType
      <3> QED
        BY <1>2, <3>1, <3>2 DEF SendMessage
    <2> QED
      BY <1>1, <2>1, <2>2 DEF SessionShape, startVars, redirectVars, textVars
  <1>3. CASE Dial \/ DialFails \/ JoinFails \/ Announce \/ Listen
    <2> USE DEF StarterGoes, SessionShape, redirectVars, textVars, serverVars, userVars
    <2>1. CASE Dial
      BY <1>1, <2>1 DEF Dial
    <2>2. CASE DialFails \/ JoinFails
      BY <1>1, <2>2 DEF DialFails, JoinFails
    <2>3. CASE Announce
      BY <1>1, <2>3 DEF Announce
    <2>4. CASE Listen
      BY <1>1, <2>4 DEF Listen
    <2> QED
      BY <1>3, <2>1, <2>2, <2>3, <2>4
  <1>4. CASE Join
    <2>1. toServer' \in [Conn -> Seq(Texts)]
      BY <1>4, TextTypes, WriteLineType DEF Join
    <2> QED
      BY <1>1, <1>4, <2>1 DEF Join, StarterGoes, SessionShape, redirectVars, textVars, userVars
  <1>5. CASE ListenFails
    <2>1. Failed \in Seq(Tokens)
      <3>1. Token(0, <<"FAILED", 0>>) \in Tokens
        BY DEF Token, Tokens, Texts
      <3> QED
        BY <3>1 DEF Failed
    <2>2. shown' \in Seq(Seq(Tokens))
      BY <1>1, <1>5, <2>1, AppendProperties DEF ListenFails, SessionShape
    <2> QED
      BY <1>1, <1>5, <2>2 DEF ListenFails, StarterGoes, SessionShape, redirectVars, serverVars, userVars
  <1> QED
    BY <1>2, <1>3, <1>4, <1>5 DEF Starter

\* Types are kept by the redirects.
LEMMA RedirectShape ==
  ASSUME SessionInv,
         \/ \E written \in {"address", "nothing"} : Redirect(written)
         \/ \E r \in 1..MaxRedirects : CollectRedirect(r)
         \/ Accept \/ TakeRedirect \/ ReadAddress \/ ReadAddressFails \/ DialNew \/ DialNewFails
  PROVE  SessionShape'
  <1>1. SessionShape /\ Len(redirects) \in Nat
    BY DEF SessionInv, SessionShape
  <1>2. ASSUME NEW written \in {"address", "nothing"}, Redirect(written) PROVE SessionShape'
    <2>1. /\ redirects' \in Seq({"address", "nothing"}) /\ Len(redirects') = Len(redirects) + 1
      BY <1>1, <1>2, AppendProperties DEF Redirect, SessionShape
    <2>2. backlog' \in Seq(Nat)
      BY <1>1, <1>2, <2>1, AppendProperties DEF Redirect, SessionShape
    <2>3. silent' \subseteq 1..Len(redirects')
      <3>1. silent \subseteq 1..Len(redirects) /\ silent' \subseteq silent \cup {Len(redirects')}
        BY <1>1, <1>2 DEF Redirect, SessionShape
      <3>2. \A x \in silent' : x \in 1..(Len(redirects) + 1)
        BY <1>1, <2>1, <3>1
      <3> QED
        BY <2>1, <3>2
    <2> QED
      BY <1>1, <1>2, <2>1, <2>2, <2>3 DEF Redirect, SessionShape, startVars, textVars, serverVars, userVars
  <1>3. ASSUME NEW r \in 1..MaxRedirects, CollectRedirect(r) PROVE SessionShape'
    BY <1>1, <1>3 DEF CollectRedirect, SessionShape, startVars, textVars, serverVars, userVars
  <1>4. CASE Accept
    <2>1. Head(backlog) \in Nat /\ Tail(backlog) \in Seq(Nat)
      BY <1>1, <1>4, HeadTailProperties DEF Accept, SessionShape
    <2> QED
      BY <1>1, <1>4, <2>1 DEF Accept, SessionShape, startVars, textVars, serverVars, userVars
  <1>5. CASE TakeRedirect \/ ReadAddress \/ ReadAddressFails \/ DialNewFails
    <2> USE DEF LoopGoes, SessionShape, startVars, redirectVars, textVars, serverVars, userVars
    <2>1. CASE TakeRedirect
      BY <1>1, <2>1 DEF TakeRedirect
    <2>2. CASE ReadAddress
      BY <1>1, <2>2 DEF ReadAddress
    <2>3. CASE ReadAddressFails \/ DialNewFails
      BY <1>1, <2>3 DEF ReadAddressFails, DialNewFails
    <2> QED
      BY <1>5, <2>1, <2>2, <2>3
  <1>6. CASE DialNew
    <2>1. moves' \in Seq(Nat)
      BY <1>1, <1>6, AppendProperties DEF DialNew, SessionShape
    <2> QED
      BY <1>1, <1>6, <2>1 DEF DialNew, LoopGoes, SessionShape, startVars, textVars, serverVars, userVars
  <1> QED
    BY <1>2, <1>3, <1>4, <1>5, <1>6

\* What a read takes and what it leaves.
LEMMA ReadSlices ==
  ASSUME NEW f \in Seq(Tokens), NEW n \in 1..Len(f)
  PROVE  /\ SubSeq(f, 1, n) \in Seq(Tokens) /\ Len(SubSeq(f, 1, n)) = n
         /\ \A i \in 1..n : SubSeq(f, 1, n)[i] = f[i]
         /\ SubSeq(f, n + 1, Len(f)) \in Seq(Tokens)
         /\ Len(SubSeq(f, n + 1, Len(f))) = Len(f) - n
         /\ \A i \in 1..(Len(f) - n) : SubSeq(f, n + 1, Len(f))[i] = f[n + i]
  <1>1. Len(f) \in Nat /\ n \in Nat /\ n >= 1 /\ n <= Len(f)
    OBVIOUS
  <1>2. \A i \in 1..Len(f) : f[i] \in Tokens
    BY ElementOfSeq
  <1>3. /\ SubSeq(f, 1, n) \in Seq(Tokens) /\ Len(SubSeq(f, 1, n)) = (IF 1 <= n THEN n - 1 + 1 ELSE 0)
        /\ \A i \in 1..(n - 1 + 1) : SubSeq(f, 1, n)[i] = f[1 + i - 1]
    <2>1. 1 \in Int /\ n \in Int /\ \A i \in 1..n : f[i] \in Tokens
      BY <1>1, <1>2
    <2> QED
      BY <2>1, SubSeqProperties
  <1>4. n - 1 + 1 = n /\ \A i \in 1..n : 1 + i - 1 = i
    BY <1>1
  <1>5. /\ SubSeq(f, n + 1, Len(f)) \in Seq(Tokens)
        /\ Len(SubSeq(f, n + 1, Len(f))) = (IF n + 1 <= Len(f) THEN Len(f) - (n + 1) + 1 ELSE 0)
        /\ \A i \in 1..(Len(f) - (n + 1) + 1) : SubSeq(f, n + 1, Len(f))[i] = f[(n + 1) + i - 1]
    <2>1. n + 1 \in Int /\ Len(f) \in Int /\ \A i \in (n + 1)..Len(f) : f[i] \in Tokens
      BY <1>1, <1>2
    <2> QED
      BY <2>1, SubSeqProperties
  <1>6. /\ Len(f) - (n + 1) + 1 = Len(f) - n /\ \A i \in 1..(Len(f) - n) : (n + 1) + i - 1 = n + i
        /\ n + 1 <= Len(f) \/ Len(f) - n = 0
    BY <1>1
  <1>7. /\ Len(SubSeq(f, 1, n)) = n
        /\ \A i \in 1..n : SubSeq(f, 1, n)[i] = f[i]
    BY <1>1, <1>3, <1>4
  <1>8. Len(SubSeq(f, n + 1, Len(f))) = Len(f) - n
    BY <1>1, <1>5, <1>6
  <1>9. \A i \in 1..(Len(f) - n) : SubSeq(f, n + 1, Len(f))[i] = f[n + i]
    BY <1>5, <1>6
  <1> QED
    BY <1>3, <1>5, <1>7, <1>8, <1>9

\* One Read: a first piece of the stream, of any size, is split together with
\* what was left of the last one.
LEMMA ReadFacts ==
  ASSUME SessionInv, Read
  PROVE  /\ currentChatConn \in Conn /\ fromServer[currentChatConn] \in Seq(Tokens)
         /\ loop = "read" /\ loop' = "show"
         /\ UNCHANGED <<startVars, redirectVars, currentChatConn, shown, toServer, room, userVars>>
         /\ \E n \in 1..Len(fromServer[currentChatConn]) : \E buffer, left \in Seq(Tokens) :
              /\ Len(buffer) = n
              /\ \A i \in 1..n : buffer[i] = fromServer[currentChatConn][i]
              /\ Len(left) = Len(fromServer[currentChatConn]) - n
              /\ \A i \in 1..(Len(fromServer[currentChatConn]) - n) :
                   left[i] = fromServer[currentChatConn][n + i]
              /\ fromServer' = [fromServer EXCEPT ![currentChatConn] = left]
              /\ heard' = heard \o buffer
              /\ incomplete' = Rest(incomplete \o buffer)
              /\ pending' = Parts(incomplete \o buffer)
  <1> DEFINE f == fromServer[currentChatConn]
  <1>1. loop = "read" /\ loop' = "show"
        /\ UNCHANGED <<startVars, redirectVars, currentChatConn, shown, toServer, room, userVars>>
    BY DEF Read, LoopGoes
  <1>2. dialled # 0
    BY <1>1 DEF SessionInv, SessionShape, DialOK
  <1>3. currentChatConn \in Conn
    BY <1>2, ConnRange
  <1>4. f \in Seq(Tokens)
    BY <1>3 DEF SessionInv, SessionShape
  <1>5. PICK n \in 1..Len(f) :
          /\ fromServer' = [fromServer EXCEPT ![currentChatConn] = SubSeq(f, n + 1, Len(f))]
          /\ heard' = heard \o SubSeq(f, 1, n)
          /\ incomplete' = Rest(incomplete \o SubSeq(f, 1, n))
          /\ pending' = Parts(incomplete \o SubSeq(f, 1, n))
    BY DEF Read
  <1> DEFINE buffer == SubSeq(f, 1, n)
             left == SubSeq(f, n + 1, Len(f))
  <1>6. /\ buffer \in Seq(Tokens) /\ Len(buffer) = n /\ \A i \in 1..n : buffer[i] = f[i]
        /\ left \in Seq(Tokens) /\ Len(left) = Len(f) - n
        /\ \A i \in 1..(Len(f) - n) : left[i] = f[n + i]
    BY <1>4, ReadSlices
  <1>7. /\ fromServer' = [fromServer EXCEPT ![currentChatConn] = left]
        /\ heard' = heard \o buffer
        /\ incomplete' = Rest(incomplete \o buffer)
        /\ pending' = Parts(incomplete \o buffer)
    BY <1>5
  <1> HIDE DEF buffer, left
  <1>8. \E b, l \in Seq(Tokens) :
          /\ Len(b) = n /\ \A i \in 1..n : b[i] = f[i]
          /\ Len(l) = Len(f) - n /\ \A i \in 1..(Len(f) - n) : l[i] = f[n + i]
          /\ fromServer' = [fromServer EXCEPT ![currentChatConn] = l]
          /\ heard' = heard \o b
          /\ incomplete' = Rest(incomplete \o b)
          /\ pending' = Parts(incomplete \o b)
    BY <1>6, <1>7
  <1> QED
    BY <1>1, <1>3, <1>4, <1>8

\* Types are kept by the loop's reads and writes.
LEMMA ReadShape ==
  ASSUME SessionInv, JoinNew \/ BeginRead \/ Read \/ ReadFails \/ Show \/ EndShow
  PROVE  SessionShape'
  <1>1. SessionShape
    BY DEF SessionInv
  <1>2. CASE JoinNew
    <2>1. toServer' \in [Conn -> Seq(Texts)]
      BY <1>2, TextTypes, WriteLineType DEF JoinNew
    <2> QED
      BY <1>1, <1>2, <2>1 DEF JoinNew, LoopGoes, SessionShape, startVars, redirectVars, textVars, userVars
  <1>3. CASE BeginRead \/ ReadFails \/ EndShow
    BY <1>1, <1>3 DEF BeginRead, ReadFails, EndShow, LoopGoes, SessionShape, startVars, redirectVars,
                      textVars, serverVars, userVars
  <1>4. CASE Read
    <2>1. PICK buffer \in Seq(Tokens), left \in Seq(Tokens) :
            /\ fromServer' = [fromServer EXCEPT ![currentChatConn] = left]
            /\ heard' = heard \o buffer
            /\ incomplete' = Rest(incomplete \o buffer)
            /\ pending' = Parts(incomplete \o buffer)
      BY <1>4, ReadFacts
    <2>2. /\ UNCHANGED <<startVars, redirectVars, currentChatConn, shown, toServer, room, userVars>>
          /\ loop' = "show"
      BY <1>4, ReadFacts
    <2>3. incomplete \o buffer \in Seq(Tokens) /\ heard' \in Seq(Tokens)
      BY <1>1, <2>1, ConcatProperties DEF SessionShape
    <2>4. incomplete' \in Seq(Tokens) /\ pending' \in Seq(Seq(Tokens))
      BY <2>1, <2>3, StreamSplits, PartsProperties
    <2>5. fromServer' \in [Conn -> Seq(Tokens)]
      BY <1>1, <2>1 DEF SessionShape
    <2> QED
      BY <1>1, <2>2, <2>3, <2>4, <2>5 DEF SessionShape, startVars, redirectVars, userVars
  <1>5. CASE Show
    <2>1. Head(pending) \in Seq(Tokens) /\ Tail(pending) \in Seq(Seq(Tokens))
      BY <1>1, <1>5, HeadTailProperties DEF Show, SessionShape
    <2>2. shown' \in Seq(Seq(Tokens)) /\ pending' \in Seq(Seq(Tokens))
      BY <1>1, <1>5, <2>1, AppendProperties DEF Show, SessionShape
    <2> QED
      BY <1>1, <1>5, <2>2 DEF Show, SessionShape, startVars, redirectVars, serverVars, userVars
  <1> QED
    BY <1>2, <1>3, <1>4, <1>5

\* Lines left over after a handler's read are lines.
LEMMA LinesLeft ==
  ASSUME SessionInv, NEW k \in Conn, NEW n \in 1..Len(toServer[k])
  PROVE  /\ SubSeq(toServer[k], 1, n) \in Seq(Texts)
         /\ SubSeq(toServer[k], n + 1, Len(toServer[k])) \in Seq(Texts)
  <1> DEFINE f == toServer[k]
  <1>1. f \in Seq(Texts)
    BY DEF SessionInv, SessionShape
  <1> HIDE DEF f
  <1>2. n \in 1..Len(f)
    BY DEF f
  <1>3. /\ Len(f) \in Nat /\ n \in Nat
        /\ \A i \in 1..n : f[i] \in Texts
        /\ \A i \in (n + 1)..Len(f) : f[i] \in Texts
    BY <1>1, <1>2, ElementOfSeq
  <1>4. SubSeq(f, 1, n) \in Seq(Texts) /\ SubSeq(f, n + 1, Len(f)) \in Seq(Texts)
    <2>1. 1 \in Int /\ n \in Int /\ n + 1 \in Int /\ Len(f) \in Int
      BY <1>3
    <2> QED
      BY <1>3, <2>1, SubSeqProperties
  <1> QED
    BY <1>4 DEF f

\* Types are kept by the servers and the partner.
LEMMA ServerShape ==
  ASSUME SessionInv, NEW k \in Conn, Handler(k) \/ PartnerSpeaks(k) \/ ServerCrash(k)
  PROVE  SessionShape'
  <1>1. SessionShape
    BY DEF SessionInv
  <1>2. CASE HandleJoin(k)
    <2>1. PICK n \in 1..Len(toServer[k]) :
            toServer' = [toServer EXCEPT ![k] = SubSeq(toServer[k], n + 1, Len(toServer[k]))]
      BY <1>2 DEF HandleJoin
    <2>2. toServer' \in [Conn -> Seq(Texts)]
      BY <1>1, <2>1, LinesLeft DEF SessionShape
    <2>3. room' \in [Conn -> {"none", "joined", "closed"}]
      BY <1>1, <1>2 DEF HandleJoin, SessionShape
    <2> QED
      BY <1>1, <1>2, <2>2, <2>3 DEF HandleJoin, SessionShape, startVars, redirectVars, textVars, userVars
  <1>3. CASE HandleMessage(k)
    <2>1. PICK n \in 1..Len(toServer[k]) :
            /\ toServer' = [toServer EXCEPT ![k] = SubSeq(toServer[k], n + 1, Len(toServer[k]))]
            /\ fromServer' = [fromServer EXCEPT ![k] = @ \o Broadcast(k, SubSeq(toServer[k], 1, n))]
      BY <1>3 DEF HandleMessage
    <2>2. toServer' \in [Conn -> Seq(Texts)]
      BY <1>1, <2>1, LinesLeft DEF SessionShape
    <2>3. Broadcast(k, SubSeq(toServer[k], 1, n)) \in Seq(Tokens)
      BY <2>1, LinesLeft, BroadcastProperties
    <2>4. fromServer' \in [Conn -> Seq(Tokens)]
      BY <1>1, <2>1, <2>3, ConcatProperties DEF SessionShape
    <2> QED
      BY <1>1, <1>3, <2>2, <2>4 DEF HandleMessage, SessionShape, startVars, redirectVars, textVars, userVars
  <1>4. CASE PartnerSpeaks(k)
    <2>1. spoken' \in Nat /\ <<<<"partner", spoken'>>>> \in Seq(Texts)
      <3>1. spoken' \in Nat
        BY <1>1, <1>4 DEF PartnerSpeaks, SessionShape
      <3> DEFINE line == <<"partner", spoken'>>
      <3>2. line \in Texts
        BY <3>1, TextTypes
      <3> HIDE DEF line
      <3>3. <<line>> \in Seq(Texts)
        BY <3>2
      <3> QED
        BY <3>1, <3>3 DEF line
    <2>2. Broadcast(k, <<<<"partner", spoken'>>>>) \in Seq(Tokens)
      BY <2>1, BroadcastProperties
    <2>3. fromServer' \in [Conn -> Seq(Tokens)]
      BY <1>1, <1>4, <2>2, ConcatProperties DEF PartnerSpeaks, SessionShape
    <2> QED
      BY <1>1, <1>4, <2>1, <2>3 DEF PartnerSpeaks, SessionShape, startVars, redirectVars, textVars
  <1>5. CASE ServerCrash(k)
    BY <1>1, <1>5 DEF ServerCrash, SessionShape, startVars, redirectVars, textVars, userVars
  <1> QED
    BY <1>2, <1>3, <1>4, <1>5 DEF Handler
----------------------------------------------------------------------------
\* The steps that pass no redirect on.
LEMMA RouteFrame ==
  ASSUME RouteOK, UNCHANGED <<accepter, backlog, handed, taken, redirects, moves>>,
         loop' \in {"redirect", "dial"} => loop' = loop
  PROVE  RouteOK'
  BY DEF RouteOK, Passed

\* Central dials once more.
LEMMA RedirectRoute ==
  ASSUME SessionInv, NEW written \in {"address", "nothing"}, Redirect(written)
  PROVE  RouteOK'
  <1>1. /\ RouteOK /\ Len(redirects) \in Nat /\ Len(backlog) \in Nat /\ Len(moves) \in Nat
        /\ redirects \in Seq({"address", "nothing"}) /\ backlog \in Seq(Nat)
        /\ taken \in Nat /\ MaxRedirects \in Nat
    BY ConnRange DEF SessionInv, SessionShape
  <1>2. /\ Len(redirects) < MaxRedirects /\ redirects' = Append(redirects, written)
        /\ backlog' = Append(backlog, Len(redirects'))
        /\ UNCHANGED <<accepter, handed, taken, moves, loop>>
    BY DEF Redirect
  <1>3. /\ Len(redirects') = Len(redirects) + 1
        /\ \A i \in 1..Len(redirects) : redirects'[i] = redirects[i]
    BY <1>1, <1>2, AppendProperties
  <1>4. /\ Len(backlog') = Len(backlog) + 1
        /\ \A i \in 1..Len(backlog) : backlog'[i] = backlog[i]
        /\ backlog'[Len(backlog) + 1] = Len(redirects) + 1
    <2>1. Len(redirects') \in Nat
      BY <1>1, <1>3
    <2> QED
      BY <1>1, <1>2, <1>3, <2>1, AppendProperties
  <1>5. Passed' = Passed /\ Passed \in Nat /\ Passed <= Len(redirects)
    BY <1>1, <1>2, <1>3, <1>4 DEF Passed, RouteOK
  <1>6. \A i \in 1..Len(backlog') : backlog'[i] = Len(redirects') - Len(backlog') + i
    <2>1. \A i \in 1..Len(backlog) : backlog[i] = Len(redirects) - Len(backlog) + i
      BY <1>1 DEF RouteOK
    <2>2. ASSUME NEW i \in 1..(Len(backlog) + 1)
          PROVE  backlog'[i] = (Len(redirects) + 1) - (Len(backlog) + 1) + i
      <3>1. CASE i \in 1..Len(backlog)
        BY <1>1, <1>4, <2>1, <3>1
      <3>2. CASE i = Len(backlog) + 1
        BY <1>1, <1>4, <3>2
      <3> QED
        BY <1>1, <3>1, <3>2
    <2> QED
      BY <1>3, <1>4, <2>2
  <1>7. \A i \in 1..Len(moves) : moves[i] \in 1..Passed /\ redirects'[moves[i]] = "address"
    <2>1. \A i \in 1..Len(moves) : moves[i] \in 1..Passed /\ redirects[moves[i]] = "address"
      BY <1>1 DEF RouteOK
    <2>2. \A x \in 1..Passed : redirects'[x] = redirects[x]
      BY <1>1, <1>3, <1>5
    <2> QED
      BY <2>1, <2>2
  <1>8. loop = "dial" => redirects'[taken] = "address"
    <2>1. loop = "dial" => taken \in 1..Len(redirects) /\ redirects[taken] = "address"
      BY <1>1, <1>5 DEF RouteOK
    <2> QED
      BY <1>3, <2>1
  <1>9. Len(redirects') <= MaxRedirects
    BY <1>1, <1>2, <1>3
  <1> QED
    BY <1>1, <1>2, <1>5, <1>6, <1>7, <1>8, <1>9 DEF RouteOK

\* The accepting goroutine takes the first of the backlog.
LEMMA AcceptRoute ==
  ASSUME SessionInv, Accept
  PROVE  RouteOK'
  <1>1. /\ RouteOK /\ Len(redirects) \in Nat /\ Len(backlog) \in Nat /\ backlog \in Seq(Nat)
        /\ taken \in Nat
    BY DEF SessionInv, SessionShape
  <1>2. /\ accepter = "accept" /\ accepter' = "hand" /\ backlog # <<>>
        /\ handed' = Head(backlog) /\ backlog' = Tail(backlog)
        /\ UNCHANGED <<taken, redirects, moves, loop>>
    BY DEF Accept
  <1>3. /\ Len(backlog') = Len(backlog) - 1 /\ handed' = backlog[1]
        /\ \A i \in 1..Len(backlog') : backlog'[i] = backlog[i + 1]
        /\ Len(backlog) >= 1
    BY <1>1, <1>2, HeadTailProperties, EmptySeq
  <1>4. Passed' = Passed /\ Passed = Len(redirects) - Len(backlog)
    BY <1>1, <1>2, <1>3 DEF Passed
  <1>5. \A i \in 1..Len(backlog) : backlog[i] = Len(redirects) - Len(backlog) + i
    BY <1>1 DEF RouteOK
  <1>6. handed' = Passed + 1
    BY <1>1, <1>3, <1>4, <1>5
  <1>7. \A i \in 1..Len(backlog') : backlog'[i] = Len(redirects) - Len(backlog') + i
    BY <1>1, <1>3, <1>5
  <1> QED
    BY <1>1, <1>2, <1>4, <1>6, <1>7 DEF RouteOK

\* The loop takes the redirect that is waiting: all it has followed came before.
LEMMA TakeRoute ==
  ASSUME SessionInv, TakeRedirect
  PROVE  RouteOK'
  <1>1. /\ RouteOK /\ Len(redirects) \in Nat /\ Len(backlog) \in Nat /\ Len(moves) \in Nat
        /\ taken \in Nat
    BY DEF SessionInv, SessionShape
  <1>2. /\ accepter = "hand" /\ accepter' = "accept" /\ taken' = handed /\ handed' = 0
        /\ loop' = "redirect" /\ UNCHANGED <<backlog, redirects, moves>>
    BY DEF TakeRedirect, LoopGoes
  <1>3. Passed' = Passed + 1 /\ Passed \in Nat /\ taken' = Passed + 1
    BY <1>1, <1>2 DEF Passed, RouteOK
  <1>4. /\ Len(moves) <= Passed
        /\ \A i \in 1..Len(moves) : moves[i] \in 1..Passed /\ redirects[moves[i]] = "address"
    BY <1>1 DEF RouteOK
  <1>5. /\ Len(moves) < Passed + 1
        /\ \A i \in 1..Len(moves) : moves[i] \in 1..(Passed + 1) /\ moves[i] < Passed + 1
    BY <1>1, <1>3, <1>4
  <1> QED
    BY <1>1, <1>2, <1>3, <1>4, <1>5 DEF RouteOK

\* The loop follows the redirect.
LEMMA DialNewRoute ==
  ASSUME SessionInv, DialNew
  PROVE  RouteOK'
  <1>1. /\ RouteOK /\ Len(moves) \in Nat /\ moves \in Seq(Nat) /\ taken \in Nat
    BY DEF SessionInv, SessionShape
  <1>2. /\ loop = "dial" /\ loop' = "join" /\ moves' = Append(moves, taken)
        /\ UNCHANGED <<accepter, backlog, handed, taken, redirects>>
    BY DEF DialNew, LoopGoes
  <1>3. /\ Len(moves') = Len(moves) + 1 /\ moves'[Len(moves) + 1] = taken
        /\ \A i \in 1..Len(moves) : moves'[i] = moves[i]
    BY <1>1, <1>2, AppendProperties
  <1>4. Passed' = Passed /\ Passed \in Nat
    BY <1>1, <1>2 DEF Passed, RouteOK
  <1>5. /\ taken = Passed /\ Len(moves) < taken /\ redirects[taken] = "address"
        /\ \A i \in 1..Len(moves) : moves[i] < taken
    BY <1>1, <1>2 DEF RouteOK
  <1>6. ASSUME NEW i \in 1..Len(moves') PROVE moves'[i] \in 1..Passed /\ redirects[moves'[i]] = "address"
    <2>1. CASE i \in 1..Len(moves)
      BY <1>1, <1>3, <2>1 DEF RouteOK
    <2>2. CASE i = Len(moves) + 1
      BY <1>1, <1>3, <1>4, <1>5, <2>2
    <2> QED
      BY <1>1, <1>3, <2>1, <2>2
  <1>7. ASSUME NEW i \in 1..Len(moves'), NEW j \in 1..Len(moves'), i < j PROVE moves'[i] < moves'[j]
    <2>1. i \in 1..Len(moves)
      BY <1>1, <1>3, <1>7
    <2>2. CASE j \in 1..Len(moves)
      BY <1>1, <1>3, <1>7, <2>1, <2>2 DEF RouteOK
    <2>3. CASE j = Len(moves) + 1
      BY <1>3, <1>5, <2>1, <2>3
    <2> QED
      BY <1>1, <1>3, <2>2, <2>3
  <1>8. Len(moves') <= Passed
    BY <1>1, <1>3, <1>4, <1>5
  <1> QED
    BY <1>1, <1>2, <1>4, <1>6, <1>7, <1>8 DEF RouteOK

\* Redirects keep their order in every step.
LEMMA RouteStep ==
  ASSUME SessionInv, Next
  PROVE  RouteOK'
  <1>1. RouteOK
    BY DEF SessionInv
  <1>2. CASE SendMessage
    BY <1>1, <1>2, RouteFrame DEF SendMessage, redirectVars
  <1>3. CASE Starter
    <2>1. CASE Listen
      <3>1. accepter = "none"
        BY <2>1 DEF SessionInv, DialOK, Listen, StarterGoes
      <3>2. accepter' = "accept" /\ loop' = "select"
            /\ UNCHANGED <<backlog, handed, taken, redirects, moves>>
        BY <2>1 DEF Listen
      <3>3. Passed' = Passed
        BY <3>1, <3>2 DEF Passed
      <3> QED
        BY <1>1, <3>1, <3>2, <3>3 DEF RouteOK
    <2>2. CASE Dial \/ DialFails \/ Join \/ JoinFails
      BY <1>1, <2>2, RouteFrame DEF Dial, DialFails, Join, JoinFails, redirectVars
    <2>3. CASE Announce \/ ListenFails
      BY <1>1, <2>3, RouteFrame DEF Announce, ListenFails, redirectVars
    <2> QED
      BY <1>3, <2>1, <2>2, <2>3 DEF Starter
  <1>4. ASSUME NEW written \in {"address", "nothing"}, Redirect(written) PROVE RouteOK'
    BY <1>4, RedirectRoute
  <1>5. ASSUME NEW r \in 1..MaxRedirects, CollectRedirect(r) PROVE RouteOK'
    BY <1>1, <1>5, RouteFrame DEF CollectRedirect
  <1>6. CASE Accept
    BY <1>6, AcceptRoute
  <1>7. CASE Loop
    <2>1. CASE TakeRedirect
      BY <2>1, TakeRoute
    <2>2. CASE ReadAddress
      <3>1. /\ loop = "redirect" /\ loop' = "dial" /\ redirects[taken] = "address"
            /\ UNCHANGED redirectVars
        BY <2>2 DEF ReadAddress, LoopGoes
      <3>2. Passed' = Passed
        BY <3>1 DEF Passed, redirectVars
      <3> QED
        BY <1>1, <3>1, <3>2 DEF RouteOK, redirectVars
    <2>3. CASE DialNew
      BY <2>3, DialNewRoute
    <2>4. CASE ReadAddressFails \/ DialNewFails \/ JoinNew
      BY <1>1, <2>4, RouteFrame DEF ReadAddressFails, DialNewFails, JoinNew, LoopGoes, redirectVars
    <2>5. CASE BeginRead \/ Read \/ ReadFails
      BY <1>1, <2>5, RouteFrame DEF BeginRead, Read, ReadFails, LoopGoes, redirectVars
    <2>6. CASE Show \/ EndShow
      BY <1>1, <2>6, RouteFrame DEF Show, EndShow, LoopGoes, redirectVars
    <2> QED
      BY <1>7, <2>1, <2>2, <2>3, <2>4, <2>5, <2>6 DEF Loop
  <1>8. ASSUME NEW k \in Conn, Handler(k) \/ PartnerSpeaks(k) \/ ServerCrash(k) PROVE RouteOK'
    BY <1>1, <1>8, RouteFrame DEF Handler, HandleJoin, HandleMessage, PartnerSpeaks, ServerCrash, redirectVars
  <1> QED
    BY <1>2, <1>3, <1>4, <1>5, <1>6, <1>7, <1>8 DEF Next

\* One connection for StartChat, and one for every move.
LEMMA DialStep ==
  ASSUME SessionInv, Next
  PROVE  DialOK'
  <1>1. /\ DialOK /\ dialled \in Nat /\ moves \in Seq(Nat) /\ Len(moves) \in Nat
        /\ taken \in Nat
    BY DEF SessionInv, SessionShape
  <1>2. CASE SendMessage
    BY <1>1, <1>2 DEF SendMessage, DialOK, startVars, redirectVars
  <1>3. CASE Starter
    <2> USE DEF DialOK, StarterGoes, redirectVars
    <2>1. CASE Dial
      BY <1>1, <2>1 DEF Dial
    <2>2. CASE DialFails \/ JoinFails
      BY <1>1, <2>2 DEF DialFails, JoinFails
    <2>3. CASE Join
      BY <1>1, <2>3 DEF Join
    <2>4. CASE Announce
      BY <1>1, <2>4 DEF Announce
    <2>5. CASE Listen
      BY <1>1, <2>5 DEF Listen
    <2>6. CASE ListenFails
      BY <1>1, <2>6 DEF ListenFails
    <2> QED
      BY <1>3, <2>1, <2>2, <2>3, <2>4, <2>5, <2>6 DEF Starter
  <1>4. ASSUME NEW written \in {"address", "nothing"}, Redirect(written) PROVE DialOK'
    BY <1>1, <1>4 DEF Redirect, DialOK, startVars
  <1>5. ASSUME NEW r \in 1..MaxRedirects, CollectRedirect(r) PROVE DialOK'
    BY <1>1, <1>5 DEF CollectRedirect, DialOK, startVars
  <1>6. CASE Accept
    BY <1>1, <1>6 DEF Accept, DialOK, startVars
  <1>7. CASE Loop
    <2> USE DEF DialOK, LoopGoes, startVars, redirectVars
    <2>1. CASE TakeRedirect
      BY <1>1, <2>1 DEF TakeRedirect
    <2>2. CASE ReadAddress \/ ReadAddressFails
      BY <1>1, <2>2 DEF ReadAddress, ReadAddressFails
    <2>3. CASE DialNew
      <3>1. Len(moves') = Len(moves) + 1
        BY <1>1, <2>3, AppendProperties DEF DialNew
      <3> QED
        BY <1>1, <2>3, <3>1 DEF DialNew
    <2>4. CASE DialNewFails \/ JoinNew
      BY <1>1, <2>4 DEF DialNewFails, JoinNew
    <2>5. CASE BeginRead \/ Read \/ ReadFails
      BY <1>1, <2>5 DEF BeginRead, Read, ReadFails
    <2>6. CASE Show \/ EndShow
      BY <1>1, <2>6 DEF Show, EndShow
    <2> QED
      BY <1>7, <2>1, <2>2, <2>3, <2>4, <2>5, <2>6 DEF Loop
  <1>8. ASSUME NEW k \in Conn, Handler(k) \/ PartnerSpeaks(k) \/ ServerCrash(k) PROVE DialOK'
    BY <1>1, <1>8 DEF Handler, HandleJoin, HandleMessage, PartnerSpeaks, ServerCrash, DialOK,
                      startVars, redirectVars
  <1> QED
    BY <1>2, <1>3, <1>4, <1>5, <1>6, <1>7, <1>8 DEF Next
----------------------------------------------------------------------------
\* Handing the first pending line to the page.
LEMMA ShowMoves ==
  ASSUME NEW S, NEW s \in Seq(S), NEW t \in Seq(S), t # <<>>
  PROVE  Append(s, Head(t)) \o Tail(t) = s \o t
  <1>1. /\ Head(t) \in S /\ Tail(t) \in Seq(S) /\ Len(Tail(t)) = Len(t) - 1 /\ Head(t) = t[1]
        /\ \A i \in 1..Len(Tail(t)) : Tail(t)[i] = t[i + 1]
    BY HeadTailProperties
  <1>2. Len(t) \in Nat /\ Len(t) >= 1 /\ Len(s) \in Nat
    BY EmptySeq
  <1> DEFINE a == Append(s, Head(t))
             u == Tail(t)
  <1>3. /\ a \in Seq(S) /\ Len(a) = Len(s) + 1 /\ a[Len(s) + 1] = t[1]
        /\ \A i \in 1..Len(s) : a[i] = s[i]
    BY <1>1, AppendProperties
  <1>4. u \in Seq(S) /\ Len(u) = Len(t) - 1 /\ \A i \in 1..Len(u) : u[i] = t[i + 1]
    BY <1>1
  <1> HIDE DEF a, u
  <1>5. /\ a \o u \in Seq(S) /\ Len(a \o u) = Len(s) + Len(t)
        /\ \A i \in 1..(Len(s) + Len(t)) : (a \o u)[i] = IF i <= Len(s) + 1 THEN a[i] ELSE u[i - (Len(s) + 1)]
    <2>1. /\ a \o u \in Seq(S) /\ Len(a \o u) = Len(a) + Len(u)
          /\ \A i \in 1..(Len(a) + Len(u)) : (a \o u)[i] = IF i <= Len(a) THEN a[i] ELSE u[i - Len(a)]
      BY <1>3, <1>4, ConcatProperties
    <2>2. Len(a) + Len(u) = Len(s) + Len(t) /\ Len(a) = Len(s) + 1
      BY <1>2, <1>3, <1>4
    <2> QED
      BY <2>1, <2>2
  <1>6. /\ s \o t \in Seq(S) /\ Len(s \o t) = Len(s) + Len(t)
        /\ \A i \in 1..(Len(s) + Len(t)) : (s \o t)[i] = IF i <= Len(s) THEN s[i] ELSE t[i - Len(s)]
    BY ConcatProperties
  <1>7. ASSUME NEW i \in 1..(Len(s) + Len(t)) PROVE (a \o u)[i] = (s \o t)[i]
    <2>1. CASE i <= Len(s)
      BY <1>2, <1>3, <1>5, <1>6, <2>1
    <2>2. CASE i = Len(s) + 1
      <3>1. ~(i <= Len(s)) /\ i <= Len(s) + 1 /\ i - Len(s) = 1
        BY <1>2, <2>2
      <3> QED
        BY <1>3, <1>5, <1>6, <2>2, <3>1
    <2>3. CASE i > Len(s) + 1
      <3>1. i - (Len(s) + 1) \in 1..Len(u) /\ (i - (Len(s) + 1)) + 1 = i - Len(s)
            /\ ~(i <= Len(s)) /\ ~(i <= Len(s) + 1)
        BY <1>2, <1>4, <2>3
      <3> QED
        BY <1>4, <1>5, <1>6, <3>1
    <2>4. i <= Len(s) \/ i = Len(s) + 1 \/ i > Len(s) + 1
      BY <1>2
    <2> QED
      BY <2>1, <2>2, <2>3, <2>4
  <1>8. a \o u = s \o t
    BY <1>5, <1>6, <1>7, SeqEqual
  <1> QED
    BY <1>8 DEF a, u

\* The page's lines after every step.
LEMMA TextStep ==
  ASSUME SessionInv, Next
  PROVE  TextOK'
  <1>1. TextOK /\ SessionShape
    BY DEF SessionInv
  <1>2. CASE SendMessage
    BY <1>1, <1>2 DEF SendMessage, TextOK, startVars, textVars
  <1>3. CASE Starter
    <2> USE DEF TextOK, StarterGoes, textVars
    <2>1. CASE Dial \/ DialFails
      BY <1>1, <2>1 DEF Dial, DialFails
    <2>2. CASE Join \/ JoinFails
      BY <1>1, <2>2 DEF Join, JoinFails
    <2>3. CASE Announce
      BY <1>1, <2>3 DEF Announce
    <2>4. CASE Listen
      BY <1>1, <2>4 DEF Listen, SessionInv, DialOK
    <2>5. CASE ListenFails
      <3>1. shown = <<>> /\ shown' = Append(shown, Failed)
        BY <1>1, <2>5 DEF ListenFails
      <3>2. shown' = <<Failed>>
        BY <3>1
      <3> QED
        BY <1>1, <2>5, <3>2 DEF ListenFails
    <2> QED
      BY <1>3, <2>1, <2>2, <2>3, <2>4, <2>5 DEF Starter
  <1>4. ASSUME NEW written \in {"address", "nothing"}, Redirect(written) PROVE TextOK'
    BY <1>1, <1>4 DEF Redirect, TextOK, startVars, textVars
  <1>5. ASSUME NEW r \in 1..MaxRedirects, CollectRedirect(r) PROVE TextOK'
    BY <1>1, <1>5 DEF CollectRedirect, TextOK, startVars, textVars
  <1>6. CASE Accept
    BY <1>1, <1>6 DEF Accept, TextOK, startVars, textVars
  <1>7. CASE Loop
    <2>1. CASE TakeRedirect \/ ReadAddress \/ ReadAddressFails
      BY <1>1, <2>1 DEF TakeRedirect, ReadAddress, ReadAddressFails, LoopGoes, TextOK, startVars, textVars
    <2>2. CASE DialNew \/ DialNewFails \/ JoinNew
      BY <1>1, <2>2 DEF DialNew, DialNewFails, JoinNew, LoopGoes, TextOK, startVars, textVars
    <2>3. CASE BeginRead \/ ReadFails \/ EndShow
      BY <1>1, <2>3 DEF BeginRead, ReadFails, EndShow, LoopGoes, TextOK, startVars, textVars
    <2>4. CASE Read
      <3>1. PICK buffer \in Seq(Tokens) :
              /\ heard' = heard \o buffer
              /\ incomplete' = Rest(incomplete \o buffer)
              /\ pending' = Parts(incomplete \o buffer)
        BY <2>4, ReadFacts
      <3>2. loop = "read" /\ loop' = "show" /\ UNCHANGED <<startVars, shown>>
        BY <2>4, ReadFacts
      <3>3. starter = "done"
        BY <3>2 DEF SessionInv, DialOK
      <3>4. shown \o pending = Parts(heard) /\ pending = <<>> /\ incomplete = Rest(heard)
        BY <1>1, <3>2, <3>3 DEF TextOK
      <3>5. shown \in Seq(Seq(Tokens)) /\ heard \in Seq(Tokens)
        BY <1>1 DEF SessionShape
      <3>6. shown = Parts(heard)
        BY <3>4, <3>5, ConcatEmptySeq
      <3>7. /\ Parts(heard \o buffer) = Parts(heard) \o Parts(incomplete \o buffer)
            /\ Rest(heard \o buffer) = Rest(incomplete \o buffer)
        BY <3>4, <3>5, ChunkSplit
      <3>8. shown' \o pending' = Parts(heard') /\ incomplete' = Rest(heard')
        BY <3>1, <3>2, <3>6, <3>7
      <3> QED
        BY <3>2, <3>3, <3>8 DEF TextOK, startVars
    <2>5. CASE Show
      <3>1. /\ loop = "show" /\ loop' = loop /\ pending # <<>>
            /\ shown' = Append(shown, Head(pending)) /\ pending' = Tail(pending)
            /\ UNCHANGED <<startVars, incomplete, heard>>
        BY <2>5 DEF Show
      <3>2. starter = "done"
        BY <3>1 DEF SessionInv, DialOK
      <3>3. shown' \o pending' = shown \o pending
        BY <1>1, <3>1, ShowMoves DEF SessionShape
      <3> QED
        BY <1>1, <3>1, <3>2, <3>3 DEF TextOK, startVars
    <2> QED
      BY <1>7, <2>1, <2>2, <2>3, <2>4, <2>5 DEF Loop
  <1>8. ASSUME NEW k \in Conn, Handler(k) \/ PartnerSpeaks(k) \/ ServerCrash(k) PROVE TextOK'
    BY <1>1, <1>8 DEF Handler, HandleJoin, HandleMessage, PartnerSpeaks, ServerCrash, TextOK,
                      startVars, textVars
  <1> QED
    BY <1>2, <1>3, <1>4, <1>5, <1>6, <1>7, <1>8 DEF Next
----------------------------------------------------------------------------
\* Whole lines from one connection, appended to a stream that ends in a newline.
LEMMA StreamAppend ==
  ASSUME NEW k, NEW f \in Seq(Tokens), NEW b \in Seq(Tokens), Len(b) >= 1,
         TextsEnd(f), f # <<>> => f[Len(f)].text = NewLine,
         \A p \in 1..Len(f) : f[p].conn = k,
         b[Len(b)].text = NewLine, \A p \in 1..Len(b) : b[p].conn = k,
         \A p \in 1..(Len(b) - 1) : b[p].text = NewLine \/ b[p + 1].text = NewLine
  PROVE  /\ TextsEnd(f \o b) /\ f \o b # <<>>
         /\ (f \o b)[Len(f \o b)].text = NewLine
         /\ \A p \in 1..Len(f \o b) : (f \o b)[p].conn = k
         /\ f # <<>> => (f \o b)[1] = f[1]
  <1> DEFINE r == f \o b
  <1>1. /\ r \in Seq(Tokens) /\ Len(f) \in Nat /\ Len(b) \in Nat /\ Len(r) = Len(f) + Len(b)
        /\ \A i \in 1..Len(f) : r[i] = f[i]
        /\ \A i \in 1..Len(b) : r[Len(f) + i] = b[i]
    BY NewLinesJoin
  <1> HIDE DEF r
  <1>2. \A i \in 1..Len(r) : i \in 1..Len(f) \/ (i - Len(f) \in 1..Len(b) /\ i = Len(f) + (i - Len(f)))
    BY <1>1
  <1>3. r # <<>>
    BY <1>1, EmptySeq
  <1>4. r[Len(r)].text = NewLine
    BY <1>1
  <1>5. ASSUME NEW p \in 1..Len(r) PROVE r[p].conn = k
    <2>1. CASE p \in 1..Len(f)
      BY <1>1, <2>1
    <2>2. CASE p - Len(f) \in 1..Len(b) /\ p = Len(f) + (p - Len(f))
      BY <1>1, <2>2
    <2> QED
      BY <1>2, <2>1, <2>2
  <1>6. f # <<>> => r[1] = f[1]
    BY <1>1, EmptySeq
  <1>7. ASSUME NEW p \in 1..(Len(r) - 1), r[p].text # NewLine PROVE r[p + 1].text = NewLine
    <2>0. p \in Nat /\ p >= 1
      BY <1>1
    <2>1. CASE p < Len(f)
      <3>1. p \in 1..(Len(f) - 1) /\ p \in 1..Len(f) /\ p + 1 \in 1..Len(f)
        BY <1>1, <2>0, <2>1
      <3>2. f[p].conn = k /\ f[p + 1].conn = k /\ k \in Nat
        <4>1. f[p] \in Tokens
          BY <3>1, ElementOfSeq
        <4> QED
          BY <3>1, <4>1 DEF Tokens
      <3>3. f[p].text # NewLine
        BY <1>1, <1>7, <3>1
      <3>4. f[p + 1].text = NewLine
        BY <3>1, <3>2, <3>3 DEF TextsEnd
      <3> QED
        BY <1>1, <3>1, <3>4
    <2>2. CASE p = Len(f)
      <3>1. p \in 1..Len(f) /\ f # <<>> /\ r[p] = f[p]
        BY <1>1, <2>0, <2>2, EmptySeq
      <3> QED
        BY <1>7, <2>2, <3>1
    <2>3. CASE p > Len(f)
      <3> DEFINE i == p - Len(f)
      <3>1. /\ i \in 1..(Len(b) - 1) /\ i \in 1..Len(b) /\ i + 1 \in 1..Len(b)
            /\ p = Len(f) + i /\ p + 1 = Len(f) + (i + 1)
        BY <1>1, <2>0, <2>3
      <3> HIDE DEF i
      <3>2. r[p] = b[i] /\ r[p + 1] = b[i + 1]
        BY <1>1, <3>1
      <3> QED
        BY <1>7, <3>1, <3>2
    <2> QED
      BY <1>1, <2>0, <2>1, <2>2, <2>3
  <1>8. TextsEnd(r)
    BY <1>7 DEF TextsEnd
  <1> QED
    BY <1>3, <1>4, <1>5, <1>6, <1>8 DEF r

\* A server writes whole lines to a connection.
LEMMA WriteStreams ==
  ASSUME SessionInv, NEW k \in Conn, NEW lines \in Seq(Texts), UNCHANGED <<heard, currentChatConn>>,
         fromServer' = [fromServer EXCEPT ![k] = @ \o Broadcast(k, lines)]
  PROVE  StreamsOK'
  <1> DEFINE f == fromServer[k]
             b == Broadcast(k, lines)
  <1>1. /\ StreamsOK /\ f \in Seq(Tokens) /\ fromServer \in [Conn -> Seq(Tokens)]
    BY DEF SessionInv, SessionShape
  <1>2. /\ b \in Seq(Tokens) /\ Len(b) >= 1 /\ b[Len(b)].text = NewLine
        /\ \A p \in 1..Len(b) : b[p].conn = k
        /\ \A p \in 1..(Len(b) - 1) : b[p].text = NewLine \/ b[p + 1].text = NewLine
    <2>1. Len(lines) \in Nat
      OBVIOUS
    <2> QED
      BY <2>1, BroadcastProperties
  <1> HIDE DEF b
  <1>3. fromServer'[k] = f \o b /\ \A x \in Conn : x # k => fromServer'[x] = fromServer[x]
    BY <1>1 DEF b
  <1>4. StreamOK(k)
    BY <1>1 DEF StreamsOK
  <1>5. /\ TextsEnd(f) /\ (f # <<>> => f[Len(f)].text = NewLine)
        /\ \A p \in 1..Len(f) : f[p].conn = k
    BY <1>4 DEF StreamOK
  <1> HIDE DEF f
  <1>6. /\ TextsEnd(f \o b) /\ f \o b # <<>>
        /\ (f \o b)[Len(f \o b)].text = NewLine
        /\ \A p \in 1..Len(f \o b) : (f \o b)[p].conn = k
        /\ f # <<>> => (f \o b)[1] = f[1]
    BY <1>1, <1>2, <1>5, StreamAppend
  <1>7. ASSUME NEW x \in Conn PROVE StreamOK(x)'
    <2>1. CASE x = k
      <3> DEFINE r == f \o b
      <3> HIDE DEF r
      <3>1. TextsEnd(r) /\ r[Len(r)].text = NewLine /\ \A p \in 1..Len(r) : r[p].conn = k
        BY <1>6 DEF r
      <3>2. fromServer'[x] = r
        BY <1>3, <2>1 DEF r
      <3> QED
        BY <2>1, <3>1, <3>2 DEF StreamOK, TextsEnd
    <2>2. CASE x # k
      BY <1>1, <1>3, <2>2 DEF StreamsOK, StreamOK, TextsEnd
    <2> QED
      BY <2>1, <2>2
  <1>8. HeardOK'
    <2>1. HeardOK
      BY <1>1 DEF StreamsOK
    <2>2. currentChatConn \in Conn \/ heard = <<>>
      <3>1. CASE dialled = 0
        <4>1. starter # "done"
          BY <3>1 DEF SessionInv, DialOK
        <4> QED
          BY <4>1 DEF SessionInv, DialOK, TextOK
      <3> QED
        BY <3>1, ConnRange
    <2>3. currentChatConn \in Conn /\ fromServer[currentChatConn] # <<>>
            => fromServer'[currentChatConn] # <<>>
               /\ fromServer'[currentChatConn][1] = fromServer[currentChatConn][1]
      <3>1. CASE currentChatConn = k
        BY <1>3, <1>6, <3>1 DEF f
      <3>2. CASE currentChatConn # k
        BY <1>3, <3>2
      <3> QED
        BY <3>1, <3>2
    <2> QED
      BY <2>1, <2>2, <2>3 DEF HeardOK, TextsEnd
  <1> QED
    BY <1>7, <1>8 DEF StreamsOK

\* A read may end anywhere in a line: the line goes on in what is left.
LEMMA ReadStreams ==
  ASSUME SessionInv, Read
  PROVE  StreamsOK'
  <1> DEFINE cc == currentChatConn
             f == fromServer[cc]
             h == heard
  <1>1. cc \in Conn /\ f \in Seq(Tokens) /\ UNCHANGED currentChatConn /\ cc \in Nat
    BY BoundsAssumption, ReadFacts DEF Conn
  <1>2. PICK n \in 1..Len(f), buffer \in Seq(Tokens), left \in Seq(Tokens) :
          /\ Len(buffer) = n /\ \A i \in 1..n : buffer[i] = f[i]
          /\ Len(left) = Len(f) - n /\ \A i \in 1..(Len(f) - n) : left[i] = f[n + i]
          /\ fromServer' = [fromServer EXCEPT ![cc] = left]
          /\ heard' = h \o buffer
    BY ReadFacts
  <1>3. StreamsOK /\ fromServer \in [Conn -> Seq(Tokens)] /\ h \in Seq(Tokens) /\ Len(h) \in Nat
        /\ Len(f) \in Nat /\ n \in Nat /\ n >= 1 /\ n <= Len(f)
    BY <1>1 DEF SessionInv, SessionShape
  <1>4. fromServer'[cc] = left /\ \A x \in Conn : x # cc => fromServer'[x] = fromServer[x]
    BY <1>1, <1>2, <1>3
  <1>5. /\ TextsEnd(f) /\ (f # <<>> => f[Len(f)].text = NewLine)
        /\ \A p \in 1..Len(f) : f[p].conn = cc
    BY <1>1, <1>3 DEF StreamsOK, StreamOK
  <1>6. /\ TextsEnd(h)
        /\ \A p \in 1..Len(h) : h[p].conn <= cc
        /\ \A p, q \in 1..Len(h) : p < q => h[p].conn <= h[q].conn
        /\ (h # <<>> /\ h[Len(h)].text # NewLine /\ h[Len(h)].conn = cc)
             => f # <<>> /\ f[1].text = NewLine
    BY <1>3 DEF StreamsOK, HeardOK
  <1> HIDE DEF f, h, cc
  <1>7. \A i \in 1..(Len(f) - 1) : f[i].text # NewLine => f[i + 1].text = NewLine
    <2>1. ASSUME NEW i \in 1..(Len(f) - 1), f[i].text # NewLine PROVE f[i + 1].text = NewLine
      <3>1. i \in 1..Len(f) /\ i + 1 \in 1..Len(f)
        BY <1>3
      <3>2. f[i].conn = cc /\ f[i + 1].conn = cc
        BY <1>5, <3>1
      <3>3. ~(f[i].conn < f[i + 1].conn)
        BY <1>1, <3>2
      <3> QED
        BY <1>5, <2>1, <3>3 DEF TextsEnd
    <2> QED
      BY <2>1
  <1>8. f[Len(f)].text = NewLine
    BY <1>3, <1>5, EmptySeq
  <1>9. ASSUME NEW x \in Conn PROVE StreamOK(x)'
    <2>1. CASE x # cc
      BY <1>3, <1>4, <2>1 DEF StreamsOK, StreamOK, TextsEnd
    <2>2. CASE x = cc
      <3>1. \A p \in 1..Len(left) : left[p].conn = cc
        <4>1. ASSUME NEW p \in 1..Len(left) PROVE left[p].conn = cc
          <5>1. p \in 1..(Len(f) - n) /\ n + p \in 1..Len(f)
            BY <1>2, <1>3
          <5> QED
            BY <1>2, <1>5, <5>1
        <4> QED
          BY <4>1
      <3>2. TextsEnd(left)
        <4>1. ASSUME NEW p \in 1..(Len(left) - 1), left[p].text # NewLine
              PROVE  left[p + 1].text = NewLine
          <5>1. /\ p \in 1..(Len(f) - n) /\ p + 1 \in 1..(Len(f) - n)
                /\ n + p \in 1..(Len(f) - 1) /\ n + (p + 1) = (n + p) + 1
            BY <1>2, <1>3
          <5>2. left[p] = f[n + p] /\ left[p + 1] = f[(n + p) + 1]
            BY <1>2, <5>1
          <5> QED
            BY <1>7, <4>1, <5>1, <5>2
        <4> QED
          BY <4>1 DEF TextsEnd
      <3>3. left # <<>> => left[Len(left)].text = NewLine
        <4>1. SUFFICES ASSUME left # <<>> PROVE left[Len(left)].text = NewLine
          OBVIOUS
        <4>2. Len(left) \in 1..(Len(f) - n) /\ n + Len(left) = Len(f)
          BY <1>2, <1>3, <4>1, EmptySeq
        <4> QED
          BY <1>2, <1>8, <4>2
      <3>4. fromServer'[x] = left
        BY <1>4, <2>2
      <3> QED
        BY <2>2, <3>1, <3>2, <3>3, <3>4 DEF StreamOK, TextsEnd
    <2> QED
      BY <2>1, <2>2
  <1> DEFINE w == h \o buffer
  <1>10. /\ Len(w) = Len(h) + n /\ \A i \in 1..Len(h) : w[i] = h[i]
         /\ \A i \in 1..n : w[Len(h) + i] = f[i]
         /\ w \in Seq(Tokens)
    BY <1>2, <1>3, NewLinesJoin
  <1> HIDE DEF w
  <1>11. \A i \in 1..Len(w) : i \in 1..Len(h) \/ (i - Len(h) \in 1..n /\ i = Len(h) + (i - Len(h)))
    BY <1>3, <1>10
  <1>12. \A i \in 1..n : i \in 1..Len(f) /\ f[i].conn = cc
    BY <1>3, <1>5
  <1>13. ASSUME NEW p \in 1..Len(w) PROVE w[p].conn <= cc /\ (p \notin 1..Len(h) => w[p].conn = cc)
    <2>1. CASE p \in 1..Len(h)
      BY <1>6, <1>10, <2>1
    <2>2. CASE p - Len(h) \in 1..n /\ p = Len(h) + (p - Len(h))
      <3>1. w[p].conn = cc
        BY <1>10, <1>12, <2>2
      <3> QED
        BY <1>1, <3>1
    <2> QED
      BY <1>11, <2>1, <2>2
  <1>14. ASSUME NEW p \in 1..Len(w), NEW q \in 1..Len(w), p < q PROVE w[p].conn <= w[q].conn
    <2>1. CASE q \in 1..Len(h)
      <3>1. p \in 1..Len(h)
        BY <1>3, <1>10, <1>14, <2>1
      <3> QED
        BY <1>6, <1>10, <1>14, <2>1, <3>1
    <2>2. CASE q \notin 1..Len(h)
      BY <1>13, <2>2
    <2> QED
      BY <2>1, <2>2
  <1>15. TextsEnd(w)
    <2>1. ASSUME NEW p \in 1..(Len(w) - 1), w[p].text # NewLine
          PROVE  w[p + 1].text = NewLine \/ w[p].conn < w[p + 1].conn
      <3>0. p \in Nat /\ p >= 1
        BY <1>3, <1>10
      <3>1. CASE p < Len(h)
        <4>1. p \in 1..(Len(h) - 1) /\ p \in 1..Len(h) /\ p + 1 \in 1..Len(h)
          BY <1>3, <3>0, <3>1
        <4>2. w[p] = h[p] /\ w[p + 1] = h[p + 1]
          BY <1>10, <4>1
        <4> QED
          BY <1>6, <2>1, <4>1, <4>2 DEF TextsEnd
      <3>2. CASE p = Len(h)
        <4>1. p \in 1..Len(h) /\ h # <<>> /\ 1 \in 1..n /\ p + 1 = Len(h) + 1
          BY <1>3, <3>0, <3>2, EmptySeq
        <4>2. w[p] = h[Len(h)] /\ w[p + 1] = f[1] /\ f[1].conn = cc
          BY <1>10, <1>12, <3>2, <4>1
        <4>3. CASE h[Len(h)].conn = cc
          BY <1>6, <2>1, <4>1, <4>2, <4>3
        <4>4. CASE h[Len(h)].conn # cc
          <5>1. h[Len(h)].conn <= cc /\ h[Len(h)] \in Tokens
            BY <1>3, <1>6, <3>2, <4>1, ElementOfSeq
          <5>2. h[Len(h)].conn < cc
            BY <1>1, <4>4, <5>1 DEF Tokens
          <5> QED
            BY <4>2, <5>2
        <4> QED
          BY <4>3, <4>4
      <3>3. CASE p > Len(h)
        <4> DEFINE i == p - Len(h)
        <4>1. /\ i \in 1..(Len(f) - 1) /\ i \in 1..n /\ i + 1 \in 1..n
              /\ p = Len(h) + i /\ p + 1 = Len(h) + (i + 1)
          BY <1>3, <1>10, <3>0, <3>3
        <4> HIDE DEF i
        <4>2. w[p] = f[i] /\ w[p + 1] = f[i + 1]
          BY <1>10, <4>1
        <4> QED
          BY <1>7, <2>1, <4>1, <4>2
      <3> QED
        BY <1>3, <3>0, <3>1, <3>2, <3>3
    <2> QED
      BY <2>1 DEF TextsEnd
  <1>16. w[Len(w)].text # NewLine => left # <<>> /\ left[1].text = NewLine
    <2>1. SUFFICES ASSUME w[Len(w)].text # NewLine PROVE left # <<>> /\ left[1].text = NewLine
      OBVIOUS
    <2>2. w[Len(w)] = f[n]
      BY <1>3, <1>10
    <2>3. n # Len(f)
      BY <1>8, <2>1, <2>2
    <2>4. n \in 1..(Len(f) - 1) /\ 1 \in 1..(Len(f) - n)
      BY <1>3, <2>3
    <2>5. f[n + 1].text = NewLine /\ left[1] = f[n + 1]
      BY <1>2, <1>7, <2>1, <2>2, <2>4
    <2>6. left # <<>>
      BY <1>2, <2>4, EmptySeq
    <2> QED
      BY <2>5, <2>6
  <1>17. HeardOK'
    <2>1. heard' = w /\ currentChatConn' = cc /\ fromServer'[cc] = left
      BY <1>1, <1>2, <1>4 DEF w, cc
    <2> QED
      BY <1>13, <1>14, <1>15, <1>16, <2>1 DEF HeardOK, TextsEnd
  <1> QED
    BY <1>9, <1>17 DEF StreamsOK

\* A text is followed by its newline in every stream, after every step.
LEMMA StreamsStep ==
  ASSUME SessionInv, Next
  PROVE  StreamsOK'
  <1>1. StreamsOK /\ dialled \in Nat /\ currentChatConn = dialled /\ heard \in Seq(Tokens)
    BY DEF SessionInv, SessionShape, DialOK
  <1>2. ASSUME UNCHANGED <<heard, fromServer, currentChatConn>> PROVE StreamsOK'
    BY <1>1, <1>2 DEF StreamsOK, StreamOK, HeardOK, TextsEnd
  <1>3. CASE SendMessage \/ Accept
    BY <1>2, <1>3 DEF SendMessage, Accept, textVars, serverVars
  <1>4. CASE Starter
    <2>1. CASE Dial
      <3>1. heard = <<>> /\ Len(heard) = 0 /\ UNCHANGED <<heard, fromServer>>
        BY <2>1 DEF Dial, StarterGoes, SessionInv, DialOK, TextOK, textVars, serverVars
      <3>2. HeardOK'
        BY <3>1 DEF HeardOK, TextsEnd
      <3> QED
        BY <1>1, <3>1, <3>2 DEF StreamsOK, StreamOK, TextsEnd
    <2>2. CASE DialFails \/ Join \/ JoinFails
      BY <1>2, <2>2 DEF DialFails, Join, JoinFails, textVars, serverVars
    <2>3. CASE Announce \/ Listen \/ ListenFails
      BY <1>2, <2>3 DEF Announce, Listen, ListenFails, textVars, serverVars
    <2> QED
      BY <1>4, <2>1, <2>2, <2>3 DEF Starter
  <1>5. ASSUME NEW written \in {"address", "nothing"}, Redirect(written) PROVE StreamsOK'
    BY <1>2, <1>5 DEF Redirect, textVars, serverVars
  <1>6. ASSUME NEW r \in 1..MaxRedirects, CollectRedirect(r) PROVE StreamsOK'
    BY <1>2, <1>6 DEF CollectRedirect, textVars, serverVars
  <1>7. CASE Loop
    <2>1. CASE DialNew
      <3>1. currentChatConn' = currentChatConn + 1 /\ UNCHANGED <<heard, fromServer>>
        BY <1>1, <2>1 DEF DialNew, textVars, serverVars
      <3>2. \A p \in 1..Len(heard) : heard[p].conn \in Nat /\ heard[p].conn <= currentChatConn
        <4>1. \A p \in 1..Len(heard) : heard[p] \in Tokens
          BY <1>1, ElementOfSeq
        <4> QED
          BY <1>1, <4>1 DEF StreamsOK, HeardOK, Tokens
      <3>3. \A p \in 1..Len(heard) : heard[p].conn < currentChatConn + 1
        BY <1>1, <3>2
      <3>4. heard # <<>> => Len(heard) \in 1..Len(heard)
        BY <1>1, EmptySeq
      <3>5. HeardOK'
        <4>1. \A p \in 1..Len(heard) : heard[p].conn <= currentChatConn + 1
              /\ heard[p].conn # currentChatConn + 1
          BY <1>1, <3>2, <3>3
        <4> QED
          BY <1>1, <3>1, <3>4, <4>1 DEF StreamsOK, HeardOK, TextsEnd
      <3> QED
        BY <1>1, <3>1, <3>5 DEF StreamsOK, StreamOK, TextsEnd
    <2>2. CASE Read
      BY <2>2, ReadStreams
    <2>3. CASE TakeRedirect \/ ReadAddress \/ ReadAddressFails \/ DialNewFails
      BY <1>2, <2>3 DEF TakeRedirect, ReadAddress, ReadAddressFails, DialNewFails, textVars, serverVars
    <2>4. CASE JoinNew \/ BeginRead \/ ReadFails \/ Show \/ EndShow
      BY <1>2, <2>4 DEF JoinNew, BeginRead, ReadFails, Show, EndShow, textVars, serverVars
    <2> QED
      BY <1>7, <2>1, <2>2, <2>3, <2>4 DEF Loop
  <1>8. ASSUME NEW k \in Conn, Handler(k) \/ PartnerSpeaks(k) \/ ServerCrash(k) PROVE StreamsOK'
    <2>1. CASE HandleJoin(k) \/ ServerCrash(k)
      BY <1>2, <2>1 DEF HandleJoin, ServerCrash, textVars
    <2>2. CASE HandleMessage(k)
      <3>1. PICK n \in 1..Len(toServer[k]) :
              fromServer' = [fromServer EXCEPT ![k] = @ \o Broadcast(k, SubSeq(toServer[k], 1, n))]
        BY <2>2 DEF HandleMessage
      <3>2. UNCHANGED <<heard, currentChatConn>>
        BY <2>2 DEF HandleMessage, textVars
      <3> QED
        BY <3>1, <3>2, LinesLeft, WriteStreams
    <2>3. CASE PartnerSpeaks(k)
      <3> DEFINE line == <<"partner", spoken'>>
      <3>1. line \in Texts
        <4>1. spoken' \in Nat
          BY <2>3 DEF PartnerSpeaks, SessionInv, SessionShape
        <4> QED
          BY <4>1, TextTypes
      <3>2. UNCHANGED <<heard, currentChatConn>>
            /\ fromServer' = [fromServer EXCEPT ![k] = @ \o Broadcast(k, <<line>>)]
        BY <2>3 DEF PartnerSpeaks, textVars
      <3> HIDE DEF line
      <3>3. <<line>> \in Seq(Texts)
        BY <3>1
      <3> QED
        BY <3>2, <3>3, WriteStreams
    <2> QED
      BY <1>8, <2>1, <2>2, <2>3 DEF Handler
  <1> QED
    BY <1>3, <1>4, <1>5, <1>6, <1>7, <1>8 DEF Next
----------------------------------------------------------------------------
\* Nothing has been read yet.
LEMMA SessionStarts ==
  ASSUME Init
  PROVE  SessionInv
  <1>1. MaxRedirects \in Nat
    BY BoundsAssumption
  <1>2. Parts(<<>>) = <<>> /\ Rest(<<>>) = <<>>
    <2>1. <<>> \in Seq(Tokens) /\ NewLines(<<>>) = {}
      BY DEF NewLines
    <2> QED
      BY <2>1, NoNewLineNoParts
  <1>3. SessionShape
    BY DEF Init, SessionShape
  <1>4. RouteOK
    BY <1>1 DEF Init, RouteOK, Passed
  <1>5. DialOK
    BY DEF Init, DialOK
  <1>6. TextOK
    <2>1. shown \o pending = <<>>
      BY DEF Init
    <2> QED
      BY <1>2, <2>1 DEF Init, TextOK
  <1>7. StreamsOK
    BY DEF Init, StreamsOK, StreamOK, HeardOK, TextsEnd
  <1> QED
    BY <1>3, <1>4, <1>5, <1>6, <1>7 DEF SessionInv

\* No step breaks the invariant.
LEMMA SessionStep ==
  ASSUME SessionInv, [Next]_vars
  PROVE  SessionInv'
  <1>1. CASE UNCHANGED vars
    <2>1. SessionShape' /\ RouteOK' /\ DialOK' /\ TextOK'
      BY <1>1 DEF SessionInv, vars, startVars, redirectVars, textVars, serverVars, userVars,
                  SessionShape, RouteOK, Passed, DialOK, TextOK
    <2>2. StreamsOK'
      BY <1>1 DEF SessionInv, vars, textVars, serverVars, StreamsOK, StreamOK, HeardOK, TextsEnd
    <2> QED
      BY <2>1, <2>2 DEF SessionInv
  <1>2. CASE Next
    <2>1. SessionShape'
      <3>1. CASE SendMessage \/ Starter
        BY <3>1, StarterShape
      <3>2. CASE \/ \E written \in {"address", "nothing"} : Redirect(written)
                 \/ \E r \in 1..MaxRedirects : CollectRedirect(r)
                 \/ Accept
        BY <3>2, RedirectShape
      <3>3. CASE Loop
        BY <3>3, RedirectShape, ReadShape DEF Loop
      <3>4. CASE \E k \in Conn : Handler(k) \/ PartnerSpeaks(k) \/ ServerCrash(k)
        BY <3>4, ServerShape
      <3> QED
        BY <1>2, <3>1, <3>2, <3>3, <3>4 DEF Next
    <2> QED
      BY <1>2, <2>1, RouteStep, DialStep, TextStep, StreamsStep DEF SessionInv
  <1> QED
    BY <1>1, <1>2

\* The invariant of the chat session holds in every reachable state.
LEMMA SessionInvariant == Spec => []SessionInv
  <1>1. Init => SessionInv
    BY SessionStarts
  <1>2. SessionInv /\ [Next]_vars => SessionInv'
    BY SessionStep
  <1> QED
    BY <1>1, <1>2, PTL DEF Spec

\* Types of the goroutines of StartChat; a redirect is in one place at a time
\* (backlog, channel or loop), and the connection that the client uses is the
\* last one it dialled.
THEOREM SessionTypeCorrect == Spec => []TypeOK
  <1>1. SessionInv => TypeOK
    <2> SUFFICES ASSUME SessionInv PROVE TypeOK
      OBVIOUS
    <2>1. /\ Len(redirects) \in Nat /\ Len(backlog) \in Nat /\ handed \in Nat /\ taken \in Nat
          /\ backlog \in Seq(Nat) /\ DOMAIN backlog = 1..Len(backlog)
      BY DEF SessionInv, SessionShape
    <2>2. /\ Passed \in Nat /\ taken <= Passed
          /\ handed = IF accepter = "hand" THEN Passed + 1 ELSE 0
          /\ \A i \in 1..Len(backlog) : backlog[i] = Len(redirects) - Len(backlog) + i
      BY DEF SessionInv, RouteOK
    <2>3. (accepter = "hand") <=> (handed # 0)
      BY <2>2
    <2>4. handed = taken => handed = 0
      BY <2>1, <2>2
    <2>5. handed \notin ToSet(backlog)
      <3>1. \A i \in 1..Len(backlog) : backlog[i] # handed
        BY <2>1, <2>2 DEF Passed
      <3> QED
        BY <2>1, <3>1 DEF ToSet
    <2>6. currentChatConn = dialled /\ dialled \in 0..(MaxRedirects + 1)
      BY ConnRange
    <2> QED
      BY <2>3, <2>4, <2>5, <2>6 DEF TypeOK, SessionInv, SessionShape, DialOK
  <1> QED
    BY <1>1, SessionInvariant, PTL

\* The loop of StartChat follows redirects in the order in which Central sent
\* them, no redirect twice, and only those that brought an address.
THEOREM MovesFollowed == Spec => []MovesInOrder
  <1>1. SessionInv => MovesInOrder
    <2> SUFFICES ASSUME SessionInv PROVE MovesInOrder
      OBVIOUS
    <2>1. DOMAIN moves = 1..Len(moves)
      BY DEF SessionInv, SessionShape
    <2> QED
      BY <2>1 DEF SessionInv, RouteOK, MovesInOrder
  <1> QED
    BY <1>1, SessionInvariant, PTL

\* However the reads cut the stream, splitMessages and what it keeps in
\* incompleteMessage give the page the lines of the whole stream.
THEOREM ChunksInvisible == Spec => []ChunkingInvisible
  <1>1. SessionInv => ChunkingInvisible
    <2> SUFFICES ASSUME SessionInv PROVE ChunkingInvisible
      OBVIOUS
    <2>1. TextOK /\ DialOK
      BY DEF SessionInv
    <2>2. CASE starter # "ended"
      BY <2>1, <2>2 DEF TextOK, ChunkingInvisible
    <2>3. CASE starter = "ended"
      <3>1. /\ heard = <<>> /\ pending = <<>> /\ incomplete = Rest(heard)
            /\ shown = <<>> \/ shown = <<Failed>>
        BY <2>1, <2>3 DEF TextOK, DialOK
      <3>2. Parts(<<>>) = <<>>
        <4>1. <<>> \in Seq(Tokens) /\ NewLines(<<>>) = {}
          BY DEF NewLines
        <4> QED
          BY <4>1, NoNewLineNoParts
      <3>3. shown = <<>> => shown \o pending = Parts(heard)
        <4>1. <<>> \o <<>> = <<>>
          OBVIOUS
        <4> QED
          BY <3>1, <3>2, <4>1
      <3> QED
        BY <3>1, <3>3 DEF ChunkingInvisible
    <2> QED
      BY <2>2, <2>3
  <1> QED
    BY <1>1, SessionInvariant, PTL

\* A line on the page has at most one text of each connection: broadcasts of
\* one server are never joined, whatever was read when the client moved.
THEOREM LinesStayWhole == Spec => []LinesWhole
  <1>1. SessionInv => LinesWhole
    <2> SUFFICES ASSUME SessionInv,
                        NEW i \in DOMAIN shown, NEW p \in DOMAIN shown[i], NEW q \in DOMAIN shown[i],
                        p < q
                 PROVE  shown[i][p].conn < shown[i][q].conn
      BY DEF LinesWhole
    <2>1. /\ TextOK /\ HeardOK /\ heard \in Seq(Tokens)
          /\ shown \in Seq(Seq(Tokens)) /\ pending \in Seq(Seq(Tokens))
      BY DEF SessionInv, SessionShape, StreamsOK
    <2>2. /\ i \in 1..Len(shown) /\ shown[i] \in Seq(Tokens) /\ Len(shown) \in Nat
          /\ p \in 1..Len(shown[i]) /\ q \in 1..Len(shown[i]) /\ Len(shown[i]) \in Nat
      BY <2>1, ElementOfSeq
    <2>3. CASE starter = "ended"
      <3>1. shown = <<Failed>>
        BY <2>1, <2>2, <2>3 DEF TextOK
      <3>2. shown[i] = Failed
        BY <2>2, <3>1
      <3>3. Len(shown[i]) = 1
        BY <3>2 DEF Failed
      <3> QED
        BY <2>2, <3>3
    <2>4. CASE starter # "ended"
      <3>1. shown \o pending = Parts(heard)
        BY <2>1, <2>4 DEF TextOK
      <3>2. /\ (shown \o pending)[i] = shown[i]
            /\ Len(shown \o pending) = Len(shown) + Len(pending) /\ Len(pending) \in Nat
        BY <2>1, <2>2, ConcatProperties
      <3>3. i \in 1..Len(Parts(heard)) /\ Parts(heard)[i] = shown[i]
        BY <2>2, <3>1, <3>2
      <3>4. PICK a \in Nat :
              \A k \in 1..Len(shown[i]) :
                a + k \in 1..Len(heard) /\ shown[i][k] = heard[a + k] /\ heard[a + k].text # NewLine
        BY <2>1, <3>3, PartIsPiece
      <3>5. p + 1 \in 1..Len(shown[i]) /\ p + 1 <= q /\ p \in Nat /\ q \in Nat
        BY <2>2
      <3>6. /\ a + p \in 1..Len(heard) /\ shown[i][p] = heard[a + p] /\ heard[a + p].text # NewLine
            /\ a + (p + 1) \in 1..Len(heard) /\ heard[a + (p + 1)].text # NewLine
            /\ a + q \in 1..Len(heard) /\ shown[i][q] = heard[a + q]
        BY <2>2, <3>4, <3>5
      <3>7. a + (p + 1) = (a + p) + 1 /\ a + p \in 1..(Len(heard) - 1)
        <4>1. Len(heard) \in Nat
          BY <2>1
        <4>2. a + p \in 1..Len(heard) /\ a + (p + 1) \in 1..Len(heard)
          BY <3>6
        <4>3. p \in Nat
          BY <3>5
        <4>4. a + (p + 1) = (a + p) + 1
          BY <4>3
        <4> QED
          BY <4>1, <4>2, <4>3, <4>4
      <3>8. heard[a + p].conn < heard[a + (p + 1)].conn
        BY <2>1, <3>6, <3>7 DEF HeardOK, TextsEnd
      <3>9. heard[a + (p + 1)].conn <= heard[a + q].conn
        <4>1. CASE p + 1 = q
          <5>1. heard[a + q] \in Tokens
            BY <2>1, <3>6, ElementOfSeq
          <5> QED
            BY <4>1, <5>1 DEF Tokens
        <4>2. CASE p + 1 < q
          <5>1. a + (p + 1) < a + q
            BY <3>5, <4>2
          <5> QED
            BY <2>1, <3>6, <5>1 DEF HeardOK
        <4> QED
          BY <3>5, <4>1, <4>2
      <3>10. /\ heard[a + p].conn \in Nat /\ heard[a + (p + 1)].conn \in Nat
             /\ heard[a + q].conn \in Nat
        <4>1. /\ heard[a + p] \in Tokens /\ heard[a + (p + 1)] \in Tokens
              /\ heard[a + q] \in Tokens
          BY <2>1, <3>6, ElementOfSeq
        <4> QED
          BY <4>1 DEF Tokens
      <3> QED
        BY <3>6, <3>8, <3>9, <3>10
    <2> QED
      BY <2>3, <2>4
  <1> QED
    BY <1>1, SessionInvariant, PTL
----------------------------------------------------------------------------
\* The life of the process: startup, registration and the ping job.
JobsShape ==
  /\ runner \in {"start", "registering", "fetching", "menu", "exited"}
  /\ register \in {"none", "post", "send"}
  /\ initialize \in {"none", "get", "send"}
  /\ listener \in {"none", "listen", "accept"}
  /\ job \in {"off", "wait", "ping", "report"}
  /\ answer \in {"none", "created", "error", "forgotten", "replaced"}
  /\ central \in BOOLEAN
  /\ owner \in {"nobody", "us", "other"}

MapsShape ==
  /\ ServerRegistry \in [DOMAIN ServerRegistry -> Delays] /\ DOMAIN ServerRegistry \subseteq Server
  /\ delayList \in [DOMAIN delayList -> Delays] /\ DOMAIN delayList \subseteq Server
  /\ services \subseteq Server
  /\ link \in [Server -> Delays]

\* The ping job runs once Initialize has its servers, and pings in a round.
RoundOK ==
  /\ runner \in {"start", "registering", "exited"} => job = "off"
  /\ initialize = "get" => runner = "fetching" /\ job = "off"
  /\ job \in {"off", "wait"} => toPing = {}
  /\ toPing \subseteq DOMAIN ServerRegistry

\* Nobody passes Register without an answer or an error.
AnswerOK ==
  /\ answer = "created" => owner = "us"
  /\ runner \in {"fetching", "menu"} \/ register = "send" => answer # "none"

JobsInv == JobsShape /\ MapsShape /\ RoundOK /\ AnswerOK

\* A fresh process has asked for nothing.
LEMMA JobsStart ==
  ASSUME JobsInit
  PROVE  JobsInv
  <1>1. JobsShape
    BY DEF JobsInit, JobsShape
  <1>2. MapsShape
    BY DEF JobsInit, MapsShape, EmptyMap
  <1>3. RoundOK /\ AnswerOK
    BY DEF JobsInit, RoundOK, AnswerOK
  <1> QED
    BY <1>1, <1>2, <1>3 DEF JobsInv

\* Every step keeps the maps of the client and of Central maps of delays.
LEMMA MapsStep ==
  ASSUME JobsInv, JobsNext
  PROVE  MapsShape'
  <1>1. MapsShape /\ RoundOK
    BY DEF JobsInv
  <1> USE DEF MapsShape, processVars, centralVars, networkVars
  <1>2. ASSUME UNCHANGED <<delayList, services, link>>,
               \E servers \in SUBSET Server : ServerRegistry' = Unmeasured(servers)
        PROVE  MapsShape'
    BY <1>1, <1>2 DEF Unmeasured, Delays
  <1>3. ASSUME UNCHANGED <<ServerRegistry, delayList, services, link>> PROVE MapsShape'
    BY <1>1, <1>3
  <1>4. ASSUME Exit, UNCHANGED <<delayList, services, link>> PROVE MapsShape'
    BY <1>1, <1>4 DEF Exit, EmptyMap
  <1>5. CASE PostConflict \/ ListenForRequestsFails \/ Quit
    BY <1>4, <1>5 DEF PostConflict, ListenForRequestsFails, Quit
  <1>6. CASE GetServers \/ StartRound
    BY <1>1, <1>2, <1>6 DEF GetServers, StartRound
  <1>7. CASE StartRegister \/ Post \/ PostFails \/ Registered \/ ListenForRequests
    BY <1>3, <1>7 DEF StartRegister, Post, PostFails, Registered, ListenForRequests
  <1>8. CASE GetServersFails \/ Initialized \/ Restart
             \/ CentralStart \/ OtherRegisters \/ SameAddressRegisters
    BY <1>3, <1>8 DEF GetServersFails, Initialized, Restart, CentralStart,
                      OtherRegisters, SameAddressRegisters
  <1>9. ASSUME NEW s \in Server, Ping(s) PROVE MapsShape'
    <2>1. s \in DOMAIN ServerRegistry /\ link[s] \in Delays
      BY <1>1, <1>9 DEF Ping, RoundOK
    <2> QED
      BY <1>1, <1>9, <2>1 DEF Ping
  <1>10. CASE Report
    BY <1>1, <1>10 DEF Report, UpdateDelayList
  <1>11. CASE CentralCrash
    BY <1>1, <1>11 DEF CentralCrash, EmptyMap
  <1>12. CASE ServicesChange
    BY <1>1, <1>12 DEF ServicesChange
  <1>13. ASSUME NEW s \in Server, LinkChange(s) PROVE MapsShape'
    BY <1>1, <1>13 DEF LinkChange
  <1> QED
    BY <1>5, <1>6, <1>7, <1>8, <1>9, <1>10, <1>11, <1>12, <1>13
       DEF JobsNext, Startup, Round

\* Every step keeps the order of startup, registration and rounds.
LEMMA OrderStep ==
  ASSUME JobsInv, JobsNext
  PROVE  JobsShape' /\ RoundOK' /\ AnswerOK'
  <1> USE DEF JobsShape, RoundOK, AnswerOK, processVars, centralVars, networkVars
  <1>1. JobsShape /\ RoundOK /\ AnswerOK
    BY DEF JobsInv
  <1>2. CASE StartRegister \/ Registered \/ ListenForRequests
    BY <1>1, <1>2 DEF StartRegister, Registered, ListenForRequests
  <1>3. CASE Post \/ PostFails
    BY <1>1, <1>3 DEF Post, PostFails, Create
  <1>4. CASE PostConflict \/ ListenForRequestsFails \/ Quit
    BY <1>1, <1>4 DEF PostConflict, ListenForRequestsFails, Quit, Exit
  <1>5. CASE GetServers
    BY <1>1, <1>5 DEF GetServers
  <1>6. CASE GetServersFails \/ Initialized \/ Restart
    BY <1>1, <1>6 DEF GetServersFails, Initialized, Restart
  <1>7. CASE StartRound
    BY <1>1, <1>7 DEF StartRound, Unmeasured
  <1>8. ASSUME NEW s \in Server, Ping(s) PROVE JobsShape' /\ RoundOK' /\ AnswerOK'
    BY <1>1, <1>8 DEF Ping
  <1>9. CASE Report
    BY <1>1, <1>9 DEF Report
  <1>10. CASE CentralCrash \/ CentralStart
    BY <1>1, <1>10 DEF CentralCrash, CentralStart
  <1>11. CASE OtherRegisters \/ SameAddressRegisters \/ ServicesChange
    BY <1>1, <1>11 DEF OtherRegisters, SameAddressRegisters, ServicesChange, Create
  <1>12. ASSUME NEW s \in Server, LinkChange(s) PROVE JobsShape' /\ RoundOK' /\ AnswerOK'
    BY <1>1, <1>12 DEF LinkChange
  <1> QED
    BY <1>2, <1>3, <1>4, <1>5, <1>6, <1>7, <1>8, <1>9, <1>10, <1>11, <1>12
       DEF JobsNext, Startup, Round

\* The invariant of the client process holds in every reachable state.
LEMMA JobsInvariant == JobsSpec => []JobsInv
  <1>1. JobsInit => JobsInv
    BY JobsStart
  <1>2. JobsInv /\ [JobsNext]_jobsVars => JobsInv'
    <2> SUFFICES ASSUME JobsInv, [JobsNext]_jobsVars PROVE JobsInv'
      OBVIOUS
    <2>1. CASE UNCHANGED jobsVars
      BY <2>1 DEF JobsInv, JobsShape, MapsShape, RoundOK, AnswerOK, jobsVars, processVars,
                  centralVars, networkVars
    <2>2. CASE JobsNext
      BY <2>2, MapsStep, OrderStep DEF JobsInv
    <2> QED
      BY <2>1, <2>2
  <1> QED
    BY <1>1, <1>2, PTL DEF JobsSpec

\* Types of the client process; a round of the ping job pings servers of its
\* own map only, whatever Initialize and Central's restarts do meanwhile.
THEOREM JobsTypeCorrect == JobsSpec => []JobsTypeOK
  <1>1. JobsInv => JobsTypeOK
    BY DEF JobsInv, JobsShape, MapsShape, RoundOK, JobsTypeOK, Range
  <1> QED
    BY <1>1, JobsInvariant, PTL

\* A client whose registration Central has confirmed owns its name until
\* Central restarts or another client registers from the same address; one in
\* the menu that does not own it went through that, or had no answer (the
\* loading bar takes an error for success).
THEOREM RegisteredNameIsOurs == JobsSpec => []NameIsOurs
  <1>1. JobsInv => NameIsOurs
    BY DEF JobsInv, JobsShape, AnswerOK, NameIsOurs
  <1> QED
    BY <1>1, JobsInvariant, PTL
============================================================================
