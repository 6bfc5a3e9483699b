---------------------------- MODULE PagingProofs ----------------------------
(***************************************************************************)
(* Proofs about Paging, for any number of users, page sizes and int width: *)
(* every answer is well-formed, a page holds what its place in the list    *)
(* says, the total agrees with it, and a walk over the pages misses nobody *)
(* and repeats nobody, with a cache before the store or without one.       *)
(***************************************************************************)
EXTENDS Paging, FiniteSetTheorems, SequenceTheorems, TLAPS

\* The page of s rows from a place of a list of n users.
PageOf(list, from, s, n) == SubSeq(list, from + 1, SliceEnd(from + s, n))

\* How many of n users the page holds.
OnPage(n) ==
    IF n - First < 0 THEN 0 ELSE IF n - First < Sized(size) THEN n - First ELSE Sized(size)

\* rs is the page asked for, of a list of the users in t.
IsPage(t, rs) ==
    \/ rs = <<>> /\ Cardinality(Live(t)) <= First
    \/ /\ First < Cardinality(Live(t))
       /\ \E list \in Sorted(t) : rs = PageOf(list, First, Sized(size), Cardinality(Live(t)))

\* TotalAgrees, and what it says between the two statements of Postgres.
TotalInv ==
    /\ state = "count" => backend = "postgres"
    /\ state = "count" /\ Fits /\ ~wrote => Len(rows) = OnPage(Cardinality(Live(table)))
    /\ state = "ok" /\ Fits /\ (backend = "memory" \/ ~wrote) => Len(rows) = OnPage(total)

-----------------------------------------------------------------------------
\* The lines a page takes off a list, whatever its number and size.
LEMMA PageBounds ==
    ASSUME NEW p \in Nat, p >= 1, NEW s \in Nat
    PROVE  /\ (p - 1) * s \in Nat
           /\ (p - 1) * s + s = p * s
<1>1. PICK q \in Nat : p = q + 1
  BY p - 1 \in Nat
<1>2. q * s \in Nat /\ (q + 1) * s = q * s + s
  BY SMT
<1> QED
  BY <1>1, <1>2

\* Go's arithmetic is the plain one within the range of an int.
LEMMA WrapExact ==
    ASSUME PagingAssumption, NEW n \in 0 .. MaxInt
    PROVE  Wrap(n) = n
<1>1. \A m \in Nat, k \in Nat : m < k => m % k = m
  BY SMT
<1>2. (n + MaxInt + 1) % (2 * MaxInt + 2) = n + MaxInt + 1
  BY <1>1 DEF PagingAssumption
<1> QED
  BY <1>2 DEF Wrap, PagingAssumption

\* It always gives an integer.
LEMMA WrapType ==
    ASSUME PagingAssumption, NEW n \in Int
    PROVE  Wrap(n) \in Int
<1>1. \A m \in Int, k \in Nat \ {0} : m % k \in Int
  BY SMT
<1>2. (n + MaxInt + 1) % (2 * MaxInt + 2) \in Int
  BY <1>1 DEF PagingAssumption
<1> QED
  BY <1>2 DEF Wrap, PagingAssumption

\* The times of a table are numbers.
LEMMA TableType ==
    ASSUME PagingAssumption, NEW t \in Tables
    PROVE  t.born \in [IDs -> Int] /\ t.gone \in SUBSET IDs
<1>1. 0 .. MaxTime \in SUBSET Int
  BY DEF PagingAssumption
<1> QED
  BY <1>1 DEF Tables

\* A list of users is a sequence without repetition that holds every one of
\* them, in order.
LEMMA Listing ==
    ASSUME PagingAssumption, NEW t, NEW list \in Sorted(t)
    PROVE  /\ Live(t) \in SUBSET IDs /\ Cardinality(Live(t)) \in Nat
           /\ list \in [1 .. Cardinality(Live(t)) -> Live(t)]
           /\ \A i, j \in 1 .. Cardinality(Live(t)) : list[i] = list[j] => i = j
           /\ \A i, j \in 1 .. Cardinality(Live(t)) : i < j => t.born[list[i]] >= t.born[list[j]]
           /\ \A x \in Live(t) : \E i \in 1 .. Cardinality(Live(t)) : list[i] = x
<1> DEFINE n == Cardinality(Live(t))
<1>1. Live(t) \in SUBSET IDs /\ IsFiniteSet(Live(t)) /\ n \in Nat
  <2>1. Live(t) \in SUBSET IDs
    BY DEF Live
  <2> QED
    BY <2>1, FS_Subset, FS_CardinalityType DEF PagingAssumption
<1>2. /\ list \in [1 .. n -> Live(t)]
      /\ \A i, j \in 1 .. n : list[i] = list[j] => i = j
  BY DEF Sorted, SetToSeqs
<1>3. \A i, j \in 1 .. n : i < j => t.born[list[i]] >= t.born[list[j]]
  BY <1>2 DEF Sorted
<1>4. list \in Injection(1 .. n, Live(t))
  BY <1>2 DEF Injection, IsInjective
<1>5. Cardinality(1 .. n) = n
  BY <1>1, FS_Interval
<1>6. list \in Surjection(1 .. n, Live(t))
  BY <1>1, <1>4, <1>5, FS_Injection
<1>7. \A x \in Live(t) : \E i \in 1 .. n : list[i] = x
  BY <1>6 DEF Surjection
<1> QED
  BY <1>1, <1>2, <1>3, <1>7

\* There are m numbers up to m.
LEMMA CountUpTo ==
    ASSUME NEW m \in Nat
    PROVE  IsFiniteSet(1 .. m) /\ Cardinality(1 .. m) = m
BY FS_Interval

\* The k-th of the list has less than k users before it that are newer, and
\* all up to the k-th are newer than it or as old.
LEMMA Place ==
    ASSUME PagingAssumption, NEW t, t.born \in [IDs -> Int], NEW list \in Sorted(t),
           NEW k \in 1 .. Cardinality(Live(t))
    PROVE  /\ Newer(t, list[k]) \in Nat /\ Ties(t, list[k]) \in Nat
           /\ Newer(t, list[k]) < k /\ k <= Newer(t, list[k]) + Ties(t, list[k])
<1> DEFINE S == Live(t)
           born == t.born
           n == Cardinality(S)
           N == {o \in S : born[o] > born[list[k]]}
           T == {o \in S : born[o] = born[list[k]]}
           at == [o \in N |-> CHOOSE i \in 1 .. n : list[i] = o]
           upto == [j \in 1 .. k |-> list[j]]
<1>a. born \in [IDs -> Int]
  OBVIOUS
<1>b. /\ \A x : Newer(t, x) = Cardinality({o \in S : born[o] > born[x]})
      /\ \A x : Ties(t, x) = Cardinality({o \in S : born[o] = born[x]})
  BY DEF Newer, Ties
<1>1. /\ S \in SUBSET IDs /\ n \in Nat /\ k \in 1 .. n /\ list \in [1 .. n -> S]
      /\ \A i, j \in 1 .. n : list[i] = list[j] => i = j
      /\ \A i, j \in 1 .. n : i < j => born[list[i]] >= born[list[j]]
      /\ \A x \in S : \E i \in 1 .. n : list[i] = x
  BY Listing
<1> HIDE DEF S, born, n
<1>2. IsFiniteSet(S) /\ IsFiniteSet(N) /\ IsFiniteSet(T)
  <2>1. IsFiniteSet(S)
    BY <1>1, FS_Subset DEF PagingAssumption
  <2>2. N \in SUBSET S /\ T \in SUBSET S
    OBVIOUS
  <2> QED
    BY <2>1, <2>2, FS_Subset
<1>3. Cardinality(N) \in Nat /\ Cardinality(T) \in Nat
  BY <1>2, FS_CardinalityType
<1>4. at \in Injection(N, 1 .. k - 1)
  <2>1. ASSUME NEW o \in N
        PROVE  at[o] \in 1 .. n /\ list[at[o]] = o
    BY <1>1
  <2>2. ASSUME NEW o \in N
        PROVE  at[o] \in 1 .. k - 1
    <3>1. born[list[at[o]]] > born[list[k]]
      BY <2>1
    <3>2. born[list[k]] \in Int /\ born[list[at[o]]] \in Int
      BY <2>1, <1>a, <1>1
    <3>3. ~(born[list[k]] >= born[list[at[o]]])
      BY <3>1, <3>2
    <3>4. at[o] # k /\ ~(k < at[o])
      BY <3>1, <3>2, <3>3, <2>1, <1>1
    <3> QED
      BY <3>4, <2>1, <1>1
  <2>3. \A o, x \in N : at[o] = at[x] => o = x
    BY <2>1
  <2> HIDE DEF N
  <2>4. at \in [N -> 1 .. k - 1]
    BY <2>2
  <2>5. DOMAIN at = N
    OBVIOUS
  <2> HIDE DEF at
  <2> QED
    BY <2>3, <2>4, <2>5 DEF Injection, IsInjective
<1>5. Cardinality(1 .. k - 1) = k - 1 /\ IsFiniteSet(1 .. k - 1)
  <2>1. k - 1 \in Nat
    BY <1>1
  <2> QED
    BY <2>1, CountUpTo
<1>6. Cardinality(N) <= k - 1
  BY <1>4, <1>5, FS_Injection
<1>7. upto \in Injection(1 .. k, N \cup T)
  <2>1. ASSUME NEW j \in 1 .. k
        PROVE  list[j] \in N \cup T
    <3>1. j \in 1 .. n /\ list[j] \in S /\ list[k] \in S
      BY <1>1
    <3>2. born[list[j]] >= born[list[k]]
      <4>1. CASE j = k
        BY <4>1, <3>1, <1>a, <1>1
      <4>2. CASE j < k
        BY <4>2, <3>1, <1>1
      <4> QED
        BY <4>1, <4>2
    <3>3. born[list[j]] \in Int /\ born[list[k]] \in Int
      BY <3>1, <1>a, <1>1
    <3>4. born[list[j]] > born[list[k]] \/ born[list[j]] = born[list[k]]
      BY <3>2, <3>3
    <3> QED
      BY <3>1, <3>4
  <2>2. \A i, j \in 1 .. k : list[i] = list[j] => i = j
    <3>1. 1 .. k \in SUBSET (1 .. n)
      BY <1>1
    <3> QED
      BY <3>1, <1>1
  <2> HIDE DEF N, T
  <2>3. upto \in [1 .. k -> N \cup T]
    BY <2>1
  <2> QED
    BY <2>2, <2>3 DEF Injection, IsInjective
<1>8. Cardinality(1 .. k) = k
  BY <1>1, CountUpTo
<1>9. N \cap T = {}
  <2>1. \A o \in S : born[o] \in Int /\ born[list[k]] \in Int
    BY <1>a, <1>1
  <2> QED
    BY <2>1
<1> HIDE DEF N, T
<1>10. IsFiniteSet(N \cup T) /\ Cardinality(N \cup T) = Cardinality(N) + Cardinality(T)
  <2>1. Cardinality(N \cap T) = 0
    BY <1>9, FS_EmptySet
  <2>2. /\ IsFiniteSet(N \cup T)
        /\ Cardinality(N \cup T) = Cardinality(N) + Cardinality(T) - Cardinality(N \cap T)
    BY <1>2, FS_Union
  <2> QED
    BY <2>1, <2>2, <1>3
<1>11. k <= Cardinality(N \cup T)
  BY <1>7, <1>8, <1>10, FS_Injection
<1>12. Newer(t, list[k]) = Cardinality(N) /\ Ties(t, list[k]) = Cardinality(T)
  BY <1>b DEF N, T
<1>13. k \in Nat /\ 1 .. Cardinality(Live(t)) = 1 .. n
  BY <1>1 DEF n, S
<1> QED
  BY <1>3, <1>6, <1>10, <1>11, <1>12, <1>13

\* Any stretch of a list is a sequence of different users.
LEMMA Stretch ==
    ASSUME PagingAssumption, NEW t, NEW list \in Sorted(t),
           NEW from \in Nat, NEW to \in Int, to <= Cardinality(Live(t))
    PROVE  LET rs == SubSeq(list, from + 1, to)
           IN  rs \in Seq(IDs) /\ \A i, j \in DOMAIN rs : rs[i] = rs[j] => i = j
<1> DEFINE rs == SubSeq(list, from + 1, to)
<1>1. /\ Live(t) \in SUBSET IDs /\ Cardinality(Live(t)) \in Nat /\ list \in [1 .. Cardinality(Live(t)) -> Live(t)]
      /\ \A i, j \in 1 .. Cardinality(Live(t)) : list[i] = list[j] => i = j
  BY Listing
<1>2. \A i \in from + 1 .. to : i \in 1 .. Cardinality(Live(t)) /\ list[i] \in IDs
  BY <1>1
<1>3. /\ rs \in Seq(IDs)
      /\ Len(rs) = IF from + 1 <= to THEN to - (from + 1) + 1 ELSE 0
      /\ \A i \in 1 .. to - (from + 1) + 1 : rs[i] = list[from + 1 + i - 1]
  BY <1>2, SubSeqProperties
<1> HIDE DEF rs
<1>4. ASSUME NEW i \in DOMAIN rs
      PROVE  i \in Nat /\ from + i \in 1 .. Cardinality(Live(t)) /\ rs[i] = list[from + i]
  <2>1. DOMAIN rs = 1 .. Len(rs)
    BY <1>3
  <2>2. i \in 1 .. to - (from + 1) + 1 /\ from + 1 + i - 1 = from + i
    BY <2>1, <1>3
  <2>3. rs[i] = list[from + 1 + i - 1]
    BY <2>2, <1>3
  <2>4. i \in Nat /\ from + i \in 1 .. Cardinality(Live(t))
    BY <2>2, <1>1
  <2> QED
    BY <2>2, <2>3, <2>4
<1>5. ASSUME NEW i \in DOMAIN rs, NEW j \in DOMAIN rs, rs[i] = rs[j]
      PROVE  i = j
  <2>1. from + i = from + j
    BY <1>1, <1>4, <1>5
  <2> QED
    BY <2>1, <1>4
<1> QED
  BY <1>3, <1>5 DEF rs

LEMMA LiveType ==
    ASSUME PagingAssumption, NEW t
    PROVE  /\ Live(t) \in SUBSET IDs /\ IsFiniteSet(Live(t))
           /\ Cardinality(Live(t)) \in 0 .. MaxInt
<1>1. Live(t) \in SUBSET IDs
  BY DEF Live
<1>2. IsFiniteSet(Live(t)) /\ Cardinality(Live(t)) <= Cardinality(IDs) /\ Cardinality(Live(t)) \in Nat
  BY <1>1, FS_Subset, FS_CardinalityType DEF PagingAssumption
<1>3. Cardinality(IDs) \in Nat
  BY FS_CardinalityType DEF PagingAssumption
<1> QED
  BY <1>1, <1>2, <1>3 DEF PagingAssumption

\* What a store makes of any page and size: a first place and a number of rows.
LEMMA Question ==
    ASSUME PagingAssumption, TypeOK
    PROVE  /\ Numbered(page) \in Nat /\ Numbered(page) >= 1
           /\ Sized(size) \in Nat \ {0} /\ First \in Nat
           /\ Offset(page, size) \in Int
<1>1. page \in Int /\ size \in Int
  BY DEF TypeOK, Int64, PagingAssumption
<1>2. Numbered(page) \in Nat /\ Numbered(page) >= 1
  BY <1>1 DEF Numbered
<1>3. Sized(size) \in Nat \ {0}
  BY <1>1 DEF Sized, PagingAssumption
<1>4. First \in Nat
  BY <1>2, <1>3, PageBounds DEF First
<1>5. Offset(page, size) = Wrap(First)
  BY DEF Offset, First
<1> QED
  BY <1>2, <1>3, <1>4, <1>5, WrapType

\* What a store answers with, whatever it makes of its bounds.
LEMMA PageType ==
    ASSUME PagingAssumption, TypeOK, NEW t, Answers(t), NEW rs \in Pages(t)
    PROVE  rs \in Seq(IDs) /\ \A i, j \in DOMAIN rs : rs[i] = rs[j] => i = j
<1> DEFINE from == Offset(page, size)
<1>1. PICK list \in Sorted(t) :
          rs = SubSeq(list, from + 1, SliceEnd(from + Sized(size), Len(list)))
  BY DEF Pages
<1>2. Cardinality(Live(t)) \in Nat /\ Len(list) = Cardinality(Live(t))
  <2>1. Cardinality(Live(t)) \in Nat /\ list \in [1 .. Cardinality(Live(t)) -> Live(t)]
    BY Listing
  <2> QED
    BY <2>1
<1>3. from \in Int /\ Sized(size) \in Nat
  BY Question
<1>4. from \in Nat
  BY <1>2, <1>3 DEF Answers
<1> DEFINE to == SliceEnd(from + Sized(size), Len(list))
<1> HIDE DEF from
<1>5. to \in Int /\ to <= Cardinality(Live(t))
  BY <1>2, <1>3 DEF SliceEnd
<1> HIDE DEF to
<1>6. rs = SubSeq(list, from + 1, to)
  BY <1>1 DEF to, from
<1> QED
  BY <1>4, <1>5, <1>6, Stretch

\* A request whose arithmetic fits is answered: slice bounds that fit never
\* panic.
LEMMA OffsetFits ==
    ASSUME PagingAssumption, TypeOK, Fits
    PROVE  Offset(page, size) = First /\ Wrap(First + Sized(size)) = First + Sized(size)
<1>1. MaxInt \in Nat /\ Sized(size) \in Nat \ {0} /\ First \in Nat
  BY Question DEF PagingAssumption
<1>2. First + Sized(size) \in 0 .. MaxInt /\ First \in 0 .. MaxInt
  BY <1>1 DEF Fits
<1>3. Offset(page, size) = Wrap(First)
  BY DEF Offset, First
<1> QED
  BY <1>2, <1>3, WrapExact

LEMMA FitsAnswered ==
    ASSUME PagingAssumption, TypeOK, Fits, NEW t
    PROVE  Answers(t)
<1> DEFINE n == Cardinality(Live(t))
           s == Sized(size)
<1>1. n \in Nat /\ s \in Nat \ {0} /\ First \in Nat
  BY LiveType, Question
<1>2. Offset(page, size) = First /\ Wrap(First + s) = First + s
  BY OffsetFits
<1>3. /\ First >= 0
      /\ First >= n \/ (0 <= First /\ First <= SliceEnd(First + s, n) /\ SliceEnd(First + s, n) <= n)
  BY <1>1 DEF SliceEnd
<1> QED
  BY <1>2, <1>3 DEF Answers

\* It gets its stretch of a list, newest first, nothing behind the list's end.
LEMMA FitsPage ==
    ASSUME PagingAssumption, TypeOK, Fits, NEW t, NEW rs \in Pages(t)
    PROVE  IsPage(t, rs)
<1> DEFINE n == Cardinality(Live(t))
           s == Sized(size)
<1>1. n \in Nat /\ s \in Nat \ {0} /\ First \in Nat
  BY LiveType, Question
<1>2. Offset(page, size) = First
  BY OffsetFits
<1>3. PICK list \in Sorted(t) : rs = SubSeq(list, First + 1, SliceEnd(First + s, Len(list)))
  BY <1>2 DEF Pages
<1>4. Len(list) = n
  <2>1. list \in [1 .. n -> Live(t)]
    BY Listing
  <2> QED
    BY <2>1, <1>1
<1>5. rs = PageOf(list, First, s, n)
  BY <1>3, <1>4 DEF PageOf
<1> HIDE DEF n, s
<1>6. CASE n <= First
  <2>1. SliceEnd(First + s, n) \in Int /\ SliceEnd(First + s, n) < First + 1 /\ First + 1 \in Int
    BY <1>1, <1>6 DEF SliceEnd
  <2>2. rs = <<>>
    BY <2>1, <1>5, SubSeqEmpty DEF PageOf
  <2> QED
    BY <2>2, <1>6 DEF IsPage, n
<1>7. CASE First < n
  BY <1>5, <1>7 DEF IsPage, n, s
<1> QED
  BY <1>1, <1>6, <1>7

\* A page is the stretch of the list from its offset to its end or the list's.
LEMMA Slice ==
    ASSUME PagingAssumption, TypeOK, NEW t, NEW list \in Sorted(t), First < Cardinality(Live(t))
    PROVE  LET n == Cardinality(Live(t))
               rs == PageOf(list, First, Sized(size), n)
           IN  /\ rs \in Seq(Live(t)) /\ Len(rs) = OnPage(n)
               /\ \A i \in DOMAIN rs :
                     /\ i \in Nat \ {0} /\ i <= Sized(size)
                     /\ First + i \in 1 .. n /\ rs[i] = list[First + i]
<1> DEFINE n == Cardinality(Live(t))
           s == Sized(size)
           to == SliceEnd(First + s, n)
           rs == PageOf(list, First, s, n)
<1>1. Live(t) \in SUBSET IDs /\ n \in Nat /\ list \in [1 .. n -> Live(t)]
  BY LiveType, Listing
<1>2. s \in Nat \ {0} /\ First \in Nat
  BY Question
<1>3. to \in Nat /\ First < to /\ to <= n /\ to <= First + s /\ OnPage(n) = to - First
  BY <1>1, <1>2 DEF SliceEnd, OnPage
<1>4. rs = SubSeq(list, First + 1, to)
  BY DEF PageOf
<1> HIDE DEF to, s, rs
<1>5. \A i \in First + 1 .. to : list[i] \in Live(t)
  BY <1>1, <1>2, <1>3
<1>6. /\ rs \in Seq(Live(t))
      /\ Len(rs) = IF First + 1 <= to THEN to - (First + 1) + 1 ELSE 0
      /\ \A i \in 1 .. to - (First + 1) + 1 : rs[i] = list[First + 1 + i - 1]
  BY <1>2, <1>3, <1>4, <1>5, SubSeqProperties
<1>7. Len(rs) = OnPage(n)
  BY <1>2, <1>3, <1>6
<1>8. ASSUME NEW i \in DOMAIN rs
      PROVE  /\ i \in Nat \ {0} /\ i <= s
             /\ First + i \in 1 .. n /\ rs[i] = list[First + i]
  <2>1. DOMAIN rs = 1 .. Len(rs)
    BY <1>6
  <2>2. i \in 1 .. to - (First + 1) + 1 /\ First + 1 + i - 1 = First + i
    BY <2>1, <1>2, <1>3, <1>6
  <2>3. rs[i] = list[First + 1 + i - 1]
    BY <2>2, <1>6
  <2>4. i \in Nat \ {0} /\ i <= s /\ First + i \in 1 .. n
    BY <2>2, <1>1, <1>2, <1>3
  <2> QED
    BY <2>2, <2>3, <2>4
<1> QED
  BY <1>6, <1>7, <1>8 DEF rs, s

\* What a page holds: so many rows, each in its place.
LEMMA PageRows ==
    ASSUME PagingAssumption, TypeOK, NEW t \in Tables, NEW rs, IsPage(t, rs)
    PROVE  /\ rs \in Seq(IDs) /\ Len(rs) = OnPage(Cardinality(Live(t)))
           /\ \A i \in DOMAIN rs :
                 /\ i \in Nat \ {0} /\ i <= Sized(size)
                 /\ rs[i] \in Live(t)
                 /\ Newer(t, rs[i]) \in Nat /\ Ties(t, rs[i]) \in Nat
                 /\ Newer(t, rs[i]) < First + i
                 /\ First + i <= Newer(t, rs[i]) + Ties(t, rs[i])
<1> DEFINE n == Cardinality(Live(t))
           s == Sized(size)
<1>1. Live(t) \in SUBSET IDs /\ n \in Nat
  BY LiveType
<1>2. s \in Nat \ {0} /\ First \in Nat
  BY Question
<1> HIDE DEF s
<1>3. CASE rs = <<>> /\ n <= First
  <2>1. OnPage(n) = 0
    BY <1>1, <1>2, <1>3 DEF OnPage, s
  <2>2. rs \in Seq(IDs) /\ Len(rs) = 0 /\ \A i \in DOMAIN rs : FALSE
    BY <1>3
  <2> QED
    BY <2>1, <2>2
<1>4. CASE First < n /\ \E list \in Sorted(t) : rs = PageOf(list, First, s, n)
  <2>1. PICK list \in Sorted(t) : rs = PageOf(list, First, s, n)
    BY <1>4
  <2>2. /\ rs \in Seq(Live(t)) /\ Len(rs) = OnPage(n)
        /\ \A i \in DOMAIN rs :
              i \in Nat \ {0} /\ i <= s /\ First + i \in 1 .. n /\ rs[i] = list[First + i]
    BY <1>4, <2>1, Slice DEF s
  <2>3. rs \in Seq(IDs)
    BY <2>2, <1>1
  <2>4. t.born \in [IDs -> Int]
    BY TableType
  <2>5. list \in [1 .. n -> Live(t)]
    BY Listing
  <2>6. ASSUME NEW i \in DOMAIN rs
        PROVE  /\ i \in Nat \ {0} /\ i <= s
               /\ rs[i] \in Live(t)
               /\ Newer(t, rs[i]) \in Nat /\ Ties(t, rs[i]) \in Nat
               /\ Newer(t, rs[i]) < First + i
               /\ First + i <= Newer(t, rs[i]) + Ties(t, rs[i])
    <3>1. First + i \in 1 .. n /\ rs[i] = list[First + i]
      BY <2>2
    <3>2. i \in Nat \ {0} /\ i <= s
      BY <2>2
    <3> DEFINE k == First + i
    <3>3. k \in 1 .. n /\ rs[i] = list[k] /\ list[k] \in Live(t)
      BY <3>1, <2>5
    <3> HIDE DEF k
    <3>4. /\ Newer(t, list[k]) \in Nat /\ Ties(t, list[k]) \in Nat
          /\ Newer(t, list[k]) < k /\ k <= Newer(t, list[k]) + Ties(t, list[k])
      BY <3>3, <2>4, Place
    <3> QED
      BY <3>2, <3>3, <3>4 DEF k
  <2> QED
    BY <2>2, <2>3, <2>6 DEF s
<1> QED
  BY <1>3, <1>4 DEF s, IsPage

\* A user's place is a number below the number of users; without ties nobody
\* shares it.
LEMMA PlaceBound ==
    ASSUME PagingAssumption, NEW t \in Tables, NEW x \in Live(t)
    PROVE  /\ Newer(t, x) \in Nat /\ Newer(t, x) < Cardinality(Live(t))
           /\ NoTies(t) => Ties(t, x) = 1
<1>1. Live(t) \in SUBSET IDs /\ IsFiniteSet(Live(t)) /\ Cardinality(Live(t)) \in Nat
  BY LiveType
<1>2. {o \in Live(t) : t.born[o] > t.born[x]} \in SUBSET (Live(t) \ {x})
  <2>1. t.born[x] \in Int
    BY <1>1, TableType
  <2> QED
    BY <2>1
<1>3. IsFiniteSet(Live(t) \ {x}) /\ Cardinality(Live(t) \ {x}) = Cardinality(Live(t)) - 1
  BY <1>1, FS_RemoveElement
<1>4. /\ IsFiniteSet({o \in Live(t) : t.born[o] > t.born[x]})
      /\ Cardinality({o \in Live(t) : t.born[o] > t.born[x]}) <= Cardinality(Live(t) \ {x})
  BY <1>2, <1>3, FS_Subset
<1>5. Cardinality({o \in Live(t) : t.born[o] > t.born[x]}) \in Nat
  BY <1>4, FS_CardinalityType
<1>6. NoTies(t) => Ties(t, x) = 1
  <2>1. NoTies(t) => {o \in Live(t) : t.born[o] = t.born[x]} = {x}
    BY <1>1 DEF NoTies, Live
  <2>2. Cardinality({x}) = 1
    BY FS_Singleton
  <2> QED
    BY <2>1, <2>2 DEF Ties
<1> QED
  BY <1>1, <1>3, <1>4, <1>5, <1>6 DEF Newer

\* Without ties a page holds whoever has a place on it, and only them; an empty
\* one comes after everybody's place.
LEMMA PageInPlace ==
    ASSUME PagingAssumption, TypeOK, NEW t \in Tables, NoTies(t), NEW rs, IsPage(t, rs)
    PROVE  /\ rs \in Seq(IDs)
           /\ \A i \in DOMAIN rs :
                 /\ rs[i] \in Live(t) /\ Newer(t, rs[i]) \in Nat
                 /\ First <= Newer(t, rs[i]) /\ Newer(t, rs[i]) < First + Sized(size)
           /\ \A x \in Live(t) :
                 Newer(t, x) < First + Sized(size) => Newer(t, x) < First \/ Contains(rs, x)
           /\ rs = <<>> => \A x \in Live(t) : Newer(t, x) < First
<1> DEFINE n == Cardinality(Live(t))
<1>1. \/ rs = <<>> /\ n <= First
      \/ First < n /\ \E list \in Sorted(t) : rs = PageOf(list, First, Sized(size), n)
  BY DEF IsPage
<1>2. /\ rs \in Seq(IDs) /\ Len(rs) = OnPage(n)
      /\ \A i \in DOMAIN rs :
            /\ i \in Nat \ {0} /\ i <= Sized(size)
            /\ rs[i] \in Live(t)
            /\ Newer(t, rs[i]) \in Nat /\ Ties(t, rs[i]) \in Nat
            /\ Newer(t, rs[i]) < First + i
            /\ First + i <= Newer(t, rs[i]) + Ties(t, rs[i])
  BY PageRows
<1>3. /\ First \in Nat /\ Sized(size) \in Nat \ {0}
      /\ Live(t) \in SUBSET IDs /\ n \in Nat
  BY Question, LiveType
<1>4. t.born \in [IDs -> Int]
  BY TableType
<1>5. ASSUME NEW i \in DOMAIN rs
      PROVE  /\ rs[i] \in Live(t) /\ Newer(t, rs[i]) \in Nat
             /\ First <= Newer(t, rs[i]) /\ Newer(t, rs[i]) < First + Sized(size)
  <2>1. Ties(t, rs[i]) = 1
    BY <1>2, PlaceBound
  <2> QED
    BY <2>1, <1>2, <1>3
<1>6. ASSUME n <= First
      PROVE  \A x \in Live(t) : Newer(t, x) < First
  BY <1>3, <1>6, PlaceBound
<1>7. ASSUME NEW x \in Live(t), Newer(t, x) < First + Sized(size), ~(Newer(t, x) < First)
      PROVE  Contains(rs, x)
  <2>1. Newer(t, x) \in Nat /\ Newer(t, x) < n /\ Ties(t, x) = 1
    BY PlaceBound
  <2>2. PICK list \in Sorted(t) : rs = PageOf(list, First, Sized(size), n)
    BY <1>1, <1>6, <1>7
  <2>3. First < n
    BY <1>3, <1>7, <2>1
  <2>4. PICK k \in 1 .. n : list[k] = x
    BY <1>3, Listing
  <2>5. k = Newer(t, x) + 1
    <3>1. /\ Newer(t, list[k]) \in Nat /\ Ties(t, list[k]) \in Nat
          /\ Newer(t, list[k]) < k /\ k <= Newer(t, list[k]) + Ties(t, list[k])
      BY <1>4, Place
    <3> QED
      BY <3>1, <2>1, <2>4, <1>3
  <2> DEFINE i == k - First
  <2>6. i \in 1 .. OnPage(n) /\ First + i = k
    BY <2>1, <2>5, <1>3, <1>7 DEF OnPage
  <2> HIDE DEF i
  <2>7. i \in DOMAIN rs /\ i \in 1 .. Len(rs)
    BY <2>6, <1>2
  <2>8. rs[i] = x
    <3> DEFINE qs == PageOf(list, First, Sized(size), n)
    <3>1. \A j \in DOMAIN qs : qs[j] = list[First + j]
      BY <2>3, Slice
    <3>2. rs = qs
      BY <2>2
    <3> HIDE DEF qs
    <3> QED
      BY <3>1, <3>2, <2>4, <2>6, <2>7
  <2> QED
    BY <2>7, <2>8 DEF Contains
<1>8. ASSUME rs = <<>>
      PROVE  n <= First
  <2>1. OnPage(n) = 0
    BY <1>2, <1>8
  <2> QED
    BY <2>1, <1>3 DEF OnPage
<1> QED
  BY <1>2, <1>5, <1>6, <1>7, <1>8

\* What was seen stays seen.
LEMMA SeenStays ==
    ASSUME NEW s \in Seq(IDs), NEW t \in Seq(IDs), NEW x
    PROVE  Contains(s, x) \/ Contains(t, x) => Contains(s \o t, x)
<1>1. /\ Len(s \o t) = Len(s) + Len(t) /\ Len(s) \in Nat /\ Len(t) \in Nat
      /\ \A i \in 1 .. Len(s) + Len(t) : (s \o t)[i] = IF i <= Len(s) THEN s[i] ELSE t[i - Len(s)]
  BY ConcatProperties
<1>2. ASSUME NEW i \in 1 .. Len(s), s[i] = x
      PROVE  Contains(s \o t, x)
  <2>1. i \in 1 .. Len(s) + Len(t) /\ i <= Len(s)
    BY <1>1
  <2>2. (s \o t)[i] = x
    BY <2>1, <1>1, <1>2
  <2> QED
    BY <2>1, <2>2, <1>1 DEF Contains
<1>3. ASSUME NEW i \in 1 .. Len(t), t[i] = x
      PROVE  Contains(s \o t, x)
  <2> DEFINE j == Len(s) + i
  <2>1. j \in 1 .. Len(s) + Len(t) /\ ~(j <= Len(s)) /\ j - Len(s) = i
    BY <1>1
  <2> HIDE DEF j
  <2>2. (s \o t)[j] = x
    BY <2>1, <1>1, <1>3
  <2> QED
    BY <2>1, <2>2, <1>1 DEF Contains
<1> QED
  BY <1>2, <1>3 DEF Contains

\* Two sequences without repetition that share nothing make one.
LEMMA SeenOnce ==
    ASSUME NEW s \in Seq(IDs), NEW t \in Seq(IDs),
           \A i, j \in DOMAIN s : s[i] = s[j] => i = j,
           \A i, j \in DOMAIN t : t[i] = t[j] => i = j,
           \A i \in DOMAIN s, j \in DOMAIN t : s[i] # t[j]
    PROVE  /\ \A i, j \in DOMAIN (s \o t) : (s \o t)[i] = (s \o t)[j] => i = j
           /\ \A i \in DOMAIN (s \o t) :
                 \/ \E j \in DOMAIN s : (s \o t)[i] = s[j]
                 \/ \E j \in DOMAIN t : (s \o t)[i] = t[j]
<1> DEFINE u == s \o t
<1>1. /\ u \in Seq(IDs) /\ Len(u) = Len(s) + Len(t) /\ Len(s) \in Nat /\ Len(t) \in Nat
      /\ \A i \in 1 .. Len(s) + Len(t) : u[i] = IF i <= Len(s) THEN s[i] ELSE t[i - Len(s)]
  BY ConcatProperties
<1> HIDE DEF u
<1>2. /\ DOMAIN u = 1 .. Len(s) + Len(t)
      /\ DOMAIN s = 1 .. Len(s) /\ DOMAIN t = 1 .. Len(t)
  BY <1>1
<1>3. ASSUME NEW i \in DOMAIN u
      PROVE  \/ i \in DOMAIN s /\ u[i] = s[i]
             \/ i \in Nat /\ i - Len(s) \in DOMAIN t /\ u[i] = t[i - Len(s)]
  <2>1. i \in 1 .. Len(s) + Len(t) /\ u[i] = IF i <= Len(s) THEN s[i] ELSE t[i - Len(s)]
    BY <1>1, <1>2
  <2>2. CASE i <= Len(s)
    <3>1. i \in DOMAIN s
      BY <2>1, <2>2, <1>1, <1>2
    <3> QED
      BY <3>1, <2>1, <2>2
  <2>3. CASE ~(i <= Len(s))
    <3>1. i \in Nat /\ i - Len(s) \in DOMAIN t
      BY <2>1, <2>3, <1>1, <1>2
    <3> QED
      BY <3>1, <2>1, <2>3
  <2> QED
    BY <2>2, <2>3
<1>4. ASSUME NEW i \in DOMAIN u, NEW j \in DOMAIN u, u[i] = u[j]
      PROVE  i = j
  <2>1. CASE i \in DOMAIN s /\ u[i] = s[i] /\ j \in DOMAIN s /\ u[j] = s[j]
    BY <2>1, <1>4
  <2>2. CASE /\ i \in Nat /\ i - Len(s) \in DOMAIN t /\ u[i] = t[i - Len(s)]
             /\ j \in Nat /\ j - Len(s) \in DOMAIN t /\ u[j] = t[j - Len(s)]
    <3>1. i - Len(s) = j - Len(s)
      BY <2>2, <1>4
    <3> QED
      BY <3>1, <2>2, <1>1
  <2>3. CASE i \in DOMAIN s /\ u[i] = s[i] /\ j - Len(s) \in DOMAIN t /\ u[j] = t[j - Len(s)]
    BY <2>3, <1>4
  <2>4. CASE j \in DOMAIN s /\ u[j] = s[j] /\ i - Len(s) \in DOMAIN t /\ u[i] = t[i - Len(s)]
    <3>1. s[j] = t[i - Len(s)]
      BY <2>4, <1>4
    <3> QED
      BY <3>1, <2>4
  <2> QED
    BY <1>3, <2>1, <2>2, <2>3, <2>4
<1>5. \A i \in DOMAIN u :
          (\E j \in DOMAIN s : u[i] = s[j]) \/ (\E j \in DOMAIN t : u[i] = t[j])
  BY <1>3
<1> QED
  BY <1>4, <1>5 DEF u

\* An interface hands the service ints, REST only a page and a size in range.
LEMMA AskedType ==
    ASSUME PagingAssumption, NEW interface \in APIs, NEW q \in Asked(interface)
    PROVE  /\ q[1] \in Int64 /\ q[2] \in Int64
           /\ interface = "rest" => q[1] >= 1 /\ q[2] \in 1 .. MaxSize
<1>1. /\ MaxInt \in Nat /\ MaxInt32 \in Nat /\ MaxInt32 <= MaxInt
      /\ DefaultSize \in Nat /\ MemorySize \in Nat /\ MaxSize \in Nat
      /\ 0 < DefaultSize /\ DefaultSize < MaxSize /\ MaxSize < MaxInt
  BY DEF PagingAssumption
<1>2. interface \in {"rest", "gqlgen", "graphql-go"}
  BY DEF PagingAssumption
<1>3. CASE interface = "rest"
  <2>1. PICK p \in Int64, s \in Int64 : q = <<RestPage(p), RestSize(s)>>
    BY <1>3 DEF Asked
  <2>2. RestPage(p) \in Int64 /\ RestPage(p) >= 1
    BY <1>1 DEF RestPage, Int64
  <2>3. RestSize(s) \in Int64 /\ RestSize(s) \in 1 .. MaxSize
    BY <1>1 DEF RestSize, Int64
  <2> QED
    BY <2>1, <2>2, <2>3
<1>4. CASE interface = "gqlgen"
  <2>1. q \in Int64 \X Int64
    BY <1>4 DEF Asked
  <2> QED
    BY <2>1, <1>4
<1>5. CASE interface = "graphql-go"
  <2>1. PICK p \in Int32, s \in Int32 :
            q = <<IF p = 0 THEN 1 ELSE p, IF s = 0 THEN DefaultSize ELSE s>>
    BY <1>5 DEF Asked
  <2>2. (IF p = 0 THEN 1 ELSE p) \in Int64 /\ (IF s = 0 THEN DefaultSize ELSE s) \in Int64
    BY <1>1 DEF Int32, Int64
  <2> QED
    BY <2>1, <2>2, <1>5
<1> QED
  BY <1>2, <1>3, <1>4, <1>5

\* What an answer leaves alone, whether it comes from a store or the cache, and
\* where its rows are from.
LEMMA AnswerEffect ==
    ASSUME PagingAssumption, TypeOK, Hit \/ MemoryList \/ SelectPage
    PROVE  /\ state' \in {"ok", "count", "error", "panic"}
           /\ seen' = IF walking THEN seen \o rows' ELSE seen
           /\ reach' = {} /\ risky' = FALSE
           /\ UNCHANGED <<backend, table, era, unbumped, api, page, size>>
           /\ UNCHANGED <<walking, start, created, deleted>>
           /\ torn' = (walking /\ (torn \/ risky)) \/ UNCHANGED torn
           /\ wrote' \in BOOLEAN /\ total' \in 0 .. MaxInt
           /\ \/ rows' = <<>> /\ state' \in {"error", "panic"}
              \/ \E t \in Tables : Answers(t) /\ rows' \in Pages(t)
<1> USE DEF versions, question
<1>1. table \in Tables /\ reach \in SUBSET Tables
  BY DEF TypeOK
<1>2. CASE Hit
  <2>1. PICK t \in reach, u \in reach :
            /\ Answers(t) /\ \E rs \in Pages(t) : Answer("ok", rs)
            /\ total' = Cardinality(Live(u)) /\ wrote' = (u # t)
    BY <1>2 DEF Hit
  <2>2. PICK rs \in Pages(t) : Answer("ok", rs)
    BY <2>1
  <2>3. torn' = (walking /\ (torn \/ risky))
    BY <1>2 DEF Hit
  <2>4. total' \in 0 .. MaxInt /\ wrote' \in BOOLEAN
    BY <2>1, LiveType
  <2> QED
    BY <2>1, <2>2, <2>3, <2>4, <1>1 DEF Answer
<1>3. CASE MemoryList
  <2>1. total' \in 0 .. MaxInt /\ wrote' \in BOOLEAN /\ UNCHANGED torn
    BY <1>3, LiveType DEF MemoryList
  <2>2. \/ Answer("panic", <<>>)
        \/ Answers(table) /\ \E rs \in Pages(table) : Answer("ok", rs)
    BY <1>3 DEF MemoryList
  <2> QED
    BY <2>1, <2>2, <1>1 DEF Answer
<1>4. CASE SelectPage
  <2>1. total' \in 0 .. MaxInt /\ wrote' \in BOOLEAN /\ UNCHANGED torn
    BY <1>4 DEF SelectPage, TypeOK
  <2>2. \/ Answer("error", <<>>)
        \/ Answers(table) /\ \E rs \in Pages(table) : Answer("count", rs)
    BY <1>4 DEF SelectPage
  <2> QED
    BY <2>1, <2>2, <1>1 DEF Answer
<1> QED
  BY <1>2, <1>3, <1>4

\* The tables that others' changes make.
LEMMA CommitType ==
    ASSUME PagingAssumption, TypeOK, NEW id \in IDs,
           \/ Delete(id)
           \/ \E time \in 1 .. MaxTime : Create(id, time)
    PROVE  /\ table' \in Tables /\ Commit(table')
           /\ created' \in BOOLEAN /\ deleted' \in BOOLEAN
<1>1. table \in Tables /\ created \in BOOLEAN /\ deleted \in BOOLEAN /\ walking \in BOOLEAN
  BY DEF TypeOK
<1>2. CASE Delete(id)
  <2>1. /\ Commit([table EXCEPT !.gone = @ \cup {id}])
        /\ deleted' = walking /\ created' = created
    BY <1>2 DEF Delete
  <2>2. [table EXCEPT !.gone = @ \cup {id}] \in Tables
    BY <1>1 DEF Tables
  <2>3. table' = [table EXCEPT !.gone = @ \cup {id}]
    BY <2>1 DEF Commit
  <2> QED
    BY <2>1, <2>2, <2>3, <1>1
<1>3. CASE \E time \in 1 .. MaxTime : Create(id, time)
  <2>1. PICK time \in 1 .. MaxTime : Create(id, time)
    BY <1>3
  <2>2. /\ Commit([table EXCEPT !.born[id] = time])
        /\ created' = walking /\ deleted' = deleted
    BY <2>1 DEF Create
  <2>3. [table EXCEPT !.born[id] = time] \in Tables
    <3>1. time \in 0 .. MaxTime
      BY DEF PagingAssumption
    <3> QED
      BY <3>1, <1>1 DEF Tables
  <2>4. table' = [table EXCEPT !.born[id] = time]
    BY <2>2 DEF Commit
  <2> QED
    BY <2>2, <2>3, <2>4, <1>1
<1> QED
  BY <1>2, <1>3

LEMMA TypeInit ==
    ASSUME PagingAssumption, Init
    PROVE  TypeOK
<1>1. <<>> \in Seq(IDs) /\ 1 \in Int64 /\ DefaultSize \in Int64 /\ 0 \in 0 .. MaxInt
  BY DEF Int64, PagingAssumption
<1>2. table \in Tables
  BY DEF Init, Tables, PagingAssumption
<1>3. /\ rows \in Seq(IDs) /\ \A i, j \in DOMAIN rows : rows[i] = rows[j] => i = j
      /\ seen \in Seq(IDs)
  BY DEF Init
<1>4. /\ backend \in Backends /\ api = "none" /\ page = 1 /\ size = DefaultSize
      /\ era = {table} /\ unbumped = FALSE /\ reach = {} /\ risky = FALSE
      /\ state = "idle" /\ total = 0 /\ walking = FALSE /\ start = {}
      /\ created = FALSE /\ deleted = FALSE /\ torn = FALSE /\ wrote = FALSE
  BY DEF Init
<1> QED
  BY <1>1, <1>2, <1>3, <1>4 DEF TypeOK

\* The key, or the question for the store.
LEMMA PutType ==
    ASSUME TypeOK, PutQuestion
    PROVE  /\ state' \in {"keyed", "asked"} /\ reach' \subseteq Tables /\ risky' \in BOOLEAN
BY DEF TypeOK, PutQuestion, lookup

LEMMA TypeNext ==
    ASSUME PagingAssumption, TypeOK, [Next]_vars
    PROVE  TypeOK'
<1> USE DEF versions, lookup, question, answer, walk
<1>1. ASSUME NEW id \in IDs, Delete(id) \/ \E time \in 1 .. MaxTime : Create(id, time)
      PROVE  TypeOK'
  <2>1. /\ table' \in Tables /\ Commit(table')
        /\ created' \in BOOLEAN /\ deleted' \in BOOLEAN
    BY <1>1, CommitType
  <2>2. /\ UNCHANGED <<backend, risky, api, page, size, state, rows, total>>
        /\ UNCHANGED <<walking, seen, start, torn>>
    BY <2>1 DEF Commit
  <2>3. /\ era' \subseteq Tables /\ table' \in era' /\ reach' \subseteq Tables
        /\ unbumped' \in BOOLEAN /\ wrote' \in BOOLEAN
    BY <2>1 DEF Commit, TypeOK, PagingAssumption
  <2> QED
    BY <2>1, <2>2, <2>3 DEF TypeOK
<1>2. ASSUME Bump
      PROVE  TypeOK'
  BY <1>2 DEF Bump, EraAfter, TypeOK
<1>3. ASSUME NEW interface \in APIs, Ask(interface)
      PROVE  TypeOK'
  <2>1. PICK q \in Asked(interface) : page' = q[1] /\ size' = q[2]
    BY <1>3 DEF Ask
  <2>2. /\ page' \in Int64 /\ size' \in Int64
        /\ interface = "rest" => page' >= 1 /\ size' \in 1 .. MaxSize
    BY <2>1, AskedType
  <2>3. walking' \in BOOLEAN /\ start' \subseteq IDs
    BY <1>3 DEF Ask, Live
  <2>4. /\ state' \in {"keyed", "asked"} /\ reach' \subseteq Tables /\ risky' \in BOOLEAN
        /\ api' = interface
    BY <1>3, PutType DEF Ask
  <2>5. /\ UNCHANGED <<backend, table, era, unbumped, rows, total, seen>>
        /\ UNCHANGED <<created, deleted, torn, wrote>>
    BY <1>3 DEF Ask
  <2> QED
    BY <2>2, <2>3, <2>4, <2>5 DEF TypeOK
<1>4. ASSUME NextPage
      PROVE  TypeOK'
  <2>1. page' \in Int64 /\ (page >= 1 => page' >= 1)
    BY <1>4 DEF NextPage, TypeOK, Int64, PagingAssumption
  <2>2. state' \in {"keyed", "asked"} /\ reach' \subseteq Tables /\ risky' \in BOOLEAN
    BY <1>4, PutType DEF NextPage
  <2>3. /\ UNCHANGED <<backend, table, era, unbumped, api, size, rows, total, walking, seen>>
        /\ UNCHANGED <<start, created, deleted, torn, wrote>>
    BY <1>4 DEF NextPage
  <2> QED
    BY <2>1, <2>2, <2>3 DEF TypeOK
<1>5. ASSUME Stop
      PROVE  TypeOK'
  <2>1. <<>> \in Seq(IDs) /\ 1 \in Int64 /\ DefaultSize \in Int64 /\ 0 \in 0 .. MaxInt
    BY DEF Int64, PagingAssumption
  <2>2. /\ rows' \in Seq(IDs) /\ \A i, j \in DOMAIN rows' : rows'[i] = rows'[j] => i = j
        /\ seen' \in Seq(IDs)
    BY <1>5 DEF Stop
  <2>3. /\ api' = "none" /\ page' = 1 /\ size' = DefaultSize
        /\ state' = "idle" /\ total' = 0 /\ walking' = FALSE /\ start' = {}
        /\ created' = FALSE /\ deleted' = FALSE /\ torn' = FALSE /\ wrote' = FALSE
        /\ UNCHANGED <<backend, table, era, unbumped, reach, risky>>
    BY <1>5 DEF Stop
  <2> QED
    BY <2>1, <2>2, <2>3 DEF TypeOK
<1>6. ASSUME Hit \/ MemoryList \/ SelectPage
      PROVE  TypeOK'
  <2>1. /\ state' \in {"ok", "count", "error", "panic"}
        /\ seen' = IF walking THEN seen \o rows' ELSE seen
        /\ reach' = {} /\ risky' = FALSE
        /\ UNCHANGED <<backend, table, era, unbumped, api, page, size>>
        /\ UNCHANGED <<walking, start, created, deleted>>
        /\ torn' = (walking /\ (torn \/ risky)) \/ UNCHANGED torn
        /\ wrote' \in BOOLEAN /\ total' \in 0 .. MaxInt
    BY <1>6, AnswerEffect
  <2>2. rows' \in Seq(IDs) /\ \A i, j \in DOMAIN rows' : rows'[i] = rows'[j] => i = j
    <3>1. CASE rows' = <<>>
      BY <3>1
    <3>2. CASE \E t \in Tables : Answers(t) /\ rows' \in Pages(t)
      BY <3>2, PageType
    <3> QED
      BY <1>6, <3>1, <3>2, AnswerEffect
  <2>3. seen' \in Seq(IDs)
    <3>1. seen \o rows' \in Seq(IDs)
      BY <2>2, ConcatProperties DEF TypeOK
    <3> QED
      BY <3>1, <2>1 DEF TypeOK
  <2>4. torn' \in BOOLEAN
    BY <2>1 DEF TypeOK
  <2> QED
    BY <2>1, <2>2, <2>3, <2>4 DEF TypeOK
<1>7. ASSUME Miss
      PROVE  TypeOK'
  BY <1>7 DEF Miss, TypeOK
<1>8. ASSUME SelectCount
      PROVE  TypeOK'
  <2>1. total' \in 0 .. MaxInt
    BY <1>8, LiveType DEF SelectCount, Counted, TypeOK
  <2> QED
    BY <1>8, <2>1 DEF SelectCount, TypeOK
<1>9. CASE UNCHANGED vars
  BY <1>9 DEF vars, TypeOK
<1> QED
  BY <1>1, <1>2, <1>3, <1>4, <1>5, <1>6, <1>7, <1>8, <1>9 DEF Next

\* Whatever page and size an interface lets through, whatever is created and
\* deleted meanwhile, an answer, also one from the cache, holds each user at
\* most once and a total that is an int, and REST puts no page or size out of
\* range to the service.
THEOREM TypeCorrect == Spec => []TypeOK
<1>1. Init => TypeOK
  BY TypeInit, PagingAssumption
<1>2. TypeOK /\ [Next]_vars => TypeOK'
  BY TypeNext, PagingAssumption
<1> QED
  BY <1>1, <1>2, PTL DEF Spec

\* What comes of a page that a store reads, or that is found in the cache, if
\* its arithmetic fits.
LEMMA StoreRead ==
    ASSUME PagingAssumption, TypeOK, Fits, MemoryList \/ SelectPage
    PROVE  /\ state = "asked" /\ wrote' = FALSE /\ UNCHANGED torn
           /\ \/ state' = "error" /\ DBFaults
              \/ /\ state' = IF backend = "memory" THEN "ok" ELSE "count"
                 /\ backend = "memory" => total' = Cardinality(Live(table))
                 /\ IsPage(table, rows')
<1>1. Answers(table) /\ \A rs \in Pages(table) : IsPage(table, rs)
  BY FitsAnswered, FitsPage
<1>2. CASE MemoryList
  <2>1. PICK rs \in Pages(table) : Answer("ok", rs)
    BY <1>1, <1>2 DEF MemoryList
  <2> QED
    BY <2>1, <1>1, <1>2 DEF MemoryList, Answer
<1>3. CASE SelectPage
  <2>1. CASE DBFaults /\ Answer("error", <<>>)
    BY <2>1, <1>3 DEF SelectPage, Answer
  <2>2. CASE \E rs \in Pages(table) : Answer("count", rs)
    <3>1. PICK rs \in Pages(table) : Answer("count", rs)
      BY <2>2
    <3> QED
      BY <3>1, <1>1, <1>3 DEF SelectPage, Answer
  <2> QED
    BY <2>1, <2>2, <1>1, <1>3 DEF SelectPage
<1> QED
  BY <1>2, <1>3

LEMMA CacheRead ==
    ASSUME PagingAssumption, TypeOK, Fits, Hit
    PROVE  /\ state = "keyed" /\ state' = "ok" /\ torn' = (walking /\ (torn \/ risky))
           /\ \E t, u \in reach :
                 /\ IsPage(t, rows') /\ total' = Cardinality(Live(u))
                 /\ backend = "memory" => u = t
                 /\ wrote' = (u # t)
<1>1. PICK t \in reach, u \in reach :
          /\ \E rs \in Pages(t) : Answer("ok", rs)
          /\ IF backend = "memory" THEN u = t ELSE Before(t, u)
          /\ total' = Cardinality(Live(u)) /\ wrote' = (u # t)
  BY DEF Hit
<1>2. PICK rs \in Pages(t) : Answer("ok", rs)
  BY <1>1
<1>3. IsPage(t, rs)
  BY FitsPage
<1> QED
  BY <1>1, <1>2, <1>3 DEF Hit, Answer

\* Only the stores answer a question that was put to them.
LEMMA OnlyStoresAnswer ==
    ASSUME [Next]_vars, state = "asked", state' # "asked"
    PROVE  MemoryList \/ SelectPage
<1>1. ASSUME NEW id \in IDs, Delete(id) \/ \E time \in 1 .. MaxTime : Create(id, time)
      PROVE  FALSE
  BY <1>1 DEF Delete, Create, Commit
<1>2. ~(\E interface \in APIs : Ask(interface)) /\ ~NextPage /\ ~Stop /\ ~SelectCount
  BY DEF Ask, NextPage, Stop, SelectCount
<1>3. ~Bump /\ ~Hit /\ ~Miss /\ ~UNCHANGED vars
  BY DEF Bump, Hit, Miss, vars
<1> QED
  BY <1>1, <1>2, <1>3 DEF Next

\* A page read for a request, whatever size and page the client chose within
\* the arithmetic of an int, holds exactly the users with those places in the
\* list: nobody is left out, nobody comes from another page, on either store,
\* and the only other answer is the database's error.  Slice bounds that fit
\* never panic.
THEOREM PagesRight == Spec => PageRight
<1>1. ASSUME TypeOK, [Next]_vars
      PROVE  [PageRead]_vars
  <2> SUFFICES ASSUME state = "asked", state' # "asked", Fits
               PROVE  PageRead
    BY DEF PageRead
  <2>1. \/ state' = "error" /\ DBFaults
        \/ /\ state' = IF backend = "memory" THEN "ok" ELSE "count"
           /\ IsPage(table, rows')
    BY <1>1, OnlyStoresAnswer, StoreRead, PagingAssumption
  <2>2. CASE state' = "error" /\ DBFaults
    BY <2>2 DEF PageRead
  <2>3. CASE state' = (IF backend = "memory" THEN "ok" ELSE "count") /\ IsPage(table, rows')
    <3> DEFINE wanted == SliceEnd(First + Sized(size), Cardinality(Live(table))) - First
    <3>1. table \in Tables
      BY <1>1 DEF TypeOK
    <3>2. /\ rows' \in Seq(IDs) /\ Len(rows') = OnPage(Cardinality(Live(table)))
          /\ \A i \in DOMAIN rows' :
                /\ rows'[i] \in Live(table)
                /\ Newer(table, rows'[i]) < First + i
                /\ First + i <= Newer(table, rows'[i]) + Ties(table, rows'[i])
      BY <1>1, <2>3, <3>1, PageRows, PagingAssumption
    <3>3. OnPage(Cardinality(Live(table))) = IF wanted < 0 THEN 0 ELSE wanted
      <4>1. /\ Cardinality(Live(table)) \in Nat
            /\ Sized(size) \in Nat \ {0} /\ First \in Nat
        BY <1>1, LiveType, Question, PagingAssumption
      <4> QED
        BY <4>1 DEF OnPage, SliceEnd
    <3>4. state' \in {"ok", "count"}
      BY <2>3
    <3> QED
      BY <3>2, <3>3, <3>4 DEF PageRead
  <2> QED
    BY <2>1, <2>2, <2>3
<1> QED
  BY <1>1, TypeCorrect, PTL DEF Spec, PageRight

\* The bounds of a page depend on the question and the store alone.
LEMMA SameQuestion ==
    ASSUME UNCHANGED <<backend, page, size>>
    PROVE  /\ First' = First /\ Sized(size)' = Sized(size) /\ Fits' = Fits
           /\ Numbered(page)' = Numbered(page)
BY DEF First, Sized, Numbered, Fits

LEMMA TotalNext ==
    ASSUME PagingAssumption, TypeOK, TotalInv, [Next]_vars
    PROVE  TotalInv'
<1> USE DEF versions, lookup, question, answer, walk
<1>1. ASSUME UNCHANGED <<backend, page, size, state, rows, total>>,
             state = "count" => wrote',
             state # "count" => wrote' = wrote
      PROVE  TotalInv'
  <2>1. First' = First /\ Sized(size)' = Sized(size) /\ Fits' = Fits
    BY <1>1, SameQuestion
  <2>2. OnPage(total)' = OnPage(total)
    BY <2>1, <1>1 DEF OnPage
  <2> QED
    BY <1>1, <2>1, <2>2 DEF TotalInv
<1>2. ASSUME NEW id \in IDs, Delete(id) \/ \E time \in 1 .. MaxTime : Create(id, time)
      PROVE  TotalInv'
  <2>1. Commit(table') /\ wrote \in BOOLEAN
    BY <1>2, CommitType DEF TypeOK
  <2>2. /\ UNCHANGED <<backend, page, size, state, rows, total>>
        /\ wrote' = (wrote \/ state = "count")
    BY <2>1 DEF Commit
  <2> QED
    BY <1>1, <2>1, <2>2
<1>3. ASSUME state' \in {"keyed", "asked", "idle", "error", "panic"}
      PROVE  TotalInv'
  BY <1>3 DEF TotalInv
<1>4. (\E interface \in APIs : Ask(interface)) \/ NextPage \/ Stop \/ Miss => TotalInv'
  BY <1>3 DEF Ask, NextPage, Stop, Miss, PutQuestion
<1>5. ASSUME Hit \/ MemoryList \/ SelectPage
      PROVE  TotalInv'
  <2>1. UNCHANGED <<backend, table, page, size>>
    BY <1>5, AnswerEffect
  <2>2. First' = First /\ Sized(size)' = Sized(size) /\ Fits' = Fits
    BY <2>1, SameQuestion
  <2>3. state' = "count" => backend' = "postgres"
    <3>1. Hit \/ MemoryList => state' # "count"
      <4>1. Hit \/ MemoryList => \E rs : Answer("ok", rs) \/ Answer("panic", rs)
        BY DEF Hit, MemoryList
      <4> QED
        BY <4>1 DEF Answer
    <3>2. SelectPage => backend' = "postgres"
      BY <2>1 DEF SelectPage
    <3> QED
      BY <1>5, <3>1, <3>2
  <2>4. CASE ~Fits
    BY <2>2, <2>3, <2>4 DEF TotalInv
  <2>5. CASE Fits /\ Hit
    <3>1. PICK t \in reach, u \in reach :
              /\ IsPage(t, rows') /\ total' = Cardinality(Live(u))
              /\ backend = "memory" => u = t
              /\ wrote' = (u # t)
      BY <2>5, CacheRead
    <3>2. t \in Tables
      BY DEF TypeOK
    <3>3. Len(rows') = OnPage(Cardinality(Live(t)))
      BY <3>1, <3>2, PageRows
    <3>4. u = t => OnPage(total)' = OnPage(Cardinality(Live(t)))
      BY <2>2, <3>1 DEF OnPage
    <3>5. state' = "ok"
      BY <2>5, CacheRead
    <3> QED
      BY <2>1, <3>1, <3>3, <3>4, <3>5 DEF TotalInv
  <2>6. CASE Fits /\ (MemoryList \/ SelectPage)
    <3>1. CASE state' = "error"
      BY <1>3, <3>1
    <3>2. CASE state' # "error"
      <4>1. /\ state' = IF backend = "memory" THEN "ok" ELSE "count"
            /\ backend = "memory" => total' = Cardinality(Live(table))
            /\ IsPage(table, rows')
        BY <2>6, <3>2, StoreRead
      <4>2. Len(rows') = OnPage(Cardinality(Live(table)))
        BY <4>1, PageRows DEF TypeOK
      <4>3. OnPage(Cardinality(Live(table)))' = OnPage(Cardinality(Live(table)))
        BY <2>1, <2>2 DEF OnPage, Live
      <4>4. backend = "memory" => OnPage(total)' = OnPage(Cardinality(Live(table)))
        BY <2>2, <4>1 DEF OnPage
      <4> QED
        BY <2>1, <2>3, <4>1, <4>2, <4>3, <4>4 DEF TotalInv
    <3> QED
      BY <3>1, <3>2
  <2> QED
    BY <1>5, <2>4, <2>5, <2>6
<1>6. ASSUME SelectCount
      PROVE  TotalInv'
  <2>1. /\ state = "count" /\ UNCHANGED <<backend, page, size, table, rows, wrote>>
        /\ \/ state' = "ok" /\ total' = Cardinality(Live(table))
           \/ state' = "error"
    BY <1>6 DEF SelectCount, Counted
  <2>2. First' = First /\ Sized(size)' = Sized(size) /\ Fits' = Fits
    BY <2>1, SameQuestion
  <2>3. CASE state' = "ok" /\ total' = Cardinality(Live(table))
    <3>1. OnPage(total)' = OnPage(Cardinality(Live(table)))
      BY <2>2, <2>3 DEF OnPage
    <3>2. backend = "postgres"
      BY <2>1 DEF TotalInv
    <3> QED
      BY <2>1, <2>2, <2>3, <3>1, <3>2 DEF TotalInv
  <2> QED
    BY <2>1, <2>3, <1>3
<1>7. ASSUME Bump \/ UNCHANGED vars
      PROVE  TotalInv'
  <2>1. UNCHANGED <<backend, page, size, state, rows, total, wrote, table>>
    BY <1>7 DEF Bump, vars
  <2>2. wrote \in BOOLEAN
    BY DEF TypeOK
  <2>3. First' = First /\ Sized(size)' = Sized(size) /\ Fits' = Fits
    BY <2>1, SameQuestion
  <2>4. /\ OnPage(total)' = OnPage(total)
        /\ OnPage(Cardinality(Live(table)))' = OnPage(Cardinality(Live(table)))
    BY <2>1, <2>3 DEF OnPage, Live
  <2> QED
    BY <2>1, <2>3, <2>4 DEF TotalInv
<1> QED
  BY <1>2, <1>4, <1>5, <1>6, <1>7 DEF Next

\* A client is never shown a total that its page contradicts, by a store or by
\* the cache: with the in-memory store, which reads both under one lock, and
\* with Postgres unless a user was created or deleted between its two
\* statements.
THEOREM TotalsAgree == Spec => []TotalAgrees
<1>1. Init => TotalInv
  BY DEF Init, TotalInv
<1>2. TypeOK /\ TotalInv /\ [Next]_vars => TotalInv'
  BY TotalNext, PagingAssumption
<1>3. TotalInv => TotalAgrees
  BY DEF TotalInv, TotalAgrees, OnPage
<1> QED
  BY <1>1, <1>2, <1>3, TypeCorrect, PTL DEF Spec

-----------------------------------------------------------------------------
\* How many places of the list a walk has been over.
Covered == IF state \in {"keyed", "asked"} THEN First ELSE First + Sized(size)

\* A walk under way without an error, in the arithmetic's range.
Walking ==
    walking /\ ~torn /\ state \in {"keyed", "asked", "count", "ok"} /\ Fits /\ NoTies(table)

\* The tables that the next page may show without tearing the walk.
Shown == IF state = "keyed" /\ ~risky THEN reach ELSE {table}

\* Whoever is in t is in u, and not nearer to the first page.
Back(t, u) == \A x \in Live(t) : x \in Live(u) /\ Newer(t, x) <= Newer(u, x)

\* A table that may be shown differs from the present one by what happened
\* since the walk began.
ShownInv ==
    /\ state = "keyed" => table \in reach
    /\ ~unbumped => era = {table}
    /\ \A t \in Shown :
          /\ NoTies(table) => NoTies(t)
          /\ walking /\ ~deleted => Back(t, table)
          /\ walking /\ ~created => Back(table, t)

\* Everyone of the start whose place the walk has passed was seen.
Passed(t) == \A id \in start : id \in Live(t) /\ (Newer(t, id) < Covered => Contains(seen, id))

\* Nobody seen is still ahead of the walk.
Ahead(t) == \E i \in DOMAIN seen : seen[i] \in Live(t) /\ ~(Newer(t, seen[i]) < Covered)

\* While nobody is deleted, others only move back.
NobodyMissed == Walking /\ ~deleted => \A t \in Shown : Passed(t)

\* While nobody is created, others only move forward.
NobodyAhead ==
    Walking /\ ~created =>
        /\ \A i, j \in DOMAIN seen : seen[i] = seen[j] => i = j
        /\ \A t \in Shown : ~Ahead(t)

\* An empty page ends the walk.
AllFound ==
    Walking /\ ~deleted /\ state \in {"count", "ok"} /\ rows = <<>> =>
        \A id \in start : Contains(seen, id)

WalkInv ==
    /\ state = "idle" => ~walking /\ seen = <<>>
    /\ walking => page >= 1
    /\ ShownInv /\ NobodyMissed /\ NobodyAhead /\ AllFound

\* A place is a number.
LEMMA NewerType ==
    ASSUME PagingAssumption, NEW t, NEW x
    PROVE  Newer(t, x) \in Nat
<1>1. {o \in Live(t) : t.born[o] > t.born[x]} \in SUBSET IDs
  BY DEF Live
<1>2. IsFiniteSet({o \in Live(t) : t.born[o] > t.born[x]})
  BY <1>1, FS_Subset DEF PagingAssumption
<1> QED
  BY <1>2, FS_CardinalityType DEF Newer

LEMMA BackTransitive ==
    ASSUME PagingAssumption, NEW t, NEW u, NEW v, Back(t, u), Back(u, v)
    PROVE  Back(t, v)
<1> SUFFICES ASSUME NEW x \in Live(t)
             PROVE  x \in Live(v) /\ Newer(t, x) <= Newer(v, x)
  BY DEF Back
<1>1. /\ x \in Live(u) /\ Newer(t, x) <= Newer(u, x)
      /\ x \in Live(v) /\ Newer(u, x) <= Newer(v, x)
  BY DEF Back
<1>2. Newer(t, x) \in Nat /\ Newer(u, x) \in Nat /\ Newer(v, x) \in Nat
  BY NewerType
<1> QED
  BY <1>1, <1>2

LEMMA BackReflexive ==
    ASSUME PagingAssumption, NEW t
    PROVE  Back(t, t)
<1> SUFFICES ASSUME NEW x \in Live(t)
             PROVE  Newer(t, x) <= Newer(t, x)
  BY DEF Back
<1>1. Newer(t, x) \in Nat
  BY NewerType
<1> QED
  BY <1>1

\* A new user moves those that are there back, never forward.
LEMMA CreateMovesBack ==
    ASSUME PagingAssumption, TypeOK, NEW id \in IDs, NEW time \in 1 .. MaxTime, Create(id, time)
    PROVE  Back(table, table') /\ (NoTies(table') => NoTies(table))
<1> DEFINE t == table
           u == table'
<1>1. /\ t \in Tables /\ u \in Tables /\ t.born[id] = 0
      /\ u = [t EXCEPT !.born[id] = time]
  BY CommitType DEF Create, Commit, TypeOK
<1>2. /\ t.born \in [IDs -> Int] /\ u.born \in [IDs -> Int] /\ u.gone = t.gone
      /\ u.born = [t.born EXCEPT ![id] = time]
  BY <1>1, TableType DEF Tables
<1> HIDE DEF t, u
<1>3. \A x \in IDs : x # id => u.born[x] = t.born[x]
  BY <1>2
<1>4. NoTies(u) => NoTies(t)
  <2> SUFFICES ASSUME NoTies(u), NEW x \in IDs, NEW y \in IDs,
                      t.born[x] > 0, t.born[x] = t.born[y]
               PROVE  x = y
    BY DEF NoTies
  <2>1. x # id /\ y # id
    BY <1>1, <1>2
  <2>2. u.born[x] > 0 /\ u.born[x] = u.born[y]
    BY <2>1, <1>3
  <2> QED
    BY <2>2 DEF NoTies
<1>5. \A x \in Live(t) : x \in Live(u) /\ x # id /\ x \in IDs /\ u.born[x] = t.born[x]
  <2> SUFFICES ASSUME NEW x \in Live(t)
               PROVE  x \in Live(u) /\ x # id /\ x \in IDs /\ u.born[x] = t.born[x]
    OBVIOUS
  <2>1. x \in IDs /\ t.born[x] > 0 /\ x \notin t.gone
    BY DEF Live
  <2>2. x # id
    BY <2>1, <1>1, <1>2
  <2>3. u.born[x] = t.born[x]
    BY <2>1, <2>2, <1>3
  <2> QED
    BY <2>1, <2>2, <2>3, <1>2 DEF Live
<1>6. ASSUME NEW x \in Live(t)
      PROVE  Newer(t, x) <= Newer(u, x)
  <2> DEFINE before == {o \in Live(t) : t.born[o] > t.born[x]}
             after == {o \in Live(u) : u.born[o] > u.born[x]}
  <2>1. before \in SUBSET after
    BY <1>5
  <2>2. IsFiniteSet(after)
    <3>1. after \in SUBSET Live(u)
      OBVIOUS
    <3> QED
      BY <3>1, LiveType, FS_Subset
  <2>3. Newer(t, x) = Cardinality(before) /\ Newer(u, x) = Cardinality(after)
    BY DEF Newer
  <2> HIDE DEF before, after
  <2> QED
    BY <2>1, <2>2, <2>3, FS_Subset
<1>7. Back(t, u)
  BY <1>5, <1>6 DEF Back
<1> QED
  BY <1>4, <1>7 DEF t, u

\* A deleted user moves the others forward, never back.
LEMMA DeleteMovesForward ==
    ASSUME PagingAssumption, TypeOK, NEW id \in IDs, Delete(id)
    PROVE  Back(table', table) /\ (NoTies(table') => NoTies(table))
<1> DEFINE t == table
           u == table'
<1>1. t \in Tables /\ u = [t EXCEPT !.gone = @ \cup {id}]
  BY DEF Delete, Commit, TypeOK
<1>2. u.born = t.born /\ u.gone = t.gone \cup {id}
  BY <1>1 DEF Tables
<1> HIDE DEF t, u
<1>3. NoTies(u) => NoTies(t)
  BY <1>2 DEF NoTies
<1>4. Live(u) \in SUBSET Live(t)
  BY <1>2 DEF Live
<1>5. ASSUME NEW x \in Live(u)
      PROVE  Newer(u, x) <= Newer(t, x)
  <2> DEFINE before == {o \in Live(t) : t.born[o] > t.born[x]}
             after == {o \in Live(u) : u.born[o] > u.born[x]}
  <2>1. after \in SUBSET before
    BY <1>2, <1>4
  <2>2. IsFiniteSet(before)
    <3>1. before \in SUBSET Live(t)
      OBVIOUS
    <3> QED
      BY <3>1, LiveType, FS_Subset
  <2>3. Newer(t, x) = Cardinality(before) /\ Newer(u, x) = Cardinality(after)
    BY DEF Newer
  <2> HIDE DEF before, after
  <2> QED
    BY <2>1, <2>2, <2>3, FS_Subset
<1>6. Back(u, t)
  BY <1>4, <1>5 DEF Back
<1> QED
  BY <1>3, <1>6 DEF t, u

\* What a walk has passed stays passed in a table further back, and what it has
\* seen stays behind it in one further forward.
LEMMA PassedBack ==
    ASSUME PagingAssumption, TypeOK, NEW t, NEW u, Back(t, u), Passed(t)
    PROVE  Passed(u)
<1> SUFFICES ASSUME NEW id \in start
             PROVE  id \in Live(u) /\ (Newer(u, id) < Covered => Contains(seen, id))
  BY DEF Passed
<1>1. /\ id \in Live(t) /\ (Newer(t, id) < Covered => Contains(seen, id))
      /\ id \in Live(u) /\ Newer(t, id) <= Newer(u, id)
  BY DEF Passed, Back
<1>2. Newer(t, id) \in Nat /\ Newer(u, id) \in Nat /\ Covered \in Nat
  BY NewerType, Question DEF Covered
<1> QED
  BY <1>1, <1>2

LEMMA AheadForward ==
    ASSUME PagingAssumption, TypeOK, NEW t, NEW u, Back(u, t), ~Ahead(t)
    PROVE  ~Ahead(u)
<1> SUFFICES ASSUME NEW i \in DOMAIN seen, seen[i] \in Live(u)
             PROVE  Newer(u, seen[i]) < Covered
  BY DEF Ahead
<1>1. seen[i] \in Live(t) /\ Newer(u, seen[i]) <= Newer(t, seen[i])
  BY DEF Back
<1>2. Newer(t, seen[i]) < Covered
  BY <1>1 DEF Ahead
<1>3. Newer(t, seen[i]) \in Nat /\ Newer(u, seen[i]) \in Nat /\ Covered \in Nat
  BY NewerType, Question DEF Covered
<1> QED
  BY <1>1, <1>2, <1>3

\* Where a walk is depends on its question and its answers alone.
LEMMA SameWalk ==
    ASSUME Covered' = Covered, UNCHANGED <<seen, start>>
    PROVE  \A t : (Passed(t)' <=> Passed(t)) /\ (Ahead(t)' <=> Ahead(t))
BY DEF Passed, Ahead

\* When the next page can show the present table only.
LEMMA ShownNow ==
    ASSUME PagingAssumption, Shown' = {table'},
           state' = "keyed" => table' \in reach', ~unbumped' => era' = {table'}
    PROVE  ShownInv'
<1>1. \A t : Back(t, t)
  BY BackReflexive
<1>2. Back(table', table')
  BY <1>1
<1>3. ASSUME NEW t \in Shown'
      PROVE  /\ NoTies(table') => NoTies(t)
             /\ Back(t, table') /\ Back(table', t)
  BY <1>2, <1>3
<1> QED
  BY <1>3 DEF ShownInv

\* A page from a table that may be shown moves the walk over its places.
LEMMA WalkPage ==
    ASSUME PagingAssumption, TypeOK, TypeOK', WalkInv,
           UNCHANGED <<backend, table, era, unbumped, page, size>>,
           UNCHANGED <<walking, start, created, deleted>>,
           state \in {"keyed", "asked"}, state' \in {"ok", "count"},
           seen' = IF walking THEN seen \o rows' ELSE seen,
           Fits /\ walking /\ ~torn' => ~torn /\ \E t \in Shown : t \in Tables /\ IsPage(t, rows')
    PROVE  WalkInv'
<1>1. /\ First' = First /\ Sized(size)' = Sized(size) /\ Fits' = Fits
  BY SameQuestion
<1>2. walking' => page' >= 1
  BY DEF WalkInv
<1>3. /\ First \in Nat /\ Sized(size) \in Nat \ {0} /\ start \in SUBSET IDs
      /\ seen \in Seq(IDs) /\ table \in Tables
  BY Question DEF TypeOK
<1>4. Shown' = {table'}
  BY DEF Shown
<1>5. ShownInv'
  <2>1. ~unbumped' => era' = {table'}
    BY DEF WalkInv, ShownInv
  <2> QED
    BY <2>1, <1>4, ShownNow
<1>6. CASE ~Walking'
  BY <1>2, <1>5, <1>6 DEF WalkInv, NobodyMissed, NobodyAhead, AllFound
<1>7. CASE Walking'
  <2>1. walking /\ Fits /\ NoTies(table) /\ ~torn' /\ seen' = seen \o rows'
    BY <1>1, <1>7 DEF Walking
  <2>2. ~torn /\ Walking /\ Covered = First /\ Covered' = First + Sized(size)
    BY <1>1, <2>1 DEF Walking, Covered
  <2>3. PICK t \in Shown : t \in Tables /\ IsPage(t, rows')
    BY <2>1
  <2>4. /\ NoTies(t)
        /\ ~deleted => Back(t, table)
        /\ ~created => Back(table, t)
    BY <2>1 DEF WalkInv, ShownInv
  <2>5. /\ rows' \in Seq(IDs)
        /\ \A i \in DOMAIN rows' :
              /\ rows'[i] \in Live(t) /\ Newer(t, rows'[i]) \in Nat
              /\ First <= Newer(t, rows'[i]) /\ Newer(t, rows'[i]) < First + Sized(size)
        /\ \A x \in Live(t) :
              Newer(t, x) < First + Sized(size) => Newer(t, x) < First \/ Contains(rows', x)
        /\ rows' = <<>> => \A x \in Live(t) : Newer(t, x) < First
    BY <2>3, <2>4, PageInPlace
  <2>6. ~deleted => \A id \in start : id \in Live(t) /\ (Newer(t, id) < First => Contains(seen, id))
    BY <2>2, <2>3 DEF WalkInv, NobodyMissed, Passed
  <2>7. \A x : Contains(seen, x) \/ Contains(rows', x) => Contains(seen \o rows', x)
    BY <1>3, <2>5, SeenStays
  <2>8. NobodyMissed'
    <3> SUFFICES ASSUME ~deleted, NEW id \in start
                 PROVE  /\ id \in Live(table)
                        /\ Newer(table, id) < First + Sized(size) => Contains(seen', id)
      BY <1>4, <2>2 DEF NobodyMissed, Passed
    <3>1. id \in Live(t) /\ id \in Live(table) /\ Newer(t, id) <= Newer(table, id)
      BY <2>4, <2>6 DEF Back
    <3>2. Newer(t, id) \in Nat /\ Newer(table, id) \in Nat
      BY NewerType
    <3>3. Newer(table, id) < First + Sized(size) => Newer(t, id) < First + Sized(size)
      BY <1>3, <3>1, <3>2
    <3>4. Newer(t, id) < First + Sized(size) => Contains(seen, id) \/ Contains(rows', id)
      BY <3>1, <2>5, <2>6
    <3> QED
      BY <3>1, <3>3, <3>4, <2>1, <2>7
  <2>9. NobodyAhead'
    <3> SUFFICES ASSUME ~created
                 PROVE  /\ \A i, j \in DOMAIN seen' : seen'[i] = seen'[j] => i = j
                        /\ \A i \in DOMAIN seen' :
                              seen'[i] \in Live(table) =>
                                  Newer(table, seen'[i]) < First + Sized(size)
      BY <1>4, <2>2 DEF NobodyAhead, Ahead
    <3>1. /\ \A i, j \in DOMAIN seen : seen[i] = seen[j] => i = j
          /\ \A i \in DOMAIN seen : seen[i] \in Live(t) => Newer(t, seen[i]) < First
      BY <2>2, <2>3 DEF WalkInv, NobodyAhead, Ahead
    <3>2. \A i, j \in DOMAIN rows' : rows'[i] = rows'[j] => i = j
      BY DEF TypeOK
    <3>3. \A i \in DOMAIN seen, j \in DOMAIN rows' : seen[i] # rows'[j]
      <4> SUFFICES ASSUME NEW i \in DOMAIN seen, NEW j \in DOMAIN rows', seen[i] = rows'[j]
                   PROVE  FALSE
        OBVIOUS
      <4>1. rows'[j] \in Live(t) /\ Newer(t, rows'[j]) \in Nat /\ First <= Newer(t, rows'[j])
        BY <2>5
      <4>2. Newer(t, rows'[j]) < First
        BY <4>1, <3>1
      <4> QED
        BY <4>1, <4>2, <1>3
    <3> DEFINE u == seen \o rows'
    <3>4. /\ \A i, j \in DOMAIN u : u[i] = u[j] => i = j
          /\ \A i \in DOMAIN u :
                (\E j \in DOMAIN seen : u[i] = seen[j]) \/ (\E j \in DOMAIN rows' : u[i] = rows'[j])
      BY <1>3, <2>5, <3>1, <3>2, <3>3, SeenOnce
    <3> HIDE DEF u
    <3>5. ASSUME NEW i \in DOMAIN u, u[i] \in Live(table)
          PROVE  Newer(table, u[i]) < First + Sized(size)
      <4>1. u[i] \in Live(t) /\ Newer(table, u[i]) <= Newer(t, u[i])
        BY <2>4, <3>5 DEF Back
      <4>2. Newer(table, u[i]) \in Nat /\ Newer(t, u[i]) \in Nat
        BY NewerType
      <4>3. Newer(t, u[i]) < First + Sized(size)
        <5>1. CASE \E j \in DOMAIN seen : u[i] = seen[j]
          <6>1. Newer(t, u[i]) < First
            BY <5>1, <3>1, <4>1
          <6> QED
            BY <6>1, <4>2, <1>3
        <5>2. CASE \E j \in DOMAIN rows' : u[i] = rows'[j]
          BY <5>2, <2>5
        <5> QED
          BY <3>4, <5>1, <5>2
      <4> QED
        BY <4>1, <4>2, <4>3, <1>3
    <3>6. seen' = u
      BY <2>1 DEF u
    <3> QED
      BY <3>4, <3>5, <3>6
  <2>10. AllFound'
    <3> SUFFICES ASSUME ~deleted, rows' = <<>>, NEW id \in start
                 PROVE  Contains(seen', id)
      BY DEF AllFound
    <3>1. id \in Live(t) /\ (Newer(t, id) < First => Contains(seen, id))
      BY <2>6
    <3>2. Newer(t, id) < First
      BY <3>1, <2>5
    <3> QED
      BY <3>1, <3>2, <2>1, <2>7
  <2> QED
    BY <1>2, <1>5, <2>8, <2>9, <2>10 DEF WalkInv
<1> QED
  BY <1>6, <1>7

\* Reading a page, from a store or from the cache.
LEMMA WalkRead ==
    ASSUME PagingAssumption, TypeOK, TypeOK', WalkInv, Hit \/ MemoryList \/ SelectPage
    PROVE  WalkInv'
<1>1. /\ state' \in {"ok", "count", "error", "panic"}
      /\ seen' = IF walking THEN seen \o rows' ELSE seen
      /\ reach' = {} /\ risky' = FALSE
      /\ UNCHANGED <<backend, table, era, unbumped, page, size>>
      /\ UNCHANGED <<walking, start, created, deleted>>
  BY AnswerEffect
<1>2. CASE state' \in {"error", "panic"}
  <2>1. ShownInv'
    <3>1. Shown' = {table'} /\ (~unbumped' => era' = {table'})
      BY <1>1, <1>2 DEF Shown, WalkInv, ShownInv
    <3> QED
      BY <3>1, <1>2, ShownNow
  <2>2. NobodyMissed' /\ NobodyAhead' /\ AllFound'
    BY <1>2 DEF NobodyMissed, NobodyAhead, AllFound, Walking
  <2> QED
    BY <2>1, <2>2, <1>1, <1>2 DEF WalkInv
<1>3. CASE state' \in {"ok", "count"}
  <2>1. state \in {"keyed", "asked"}
    BY DEF Hit, MemoryList, SelectPage
  <2>2. ASSUME Fits, walking, ~torn'
        PROVE  ~torn /\ \E t \in Shown : t \in Tables /\ IsPage(t, rows')
    <3>1. CASE Hit
      <4>1. PICK t \in reach : IsPage(t, rows')
        BY <3>1, <2>2, CacheRead
      <4>2. state = "keyed" /\ ~torn /\ ~risky
        BY <3>1, <2>2, CacheRead DEF TypeOK
      <4> QED
        BY <4>1, <4>2 DEF Shown, TypeOK
    <3>2. CASE MemoryList \/ SelectPage
      <4>1. state = "asked" /\ UNCHANGED torn /\ IsPage(table, rows')
        BY <3>2, <2>2, <1>3, StoreRead
      <4> QED
        BY <4>1, <2>2 DEF Shown, TypeOK
    <3> QED
      BY <3>1, <3>2
  <2> QED
    BY <2>1, <2>2, <1>1, <1>3, WalkPage
<1> QED
  BY <1>1, <1>2, <1>3

\* A change by another request only adds a table that the walk can live with.
LEMMA WalkCommit ==
    ASSUME PagingAssumption, TypeOK, TypeOK', WalkInv, NEW id \in IDs,
           Delete(id) \/ \E time \in 1 .. MaxTime : Create(id, time)
    PROVE  WalkInv'
<1>1. Commit(table')
  BY CommitType
<1>2. /\ UNCHANGED <<backend, risky, page, size, state, rows, walking, seen, start, torn>>
      /\ reach' = IF state = "keyed" THEN reach \cup {table'} ELSE reach
      /\ Caching => unbumped' = TRUE
      /\ ~Caching => era' = {table'}
  BY <1>1 DEF Commit, question, answer
<1>3. \/ /\ Back(table, table') /\ created' = walking /\ deleted' = deleted
      \/ /\ Back(table', table) /\ deleted' = walking /\ created' = created
  BY CreateMovesBack, DeleteMovesForward DEF Create, Delete
<1>4. NoTies(table') => NoTies(table)
  BY CreateMovesBack, DeleteMovesForward
<1>5. First' = First /\ Sized(size)' = Sized(size) /\ Fits' = Fits
  BY <1>2, SameQuestion
<1>6. Covered' = Covered /\ (Walking' => Walking)
  BY <1>2, <1>4, <1>5 DEF Covered, Walking
<1>7. \A t : (Passed(t)' <=> Passed(t)) /\ (Ahead(t)' <=> Ahead(t))
  BY <1>2, <1>6, SameWalk
<1>8. table \in Shown /\ \A t \in Shown' : t \in Shown \/ t = table'
  <2>1. state = "keyed" => table \in reach
    BY DEF WalkInv, ShownInv
  <2> QED
    BY <2>1, <1>2 DEF Shown
<1>9. ShownInv'
  <2>1. (~unbumped' => era' = {table'}) /\ (state' = "keyed" => table' \in reach')
    BY <1>2 DEF PagingAssumption
  <2>2. ASSUME NEW t \in Shown'
        PROVE  /\ NoTies(table') => NoTies(t)
               /\ walking' /\ ~deleted' => Back(t, table')
               /\ walking' /\ ~created' => Back(table', t)
    <3>1. CASE t = table'
      <4>1. \A x : Back(x, x)
        BY BackReflexive
      <4> QED
        BY <3>1, <4>1
    <3>2. CASE t \in Shown
      <4>1. /\ NoTies(table) => NoTies(t)
            /\ walking /\ ~deleted => Back(t, table)
            /\ walking /\ ~created => Back(table, t)
        BY <3>2 DEF WalkInv, ShownInv
      <4>2. \A x, y, z : Back(x, y) /\ Back(y, z) => Back(x, z)
        BY BackTransitive
      <4>3. walking' /\ ~deleted' => Back(t, table')
        <5>1. walking' /\ ~deleted' => Back(t, table) /\ Back(table, table')
          BY <4>1, <1>2, <1>3
        <5> QED
          BY <5>1, <4>2
      <4>4. walking' /\ ~created' => Back(table', t)
        <5>1. walking' /\ ~created' => Back(table, t) /\ Back(table', table)
          BY <4>1, <1>2, <1>3
        <5> QED
          BY <5>1, <4>2
      <4> QED
        BY <4>1, <4>3, <4>4, <1>4
    <3> QED
      BY <1>8, <3>1, <3>2
  <2> QED
    BY <2>1, <2>2 DEF ShownInv
<1>10. NobodyMissed'
  <2> SUFFICES ASSUME Walking', ~deleted', NEW t \in Shown'
               PROVE  Passed(t)
    BY <1>7 DEF NobodyMissed
  <2>1. walking' /\ deleted' = deleted /\ Back(table, table')
    BY <1>2, <1>3 DEF Walking
  <2>2. \A u \in Shown : Passed(u)
    BY <1>6, <2>1 DEF WalkInv, NobodyMissed
  <2>3. Passed(table')
    BY <2>1, <2>2, <1>8, PassedBack
  <2> QED
    BY <2>2, <2>3, <1>8
<1>11. NobodyAhead'
  <2> SUFFICES ASSUME Walking', ~created'
               PROVE  /\ \A i, j \in DOMAIN seen' : seen'[i] = seen'[j] => i = j
                      /\ \A t \in Shown' : ~Ahead(t)
    BY <1>7 DEF NobodyAhead
  <2>1. walking' /\ created' = created /\ Back(table', table)
    BY <1>2, <1>3 DEF Walking
  <2>2. /\ \A i, j \in DOMAIN seen : seen[i] = seen[j] => i = j
        /\ \A u \in Shown : ~Ahead(u)
    BY <1>6, <2>1 DEF WalkInv, NobodyAhead
  <2>3. ~Ahead(table')
    BY <2>1, <2>2, <1>8, AheadForward
  <2> QED
    BY <2>2, <2>3, <1>2, <1>8
<1>12. AllFound'
  <2> SUFFICES ASSUME Walking', ~deleted', state' \in {"count", "ok"}, rows' = <<>>
               PROVE  \A x \in start : Contains(seen, x)
    BY <1>2 DEF AllFound
  <2>1. walking' /\ deleted' = deleted
    BY <1>2, <1>3 DEF Walking
  <2> QED
    BY <2>1, <1>2, <1>6 DEF WalkInv, AllFound
<1> QED
  BY <1>2, <1>9, <1>10, <1>11, <1>12 DEF WalkInv

\* The key for a page can find what the table is now, or is risky.
LEMMA PutShown ==
    ASSUME PagingAssumption, TypeOK, WalkInv, PutQuestion, UNCHANGED <<table, era, unbumped>>
    PROVE  Shown' = {table} /\ ShownInv' /\ state' \in {"keyed", "asked"}
<1>1. ~unbumped => era = {table}
  BY DEF WalkInv, ShownInv
<1>2. /\ Shown' = {table} /\ state' \in {"keyed", "asked"}
      /\ state' = "keyed" => table' \in reach'
      /\ ~unbumped' => era' = {table'}
  BY <1>1 DEF PutQuestion, Shown, TypeOK
<1> QED
  BY <1>2, ShownNow

LEMMA WalkNext ==
    ASSUME PagingAssumption, TypeOK, TypeOK', WalkInv, [Next]_vars
    PROVE  WalkInv'
<1> USE DEF versions, lookup, question, answer, walk
<1>1. ASSUME NEW id \in IDs, Delete(id) \/ \E time \in 1 .. MaxTime : Create(id, time)
      PROVE  WalkInv'
  BY <1>1, WalkCommit
<1>2. ASSUME Bump \/ UNCHANGED vars
      PROVE  WalkInv'
  <2>1. /\ UNCHANGED <<backend, table, reach, risky, page, size, state, rows>>
        /\ UNCHANGED <<walking, seen, start, created, deleted, torn>>
    BY <1>2 DEF Bump, vars
  <2>2. ~unbumped' => era' = {table'}
    BY <1>2 DEF Bump, EraAfter, vars, WalkInv, ShownInv
  <2>3. First' = First /\ Sized(size)' = Sized(size) /\ Fits' = Fits
    BY <2>1, SameQuestion
  <2>4. Covered' = Covered /\ (Walking' <=> Walking) /\ Shown' = Shown
    BY <2>1, <2>3 DEF Covered, Walking, Shown
  <2>5. \A t : (Passed(t)' <=> Passed(t)) /\ (Ahead(t)' <=> Ahead(t))
    BY <2>1, <2>4, SameWalk
  <2>6. ShownInv'
    BY <2>1, <2>2, <2>4 DEF WalkInv, ShownInv
  <2>7. NobodyMissed' /\ NobodyAhead' /\ AllFound'
    BY <2>1, <2>4, <2>5 DEF WalkInv, NobodyMissed, NobodyAhead, AllFound
  <2> QED
    BY <2>1, <2>6, <2>7 DEF WalkInv
<1>3. ASSUME NEW interface \in APIs, Ask(interface)
      PROVE  WalkInv'
  <2>1. /\ state = "idle" /\ seen' = seen /\ UNCHANGED <<backend, table, era, unbumped>>
        /\ PutQuestion
        /\ walking' = (page' = 1) /\ start' = IF walking' THEN Live(table) ELSE {}
    BY <1>3 DEF Ask
  <2>2. Shown' = {table} /\ ShownInv' /\ state' \in {"keyed", "asked"}
    BY <2>1, PutShown
  <2>3. seen' = <<>> /\ (walking' => page' = 1)
    BY <2>1 DEF WalkInv
  <2>4. walking' => Covered' = 0
    <3>1. size' \in Int
      BY DEF TypeOK, Int64, PagingAssumption
    <3>2. Sized(size)' \in Int
      BY <3>1 DEF Sized, PagingAssumption
    <3>3. walking' => Numbered(page)' - 1 = 0
      BY <2>3 DEF Numbered
    <3>4. \A m \in Int : 0 * m = 0
      BY SMT
    <3>5. walking' => First' = 0
      BY <3>2, <3>3, <3>4 DEF First
    <3> QED
      BY <3>5, <2>2 DEF Covered
  <2>5. NobodyMissed'
    <3> SUFFICES ASSUME walking', NEW id \in start'
                 PROVE  id \in Live(table) /\ ~(Newer(table, id) < Covered')
      BY <2>2 DEF NobodyMissed, Walking, Passed
    <3>1. Newer(table, id) \in Nat
      BY NewerType
    <3> QED
      BY <3>1, <2>1, <2>4
  <2>6. NobodyAhead'
    BY <2>3 DEF NobodyAhead, Ahead
  <2>7. AllFound'
    BY <2>2 DEF AllFound
  <2> QED
    BY <2>2, <2>3, <2>5, <2>6, <2>7 DEF WalkInv
<1>4. ASSUME NextPage
      PROVE  WalkInv'
  <2>1. /\ state = "ok" /\ walking /\ page' = page + 1 /\ PutQuestion
        /\ UNCHANGED <<backend, table, era, unbumped, size>>
        /\ UNCHANGED <<walking, seen, start, created, deleted, torn>>
    BY <1>4 DEF NextPage
  <2>2. page >= 1 /\ page \in Int
    BY <2>1 DEF WalkInv, TypeOK, Int64, PagingAssumption
  <2>3. Sized(size)' = Sized(size) /\ Sized(size) \in Nat \ {0} /\ First \in Nat
    BY <2>1, Question DEF Sized
  <2>4. First' = First + Sized(size)
    <3>1. Numbered(page) = page /\ Numbered(page)' = page + 1
      BY <2>1, <2>2 DEF Numbered
    <3>2. (page - 1) * Sized(size) + Sized(size) = page * Sized(size)
      BY <2>2, <2>3, PageBounds
    <3>3. Numbered(page)' - 1 = page /\ Numbered(page) - 1 = page - 1
      BY <3>1, <2>2
    <3>4. First = (page - 1) * Sized(size)
      BY <3>1 DEF First
    <3>5. First' = (Numbered(page)' - 1) * Sized(size)'
      BY DEF First
    <3>6. First' = page * Sized(size)
      BY <3>3, <3>5, <2>3
    <3> QED
      BY <3>2, <3>4, <3>6
  <2>5. Shown = {table} /\ Shown' = {table} /\ ShownInv' /\ state' \in {"keyed", "asked"}
    BY <2>1, PutShown DEF Shown
  <2>6. Covered' = Covered /\ (Fits' => Fits)
    <3>1. Covered' = Covered
      BY <2>1, <2>4, <2>5 DEF Covered
    <3>2. MaxInt \in Nat
      BY DEF PagingAssumption
    <3> QED
      BY <3>1, <3>2, <2>3, <2>4 DEF Fits
  <2>7. Walking' => Walking
    BY <2>1, <2>6 DEF Walking
  <2>8. \A t : (Passed(t)' <=> Passed(t)) /\ (Ahead(t)' <=> Ahead(t))
    BY <2>1, <2>6, SameWalk
  <2>9. NobodyMissed'
    BY <2>1, <2>5, <2>7, <2>8 DEF WalkInv, NobodyMissed
  <2>10. NobodyAhead'
    BY <2>1, <2>5, <2>7, <2>8 DEF WalkInv, NobodyAhead
  <2>11. AllFound'
    BY <2>5 DEF AllFound
  <2> QED
    BY <2>1, <2>2, <2>5, <2>9, <2>10, <2>11 DEF WalkInv
<1>5. ASSUME Stop
      PROVE  WalkInv'
  <2>1. /\ walking' = FALSE /\ seen' = <<>> /\ state' = "idle"
        /\ UNCHANGED <<table, era, unbumped>>
    BY <1>5 DEF Stop
  <2>2. ShownInv'
    <3>1. Shown' = {table'} /\ (~unbumped' => era' = {table'})
      BY <2>1 DEF Shown, WalkInv, ShownInv
    <3> QED
      BY <2>1, <3>1, ShownNow
  <2> QED
    BY <2>1, <2>2 DEF WalkInv, NobodyMissed, NobodyAhead, AllFound, Walking
<1>6. ASSUME Hit \/ MemoryList \/ SelectPage
      PROVE  WalkInv'
  BY <1>6, WalkRead
<1>7. ASSUME Miss \/ SelectCount
      PROVE  WalkInv'
  <2>1. /\ UNCHANGED <<backend, table, era, unbumped, page, size, rows>>
        /\ UNCHANGED <<walking, seen, start, created, deleted, torn>>
        /\ \/ state = "keyed" /\ state' = "asked"
           \/ state = "count" /\ state' \in {"ok", "error"}
    BY <1>7 DEF Miss, SelectCount
  <2>2. First' = First /\ Sized(size)' = Sized(size) /\ Fits' = Fits
    BY <2>1, SameQuestion
  <2>3. Walking' => Covered' = Covered /\ Walking
    BY <2>1, <2>2 DEF Covered, Walking
  <2>4. Shown' = {table'} /\ table' \in Shown
    <3>1. state = "keyed" => table \in reach
      BY DEF WalkInv, ShownInv
    <3> QED
      BY <3>1, <2>1 DEF Shown
  <2>5. ShownInv'
    <3>1. ~unbumped' => era' = {table'}
      BY <2>1 DEF WalkInv, ShownInv
    <3> QED
      BY <3>1, <2>1, <2>4, ShownNow
  <2>6. Walking' => \A t : (Passed(t)' <=> Passed(t)) /\ (Ahead(t)' <=> Ahead(t))
    BY <2>1, <2>3, SameWalk
  <2>7. NobodyMissed'
    BY <2>1, <2>3, <2>4, <2>6 DEF WalkInv, NobodyMissed
  <2>8. NobodyAhead'
    BY <2>1, <2>3, <2>4, <2>6 DEF WalkInv, NobodyAhead
  <2>9. AllFound'
    BY <2>1, <2>3 DEF WalkInv, AllFound
  <2> QED
    BY <2>1, <2>5, <2>7, <2>8, <2>9 DEF WalkInv
<1> QED
  BY <1>1, <1>2, <1>3, <1>4, <1>5, <1>6, <1>7 DEF Next

\* A client that walks from the first page to an empty one, at any size and on
\* either store, with users created and deleted between its pages, between key
\* and page and between the two statements of one, has seen everyone who was
\* there at the start, unless someone was deleted, and no one twice, unless
\* someone was created.  Pages from the cache do no harm if listVer had been
\* raised for all changes when their key was made, however late others filled
\* the cache under it.
THEOREM WalksCover == Spec => []WalkCovers
<1>1. Init => WalkInv
  <2> SUFFICES ASSUME Init
               PROVE  WalkInv
    OBVIOUS
  <2>1. \A t : Back(t, t)
    BY BackReflexive, PagingAssumption
  <2>2. ShownInv
    BY <2>1 DEF Init, ShownInv, Shown
  <2> QED
    BY <2>2 DEF Init, WalkInv, NobodyMissed, NobodyAhead, AllFound, Walking
<1>2. TypeOK /\ TypeOK' /\ WalkInv /\ [Next]_vars => WalkInv'
  BY WalkNext, PagingAssumption
<1>3. WalkInv => WalkCovers
  BY DEF WalkInv, NobodyAhead, AllFound, Walking, WalkCovers
<1> QED
  BY <1>1, <1>2, <1>3, TypeCorrect, PTL DEF Spec

=============================================================================
