--------------------------- MODULE SerialGapsProofs ---------------------------
(***************************************************************************)
(* The limited walk and the aggregate count the same holes, and the walk   *)
(* lists the lowest of them, for any sets of submissions and serials and   *)
(* any limits.                                                             *)
(***************************************************************************)
EXTENDS SerialGaps, FiniteSetTheorems, SequenceTheorems, TLAPS

\* The list is what an ordered query of distinct serials returns.
Ordered ==
  /\ IsFiniteSet(Range(list))
  /\ Range(list) \subseteq Serials
  /\ list \in Ascending(Range(list))

\* The holes up to the serial reached: the distance from the first, less the
\* serials that were passed on the way.
WalkInv ==
  /\ pc \in {"idle", "count", "read", "walk", "done"}
  /\ pc \in {"count", "read"} => total = 0
  /\ pc \in {"walk", "done"} => Ordered
  /\ pc = "walk" => Len(list) # 0
  /\ pc = "done" /\ Len(list) = 0 => total = 0
  /\ pc = "done" /\ Len(list) # 0 => at = Len(list)
  /\ pc \in {"walk", "done"} /\ Len(list) # 0 =>
       /\ at \in 1..Len(list)
       /\ total = list[at] - list[1] - (at - 1)

-------------------------------------------------------------------------------
\* The serials on record are finitely many.
LEMMA OnRecordFinite == IsFiniteSet(OnRecord) /\ OnRecord \subseteq Serials
<1>1. IsFiniteSet(Placed)
  BY FS_Subset, SerialGapsAssumption DEF Placed
<1>2. [u \in Placed |-> serial[u]] \in Surjection(Placed, OnRecord)
  BY DEF OnRecord, Surjection
<1>3. IsFiniteSet(OnRecord)
  BY <1>1, <1>2, FS_Surjection
<1> QED BY <1>3 DEF OnRecord, Placed

\* What an ascending list is: a sequence of integers as long as its range is
\* large, each member greater than the ones before it.
LEMMA AscendingList ==
  ASSUME NEW S, IsFiniteSet(S), S \subseteq Serials, NEW s \in Ascending(S)
  PROVE  /\ s \in Seq(S) /\ Range(s) = S
         /\ Len(s) = Cardinality(S) /\ Len(s) \in Nat
         /\ \A i \in 1..Len(s) : s[i] \in S /\ s[i] \in Int
         /\ \A i, j \in 1..Len(s) : i < j => s[i] < s[j]
<1>1. Cardinality(S) \in Nat
  BY FS_CardinalityType
<1>2. s \in [1..Cardinality(S) -> S] /\ Range(s) = S
  BY DEF Ascending
<1>3. s \in Seq(S) /\ Len(s) = Cardinality(S)
  BY <1>1, <1>2
<1>4. \A i, j \in 1..Cardinality(S) : i < j => s[i] < s[j]
  BY DEF Ascending
<1> QED BY <1>1, <1>2, <1>3, <1>4, SerialGapsAssumption

\* The least and the greatest serial are the ends of the list.
LEMMA EndsOfList ==
  ASSUME NEW S, IsFiniteSet(S), S \subseteq Serials, NEW s \in Ascending(S), Len(s) # 0
  PROVE  S # {} /\ Min(S) = s[1] /\ Max(S) = s[Len(s)]
<1> DEFINE n == Len(s)
<1>1. /\ Range(s) = S /\ n \in Nat /\ n # 0
      /\ \A i \in 1..n : s[i] \in S /\ s[i] \in Int
      /\ \A i, j \in 1..n : i < j => s[i] < s[j]
      /\ DOMAIN s = 1..n
  BY AscendingList DEF Ascending
<1>2. \A x \in S : \E i \in 1..n : x = s[i]
  BY <1>1 DEF Range
<1> HIDE DEF n
<1>3. 1 \in 1..n /\ n \in 1..n
  BY <1>1
<1>4. \A i \in 1..n : s[1] <= s[i] /\ s[i] <= s[n]
  BY <1>1, <1>3
<1>5. s[1] \in S /\ \A y \in S : s[1] <= y
  BY <1>1, <1>2, <1>3, <1>4
<1>6. s[n] \in S /\ \A y \in S : s[n] >= y
  BY <1>1, <1>2, <1>3, <1>4
<1>7. \A x \in S : x \in Int
  BY SerialGapsAssumption
<1>8. Min(S) \in S /\ \A y \in S : Min(S) <= y
  BY <1>5 DEF Min
<1>9. Max(S) \in S /\ \A y \in S : Max(S) >= y
  BY <1>6 DEF Max
<1> QED BY <1>5, <1>6, <1>7, <1>8, <1>9 DEF n

\* A list that has been walked to its end has the aggregate's count.
LEMMA CountOfList ==
  ASSUME Ordered
  PROVE  IF Len(list) = 0 THEN SerialGapCount(Range(list)) = 0
         ELSE SerialGapCount(Range(list)) = list[Len(list)] - list[1] - (Len(list) - 1)
<1> DEFINE S == Range(list)
<1>1. /\ Len(list) = Cardinality(S) /\ Len(list) \in Nat
      /\ \A i \in 1..Len(list) : list[i] \in Int
  BY AscendingList DEF Ordered
<1>2. CASE Len(list) = 0
  <2>1. S = {}
    BY <1>1, <1>2, FS_EmptySet DEF Ordered
  <2> QED BY <1>2, <2>1 DEF SerialGapCount
<1>3. CASE Len(list) # 0
  <2>1. S # {} /\ Min(S) = list[1] /\ Max(S) = list[Len(list)]
    BY <1>3, EndsOfList DEF Ordered
  <2>2. list[1] \in Int /\ list[Len(list)] \in Int
    BY <1>1, <1>3
  <2>3. SerialGapCount(S) = (Max(S) - Min(S) + 1) - Cardinality(S)
    BY <2>1 DEF SerialGapCount
  <2> HIDE DEF S
  <2>4. SerialGapCount(S) = list[Len(list)] - list[1] - (Len(list) - 1)
    BY <1>1, <2>1, <2>2, <2>3
  <2> QED BY <1>3, <2>4 DEF S
<1> QED BY <1>2, <1>3

-------------------------------------------------------------------------------
\* The walk keeps count of the holes it has passed.
LEMMA WalkStep == WalkInv /\ [Next]_vars => WalkInv'
<1> SUFFICES ASSUME WalkInv, [Next]_vars PROVE WalkInv'
  OBVIOUS
<1>1. ASSUME NEW u \in Subs, Record(u) \/ BackfillSerial(u) PROVE WalkInv'
  BY <1>1 DEF WalkInv, Ordered, Record, BackfillSerial
<1>2. CASE DeleteJob
  BY <1>2 DEF WalkInv, Ordered, DeleteJob
<1>3. CASE Ask
  BY <1>3 DEF WalkInv, Ask
<1>4. CASE CountUnknown
  BY <1>4 DEF WalkInv, CountUnknown
<1>5. CASE ReadSerials
  <2>1. /\ list' \in Ascending(OnRecord) /\ at' = 1 /\ total' = 0
        /\ pc' = IF list' = <<>> THEN "done" ELSE "walk"
    BY <1>5 DEF WalkInv, ReadSerials
  <2>2. /\ Range(list') = OnRecord /\ list' \in Seq(OnRecord) /\ Len(list') \in Nat
        /\ \A i \in 1..Len(list') : list'[i] \in Int
    BY <2>1, OnRecordFinite, AscendingList
  <2>3. Ordered'
    BY <2>1, <2>2, OnRecordFinite DEF Ordered, Ascending
  <2>4. list' = <<>> <=> Len(list') = 0
    BY <2>2
  <2>5. CASE list' = <<>>
    BY <2>1, <2>3, <2>4, <2>5 DEF WalkInv
  <2>6. CASE list' # <<>>
    <3>1. 1 \in 1..Len(list') /\ list'[1] \in Int
      BY <2>2, <2>4, <2>6
    <3>2. total' = list'[1] - list'[1] - (1 - 1)
      BY <2>1, <3>1
    <3> QED BY <2>1, <2>3, <2>4, <2>6, <3>1, <3>2 DEF WalkInv
  <2> QED BY <2>5, <2>6
<1>6. CASE WalkPair
  <2>1. /\ pc = "walk" /\ at < Len(list) /\ at' = at + 1
        /\ total' = total + (list[at + 1] - list[at] - 1)
        /\ pc' = pc /\ list' = list
    BY <1>6 DEF WalkPair
  <2>2. /\ Ordered /\ at \in 1..Len(list)
        /\ total = list[at] - list[1] - (at - 1)
    BY <2>1 DEF WalkInv
  <2>3. Len(list) \in Nat /\ \A i \in 1..Len(list) : list[i] \in Int
    BY <2>2, AscendingList DEF Ordered
  <2>4. at + 1 \in 1..Len(list) /\ 1 \in 1..Len(list)
    BY <2>1, <2>2, <2>3
  <2>5. total' = list[at + 1] - list[1] - ((at + 1) - 1)
    <3>1. /\ at \in Int
          /\ list[1] \in Int /\ list[at] \in Int /\ list[at + 1] \in Int
      BY <2>2, <2>3, <2>4
    <3>2. \A first, previous, current, k \in Int :
            (previous - first - (k - 1)) + (current - previous - 1)
              = current - first - ((k + 1) - 1)
      OBVIOUS
    <3> QED BY <2>1, <2>2, <3>1, <3>2
  <2>6. Ordered'
    BY <2>1, <2>2 DEF Ordered
  <2> QED BY <2>1, <2>3, <2>4, <2>5, <2>6 DEF WalkInv
<1>7. CASE WalkEnds
  BY <1>7 DEF WalkInv, WalkEnds, Ordered
<1>8. CASE UNCHANGED vars
  BY <1>8 DEF WalkInv, Ordered, vars
<1> QED BY <1>1, <1>2, <1>3, <1>4, <1>5, <1>6, <1>7, <1>8 DEF Next

\* The count that walk_missing returns with its limited list is the one that the
\* poll loop logs from serial_gap_count, whatever the limit.
THEOREM WalkAgreesWithAggregate == Spec => []TotalsAgree
<1>1. Init => WalkInv
  BY DEF Init, WalkInv
<1>2. WalkInv => TotalsAgree
  <2> SUFFICES ASSUME WalkInv, pc = "done" PROVE total = SerialGapCount(Range(list))
    BY DEF TotalsAgree
  <2>1. Ordered
    BY DEF WalkInv
  <2> QED BY <2>1, CountOfList DEF WalkInv
<1> QED BY <1>1, <1>2, WalkStep, PTL DEF Spec

-------------------------------------------------------------------------------
(* What is listed. *)

\* The missing serials up to the one reached.
Passed == {n \in list[1]..list[at] : n \notin Range(list)}

\* The list so far: of what has been passed, ascending, and all of it but what
\* is beyond a list that is full.
Lowest ==
  /\ \A i \in 1..Len(missing) : missing[i] \in Passed
  /\ \A i, j \in 1..Len(missing) : i < j => missing[i] < missing[j]
  /\ \A n \in Passed :
       \/ \E i \in 1..Len(missing) : missing[i] = n
       \/ Len(missing) = limit /\ \A i \in 1..Len(missing) : missing[i] < n

\* It counts on when it is full.
Filled ==
  \/ Len(missing) = total /\ total < limit
  \/ Len(missing) = limit /\ limit <= total

ListInv ==
  /\ missing \in Seq(Int)
  /\ pc # "idle" => limit \in Limits
  /\ pc \in {"count", "read"} => missing = <<>>
  /\ pc = "done" /\ Len(list) = 0 => missing = <<>>
  /\ pc \in {"walk", "done"} /\ Len(list) # 0 => Lowest /\ Filled

LEMMA LesserOf ==
  ASSUME NEW a \in Int, NEW b \in Int
  PROVE  Min({a, b}) = IF a <= b THEN a ELSE b
<1> DEFINE m == IF a <= b THEN a ELSE b
<1>1. m \in {a, b} /\ \A y \in {a, b} : m <= y
  OBVIOUS
<1>2. Min({a, b}) \in {a, b} /\ \A y \in {a, b} : Min({a, b}) <= y
  BY <1>1 DEF Min
<1> QED BY <1>1, <1>2

\* The holes between two neighbours, as many as there is room for.
LEMMA ListedHoles ==
  ASSUME NEW previous \in Int, NEW current \in Int, previous < current, Room \in Nat \ {0}
  PROVE  LET added == Listed(previous, current)
             holes == current - previous - 1
         IN  /\ added \in Seq(Int)
             /\ Len(added) = IF holes <= Room THEN holes ELSE Room
             /\ \A k \in 1..Len(added) : added[k] = previous + k
<1> DEFINE last == Min({current - 1, previous + Room})
           added == Listed(previous, current)
           room == Room
<1>1. room \in Nat \ {0}
  OBVIOUS
<1>2. added = [k \in 1..(last - previous) |-> previous + k]
  BY DEF Listed
<1>3. last = IF current - 1 <= previous + room THEN current - 1 ELSE previous + room
  BY LesserOf
<1> HIDE DEF last, room
<1>4. /\ last - previous \in Nat
      /\ last - previous = IF current - previous - 1 <= room THEN current - previous - 1 ELSE room
  BY <1>1, <1>3
<1> DEFINE n == last - previous
<1>5. n \in Nat /\ added = [k \in 1..n |-> previous + k]
  BY <1>2, <1>4
<1> HIDE DEF n, added
<1>6. /\ added \in Seq(Int) /\ Len(added) = n
      /\ \A k \in 1..n : added[k] = previous + k
  BY <1>5
<1> QED BY <1>4, <1>6 DEF n, added, room

\* No serial of the list lies between two neighbours.
LEMMA Neighbours ==
  ASSUME Ordered, at \in 1..Len(list), at < Len(list)
  PROVE  /\ list[1] \in Int /\ list[at] \in Int /\ list[at + 1] \in Int
         /\ list[1] <= list[at] /\ list[at] < list[at + 1]
         /\ \A n \in Range(list) : n <= list[at] \/ list[at + 1] <= n
<1>1. /\ list \in Seq(Range(list)) /\ Len(list) \in Nat
      /\ \A i \in 1..Len(list) : list[i] \in Int
      /\ \A i, j \in 1..Len(list) : i < j => list[i] < list[j]
  BY AscendingList DEF Ordered
<1>2. 1 \in 1..Len(list) /\ at + 1 \in 1..Len(list) /\ at < at + 1 /\ at \in Int
  BY <1>1
<1>3. /\ list[1] \in Int /\ list[at] \in Int /\ list[at + 1] \in Int
      /\ list[at] < list[at + 1]
  BY <1>1, <1>2
<1>4. list[1] <= list[at]
  <2>1. CASE at = 1
    BY <1>3, <2>1
  <2>2. CASE at # 1
    <3>1. 1 < at
      BY <1>2, <2>2
    <3> QED BY <1>1, <1>2, <1>3, <3>1
  <2> QED BY <2>1, <2>2
<1>5. ASSUME NEW n \in Range(list) PROVE n <= list[at] \/ list[at + 1] <= n
  <2>1. PICK i \in 1..Len(list) : n = list[i]
    BY <1>1 DEF Range
  <2>2. i < at \/ i = at \/ i = at + 1 \/ at + 1 < i
    BY <1>2
  <2> QED BY <1>1, <1>2, <1>3, <2>1, <2>2
<1> QED BY <1>3, <1>4, <1>5

\* A step of the walk passes the holes up to the next serial and appends them
\* while there is room.
LEMMA PairListed ==
  ASSUME WalkInv, ListInv, WalkPair
  PROVE  missing' \in Seq(Int) /\ Lowest' /\ Filled'
<1> DEFINE previous == list[at]
           current == list[at + 1]
           m == Len(missing)
<1>1. /\ pc = "walk" /\ at < Len(list) /\ at' = at + 1 /\ list' = list /\ limit' = limit
      /\ total' = total + (current - previous - 1)
      /\ missing' = IF Room > 0 THEN missing \o Listed(previous, current) ELSE missing
  BY DEF WalkPair
<1>2. /\ Ordered /\ Len(list) # 0 /\ at \in 1..Len(list)
      /\ missing \in Seq(Int) /\ limit \in Nat \ {0} /\ Lowest /\ Filled
      /\ total = previous - list[1] - (at - 1)
  BY <1>1, SerialGapsAssumption DEF WalkInv, ListInv
<1>3. /\ list[1] \in Int /\ previous \in Int /\ current \in Int
      /\ list[1] <= previous /\ previous < current
      /\ \A n \in Range(list) : n <= previous \/ current <= n
      /\ current \in Range(list)
  <2>1. list \in Seq(Range(list)) /\ Len(list) \in Nat /\ DOMAIN list = 1..Len(list)
    BY <1>2, AscendingList DEF Ordered
  <2>2. at + 1 \in DOMAIN list
    BY <1>1, <1>2, <2>1
  <2> QED BY <1>1, <1>2, <2>2, Neighbours DEF Range
<1>4. at \in Int /\ m \in Nat /\ total \in Int /\ \A i \in 1..m : missing[i] \in Int
  BY <1>2, <1>3
<1>5. /\ Passed = {n \in list[1]..previous : n \notin Range(list)}
      /\ Passed' = {n \in list[1]..current : n \notin Range(list)}
  BY <1>1 DEF Passed
<1> DEFINE S == Range(list)
           first == list[1]
<1>6. /\ \A i \in 1..m : missing[i] \in Passed
      /\ \A i, j \in 1..m : i < j => missing[i] < missing[j]
      /\ \A n \in Passed : \/ (\E i \in 1..m : missing[i] = n)
                            \/ (m = limit /\ \A i \in 1..m : missing[i] < n)
  BY <1>2 DEF Lowest
<1>7. (m = total /\ total < limit) \/ (m = limit /\ limit <= total)
  BY <1>2 DEF Filled
<1>8. Room = limit - m
  BY DEF Room
<1> HIDE DEF previous, current, m, S, first
<1>9. /\ Passed \subseteq Passed'
      /\ \A n \in Passed : n < current /\ n <= previous /\ n \in Int
      /\ \A n \in Passed' : n \in Int /\ (n \in Passed \/ (previous < n /\ n < current))
      /\ \A n \in Int : previous < n /\ n < current => n \in Passed'
  BY <1>3, <1>5
<1>10. \A i \in 1..m : missing[i] <= previous
  BY <1>6, <1>9
<1>11. CASE Room > 0
  <2> DEFINE added == Listed(previous, current)
             k == Len(added)
             holes == current - previous - 1
  <2>1. /\ added \in Seq(Int)
        /\ k = IF holes <= Room THEN holes ELSE Room
        /\ \A i \in 1..k : added[i] = previous + i
    <3>1. Room \in Nat \ {0}
      BY <1>2, <1>4, <1>8, <1>11
    <3> QED BY <1>3, <3>1, ListedHoles
  <2>2. holes \in Nat /\ k \in Nat /\ Room \in Nat
    BY <1>2, <1>3, <1>4, <1>8, <1>11, <2>1
  <2>3. missing' = missing \o added
    BY <1>1, <1>11
  <2> HIDE DEF added, k, holes
  <2>4. /\ missing' \in Seq(Int) /\ Len(missing') = m + k
        /\ \A i \in 1..m + k : missing'[i] = IF i <= m THEN missing[i] ELSE added[i - m]
    BY <1>2, <2>1, <2>3, ConcatProperties DEF m, k
  <2>5. /\ \A i \in 1..m : missing'[i] = missing[i] /\ i \in 1..m + k
        /\ \A i \in 1..m + k : i \in 1..m \/ (m < i /\ missing'[i] = previous + (i - m))
    <3>1. ASSUME NEW i \in 1..m + k, ~(i \in 1..m) PROVE m < i /\ missing'[i] = previous + (i - m)
      <4>1. m < i /\ ~(i <= m) /\ i - m \in 1..k
        BY <1>4, <2>2, <3>1
      <4> QED BY <2>1, <2>4, <4>1
    <3>2. ASSUME NEW i \in 1..m PROVE missing'[i] = missing[i] /\ i \in 1..m + k
      <4>1. i <= m /\ i \in 1..m + k
        BY <1>4, <2>2
      <4> QED BY <2>4, <4>1
    <3> QED BY <3>1, <3>2
  <2>6. \A i \in 1..m + k : missing'[i] \in Passed'
    <3> SUFFICES ASSUME NEW i \in 1..m + k, m < i, missing'[i] = previous + (i - m)
                 PROVE  missing'[i] \in Passed'
      BY <1>6, <1>9, <2>5
    <3>1. previous < previous + (i - m) /\ previous + (i - m) < current
      BY <1>3, <1>4, <2>1, <2>2 DEF holes
    <3> QED BY <1>3, <1>4, <1>9, <3>1
  <2>7. \A i, j \in 1..m + k : i < j => missing'[i] < missing'[j]
    <3> SUFFICES ASSUME NEW i \in 1..m + k, NEW j \in 1..m + k, i < j
                 PROVE  missing'[i] < missing'[j]
      OBVIOUS
    <3>1. CASE j \in 1..m
      <4>1. i \in 1..m
        BY <1>4, <2>2, <3>1
      <4> QED BY <1>6, <2>5, <3>1, <4>1
    <3>2. CASE i \in 1..m /\ ~(j \in 1..m)
      <4>1. missing'[i] <= previous /\ missing'[j] = previous + (j - m) /\ m < j
        BY <1>10, <2>5, <3>2
      <4>2. missing'[i] \in Int
        BY <1>4, <2>5, <3>2
      <4> QED BY <1>3, <1>4, <2>2, <4>1, <4>2
    <3>3. CASE ~(i \in 1..m)
      <4>1. missing'[i] = previous + (i - m) /\ missing'[j] = previous + (j - m)
        BY <1>4, <2>2, <2>5, <3>3
      <4> QED BY <1>3, <1>4, <2>2, <4>1
    <3> QED BY <3>1, <3>2, <3>3
  <2>8. ASSUME NEW n \in Passed'
        PROVE  \/ \E i \in 1..m + k : missing'[i] = n
               \/ m + k = limit /\ \A i \in 1..m + k : missing'[i] < n
    <3>1. CASE n \in Passed
      <4>1. PICK i \in 1..m : missing[i] = n
        BY <1>2, <1>4, <1>6, <1>8, <1>11, <3>1
      <4> QED BY <2>5, <4>1
    <3>2. CASE n \notin Passed
      <4>1. n \in Int /\ previous < n /\ n < current
        BY <1>9, <3>2
      <4>2. CASE n - previous <= k
        <5>1. n - previous + m \in 1..m + k /\ ~(n - previous + m \in 1..m)
          BY <1>3, <1>4, <2>2, <4>1, <4>2
        <5>2. missing'[n - previous + m] = previous + ((n - previous + m) - m)
          BY <2>5, <5>1
        <5>3. previous + ((n - previous + m) - m) = n
          BY <1>3, <1>4, <4>1
        <5> QED BY <5>1, <5>2, <5>3
      <4>3. CASE n - previous > k
        <5>1. k = Room
          BY <1>3, <2>1, <2>2, <4>1, <4>3 DEF holes
        <5>2. m + k = limit
          BY <1>2, <1>4, <1>8, <5>1
        <5>3. ASSUME NEW i \in 1..m + k PROVE missing'[i] < n
          <6>1. CASE i \in 1..m
            <7>1. missing'[i] <= previous /\ missing'[i] \in Int
              BY <1>4, <1>10, <2>5, <6>1
            <7> QED BY <1>3, <4>1, <7>1
          <6>2. CASE ~(i \in 1..m)
            <7>1. missing'[i] = previous + (i - m)
              BY <2>5, <6>2
            <7> QED BY <1>3, <1>4, <2>2, <4>1, <4>3, <7>1
          <6> QED BY <6>1, <6>2
        <5> QED BY <5>2, <5>3
      <4> QED BY <1>3, <2>2, <4>1, <4>2, <4>3
    <3> QED BY <3>1, <3>2
  <2>9. Lowest'
    <3>1. Len(missing)' = m + k /\ limit' = limit
      BY <1>1, <2>4
    <3> QED BY <2>6, <2>7, <2>8, <3>1 DEF Lowest
  <2>10. (m + k = total' /\ total' < limit) \/ (m + k = limit /\ limit <= total')
    <3>1. total' = total + holes
      BY <1>1 DEF holes
    <3> QED BY <1>2, <1>4, <1>7, <1>8, <1>11, <2>1, <2>2, <3>1
  <2>11. Filled'
    BY <1>1, <2>4, <2>10 DEF Filled
  <2> QED BY <2>4, <2>9, <2>11
<1>12. CASE ~(Room > 0)
  <2>1. missing' = missing /\ m = limit /\ limit <= total
    BY <1>1, <1>2, <1>4, <1>7, <1>8, <1>12
  <2>2. total' >= total /\ total' \in Int
    BY <1>1, <1>3, <1>4
  <2>3. limit <= total'
    BY <1>2, <1>4, <2>1, <2>2
  <2>4. Filled'
    BY <1>1, <2>1, <2>3 DEF Filled, m
  <2>5. ASSUME NEW n \in Passed'
        PROVE  (\E i \in 1..m : missing[i] = n) \/ (\A i \in 1..m : missing[i] < n)
    <3>1. CASE n \in Passed
      BY <1>6, <3>1
    <3>2. CASE n \notin Passed
      BY <1>3, <1>4, <1>9, <1>10, <3>2
    <3> QED BY <3>1, <3>2
  <2>6. Lowest'
    <3>1. Len(missing)' = m /\ limit' = limit /\ missing' = missing
      BY <1>1, <2>1 DEF m
    <3> QED BY <1>6, <1>9, <2>1, <2>5, <3>1 DEF Lowest
  <2> QED BY <1>2, <2>1, <2>4, <2>6
<1> QED BY <1>11, <1>12

LEMMA ListStep == WalkInv /\ ListInv /\ [Next]_vars => ListInv'
<1> SUFFICES ASSUME WalkInv, ListInv, [Next]_vars PROVE ListInv'
  OBVIOUS
<1>1. ASSUME UNCHANGED <<pc, limit, list, at, total, missing>> PROVE ListInv'
  BY <1>1 DEF ListInv, Lowest, Filled, Passed
<1>2. ASSUME NEW u \in Subs, Record(u) \/ BackfillSerial(u) PROVE ListInv'
  BY <1>1, <1>2 DEF Record, BackfillSerial
<1>3. CASE DeleteJob
  BY <1>1, <1>3 DEF DeleteJob
<1>4. CASE Ask
  BY <1>4 DEF ListInv, Ask
<1>5. CASE CountUnknown
  BY <1>5 DEF ListInv, CountUnknown
<1>6. CASE ReadSerials
  <2>1. /\ list' \in Ascending(OnRecord) /\ at' = 1 /\ limit' = limit
        /\ missing' = <<>> /\ total' = 0 /\ limit \in Limits
        /\ pc' \in {"walk", "done"} /\ (pc' = "done" => list' = <<>>)
    BY <1>6 DEF WalkInv, ListInv, ReadSerials
  <2>2. /\ Range(list') = OnRecord /\ Len(list') \in Nat /\ DOMAIN list' = 1..Len(list')
        /\ \A i \in 1..Len(list') : list'[i] \in Int
    BY <2>1, OnRecordFinite, AscendingList DEF Ascending
  <2>3. ASSUME Len(list') # 0 PROVE Lowest' /\ Filled'
    <3>1. 1 \in 1..Len(list') /\ list'[1] \in Int /\ list'[1] \in Range(list')
      BY <2>2, <2>3 DEF Range
    <3>2. Passed' = {}
      BY <2>1, <3>1 DEF Passed
    <3>3. Len(missing') = 0
      BY <2>1
    <3>4. Filled'
      BY <2>1, <3>3, SerialGapsAssumption DEF Filled
    <3> QED BY <3>2, <3>3, <3>4 DEF Lowest
  <2> QED BY <2>1, <2>3 DEF ListInv
<1>7. CASE WalkPair
  <2>1. pc = "walk" /\ pc' = pc /\ limit' = limit
    BY <1>7 DEF WalkPair
  <2> QED BY <1>7, <2>1, PairListed DEF ListInv
<1>8. CASE WalkEnds
  <2>1. pc = "walk" /\ pc' = "done" /\ UNCHANGED <<limit, list, at, total, missing>>
    BY <1>8 DEF WalkEnds
  <2>2. Len(list) # 0
    BY <2>1 DEF WalkInv
  <2> QED BY <2>1, <2>2 DEF ListInv, Lowest, Filled, Passed
<1>9. CASE UNCHANGED vars
  BY <1>1, <1>9 DEF vars
<1> QED BY <1>2, <1>3, <1>4, <1>5, <1>6, <1>7, <1>8, <1>9 DEF Next

\* How many holes there are between the ends of a set of serials.
LEMMA HolesCounted ==
  ASSUME NEW S, IsFiniteSet(S), S \subseteq Int, S # {},
         NEW low \in S, NEW high \in S, \A n \in S : low <= n /\ n <= high
  PROVE  Cardinality((low..high) \ S) = (high - low + 1) - Cardinality(S)
<1>1. low \in Int /\ high \in Int /\ low <= high
  OBVIOUS
<1>2. IsFiniteSet(low..high) /\ Cardinality(low..high) = high - low + 1
  BY <1>1, FS_Interval
<1>3. (low..high) \cap S = S
  <2>1. ASSUME NEW n \in S PROVE n \in low..high
    <3>1. n \in Int /\ low <= n /\ n <= high
      OBVIOUS
    <3> QED BY <1>1, <3>1
  <2> QED BY <2>1
<1>4. Cardinality((low..high) \ S) = Cardinality(low..high) - Cardinality((low..high) \cap S)
  BY <1>2, FS_Difference
<1> QED BY <1>2, <1>3, <1>4

\* At the end of the walk the report is exact.
LEMMA ExactAtTheEnd ==
  ASSUME WalkInv, ListInv, pc = "done"
  PROVE  LET holes == Holes(Range(list))
         IN  /\ total = Cardinality(holes)
             /\ Len(missing) = Min({limit, total})
             /\ Range(missing) \subseteq holes
             /\ \A i \in 1..Len(missing) :
                  \A n \in holes : n < missing[i] => \E j \in 1..(i - 1) : missing[j] = n
<1> DEFINE S == Range(list)
           holes == Holes(S)
<1>1. /\ Ordered /\ IsFiniteSet(S) /\ S \subseteq Int
      /\ list \in Ascending(S) /\ list \in Seq(S)
      /\ Len(list) \in Nat /\ DOMAIN list = 1..Len(list)
  <2>1. Ordered
    BY DEF WalkInv
  <2>2. IsFiniteSet(S) /\ S \subseteq Serials /\ list \in Ascending(S)
    BY <2>1 DEF Ordered
  <2>3. list \in Seq(S) /\ Len(list) \in Nat
    BY <2>2, AscendingList
  <2>4. S \subseteq Int
    BY <2>2, SerialGapsAssumption
  <2> HIDE DEF S
  <2>5. DOMAIN list = 1..Len(list)
    BY <2>3
  <2> QED BY <2>1, <2>2, <2>3, <2>4, <2>5
<1>2. limit \in Nat \ {0} /\ missing \in Seq(Int)
  BY SerialGapsAssumption DEF ListInv
<1>3. CASE Len(list) = 0
  <2>1. S = {}
    BY <1>1, <1>3 DEF Range
  <2>2. holes = {} /\ missing = <<>> /\ total = 0
    BY <1>3, <2>1 DEF Holes, ListInv, WalkInv
  <2>3. Cardinality(holes) = 0 /\ Len(missing) = 0 /\ Range(missing) = {}
    <3>1. Cardinality(holes) = 0
      BY <2>2, FS_EmptySet
    <3>2. Len(missing) = 0 /\ DOMAIN missing = {}
      BY <2>2
    <3> QED BY <3>1, <3>2 DEF Range
  <2>4. Min({limit, total}) = 0
    BY <1>2, <2>2, LesserOf
  <2> QED BY <2>2, <2>3, <2>4
<1>4. CASE Len(list) # 0
  <2>1. /\ at = Len(list) /\ total = list[at] - list[1] - (at - 1)
        /\ Lowest /\ Filled
    BY <1>4 DEF WalkInv, ListInv
  <2>2. /\ S # {} /\ Min(S) = list[1] /\ Max(S) = list[at]
        /\ Len(list) = Cardinality(S)
    BY <1>1, <1>4, <2>1, EndsOfList, AscendingList DEF Ordered
  <2>3. holes = Passed
    BY <2>2 DEF Holes, Passed
  <2>4. total = Cardinality(holes)
    <3>1. list[1] \in S /\ list[at] \in S
      BY <1>1, <1>4, <2>1 DEF Range
    <3>2. \A n \in S : list[1] <= n /\ n <= list[at]
      <4>1. \A i, j \in 1..Len(list) : i < j => list[i] < list[j]
        BY <1>1, AscendingList DEF Ordered
      <4> SUFFICES ASSUME NEW i \in 1..Len(list) PROVE list[1] <= list[i] /\ list[i] <= list[at]
        BY <1>1 DEF Range
      <4>2. 1 \in 1..Len(list) /\ Len(list) \in 1..Len(list) /\ list[i] \in Int
        BY <1>1 DEF Range
      <4>3. (i = 1 \/ 1 < i) /\ (i = Len(list) \/ i < Len(list))
        BY <4>2
      <4>4. list[1] \in Int /\ list[at] \in Int
        BY <1>1, <3>1
      <4> HIDE DEF S, holes
      <4> QED BY <2>1, <4>1, <4>2, <4>3, <4>4
    <3>3. holes = (list[1]..list[at]) \ S
      BY <2>2 DEF Holes
    <3>4. Cardinality(holes) = (list[at] - list[1] + 1) - Cardinality(S)
      BY <1>1, <2>2, <3>1, <3>2, <3>3, HolesCounted
    <3>5. list[1] \in Int /\ list[at] \in Int
      BY <1>1, <3>1
    <3> HIDE DEF S, holes
    <3> QED BY <1>1, <2>1, <2>2, <3>4, <3>5
  <2>5. Len(missing) \in Nat
    BY <1>2
  <2>6. Len(missing) = Min({limit, total})
    <3>1. total \in Int
      BY <1>2, <2>1, <2>4, <2>5, <1>1, <1>4 DEF Range
    <3>2. Min({limit, total}) = IF limit <= total THEN limit ELSE total
      BY <1>2, <3>1, LesserOf
    <3> QED BY <1>2, <2>1, <2>5, <3>1, <3>2 DEF Filled
  <2>7. Range(missing) \subseteq holes
    <3>1. DOMAIN missing = 1..Len(missing)
      BY <1>2
    <3>2. \A i \in 1..Len(missing) : missing[i] \in Passed
      BY <2>1 DEF Lowest
    <3> QED BY <2>3, <3>1, <3>2 DEF Range
  <2>8. ASSUME NEW i \in 1..Len(missing), NEW n \in holes, n < missing[i]
        PROVE  \E j \in 1..(i - 1) : missing[j] = n
    <3>1. n \in Int /\ missing[i] \in Int
      <4>1. list[1] \in Int /\ list[at] \in Int
        BY <1>1, <1>4, <2>1 DEF Range
      <4> QED BY <1>2, <2>3, <4>1 DEF Passed
    <3>2. PICK j \in 1..Len(missing) : missing[j] = n
      BY <2>1, <2>3, <2>8, <3>1 DEF Lowest
    <3>3. j < i
      BY <2>1, <2>5, <2>8, <3>1, <3>2 DEF Lowest
    <3> QED BY <2>5, <3>2, <3>3
  <2> QED BY <2>4, <2>6, <2>7, <2>8
<1> QED BY <1>1, <1>3, <1>4

LEMMA StartOfWalk == Init => WalkInv /\ ListInv
  BY DEF Init, WalkInv, ListInv

\* Cut short or not, the list of the report is the lowest of the missing serials
\* and its count is of them all, whatever was recorded, backfilled or deleted
\* while it was made.
THEOREM ReportsAreExact == Spec => []ReportIsExact
<1>1. WalkInv /\ ListInv => ReportIsExact
  BY ExactAtTheEnd DEF ReportIsExact
<1> QED BY <1>1, StartOfWalk, WalkStep, ListStep, PTL DEF Spec

\* The rows, the request and its counters keep their type: no count is negative.
THEOREM GapTypes == Spec => []TypeOK
<1>1. Init => TypeOK
  BY DEF Init, TypeOK
<1>2. WalkInv /\ ListInv /\ WalkInv' /\ ListInv' /\ TypeOK /\ [Next]_vars => TypeOK'
  <2> SUFFICES ASSUME WalkInv, ListInv, ListInv', TypeOK, [Next]_vars PROVE TypeOK'
    OBVIOUS
  <2>1. missing' \in Seq(Int)
    BY DEF ListInv
  <2>2. ASSUME NEW u \in Subs, Record(u) \/ BackfillSerial(u) PROVE TypeOK'
    BY <2>2 DEF TypeOK, Record, BackfillSerial
  <2>3. CASE DeleteJob
    BY <2>3 DEF TypeOK, DeleteJob
  <2>4. CASE Ask
    BY <2>4 DEF TypeOK, Ask
  <2>5. CASE CountUnknown
    BY <2>5 DEF TypeOK, CountUnknown
  <2>6. CASE ReadSerials
    <3>1. list' \in Seq(Serials)
      <4>1. list' \in Ascending(OnRecord)
        BY <2>6 DEF ReadSerials
      <4>2. list' \in Seq(OnRecord) /\ OnRecord \subseteq Serials
        BY <4>1, OnRecordFinite, AscendingList
      <4> QED BY <4>2
    <3> QED BY <2>6, <3>1 DEF TypeOK, ReadSerials
  <2>7. CASE WalkPair
    <3>1. Ordered /\ at \in 1..Len(list) /\ at < Len(list)
      BY <2>7 DEF WalkInv, WalkPair
    <3>2. list[at] \in Int /\ list[at + 1] \in Int /\ list[at] < list[at + 1]
      BY <3>1, Neighbours
    <3>3. total' \in Nat /\ at' \in Nat
      BY <2>7, <3>2 DEF TypeOK, WalkPair
    <3> QED BY <2>1, <2>7, <3>3 DEF TypeOK, WalkPair
  <2>8. CASE WalkEnds
    BY <2>8 DEF TypeOK, WalkEnds
  <2>9. CASE UNCHANGED vars
    BY <2>9 DEF TypeOK, vars
  <2> QED BY <2>2, <2>3, <2>4, <2>5, <2>6, <2>7, <2>8, <2>9 DEF Next
<1> QED BY <1>1, <1>2, StartOfWalk, WalkStep, ListStep, PTL DEF Spec
===============================================================================
