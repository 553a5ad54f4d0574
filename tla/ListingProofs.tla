----------------------------- MODULE ListingProofs -----------------------------
(***************************************************************************)
(* That a listing ends with the form and names nothing twice, on any       *)
(* endpoint, and that it misses nothing where pages hold more than comes   *)
(* to the front of them while they are listed, and are not purged then.    *)
(***************************************************************************)
EXTENDS Listing, FiniteSetTheorems, SequenceTheorems, TLAPS

\* The type of the state; the bound on page is a matter of what pages add.
Typed ==
  /\ endpoint \in Endpoints
  /\ form \in Seq(Submissions)
  /\ pass \in {"idle", "asking", "listed", "failed"}
  /\ page \in Nat
  /\ seen \in SUBSET (Submissions \ Unusable)
  /\ refs \in Seq(Submissions)
  /\ stayed \in SUBSET Submissions
  /\ arrivals \in Nat

\* A page is a stretch of the form.
LEMMA PageOfForm ==
  ASSUME Typed, endpoint # "whole"
  PROVE  /\ Answer \in Seq(Submissions)
         /\ \A i \in 1 .. Len(Answer) :
              page * PageSize + i \in 1 .. Len(form) /\ Answer[i] = form[page * PageSize + i]
         /\ \A i \in 1 .. Len(form) :
              page * PageSize < i /\ i <= (page + 1) * PageSize => form[i] \in Range(Answer)
         /\ \A s \in Range(Answer) :
              \E i \in 1 .. Len(form) :
                s = form[i] /\ page * PageSize < i /\ i <= (page + 1) * PageSize
  <1>. DEFINE m == page * PageSize + 1
              top == (page + 1) * PageSize
              n == IF Len(form) < top THEN Len(form) ELSE top
  <1>1. page * PageSize \in Nat /\ top = page * PageSize + PageSize /\ PageSize \in Nat \ {0}
    BY ListingAssumption DEF Typed
  <1>2. Len(form) \in Nat /\ \A i \in 1 .. Len(form) : form[i] \in Submissions
    BY DEF Typed
  <1>3. m \in Int /\ n \in Int /\ m >= 1 /\ n <= Len(form) /\ n <= top
    BY <1>1, <1>2
  <1>4. \A i \in m .. n : form[i] \in Submissions
    BY <1>2, <1>3
  <1>5. Answer = SubSeq(form, m, n)
    BY DEF Answer
  <1>. HIDE DEF m, n
  <1>6. /\ Answer \in Seq(Submissions)
        /\ Len(Answer) = IF m <= n THEN n - m + 1 ELSE 0
        /\ \A i \in 1 .. n - m + 1 : Answer[i] = form[m + i - 1]
    BY <1>3, <1>4, <1>5, SubSeqProperties
  <1>7. DOMAIN Answer = 1 .. Len(Answer)
    BY <1>6
  <1>8. ASSUME NEW i \in 1 .. Len(form), page * PageSize < i, i <= top
        PROVE  form[i] \in Range(Answer)
    <2>1. m <= i /\ i <= n
      BY <1>1, <1>2, <1>8 DEF m, n
    <2>2. i - m + 1 \in 1 .. n - m + 1 /\ n - m + 1 = Len(Answer) /\ m + (i - m + 1) - 1 = i
      BY <1>3, <1>6, <2>1
    <2>3. Answer[i - m + 1] = form[i] /\ i - m + 1 \in DOMAIN Answer
      BY <1>6, <1>7, <2>2
    <2>4. QED
      BY <2>3 DEF Range
  <1>9. ASSUME NEW s \in Range(Answer)
        PROVE  \E i \in 1 .. Len(form) : s = form[i] /\ page * PageSize < i /\ i <= top
    <2>1. PICK j \in 1 .. Len(Answer) : s = Answer[j]
      BY <1>7 DEF Range
    <2>2. j \in 1 .. n - m + 1
      BY <1>3, <1>6, <2>1
    <2>3. s = form[m + j - 1] /\ m + j - 1 \in m .. n
      BY <1>3, <1>6, <2>1, <2>2
    <2>4. m + j - 1 \in 1 .. Len(form) /\ page * PageSize < m + j - 1 /\ m + j - 1 <= top
      BY <1>1, <1>2, <1>3, <2>3 DEF m
    <2>5. QED
      BY <2>3, <2>4
  <1>10. ASSUME NEW i \in 1 .. Len(Answer)
         PROVE  page * PageSize + i \in 1 .. Len(form) /\ Answer[i] = form[page * PageSize + i]
    <2>1. i \in 1 .. n - m + 1
      BY <1>3, <1>6
    <2>2. m + i - 1 = page * PageSize + i
      BY <1>1, <2>1 DEF m
    <2>3. page * PageSize + i \in 1 .. Len(form)
      BY <1>1, <1>2, <1>3, <2>1, <2>2
    <2>4. QED
      BY <1>6, <2>1, <2>2, <2>3
  <1>11. QED
    BY <1>6, <1>8, <1>9, <1>10

LEMMA AnswerOfForm ==
  ASSUME Typed
  PROVE  Answer \in Seq(Submissions) /\ Range(Answer) \subseteq Range(form)
                                     /\ Range(form) \subseteq Submissions
  <1>1. CASE endpoint = "whole"
    BY <1>1 DEF Answer, Range, Typed
  <1>2. CASE endpoint # "whole"
    <2>1. DOMAIN form = 1 .. Len(form) /\ \A i \in 1 .. Len(form) : form[i] \in Submissions
      BY DEF Typed
    <2>2. Range(Answer) \subseteq Range(form)
      BY <1>2, <2>1, PageOfForm DEF Range
    <2>3. Range(form) \subseteq Submissions
      BY <2>1 DEF Range
    <2>4. QED
      BY <1>2, <2>2, <2>3, PageOfForm
  <1>3. QED
    BY <1>1, <1>2

LEMMA FormPurged ==
  ASSUME Typed, NEW i \in DOMAIN form
  PROVE  /\ RemoveAt(form, i) \in Seq(Submissions)
         /\ Range(form) \ {form[i]} \subseteq Range(RemoveAt(form, i))
        /\ Len(RemoveAt(form, i)) = Len(form) - 1
        /\ \A j \in 1 .. Len(form) - 1 :
             RemoveAt(form, i)[j] = IF j < i THEN form[j] ELSE form[j + 1]
  <1>. DEFINE before == SubSeq(form, 1, i - 1)
              after == SubSeq(form, i + 1, Len(form))
  <1>1. /\ i \in 1 .. Len(form) /\ Len(form) \in Nat
        /\ \A j \in 1 .. Len(form) : form[j] \in Submissions
    BY DEF Typed
  <1>2. /\ before \in Seq(Submissions) /\ Len(before) = i - 1
        /\ \A j \in 1 .. i - 1 : before[j] = form[j]
    <2>1. 1 \in Int /\ i - 1 \in Int /\ (\A j \in 1 .. i - 1 : form[j] \in Submissions)
      BY <1>1
    <2>2. /\ before \in Seq(Submissions)
          /\ Len(before) = IF 1 <= i - 1 THEN (i - 1) - 1 + 1 ELSE 0
          /\ \A j \in 1 .. (i - 1) - 1 + 1 : before[j] = form[1 + j - 1]
      BY <2>1, SubSeqProperties
    <2>3. QED
      BY <1>1, <2>2
  <1>3. /\ after \in Seq(Submissions) /\ Len(after) = Len(form) - i
        /\ \A j \in 1 .. Len(form) - i : after[j] = form[i + j]
    <2>1. i + 1 \in Int /\ Len(form) \in Int /\ (\A j \in i + 1 .. Len(form) : form[j] \in Submissions)
      BY <1>1
    <2>2. /\ after \in Seq(Submissions)
          /\ Len(after) = IF i + 1 <= Len(form) THEN Len(form) - (i + 1) + 1 ELSE 0
          /\ \A j \in 1 .. Len(form) - (i + 1) + 1 : after[j] = form[(i + 1) + j - 1]
      BY <2>1, SubSeqProperties
    <2>3. QED
      BY <1>1, <2>2
  <1>4. RemoveAt(form, i) = before \o after
    BY DEF RemoveAt
  <1>. HIDE DEF before, after
  <1>5. /\ before \o after \in Seq(Submissions)
        /\ Len(before \o after) = Len(before) + Len(after)
        /\ \A j \in 1 .. Len(before) + Len(after) :
             (before \o after)[j] = IF j <= Len(before) THEN before[j] ELSE after[j - Len(before)]
    BY <1>2, <1>3, ConcatProperties
  <1>6. Len(before) = i - 1 /\ Len(after) = Len(form) - i /\ Len(before \o after) = Len(form) - 1
    BY <1>1, <1>2, <1>3, <1>5
  <1>7. DOMAIN (before \o after) = 1 .. Len(form) - 1
    BY <1>5, <1>6
  <1>8. ASSUME NEW j \in 1 .. Len(form) - 1
        PROVE  (before \o after)[j] = IF j < i THEN form[j] ELSE form[j + 1]
    <2>1. j \in 1 .. Len(before) + Len(after)
      BY <1>1, <1>6
    <2>2. CASE j < i
      <3>1. j <= Len(before) /\ j \in 1 .. i - 1
        BY <1>1, <1>6, <2>2
      <3>2. QED
        BY <1>2, <1>5, <2>1, <2>2, <3>1
    <2>3. CASE ~(j < i)
      <3>1. /\ ~(j <= Len(before)) /\ j - Len(before) \in 1 .. Len(form) - i
            /\ i + (j - Len(before)) = j + 1
        BY <1>1, <1>6, <2>3
      <3>2. after[j - Len(before)] = form[j + 1]
        BY <1>3, <3>1
      <3>3. QED
        BY <1>5, <2>1, <2>3, <3>1, <3>2
    <2>4. QED
      BY <2>2, <2>3
  <1>9. ASSUME NEW s \in Range(form), s # form[i] PROVE s \in Range(before \o after)
    <2>1. PICK j \in 1 .. Len(form) : s = form[j]
      BY <1>1 DEF Range, Typed
    <2>2. CASE j < i
      <3>1. j \in 1 .. Len(form) - 1
        BY <1>1, <2>2
      <3>2. (before \o after)[j] = s
        BY <1>8, <2>1, <2>2, <3>1
      <3>3. QED
        BY <1>7, <3>1, <3>2 DEF Range
    <2>3. CASE j > i
      <3>1. j - 1 \in 1 .. Len(form) - 1 /\ ~(j - 1 < i) /\ (j - 1) + 1 = j
        BY <1>1, <2>3
      <3>2. (before \o after)[j - 1] = s
        BY <1>8, <2>1, <3>1
      <3>3. QED
        BY <1>7, <3>1, <3>2 DEF Range
    <2>4. QED
      BY <1>1, <1>9, <2>1, <2>2, <2>3
  <1>10. QED
    BY <1>4, <1>5, <1>6, <1>8, <1>9

-------------------------------------------------------------------------------
(* What a page adds. *)

\* Every place has a number of its own, from the left, and every number a place.
LEMMA NthPlace ==
  ASSUME NEW places, IsFiniteSet(places), places \subseteq Nat
  PROVE  /\ Cardinality(places) \in Nat
         /\ \A k \in 1 .. Cardinality(places) : Nth(places, k) \in places
         /\ \A i \in places : \E k \in 1 .. Cardinality(places) : i = Nth(places, k)
         /\ \A k, l \in 1 .. Cardinality(places) : Nth(places, k) = Nth(places, l) => k = l
  <1>. DEFINE upTo(i) == {j \in places : j <= i}
              n == Cardinality(places)
              rank == [i \in places |-> Cardinality(upTo(i))]
  <1>1. n \in Nat
    BY FS_CardinalityType
  <1>2. ASSUME NEW i \in places
        PROVE  /\ IsFiniteSet(upTo(i)) /\ Cardinality(upTo(i)) \in Nat
               /\ Cardinality(upTo(i)) <= n /\ Cardinality(upTo(i)) # 0
    <2>1. IsFiniteSet(upTo(i)) /\ Cardinality(upTo(i)) <= n
      BY FS_Subset
    <2>2. i \in upTo(i)
      OBVIOUS
    <2>3. Cardinality(upTo(i)) # 0
      BY <2>1, <2>2, FS_EmptySet
    <2>4. QED
      BY <2>1, <2>3, FS_CardinalityType
  <1>3. rank \in [places -> 1 .. n]
    BY <1>1, <1>2
  <1>4. ASSUME NEW i \in places, NEW j \in places, i < j
        PROVE  rank[i] # rank[j]
    <2>1. upTo(i) \subseteq upTo(j)
      <3>1. i \in Nat /\ j \in Nat /\ \A l \in places : l \in Nat
        OBVIOUS
      <3>2. \A l \in upTo(i) : l \in places /\ l <= j
        BY <1>4, <3>1
      <3>3. QED
        BY <3>2
    <2>2. j \in upTo(j) /\ j \notin upTo(i)
      BY <1>4
    <2>3. upTo(i) # upTo(j)
      BY <2>2
    <2>. HIDE DEF upTo
    <2>4. Cardinality(upTo(j)) # Cardinality(upTo(i))
      BY <1>2, <2>1, <2>3, FS_Subset
    <2>5. QED
      BY <2>4
  <1>5. IsInjective(rank)
    <2>1. ASSUME NEW i \in places, NEW j \in places, rank[i] = rank[j] PROVE i = j
      <3>1. i \in Nat /\ j \in Nat /\ (i = j \/ i < j \/ j < i)
        OBVIOUS
      <3>2. QED
        BY <1>4, <2>1, <3>1
    <2>2. QED
      BY <2>1 DEF IsInjective
  <1>6. rank \in Surjection(places, 1 .. n)
    <2>1. IsFiniteSet(1 .. n) /\ Cardinality(1 .. n) = n
      BY <1>1, FS_Interval
    <2>2. rank \in Injection(places, 1 .. n)
      BY <1>3, <1>5 DEF Injection
    <2>3. QED
      BY <2>1, <2>2, FS_Injection
  <1>7. \A i \in places : rank[i] = Cardinality(upTo(i)) /\ rank[i] \in 1 .. n
    BY <1>3
  <1>8. \A k \in 1 .. n : \E i \in places : rank[i] = k
    BY <1>6 DEF Surjection
  <1>9. ASSUME NEW k \in 1 .. n
        PROVE  Nth(places, k) \in places /\ rank[Nth(places, k)] = k
    <2>1. \E i \in places : Cardinality(upTo(i)) = k
      BY <1>8
    <2>2. Nth(places, k) \in places /\ Cardinality(upTo(Nth(places, k))) = k
      BY <2>1 DEF Nth
    <2>3. QED
      BY <1>7, <2>2
  <1>10. ASSUME NEW i \in places PROVE i = Nth(places, rank[i])
    <2>1. rank[i] \in 1 .. n
      BY <1>7
    <2>2. Nth(places, rank[i]) \in places /\ rank[Nth(places, rank[i])] = rank[i]
      BY <1>9, <2>1
    <2>. HIDE DEF rank
    <2>3. DOMAIN rank = places
      BY <1>3
    <2>4. QED
      BY <1>5, <2>2, <2>3 DEF IsInjective
  <1>. HIDE DEF rank
  <1>11. QED
    BY <1>1, <1>7, <1>9, <1>10

\* A form with no submission twice is answered with pages that have none twice.
NoneTwice == \A i, j \in 1 .. Len(form) : form[i] = form[j] => i = j

LEMMA AnswerOnce ==
  ASSUME Typed, NoneTwice
  PROVE  /\ Len(Answer) \in Nat /\ DOMAIN Answer = 1 .. Len(Answer)
         /\ \A i, j \in 1 .. Len(Answer) : Answer[i] = Answer[j] => i = j
  <1>1. Answer \in Seq(Submissions)
    BY AnswerOfForm
  <1>2. CASE endpoint = "whole"
    BY <1>1, <1>2 DEF Answer, NoneTwice
  <1>3. CASE endpoint # "whole"
    <2>1. page * PageSize \in Nat /\ Len(Answer) \in Nat
      BY <1>1, ListingAssumption DEF Typed
    <2>2. \A i \in 1 .. Len(Answer) :
            page * PageSize + i \in 1 .. Len(form) /\ Answer[i] = form[page * PageSize + i]
      BY <1>3, PageOfForm
    <2>3. ASSUME NEW i \in 1 .. Len(Answer), NEW j \in 1 .. Len(Answer), Answer[i] = Answer[j]
          PROVE  i = j
      <3>1. page * PageSize + i = page * PageSize + j
        BY <2>2, <2>3 DEF NoneTwice
      <3>2. QED
        BY <2>1, <3>1
    <2>4. QED
      BY <1>1, <2>3
  <1>4. QED
    BY <1>2, <1>3

\* What is appended for a page: the new ones, each once if the page has it once.
LEMMA NewOnes ==
  ASSUME Typed
  PROVE  /\ NewInOrder \in Seq(Submissions)
         /\ Range(NewInOrder) = NewOnPage
         /\ NoneTwice => IsInjective(NewInOrder)
  <1>. DEFINE places == {i \in DOMAIN Answer : Answer[i] \in NewOnPage}
              n == Cardinality(places)
  <1>1. Answer \in Seq(Submissions) /\ Len(Answer) \in Nat /\ DOMAIN Answer = 1 .. Len(Answer)
    BY AnswerOfForm
  <1>2. IsFiniteSet(places) /\ places \subseteq Nat
    <2>1. IsFiniteSet(1 .. Len(Answer)) /\ places \subseteq 1 .. Len(Answer)
      BY <1>1, FS_Interval
    <2>2. QED
      BY <2>1, FS_Subset
  <1>3. NewInOrder = [k \in 1 .. n |-> Answer[Nth(places, k)]]
    BY DEF NewInOrder
  <1>4. NewOnPage \subseteq Range(Answer)
    BY DEF NewOnPage
  <1>5. \A i \in places : i \in 1 .. Len(Answer) /\ Answer[i] \in NewOnPage
    BY <1>1
  <1>6. \A s \in NewOnPage : \E i \in places : s = Answer[i]
    BY <1>4 DEF Range
  <1>. HIDE DEF places, n
  <1>7. /\ n \in Nat
        /\ \A k \in 1 .. n : Nth(places, k) \in places
        /\ \A i \in places : \E k \in 1 .. n : i = Nth(places, k)
        /\ \A k, l \in 1 .. n : Nth(places, k) = Nth(places, l) => k = l
    BY <1>2, NthPlace DEF n
  <1>8. \A k \in 1 .. n : NewInOrder[k] = Answer[Nth(places, k)] /\ NewInOrder[k] \in NewOnPage
    BY <1>3, <1>5, <1>7
  <1>9. DOMAIN NewInOrder = 1 .. n
    BY <1>3
  <1>10. NewInOrder \in Seq(Submissions)
    <2>1. NewOnPage \subseteq Submissions
      BY <1>4, AnswerOfForm
    <2>2. NewInOrder \in [1 .. n -> Submissions]
      BY <1>3, <1>5, <1>7, <2>1
    <2>3. QED
      BY <1>7, <2>2
  <1>11. Range(NewInOrder) = NewOnPage
    <2>1. ASSUME NEW s \in NewOnPage PROVE \E k \in 1 .. n : s = NewInOrder[k]
      BY <1>6, <1>7, <1>8
    <2>2. QED
      BY <1>8, <1>9, <2>1 DEF Range
  <1>12. ASSUME NoneTwice PROVE IsInjective(NewInOrder)
    <2>1. \A i, j \in 1 .. Len(Answer) : Answer[i] = Answer[j] => i = j
      BY <1>12, AnswerOnce
    <2>2. ASSUME NEW k \in 1 .. n, NEW l \in 1 .. n, NewInOrder[k] = NewInOrder[l] PROVE k = l
      <3>1. Nth(places, k) = Nth(places, l)
        BY <1>5, <1>7, <1>8, <2>1, <2>2
      <3>2. QED
        BY <1>7, <3>1
    <2>3. QED
      BY <1>9, <2>2 DEF IsInjective
  <1>13. QED
    BY <1>10, <1>11, <1>12

-------------------------------------------------------------------------------
LEMMA StepTypes ==
  ASSUME Typed, [Next]_vars
  PROVE  Typed'
  <1>1. CASE Begin
    <2>1. Range(form) \subseteq Submissions
      BY AnswerOfForm
    <2>2. QED
      BY <1>1, <2>1 DEF Begin, Typed
  <1>2. CASE AskPage
    <2>1. seen' \in SUBSET (Submissions \ Unusable)
      BY <1>2, AnswerOfForm DEF AskPage, NewOnPage, Typed
    <2>2. refs' \in Seq(Submissions)
      BY <1>2, NewOnes, ConcatProperties DEF AskPage, Typed
    <2>3. QED
      BY <1>2, <2>1, <2>2 DEF AskPage, Typed
  <1>3. CASE Fail
    BY <1>3 DEF Fail, Typed
  <1>4. ASSUME NEW s \in Submissions, Arrive(s) PROVE Typed'
    <2>1. <<s>> \o form \in Seq(Submissions) /\ Append(form, s) \in Seq(Submissions)
      BY DEF Typed
    <2>2. QED
      BY <1>4, <2>1 DEF Arrive, Typed
  <1>5. ASSUME NEW i \in DOMAIN form, Purge(i) PROVE Typed'
    BY <1>5, FormPurged DEF Purge, Typed
  <1>6. CASE UNCHANGED vars
    BY <1>6 DEF vars, Typed
  <1>7. QED
    BY <1>1, <1>2, <1>3, <1>4, <1>5, <1>6 DEF Next

LEMMA InitTypes == Init => Typed
  BY DEF Init, Typed

-------------------------------------------------------------------------------
LEMMA SeenGrows ==
  ASSUME Typed, PagesAddSomething, AskPage
  PROVE  PagesAddSomething'
  <1>1. IsFiniteSet(Submissions)
    BY ListingAssumption
  <1>2. seen' = seen \cup NewOnPage /\ seen' \subseteq Submissions
    BY AnswerOfForm DEF AskPage, NewOnPage, Typed
  <1>3. IsFiniteSet(seen') /\ IsFiniteSet(seen)
    BY <1>1, <1>2, FS_Subset DEF Typed
  <1>4. Cardinality(seen) \in Nat /\ Cardinality(seen') \in Nat
    BY <1>3, FS_CardinalityType
  <1>5. Cardinality(seen) <= Cardinality(seen')
    BY <1>2, <1>3, FS_Subset
  <1>6. CASE LastPage
    BY <1>4, <1>5, <1>6 DEF AskPage, PagesAddSomething, Typed
  <1>7. CASE ~LastPage
    <2>1. seen # seen'
      BY <1>2, <1>7 DEF LastPage, NewOnPage
    <2>2. Cardinality(seen) # Cardinality(seen')
      BY <1>2, <1>3, <2>1, FS_Subset
    <2>3. QED
      BY <1>4, <1>5, <1>7, <2>2 DEF AskPage, PagesAddSomething, Typed
  <1>8. QED
    BY <1>6, <1>7

\* A listing asks for at most one page more than there are submissions.
THEOREM ListingEnds == Spec => []PagesAddSomething
  <1>1. Init => PagesAddSomething
    <2>. SUFFICES ASSUME Init PROVE PagesAddSomething
      OBVIOUS
    <2>1. Cardinality({}) = 0
      BY FS_EmptySet
    <2>2. QED
      BY <2>1 DEF Init, PagesAddSomething
  <1>2. Typed /\ PagesAddSomething /\ [Next]_vars => PagesAddSomething'
    <2>. SUFFICES ASSUME Typed, PagesAddSomething, [Next]_vars PROVE PagesAddSomething'
      OBVIOUS
    <2>1. CASE Begin
      <3>1. Cardinality({}) = 0
        BY FS_EmptySet
      <3>2. QED
        BY <2>1, <3>1 DEF Begin, PagesAddSomething
    <2>2. CASE AskPage
      BY <2>2, SeenGrows
    <2>3. ASSUME UNCHANGED <<page, seen>> PROVE PagesAddSomething'
      BY <2>3 DEF PagesAddSomething
    <2>4. QED
      BY <2>1, <2>2, <2>3 DEF Next, Fail, Arrive, Purge, vars
  <1>3. QED
    BY <1>1, <1>2, InitTypes, StepTypes, PTL DEF Spec

-------------------------------------------------------------------------------
(* The form. *)

LEMMA PurgeLeavesOne ==
  ASSUME Typed, NoneTwice, NEW i \in DOMAIN form, Purge(i)
  PROVE  NoneTwice'
  <1>1. /\ i \in 1 .. Len(form) /\ Len(form) \in Nat
        /\ Len(form') = Len(form) - 1
        /\ \A j \in 1 .. Len(form) - 1 : form'[j] = IF j < i THEN form[j] ELSE form[j + 1]
    BY FormPurged DEF Purge, Typed
  <1>. SUFFICES ASSUME NEW j \in 1 .. Len(form) - 1, NEW k \in 1 .. Len(form) - 1, form'[j] = form'[k]
                PROVE  j = k
    BY <1>1 DEF NoneTwice
  <1>. DEFINE at(n) == IF n < i THEN n ELSE n + 1
  <1>2. at(j) \in 1 .. Len(form) /\ at(k) \in 1 .. Len(form)
    BY <1>1
  <1>3. form[at(j)] = form[at(k)]
    BY <1>1
  <1>4. at(j) = at(k)
    BY <1>2, <1>3 DEF NoneTwice
  <1>5. QED
    BY <1>1, <1>4

\* By how much an arrival moves what is on the pages, and where it goes itself.
Move == IF endpoint = "newest" THEN 1 ELSE 0
Entry == IF endpoint = "newest" THEN 1 ELSE Len(form) + 1

LEMMA ArrivalIsNew ==
  ASSUME Typed, NoneTwice, NEW s \in Submissions, Arrive(s)
  PROVE  /\ NoneTwice'
         /\ Len(form') = Len(form) + 1
         /\ \A i \in 1 .. Len(form) : i + Move \in 1 .. Len(form') /\ form'[i + Move] = form[i]
         /\ \A i \in 1 .. Len(form') : i = Entry \/ i - Move \in 1 .. Len(form)
         /\ form'[Entry] = s
         /\ Range(form) \subseteq Range(form')
  <1>1. Len(form) \in Nat /\ DOMAIN form = 1 .. Len(form)
    BY DEF Typed
  <1>2. \A i \in 1 .. Len(form) : form[i] # s
    BY <1>1 DEF Arrive, Range
  <1>3. /\ Len(form') = Len(form) + 1 /\ DOMAIN form' = 1 .. Len(form) + 1
        /\ \A i \in 1 .. Len(form) : form'[i + Move] = form[i]
        /\ form'[Entry] = s
    <2>1. CASE endpoint = "newest"
      <3>1. form' = <<s>> \o form /\ <<s>> \in Seq(Submissions) /\ Len(<<s>>) = 1 /\ <<s>>[1] = s
        BY <2>1 DEF Arrive
      <3>2. /\ form' \in Seq(Submissions)
            /\ Len(form') = 1 + Len(form)
            /\ \A i \in 1 .. 1 + Len(form) : form'[i] = IF i <= 1 THEN <<s>>[i] ELSE form[i - 1]
        BY <3>1, ConcatProperties DEF Typed
      <3>3. ASSUME NEW i \in 1 .. Len(form) PROVE form'[i + 1] = form[i]
        <4>1. i + 1 \in 1 .. 1 + Len(form) /\ ~(i + 1 <= 1) /\ (i + 1) - 1 = i
          BY <1>1
        <4>2. QED
          BY <3>2, <4>1
      <3>4. form'[1] = s
        BY <1>1, <3>1, <3>2
      <3>5. QED
        BY <1>1, <2>1, <3>2, <3>3, <3>4 DEF Move, Entry
    <2>2. CASE endpoint # "newest"
      <3>1. form' = Append(form, s)
        BY <2>2 DEF Arrive
      <3>2. QED
        BY <1>1, <2>2, <3>1 DEF Typed, Move, Entry
    <2>3. QED
      BY <2>1, <2>2
  <1>4. /\ \A i \in 1 .. Len(form) : i + Move \in 1 .. Len(form) + 1
        /\ \A i \in 1 .. Len(form) + 1 : i = Entry \/ (i - Move \in 1 .. Len(form) /\ (i - Move) + Move = i)
        /\ Move \in Nat
    BY <1>1 DEF Move, Entry
  <1>5. Range(form) \subseteq Range(form')
    BY <1>1, <1>3, <1>4 DEF Range
  <1>6. \A i \in 1 .. Len(form) + 1 : i = Entry \/ form'[i] = form[i - Move]
    BY <1>3, <1>4
  <1>7. NoneTwice'
    <2>. SUFFICES ASSUME NEW i \in 1 .. Len(form) + 1, NEW j \in 1 .. Len(form) + 1, form'[i] = form'[j]
                  PROVE  i = j
      BY <1>3 DEF NoneTwice
    <2>1. CASE i = Entry \/ j = Entry
      BY <1>2, <1>3, <1>4, <1>6, <2>1
    <2>2. CASE i # Entry /\ j # Entry
      <3>1. i - Move = j - Move
        BY <1>4, <1>6, <2>2 DEF NoneTwice
      <3>2. QED
        BY <1>4, <3>1
    <2>3. QED
      BY <2>1, <2>2
  <1>8. QED
    BY <1>3, <1>4, <1>5, <1>7

LEMMA FormHasNoneTwice ==
  ASSUME Typed, NoneTwice, [Next]_vars
  PROVE  NoneTwice'
  <1>1. CASE UNCHANGED form
    BY <1>1 DEF NoneTwice
  <1>2. CASE \E s \in Submissions : Arrive(s)
    BY <1>2, ArrivalIsNew
  <1>3. CASE \E i \in DOMAIN form : Purge(i)
    BY <1>3, PurgeLeavesOne
  <1>4. QED
    BY <1>1, <1>2, <1>3 DEF Next, Begin, AskPage, Fail, vars

LEMMA Start == Init => Typed /\ NoneTwice
  BY InitTypes DEF Init, NoneTwice

\* Whatever comes and goes between two pages, a submission that was listed is
\* known when it turns up again.
THEOREM NothingIsListedTwice == Spec => []ListedOnce
  <1>1. Init => ListedOnce
    BY DEF Init, ListedOnce, Range, IsInjective
  <1>2. ASSUME Typed, NoneTwice, ListedOnce, AskPage PROVE ListedOnce'
    <2>. DEFINE new == NewInOrder
    <2>1. refs' = refs \o new /\ seen' = seen \cup NewOnPage
      BY <1>2 DEF AskPage
    <2>2. /\ new \in Seq(Submissions) /\ Range(new) = NewOnPage /\ IsInjective(new)
          /\ refs \in Seq(Submissions) /\ Range(refs) = seen /\ IsInjective(refs)
          /\ seen \cap NewOnPage = {}
      BY <1>2, NewOnes DEF ListedOnce, Typed, NewOnPage
    <2>. HIDE DEF new
    <2>3. /\ Len(refs) \in Nat /\ DOMAIN refs = 1 .. Len(refs)
          /\ Len(new) \in Nat /\ DOMAIN new = 1 .. Len(new)
      BY <2>2
    <2>4. /\ refs' \in Seq(Submissions) /\ Len(refs') = Len(refs) + Len(new)
          /\ \A i \in 1 .. Len(refs) + Len(new) :
               refs'[i] = IF i <= Len(refs) THEN refs[i] ELSE new[i - Len(refs)]
      BY <2>1, <2>2, ConcatProperties
    <2>5. DOMAIN refs' = 1 .. Len(refs) + Len(new)
      BY <2>4
    <2>6. \A i \in 1 .. Len(refs) : i \in 1 .. Len(refs) + Len(new) /\ refs'[i] = refs[i]
      BY <2>3, <2>4
    <2>7. \A i \in 1 .. Len(new) : Len(refs) + i \in 1 .. Len(refs) + Len(new)
                                  /\ refs'[Len(refs) + i] = new[i]
      <3>. SUFFICES ASSUME NEW i \in 1 .. Len(new)
                    PROVE  Len(refs) + i \in 1 .. Len(refs) + Len(new)
                           /\ refs'[Len(refs) + i] = new[i]
        OBVIOUS
      <3>1. /\ Len(refs) + i \in 1 .. Len(refs) + Len(new)
            /\ ~(Len(refs) + i <= Len(refs)) /\ (Len(refs) + i) - Len(refs) = i
        BY <2>3
      <3>2. QED
        BY <2>4, <3>1
    <2>8. \A i \in 1 .. Len(refs) + Len(new) :
            i \in 1 .. Len(refs) \/ (i - Len(refs) \in 1 .. Len(new) /\ i = Len(refs) + (i - Len(refs)))
      BY <2>3
    <2>9. Range(refs') = seen'
      <3>1. ASSUME NEW i \in 1 .. Len(refs) + Len(new) PROVE refs'[i] \in seen \cup NewOnPage
        <4>1. CASE i \in 1 .. Len(refs)
          <5>1. refs[i] \in seen
            BY <2>2, <2>3, <4>1 DEF Range
          <5>2. QED
            BY <2>6, <4>1, <5>1
        <4>2. CASE i \notin 1 .. Len(refs)
          <5>1. i - Len(refs) \in 1 .. Len(new) /\ refs'[i] = new[i - Len(refs)]
            BY <2>7, <2>8, <4>2
          <5>2. new[i - Len(refs)] \in NewOnPage
            BY <2>2, <2>3, <5>1 DEF Range
          <5>3. QED
            BY <5>1, <5>2
        <4>3. QED
          BY <4>1, <4>2
      <3>2. ASSUME NEW s \in seen \cup NewOnPage
            PROVE  \E i \in 1 .. Len(refs) + Len(new) : s = refs'[i]
        <4>1. CASE s \in seen
          <5>1. PICK i \in 1 .. Len(refs) : s = refs[i]
            BY <2>2, <2>3, <4>1 DEF Range
          <5>2. QED
            BY <2>6, <5>1
        <4>2. CASE s \in NewOnPage
          <5>1. PICK i \in 1 .. Len(new) : s = new[i]
            BY <2>2, <2>3, <4>2 DEF Range
          <5>2. QED
            BY <2>7, <5>1
        <4>3. QED
          BY <4>1, <4>2
      <3>3. QED
        BY <2>1, <2>5, <3>1, <3>2 DEF Range
    <2>10. IsInjective(refs')
      <3>. SUFFICES ASSUME NEW i \in 1 .. Len(refs) + Len(new), NEW j \in 1 .. Len(refs) + Len(new),
                           refs'[i] = refs'[j]
                    PROVE  i = j
        BY <2>5 DEF IsInjective
      <3>1. CASE i \in 1 .. Len(refs) /\ j \in 1 .. Len(refs)
        BY <2>2, <2>3, <2>6, <3>1 DEF IsInjective
      <3>2. CASE i \notin 1 .. Len(refs) /\ j \notin 1 .. Len(refs)
        <4>1. new[i - Len(refs)] = new[j - Len(refs)]
          BY <2>7, <2>8, <3>2
        <4>2. i - Len(refs) = j - Len(refs)
          BY <2>2, <2>3, <2>8, <3>2, <4>1 DEF IsInjective
        <4>3. QED
          BY <2>3, <4>2
      <3>3. ASSUME NEW k \in 1 .. Len(refs), NEW l \in 1 .. Len(new) PROVE refs[k] # new[l]
        BY <2>2, <2>3 DEF Range
      <3>4. CASE i \in 1 .. Len(refs) /\ j \notin 1 .. Len(refs)
        <4>1. j - Len(refs) \in 1 .. Len(new) /\ refs'[j] = new[j - Len(refs)]
          BY <2>7, <2>8, <3>4
        <4>2. refs'[i] = refs[i]
          BY <2>6, <3>4
        <4>3. refs[i] # new[j - Len(refs)]
          BY <3>3, <4>1, <3>4
        <4>4. QED
          BY <4>1, <4>2, <4>3
      <3>5. CASE i \notin 1 .. Len(refs) /\ j \in 1 .. Len(refs)
        <4>1. i - Len(refs) \in 1 .. Len(new) /\ refs'[i] = new[i - Len(refs)]
          BY <2>7, <2>8, <3>5
        <4>2. refs'[j] = refs[j]
          BY <2>6, <3>5
        <4>3. refs[j] # new[i - Len(refs)]
          BY <3>3, <4>1, <3>5
        <4>4. QED
          BY <4>1, <4>2, <4>3
      <3>6. QED
        BY <3>1, <3>2, <3>4, <3>5
    <2>11. QED
      BY <2>9, <2>10 DEF ListedOnce
  <1>3. Typed /\ NoneTwice /\ ListedOnce /\ [Next]_vars => ListedOnce'
    <2>. SUFFICES ASSUME Typed, NoneTwice, ListedOnce, [Next]_vars PROVE ListedOnce'
      OBVIOUS
    <2>1. CASE Begin
      <3>1. refs' = <<>> /\ seen' = {}
        BY <2>1 DEF Begin
      <3>2. DOMAIN refs' = {}
        BY <3>1
      <3>3. QED
        BY <3>1, <3>2 DEF ListedOnce, Range, IsInjective
    <2>2. CASE UNCHANGED <<refs, seen>>
      BY <2>2 DEF ListedOnce
    <2>3. QED
      BY <1>2, <2>1, <2>2 DEF Next, Fail, Arrive, Purge, vars
  <1>4. QED
    BY <1>1, <1>3, Start, StepTypes, FormHasNoneTwice, PTL DEF Spec

\* The state of a listing keeps its type: no page is asked for whose number
\* exceeds that of the submissions.
THEOREM ListingTypes == Spec => []TypeOK
  <1>1. Typed /\ PagesAddSomething => TypeOK
    <2>. SUFFICES ASSUME Typed, PagesAddSomething PROVE page \in 0 .. Cardinality(Submissions)
      BY DEF TypeOK, Typed
    <2>1. IsFiniteSet(Submissions) /\ seen \subseteq Submissions
      BY ListingAssumption DEF Typed
    <2>2. /\ Cardinality(seen) <= Cardinality(Submissions)
          /\ Cardinality(seen) \in Nat /\ Cardinality(Submissions) \in Nat
      BY <2>1, FS_Subset, FS_CardinalityType
    <2>3. QED
      BY <2>2 DEF PagesAddSomething, Typed
  <1>2. QED
    BY <1>1, InitTypes, StepTypes, ListingEnds, PTL DEF Spec

-------------------------------------------------------------------------------
(* Nothing is missed. *)

\* Of a page of what was listed before or cannot be used, something is left: as
\* many as come while the form is listed do not move a page's worth of others.
PagesOutrunArrivals ==
  /\ Purging \subseteq {"whole"}
  /\ \A e \in Endpoints \ {"whole"} :
       Cardinality(Unusable) + (IF e = "newest" THEN MaxArrivals ELSE 0) < PageSize

\* How far what was read has been moved since the listing began.
Shift == IF endpoint = "newest" THEN arrivals ELSE 0

\* What has been seen page by page: of what has stayed, all that is before the
\* page to come, and nothing beyond the arrivals into it.
PagesRead ==
  /\ pass = "asking" => stayed \subseteq Range(form) /\ arrivals <= MaxArrivals
  /\ pass = "asking" /\ endpoint # "whole" =>
       /\ \A i \in 1 .. Len(form) :
            form[i] \in stayed \ Unusable /\ i <= page * PageSize => form[i] \in seen
       /\ \A s \in seen : \E i \in 1 .. Len(form) : s = form[i] /\ i <= page * PageSize + Shift
  /\ ListsWhatStays

\* A full page that adds nothing would hold more unusable entries than there are.
LEMMA FullPageAdds ==
  ASSUME PagesOutrunArrivals, Typed, NoneTwice, PagesRead,
         pass = "asking", endpoint # "whole", page * PageSize + PageSize < Len(form)
  PROVE  NewOnPage # {}
  <1>. DEFINE start == page * PageSize
              places == start + Shift + 1 .. start + PageSize
  <1>1. start \in Nat /\ (page + 1) * PageSize = start + PageSize /\ PageSize \in Nat \ {0}
    BY ListingAssumption DEF Typed
  <1>2. Len(form) \in Nat /\ Shift \in Nat
    BY DEF Typed, Shift
  <1>3. IsFiniteSet(Unusable) /\ Cardinality(Unusable) \in Nat
    BY ListingAssumption, FS_Subset, FS_CardinalityType
  <1>4. Cardinality(Unusable) + Shift < PageSize
    <2>1. endpoint \in Endpoints \ {"whole"} /\ arrivals <= MaxArrivals /\ arrivals \in Nat
      BY DEF Typed, PagesRead
    <2>2. Cardinality(Unusable) + (IF endpoint = "newest" THEN MaxArrivals ELSE 0) < PageSize
      BY <2>1 DEF PagesOutrunArrivals
    <2>3. QED
      BY <1>1, <1>3, <2>1, <2>2, ListingAssumption DEF Shift
  <1>5. SUFFICES ASSUME NewOnPage = {} PROVE FALSE
    OBVIOUS
  <1>6. \A i \in 1 .. Len(form) : start < i /\ i <= start + PageSize => form[i] \in Range(Answer)
    BY <1>1, PageOfForm
  <1>7. \A s \in seen : \E i \in 1 .. Len(form) : s = form[i] /\ i <= start + Shift
    BY DEF PagesRead
  <1>8. Range(Answer) \subseteq seen \cup Unusable
    BY <1>5 DEF NewOnPage
  <1>9. page * PageSize + PageSize = start + PageSize
    OBVIOUS
  <1>. HIDE DEF start
  <1>10. \A i \in places : i \in 1 .. Len(form) /\ start < i /\ i <= start + PageSize
                            /\ ~(i <= start + Shift)
    BY <1>1, <1>2, <1>9
  <1>11. ASSUME NEW i \in places PROVE form[i] \in Unusable
    <2>1. form[i] \in seen \cup Unusable
      BY <1>6, <1>8, <1>10
    <2>2. form[i] \notin seen
      <3>. SUFFICES ASSUME form[i] \in seen PROVE FALSE
        OBVIOUS
      <3>1. PICK j \in 1 .. Len(form) : form[i] = form[j] /\ j <= start + Shift
        BY <1>7
      <3>2. i = j
        BY <1>10, <3>1 DEF NoneTwice
      <3>3. QED
        BY <1>10, <3>1, <3>2
    <2>3. QED
      BY <2>1, <2>2
  <1>12. IsFiniteSet(places) /\ Cardinality(places) = PageSize - Shift
    <2>1. start + Shift + 1 \in Int /\ start + PageSize \in Int
      BY <1>1, <1>2
    <2>2. ~(start + Shift + 1 > start + PageSize)
      BY <1>1, <1>2, <1>3, <1>4
    <2>3. (start + PageSize) - (start + Shift + 1) + 1 = PageSize - Shift
      BY <1>1, <1>2
    <2>4. QED
      BY <2>1, <2>2, <2>3, FS_Interval
  <1>13. PICK i, j \in places : i # j /\ form[i] = form[j]
    <2>. DEFINE f == [i \in places |-> form[i]]
    <2>1. f \in [places -> Unusable]
      BY <1>11
    <2>2. Cardinality(Unusable) < Cardinality(places)
      BY <1>1, <1>2, <1>3, <1>4, <1>12
    <2>3. \A i \in places : f[i] = form[i]
      OBVIOUS
    <2>. HIDE DEF f, places
    <2>4. PICK i, j \in places : i # j /\ f[i] = f[j]
      BY <1>3, <1>12, <2>1, <2>2, FS_PigeonHole
    <2>5. QED
      BY <2>3, <2>4
  <1>14. QED
    BY <1>10, <1>13 DEF NoneTwice

LEMMA AskPageReads ==
  ASSUME PagesOutrunArrivals, Typed, NoneTwice, PagesRead, AskPage
  PROVE  PagesRead'
  <1>1. /\ pass = "asking" /\ UNCHANGED <<endpoint, form, stayed, arrivals>>
        /\ seen' = seen \cup NewOnPage
        /\ NewOnPage = (Range(Answer) \ Unusable) \ seen
        /\ pass' = "listed" => NewOnPage = {}
        /\ pass' = "listed" \/ (pass' = "asking" /\ page' = page + 1)
    BY DEF AskPage, LastPage, NewOnPage
  <1>2. stayed \subseteq Range(form) /\ arrivals <= MaxArrivals
    BY <1>1 DEF PagesRead
  <1>3. CASE endpoint = "whole"
    <2>1. Range(Answer) = Range(form)
      BY <1>3 DEF Answer
    <2>2. ListsWhatStays'
      BY <1>1, <1>2, <2>1 DEF ListsWhatStays
    <2>3. QED
      BY <1>1, <1>2, <1>3, <2>2 DEF PagesRead
  <1>4. CASE endpoint # "whole"
    <2>. DEFINE start == page * PageSize
    <2>1. start \in Nat /\ (page + 1) * PageSize = start + PageSize /\ PageSize \in Nat \ {0}
      BY ListingAssumption DEF Typed
    <2>2. Len(form) \in Nat /\ DOMAIN form = 1 .. Len(form) /\ Shift \in Nat
      BY DEF Typed, Shift
    <2>3. /\ \A i \in 1 .. Len(form) : form[i] \in stayed \ Unusable /\ i <= start => form[i] \in seen
          /\ \A s \in seen : \E i \in 1 .. Len(form) : s = form[i] /\ i <= start + Shift
      BY <1>1, <1>4 DEF PagesRead
    <2>4. /\ \A i \in 1 .. Len(form) : start < i /\ i <= start + PageSize => form[i] \in Range(Answer)
          /\ \A s \in Range(Answer) :
               \E i \in 1 .. Len(form) : s = form[i] /\ start < i /\ i <= start + PageSize
      BY <1>4, <2>1, PageOfForm
    <2>5. NewOnPage = {} => Len(form) <= start + PageSize
      BY <1>1, <1>4, <2>1, <2>2, FullPageAdds
    <2>6. Shift' = Shift
      BY <1>1 DEF Shift
    <2>. HIDE DEF start
    <2>7. ASSUME NEW i \in 1 .. Len(form), form[i] \in stayed \ Unusable, i <= start + PageSize
          PROVE  form[i] \in seen'
      <3>1. i <= start \/ start < i
        BY <2>1
      <3>2. QED
        BY <1>1, <2>3, <2>4, <2>7, <3>1
    <2>8. CASE pass' = "listed"
      <3>1. \A i \in 1 .. Len(form) : i <= start + PageSize
        BY <1>1, <2>1, <2>2, <2>5, <2>8
      <3>2. stayed \ Unusable \subseteq seen'
        BY <1>2, <2>2, <2>7, <3>1 DEF Range
      <3>3. QED
        BY <1>1, <2>8, <3>2 DEF PagesRead, ListsWhatStays
    <2>9. CASE pass' = "asking" /\ page' = page + 1
      <3>1. page' * PageSize = start + PageSize
        BY <2>1, <2>9
      <3>2. ASSUME NEW s \in seen'
            PROVE  \E i \in 1 .. Len(form) : s = form[i] /\ i <= start + PageSize + Shift
        <4>1. PICK i \in 1 .. Len(form) : s = form[i] /\ (i <= start + Shift \/ i <= start + PageSize)
          BY <1>1, <2>3, <2>4
        <4>2. i <= start + PageSize + Shift
          BY <2>1, <2>2, <4>1
        <4>3. QED
          BY <4>1, <4>2
      <3>3. QED
        BY <1>1, <1>2, <2>6, <2>7, <2>9, <3>1, <3>2 DEF PagesRead, ListsWhatStays
    <2>10. QED
      BY <1>1, <2>8, <2>9
  <1>5. QED
    BY <1>3, <1>4

LEMMA ArrivalReads ==
  ASSUME Typed, NoneTwice, PagesRead, NEW s \in Submissions, Arrive(s)
  PROVE  PagesRead'
  <1>1. /\ UNCHANGED <<endpoint, pass, page, seen, stayed>> /\ s \notin Range(form)
        /\ pass = "asking" => arrivals < MaxArrivals /\ arrivals' = arrivals + 1
    BY DEF Arrive
  <1>2. /\ Range(form) \subseteq Range(form') /\ Len(form') = Len(form) + 1
        /\ \A i \in 1 .. Len(form) : i + Move \in 1 .. Len(form') /\ form'[i + Move] = form[i]
        /\ \A i \in 1 .. Len(form') : i = Entry \/ i - Move \in 1 .. Len(form)
        /\ form'[Entry] = s
    BY ArrivalIsNew
  <1>3. CASE pass # "asking"
    BY <1>1, <1>3 DEF PagesRead, ListsWhatStays
  <1>4. CASE pass = "asking"
    <2>1. stayed \subseteq Range(form) /\ s \notin stayed /\ arrivals' <= MaxArrivals
      BY <1>1, <1>4, ListingAssumption DEF PagesRead, Typed
    <2>2. Shift' = Shift + Move /\ Shift \in Nat /\ Move \in Nat
      BY <1>1, <1>4 DEF Shift, Move, Typed
    <2>3. Len(form) \in Nat /\ page * PageSize \in Nat
      BY ListingAssumption DEF Typed
    <2>. DEFINE start == page * PageSize
    <2>4. ASSUME endpoint # "whole", NEW i \in 1 .. Len(form'), form'[i] \in stayed \ Unusable, i <= start
          PROVE  form'[i] \in seen
      <3>1. i - Move \in 1 .. Len(form) /\ (i - Move) + Move = i
        BY <1>2, <2>1, <2>2, <2>3, <2>4
      <3>2. form'[i] = form[i - Move]
        BY <1>2, <3>1
      <3>3. i - Move <= start
        BY <1>2, <2>2, <2>3, <2>4
      <3>4. QED
        BY <1>4, <2>4, <3>1, <3>2, <3>3 DEF PagesRead
    <2>5. ASSUME endpoint # "whole", NEW t \in seen
          PROVE  \E i \in 1 .. Len(form') : t = form'[i] /\ i <= start + Shift'
      <3>1. PICK i \in 1 .. Len(form) : t = form[i] /\ i <= start + Shift
        BY <1>4, <2>5 DEF PagesRead
      <3>2. i + Move \in 1 .. Len(form') /\ t = form'[i + Move] /\ i + Move <= start + Shift'
        BY <1>2, <2>2, <2>3, <3>1
      <3>3. QED
        BY <3>2
    <2>. HIDE DEF start
    <2>6. page' * PageSize = start
      BY <1>1 DEF start
    <2>7. QED
      BY <1>1, <1>2, <1>4, <2>1, <2>4, <2>5, <2>6 DEF PagesRead, ListsWhatStays
  <1>5. QED
    BY <1>3, <1>4

LEMMA StepReads ==
  ASSUME PagesOutrunArrivals, Typed, NoneTwice, PagesRead, [Next]_vars
  PROVE  PagesRead'
  <1>1. CASE Begin
    <2>1. /\ UNCHANGED <<endpoint, form>> /\ pass' = "asking" /\ page' = 0
          /\ seen' = {} /\ stayed' = Range(form) /\ arrivals' = 0
      BY <1>1 DEF Begin
    <2>2. \A i \in 1 .. Len(form) : ~(i <= 0 * PageSize)
      BY ListingAssumption
    <2>3. QED
      BY <2>1, <2>2, ListingAssumption DEF PagesRead, ListsWhatStays
  <1>2. CASE AskPage
    BY <1>2, AskPageReads
  <1>3. CASE Fail
    BY <1>3 DEF Fail, PagesRead, ListsWhatStays
  <1>4. ASSUME NEW s \in Submissions, Arrive(s) PROVE PagesRead'
    BY <1>4, ArrivalReads
  <1>5. ASSUME NEW i \in DOMAIN form, Purge(i) PROVE PagesRead'
    <2>1. /\ UNCHANGED <<endpoint, pass, page, seen, arrivals>> /\ stayed' = stayed \ {form[i]}
          /\ pass = "asking" => endpoint = "whole"
      BY <1>5 DEF Purge, PagesOutrunArrivals
    <2>2. Range(form) \ {form[i]} \subseteq Range(form')
      BY <1>5, FormPurged DEF Purge
    <2>3. QED
      BY <2>1, <2>2 DEF PagesRead, ListsWhatStays
  <1>6. CASE UNCHANGED vars
    BY <1>6 DEF vars, PagesRead, ListsWhatStays, Shift
  <1>7. QED
    BY <1>1, <1>2, <1>3, <1>4, <1>5, <1>6 DEF Next

\* Nothing that stays on the form is missed, whichever end it grows at, as long
\* as fewer submissions come during a listing than a page has usable entries,
\* and none is purged while it is listed page by page.
THEOREM NothingStillThereIsMissed ==
  ASSUME PagesOutrunArrivals
  PROVE  Spec => []ListsWhatStays
  <1>1. Init => PagesRead
    BY DEF Init, PagesRead, ListsWhatStays
  <1>2. Typed /\ NoneTwice /\ PagesRead /\ [Next]_vars => PagesRead'
    BY StepReads
  <1>3. PagesRead => ListsWhatStays
    BY DEF PagesRead
  <1>4. QED
    BY <1>1, <1>2, <1>3, Start, StepTypes, FormHasNoneTwice, PTL DEF Spec
===============================================================================
