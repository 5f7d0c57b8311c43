------------------------ MODULE CabinCalendar_proofs ------------------------
(***************************************************************************)
(* Proofs about the calendar of CabinBookings, for any cabins, bookings,   *)
(* semesters and clients, and any run of days: what getValidBookingInter-  *)
(* vals merges, cuts and shifts accepts the free stays within the open     *)
(* semesters and no others, and the calendar that is shown agrees.  Then   *)
(* the types of CabinBookings, prices and costs included.                  *)
(***************************************************************************)
EXTENDS CabinBookings_proofs, FiniteSetTheorems, WellFoundedInduction

\* The days have no gaps.
DaysAreARun == \A a, b \in Days, n \in Nat : a <= n /\ n <= b => n \in Days

-----------------------------------------------------------------------------
(* Numbers: least and greatest elements *)

\* A set of numbers has a least element.
LEMMA Smallest ==
    ASSUME NEW T, T \subseteq Nat, T # {}
    PROVE  \E x \in T : \A y \in T : x <= y
<1>1. PICK R : R = OpToRel(<, Nat)
  OBVIOUS
<1>2. IsWellFoundedOn(R, Nat)
  BY <1>1, NatLessThanWellFounded
<1>3. PICK x \in T : \A y \in T : ~(<<y, x>> \in R)
  BY <1>2, WFMin
<1>4. \A y \in Nat, z \in Nat : y < z => <<y, z>> \in R
  BY <1>1 DEF OpToRel
<1>5. ASSUME NEW y \in T PROVE x <= y
  <2>1. x \in Nat /\ y \in Nat /\ ~(y < x)
    BY <1>3, <1>4
  <2> QED
    BY <2>1
<1> QED
  BY <1>5

\* One that is bounded has a greatest element.
LEMMA Largest ==
    ASSUME NEW T, T \subseteq Nat, T # {}, NEW n \in Nat, \A y \in T : y <= n
    PROVE  \E x \in T : \A y \in T : y <= x
<1> DEFINE D == {n - y : y \in T}
<1>1. D \subseteq Nat /\ D # {}
  <2>1. \A y \in T : y \in Nat /\ n - y \in Nat
    OBVIOUS
  <2> QED
    BY <2>1
<1>2. PICK m \in D : \A d \in D : m <= d
  BY <1>1, Smallest
<1>3. PICK x \in T : m = n - x
  OBVIOUS
<1>4. ASSUME NEW y \in T PROVE y <= x
  <2>1. n - x <= n - y
    BY <1>2, <1>3
  <2>2. x \in Nat /\ y \in Nat
    OBVIOUS
  <2> QED
    BY <2>1, <2>2
<1> QED
  BY <1>4

\* Min and Max of one or two numbers.
LEMMA MinMaxOfTwo ==
    ASSUME NEW a \in Int, NEW b \in Int, NEW S, S \subseteq {a, b}, S # {}
    PROVE  /\ Min(S) \in S /\ \A y \in S : Min(S) <= y
           /\ Max(S) \in S /\ \A y \in S : y <= Max(S)
<1>1. S = {a} \/ S = {b} \/ S = {a, b}
  OBVIOUS
<1>2. (\E x \in S : \A y \in S : x <= y) /\ (\E x \in S : \A y \in S : x >= y)
  BY <1>1
<1>3. Min(S) \in S /\ \A y \in S : Min(S) <= y
  BY <1>2 DEF Min
<1>4. Max(S) \in S /\ \A y \in S : Max(S) >= y
  BY <1>2 DEF Max
<1> QED
  BY <1>3, <1>4, <1>1

-----------------------------------------------------------------------------
(* Interval.merge of at most two intervals *)

\* What is merged: at most two intervals that are not empty.
Pair(is) ==
    /\ \E x, y : is \subseteq {x, y}
    /\ \A i \in is : i.start \in Nat /\ i.end \in Nat /\ i.start < i.end

Meet(i, j) == i.start < j.end /\ j.start < i.end

\* Intervals that meet become one, from the first start to the last end.
LEMMA MergedMeet ==
    ASSUME NEW is, Pair(is), is # {}, \A i, j \in is : i.start < j.end
    PROVE  \E m : /\ Merge(is) = {m}
                  /\ \E i, j \in is : m.start = i.start /\ m.end = j.end
                  /\ \A i \in is : m.start <= i.start /\ i.end <= m.end
<1> DEFINE S == {i.start : i \in is}
           E == {i.end : i \in is}
           m == [start |-> Min(S), end |-> Max(E)]
<1>1. PICK x \in is, y \in is : is \subseteq {x, y}
  <2>1. PICK u, v : is \subseteq {u, v}
    BY DEF Pair
  <2>2. is = {u} \/ is = {v} \/ is = {u, v}
    BY <2>1
  <2> QED
    BY <2>2
<1>2. S \subseteq {x.start, y.start} /\ S # {} /\ x.start \in Int /\ y.start \in Int
  BY <1>1 DEF Pair
<1>3. E \subseteq {x.end, y.end} /\ E # {} /\ x.end \in Int /\ y.end \in Int
  BY <1>1 DEF Pair
<1>4. Min(S) \in S /\ \A n \in S : Min(S) <= n
  BY <1>2, MinMaxOfTwo
<1>5. Max(E) \in E /\ \A n \in E : n <= Max(E)
  BY <1>3, MinMaxOfTwo
<1>6. m.start = Min(S) /\ m.end = Max(E)
  OBVIOUS
<1>7. Merge(is) = {m}
  BY <1>1 DEF Merge
<1> HIDE DEF m
<1> QED
  BY <1>4, <1>5, <1>6, <1>7

\* Intervals that do not meet stay as they are, and apart.
LEMMA MergedApart ==
    ASSUME NEW is, Pair(is), ~\A i, j \in is : i.start < j.end
    PROVE  Merge(is) = is /\ \A i, j \in is : Meet(i, j) => i = j
<1>1. Merge(is) = is
  BY DEF Merge
<1>2. PICK i0 \in is, j0 \in is : ~(i0.start < j0.end)
  OBVIOUS
<1>3. i0 # j0
  BY <1>2 DEF Pair
<1>4. is = {i0, j0}
  BY <1>3 DEF Pair
<1>5. ~Meet(i0, j0) /\ ~Meet(j0, i0)
  BY <1>2 DEF Meet
<1> QED
  BY <1>1, <1>4, <1>5

\* What a merge may and may not do: it covers the same days and nights, keeps
\* a stay that crosses from one interval into the other, and is apart.
LEMMA MergeFacts ==
    ASSUME NEW is, Pair(is)
    PROVE  /\ \A b \in Merge(is) :
                /\ b.start \in Nat /\ b.end \in Nat
                /\ \E i, j \in is : b.start = i.start /\ b.end = j.end
                /\ \A d \in Nat : b.start <= d /\ d + 1 < b.end =>
                      \E i \in is : i.start <= d /\ d + 1 < i.end
           /\ \A i, j \in is : i = j \/ Meet(i, j) =>
                \E b \in Merge(is) : /\ b.start <= i.start /\ i.end <= b.end
                                     /\ b.start <= j.start /\ j.end <= b.end
           /\ \A b, c \in Merge(is) : Meet(b, c) => b = c
<1>1. CASE is = {}
  <2>1. Merge(is) = {}
    BY <1>1 DEF Merge
  <2> QED
    BY <1>1, <2>1
<1>2. CASE is # {} /\ \A i, j \in is : i.start < j.end
  <2>1. PICK m : /\ Merge(is) = {m}
                 /\ \E i, j \in is : m.start = i.start /\ m.end = j.end
                 /\ \A i \in is : m.start <= i.start /\ i.end <= m.end
    BY <1>2, MergedMeet
  <2>2. PICK i \in is, j \in is : m.start = i.start /\ m.end = j.end
    BY <2>1
  <2>3. /\ i.start \in Nat /\ i.end \in Nat /\ j.start \in Nat /\ j.end \in Nat
        /\ j.start < i.end
    BY <1>2 DEF Pair
  <2>4. ASSUME NEW d \in Nat, m.start <= d, d + 1 < m.end
        PROVE  \E k \in is : k.start <= d /\ d + 1 < k.end
    <3>1. (i.start <= d /\ d + 1 < i.end) \/ (j.start <= d /\ d + 1 < j.end)
      BY <2>2, <2>3, <2>4
    <3> QED
      BY <3>1
  <2> QED
    BY <2>1, <2>2, <2>3, <2>4
<1>3. CASE ~\A i, j \in is : i.start < j.end
  <2>1. Merge(is) = is /\ \A i, j \in is : Meet(i, j) => i = j
    BY <1>3, MergedApart
  <2>2. \A i \in is : /\ i.start \in Nat /\ i.end \in Nat
                      /\ i.start <= i.start /\ i.end <= i.end
    BY DEF Pair
  <2> QED
    BY <2>1, <2>2
<1> QED
  BY <1>1, <1>2, <1>3

-----------------------------------------------------------------------------
(* Where bookings are allowed: getBookableDateIntervals against the nights  *)
(* of the open semesters                                                    *)

\* The rows of at most two semesters.
SomeSemesters(S) == S \subseteq SemesterRows /\ \E x, y : S \subseteq {x, y}

Night(S, d) == \E s \in S : s.bookingsEnabled /\ s.startAt <= d /\ d < s.endAt

Upcoming(S, t) == {s \in S : /\ s.bookingsEnabled
                             /\ s.startAt <= s.endAt
                             /\ t + 1 <= s.endAt}
Open(S, t) == {Interval(Max({s.startAt, t + 1}), s.endAt) : s \in Upcoming(S, t)}

\* getBookableDateIntervals merges them.
LEMMA BookableIsMergedOpen ==
    ASSUME NEW S, NEW t PROVE BookableDateIntervals(S, t) = Merge(Open(S, t))
  BY DEF BookableDateIntervals, Open, Upcoming

\* The interval of a semester: from its first day or tomorrow to its last.
LEMMA OpenInterval ==
    ASSUME NEW S, SomeSemesters(S), NEW t \in Nat, NEW s \in Upcoming(S, t)
    PROVE  LET i == Interval(Max({s.startAt, t + 1}), s.endAt) IN
           /\ i \in Open(S, t)
           /\ i.start \in Nat /\ i.end \in Nat /\ i.start < i.end
           /\ i.start \in {s.startAt, t + 1} /\ s.startAt <= i.start /\ t + 1 <= i.start
           /\ i.end = s.endAt + 1
           /\ s.startAt \in Days /\ s.endAt \in Days
           /\ s.startAt \in Nat /\ s.endAt \in Nat
<1>1. /\ s.startAt \in Days /\ s.endAt \in Days
      /\ s.startAt \in Nat /\ s.endAt \in Nat
  BY DaysAreNumbers DEF SomeSemesters, SemesterRows, Upcoming
<1>2. PICK m : m = Max({s.startAt, t + 1})
  OBVIOUS
<1>3. m \in {s.startAt, t + 1} /\ \A y \in {s.startAt, t + 1} : y <= m
  <2>1. s.startAt \in Int /\ t + 1 \in Int
    BY <1>1
  <2> QED
    BY <1>2, <2>1, MinMaxOfTwo
<1>4. s.startAt <= s.endAt /\ t + 1 <= s.endAt
  BY DEF Upcoming
<1>5. Interval(m, s.endAt).start = m /\ Interval(m, s.endAt).end = s.endAt + 1
  BY DEF Interval
<1>6. Interval(m, s.endAt) \in Open(S, t)
  BY <1>2 DEF Open
<1> QED
  BY <1>1, <1>2, <1>3, <1>4, <1>5, <1>6

\* There are at most two of them, and none is empty.
LEMMA OpenIsPair ==
    ASSUME NEW S, SomeSemesters(S), NEW t \in Nat PROVE Pair(Open(S, t))
<1>1. \E x, y : Open(S, t) \subseteq {x, y}
  <2>1. PICK x, y : S \subseteq {x, y}
    BY DEF SomeSemesters
  <2>2. Open(S, t) \subseteq {Interval(Max({x.startAt, t + 1}), x.endAt),
                              Interval(Max({y.startAt, t + 1}), y.endAt)}
    BY <2>1 DEF Open, Upcoming
  <2> QED
    BY <2>2
<1>2. \A i \in Open(S, t) : i.start \in Nat /\ i.end \in Nat /\ i.start < i.end
  <2> TAKE i \in Open(S, t)
  <2>1. PICK s \in Upcoming(S, t) : i = Interval(Max({s.startAt, t + 1}), s.endAt)
    BY DEF Open
  <2> QED
    BY <2>1, OpenInterval
<1> QED
  BY <1>1, <1>2 DEF Pair

\* A bookable interval begins after today, and its nights are those of open
\* semesters; no two bookable intervals share a day.
LEMMA BookableFacts ==
    ASSUME NEW S, SomeSemesters(S), NEW t \in Nat
    PROVE  /\ \A b \in BookableDateIntervals(S, t) :
                /\ b.start \in Nat /\ b.end \in Nat /\ t + 1 <= b.start
                /\ b.end - 1 \in Days
                /\ \E n \in Days : n <= b.start
                /\ \A d \in Nat : b.start <= d /\ d + 1 < b.end => Night(S, d)
           /\ \A b, c \in BookableDateIntervals(S, t) : Meet(b, c) => b = c
<1>1. Pair(Open(S, t)) /\ BookableDateIntervals(S, t) = Merge(Open(S, t))
  BY OpenIsPair, BookableIsMergedOpen
<1>2. \A i \in Open(S, t) : \E s \in Upcoming(S, t) :
          /\ i.start \in Nat /\ i.end \in Nat /\ i.start < i.end
          /\ i.start \in {s.startAt, t + 1} /\ s.startAt <= i.start /\ t + 1 <= i.start
          /\ i.end = s.endAt + 1
          /\ s.startAt \in Days /\ s.endAt \in Days
          /\ s.startAt \in Nat /\ s.endAt \in Nat
  <2>1. ASSUME NEW i \in Open(S, t)
        PROVE  \E s \in Upcoming(S, t) : i = Interval(Max({s.startAt, t + 1}), s.endAt)
    BY DEF Open
  <2> QED
    BY <2>1, OpenInterval
<1>3. ASSUME NEW b \in Merge(Open(S, t))
      PROVE  /\ b.start \in Nat /\ b.end \in Nat /\ t + 1 <= b.start
             /\ b.end - 1 \in Days
             /\ \E n \in Days : n <= b.start
             /\ \A d \in Nat : b.start <= d /\ d + 1 < b.end => Night(S, d)
  <2>1. PICK i \in Open(S, t), j \in Open(S, t) : b.start = i.start /\ b.end = j.end
    BY <1>1, MergeFacts
  <2>2. PICK s \in Upcoming(S, t) :
          /\ i.start \in Nat /\ s.startAt <= i.start /\ t + 1 <= i.start
          /\ s.startAt \in Days
    BY <1>2
  <2>3. PICK u \in Upcoming(S, t) :
          /\ j.end \in Nat /\ j.end = u.endAt + 1 /\ u.endAt \in Days /\ u.endAt \in Nat
    BY <1>2
  <2>4. ASSUME NEW d \in Nat, b.start <= d, d + 1 < b.end PROVE Night(S, d)
    <3>1. PICK k \in Open(S, t) : k.start <= d /\ d + 1 < k.end
      BY <1>1, <1>3, <2>4, MergeFacts
    <3>2. PICK v \in Upcoming(S, t) :
            /\ k.start \in Nat /\ v.startAt <= k.start /\ k.end = v.endAt + 1
            /\ v.startAt \in Nat /\ v.endAt \in Nat
      BY <1>2
    <3>3. v.startAt <= d /\ d < v.endAt
      BY <3>1, <3>2
    <3> QED
      BY <3>3 DEF Night, Upcoming
  <2>5. j.end - 1 = u.endAt
    BY <2>3
  <2> QED
    BY <2>1, <2>2, <2>3, <2>4, <2>5
<1> QED
  BY <1>1, <1>3, MergeFacts

\* A stay after today whose nights are all in open semesters lies within one
\* bookable interval, across two semesters too.
LEMMA NightsAreBookable ==
    ASSUME NEW S, SomeSemesters(S), NEW t \in Nat, NEW first \in Nat, NEW last \in Nat,
           t < first, first < last, \A d \in Nat : first <= d /\ d < last => Night(S, d)
    PROVE  \E b \in BookableDateIntervals(S, t) : b.start <= first /\ last < b.end
<1>1. Pair(Open(S, t)) /\ BookableDateIntervals(S, t) = Merge(Open(S, t))
  BY OpenIsPair, BookableIsMergedOpen
<1>2. ASSUME NEW d \in Nat, first <= d, NEW s \in S, s.bookingsEnabled,
             s.startAt <= d, d < s.endAt
      PROVE  \E i \in Open(S, t) :
                /\ i.start \in Nat /\ i.end \in Nat /\ i.start < i.end
                /\ i.start <= d /\ i.end = s.endAt + 1 /\ s.endAt \in Nat
                /\ i.start \in {s.startAt, t + 1}
  <2>1. s.startAt \in Nat /\ s.endAt \in Nat
    BY DaysAreNumbers DEF SomeSemesters, SemesterRows
  <2>2. s \in Upcoming(S, t)
    BY <1>2, <2>1 DEF Upcoming
  <2>3. PICK i \in Open(S, t) :
          /\ i.start \in Nat /\ i.end \in Nat /\ i.start < i.end
          /\ i.start \in {s.startAt, t + 1} /\ i.end = s.endAt + 1
    BY <2>2, OpenInterval
  <2>4. i.start <= d
    BY <1>2, <2>3
  <2> QED
    BY <2>1, <2>3, <2>4
<1>3. PICK s \in S : s.bookingsEnabled /\ s.startAt <= first /\ first < s.endAt
  BY DEF Night
<1>4. PICK i \in Open(S, t) :
         /\ i.start \in Nat /\ i.end \in Nat /\ i.start < i.end
         /\ i.start <= first /\ i.end = s.endAt + 1 /\ s.endAt \in Nat
  BY <1>2, <1>3
<1>5. CASE last <= s.endAt
  <2>1. PICK b \in Merge(Open(S, t)) : b.start <= i.start /\ i.end <= b.end
    BY <1>1, MergeFacts
  <2>2. b.start \in Nat /\ b.end \in Nat
    BY <1>1, MergeFacts
  <2>3. b.start <= first /\ last < b.end
    BY <1>4, <1>5, <2>1, <2>2
  <2> QED
    BY <1>1, <2>3
<1>6. CASE s.endAt < last
  <2>1. PICK u \in S : u.bookingsEnabled /\ u.startAt <= s.endAt /\ s.endAt < u.endAt
    BY <1>3, <1>4, <1>6 DEF Night
  <2>2. PICK v \in S : v.bookingsEnabled /\ v.startAt <= last - 1 /\ last - 1 < v.endAt
    <3>1. last - 1 \in Nat /\ first <= last - 1 /\ last - 1 < last
      OBVIOUS
    <3> QED
      BY <3>1 DEF Night
  <2>3. u.endAt \in Nat /\ v.endAt \in Nat
    BY DaysAreNumbers DEF SomeSemesters, SemesterRows
  <2>4. u # s /\ v # s
    BY <1>4, <1>6, <2>1, <2>2, <2>3
  <2>5. u = v
    BY <2>4 DEF SomeSemesters
  <2>6. PICK j \in Open(S, t) :
          /\ j.start \in Nat /\ j.end \in Nat /\ j.start < j.end
          /\ j.start <= s.endAt /\ j.end = u.endAt + 1
    BY <1>2, <1>3, <1>4, <2>1
  <2>7. last < j.end
    BY <2>2, <2>3, <2>5, <2>6
  <2>8. Meet(i, j)
    BY <1>4, <2>6, <2>7 DEF Meet
  <2>9. PICK b \in Merge(Open(S, t)) : b.start <= i.start /\ j.end <= b.end
    BY <1>1, <2>8, MergeFacts
  <2>10. b.start \in Nat /\ b.end \in Nat
    BY <1>1, MergeFacts
  <2>11. b.start <= first /\ last < b.end
    BY <1>4, <2>6, <2>7, <2>9, <2>10
  <2> QED
    BY <1>1, <2>11
<1>7. last <= s.endAt \/ s.endAt < last
  BY <1>4
<1> QED
  BY <1>5, <1>6, <1>7

-----------------------------------------------------------------------------
(* getValidBookingIntervals: the runs of free days in what is bookable      *)

ValidOf(S, t, occupied) ==
    ValidBookingIntervals(BookableDateIntervals(S, t), occupied)

\* A valid interval is a run of free days, of two at least, within a bookable
\* interval, and it ends where that or the free days end.
LEMMA ValidFacts ==
    ASSUME DaysAreARun, NEW S, SomeSemesters(S), NEW t \in Nat, NEW occupied,
           NEW i \in ValidOf(S, t, occupied)
    PROVE  /\ i \in Intervals
           /\ i.start \in Days /\ i.start \in Nat
           /\ i.end - 1 \in Days /\ i.end \in Nat
           /\ t + 1 <= i.start /\ i.start + 1 < i.end
           /\ \A d \in Nat : i.start <= d /\ d < i.end =>
                 d \in Days /\ IsDateAvailable(d, occupied)
           /\ \E b \in BookableDateIntervals(S, t) :
                 /\ b.start <= i.start /\ i.end <= b.end
                 /\ i.start = b.start \/ ~IsDateAvailable(i.start - 1, occupied)
                 /\ i.end = b.end \/ ~IsDateAvailable(i.end, occupied)
<1>1. /\ i \in Intervals /\ i.end - i.start >= 2
      /\ \A d \in Days : i.start <= d /\ d < i.end => IsDateAvailable(d, occupied)
  BY DEF ValidOf, ValidBookingIntervals, IsIntervalGteMinimumDays,
         MinimumBookingDurationDays, Contains
<1>2. PICK b \in BookableDateIntervals(S, t) :
         /\ b.start <= i.start /\ i.end <= b.end
         /\ i.start = b.start \/ ~IsDateAvailable(i.start - 1, occupied)
         /\ i.end = b.end \/ ~IsDateAvailable(i.end, occupied)
  BY DEF ValidOf, ValidBookingIntervals
<1>3. /\ i.start \in Days /\ i.start \in Nat /\ i.end - 1 \in Days
      /\ i.end \in Nat /\ i.end - 1 \in Nat
  BY <1>1, DaysAreNumbers DEF Intervals, Interval
<1>4. b.start \in Nat /\ t + 1 <= b.start
  BY BookableFacts
<1>5. t + 1 <= i.start /\ i.start + 1 < i.end
  BY <1>1, <1>2, <1>3, <1>4
<1>6. ASSUME NEW d \in Nat, i.start <= d, d < i.end
      PROVE  d \in Days /\ IsDateAvailable(d, occupied)
  <2>1. d <= i.end - 1
    BY <1>3, <1>6
  <2>2. d \in Days
    BY <1>3, <1>6, <2>1 DEF DaysAreARun
  <2> QED
    BY <1>1, <1>6, <2>2
<1> QED
  BY <1>1, <1>2, <1>3, <1>5, <1>6

\* No two valid intervals share a day.
LEMMA ValidAreApart ==
    ASSUME DaysAreARun, NEW S, SomeSemesters(S), NEW t \in Nat, NEW occupied,
           NEW i \in ValidOf(S, t, occupied), NEW k \in ValidOf(S, t, occupied),
           NEW d \in Nat, Contains(i, d), Contains(k, d)
    PROVE  i = k
<1>1. /\ i.start <= d /\ d < i.end /\ k.start <= d /\ d < k.end
      /\ i.start \in Nat /\ i.end \in Nat /\ k.start \in Nat /\ k.end \in Nat
      /\ i \in Intervals /\ k \in Intervals
  BY ValidFacts DEF Contains
<1>2. PICK b \in BookableDateIntervals(S, t) :
         /\ b.start <= i.start /\ i.end <= b.end
         /\ i.start = b.start \/ ~IsDateAvailable(i.start - 1, occupied)
         /\ i.end = b.end \/ ~IsDateAvailable(i.end, occupied)
  BY ValidFacts
<1>3. PICK c \in BookableDateIntervals(S, t) :
         /\ c.start <= k.start /\ k.end <= c.end
         /\ k.start = c.start \/ ~IsDateAvailable(k.start - 1, occupied)
         /\ k.end = c.end \/ ~IsDateAvailable(k.end, occupied)
  BY ValidFacts
<1>4. b.start \in Nat /\ b.end \in Nat /\ c.start \in Nat /\ c.end \in Nat
  BY BookableFacts
<1>5. Meet(b, c)
  BY <1>1, <1>2, <1>3, <1>4 DEF Meet
<1>6. b = c
  BY <1>5, BookableFacts
<1>7. ~(i.start < k.start)
  <2> SUFFICES ASSUME i.start < k.start PROVE FALSE
    OBVIOUS
  <2>1. k.start - 1 \in Nat /\ i.start <= k.start - 1 /\ k.start - 1 < i.end
    BY <1>1
  <2>2. IsDateAvailable(k.start - 1, occupied)
    BY <2>1, ValidFacts
  <2>3. k.start # c.start
    BY <1>1, <1>2, <1>4, <1>6
  <2> QED
    BY <1>3, <2>2, <2>3
<1>8. ~(k.start < i.start)
  <2> SUFFICES ASSUME k.start < i.start PROVE FALSE
    OBVIOUS
  <2>1. i.start - 1 \in Nat /\ k.start <= i.start - 1 /\ i.start - 1 < k.end
    BY <1>1
  <2>2. IsDateAvailable(i.start - 1, occupied)
    BY <2>1, ValidFacts
  <2>3. i.start # b.start
    BY <1>1, <1>3, <1>4, <1>6
  <2> QED
    BY <1>2, <2>2, <2>3
<1>9. ~(i.end < k.end)
  <2> SUFFICES ASSUME i.end < k.end PROVE FALSE
    OBVIOUS
  <2>1. k.start <= i.end
    BY <1>1
  <2>2. IsDateAvailable(i.end, occupied)
    BY <1>1, <2>1, ValidFacts
  <2>3. i.end # b.end
    BY <1>1, <1>3, <1>4, <1>6
  <2> QED
    BY <1>2, <2>2, <2>3
<1>10. ~(k.end < i.end)
  <2> SUFFICES ASSUME k.end < i.end PROVE FALSE
    OBVIOUS
  <2>1. i.start <= k.end
    BY <1>1
  <2>2. IsDateAvailable(k.end, occupied)
    BY <1>1, <2>1, ValidFacts
  <2>3. k.end # c.end
    BY <1>1, <1>2, <1>4, <1>6
  <2> QED
    BY <1>3, <2>2, <2>3
<1>11. i.start = k.start /\ i.end = k.end
  BY <1>1, <1>7, <1>8, <1>9, <1>10
<1> QED
  BY <1>1, <1>11 DEF Intervals, Interval

\* Free days within a bookable interval lie within a valid one.
LEMMA FreeRunIsValid ==
    ASSUME DaysAreARun, NEW S, SomeSemesters(S), NEW t \in Nat, NEW occupied,
           NEW first \in Days, NEW last \in Days, first < last,
           NEW b \in BookableDateIntervals(S, t), b.start <= first, last < b.end,
           \A d \in Nat : first <= d /\ d <= last => IsDateAvailable(d, occupied)
    PROVE  \E i \in ValidOf(S, t, occupied) : i.start <= first /\ last < i.end
<1> DEFINE L == {x \in Nat : /\ b.start <= x /\ x <= first
                             /\ \A d \in Nat : x <= d /\ d <= first =>
                                   IsDateAvailable(d, occupied)}
           H == {x \in Nat : /\ last <= x /\ x < b.end
                             /\ \A d \in Nat : last <= d /\ d <= x =>
                                   IsDateAvailable(d, occupied)}
<1>1. /\ first \in Nat /\ last \in Nat /\ b.start \in Nat /\ b.end \in Nat
      /\ b.end - 1 \in Days
  BY DaysAreNumbers, BookableFacts
<1>2. PICK lo \in L : \A x \in L : lo <= x
  <2>1. \A d \in Nat : first <= d /\ d <= first => IsDateAvailable(d, occupied)
    BY <1>1
  <2>2. first \in L
    BY <1>1, <2>1
  <2>3. L \subseteq Nat /\ L # {}
    BY <2>2
  <2> HIDE DEF L
  <2> QED
    BY <2>3, Smallest
<1>3. PICK hi \in H : \A x \in H : x <= hi
  <2>1. \A d \in Nat : last <= d /\ d <= last => IsDateAvailable(d, occupied)
    BY <1>1
  <2>2. last \in H
    BY <1>1, <2>1
  <2>3. H \subseteq Nat /\ H # {}
    BY <2>2
  <2>4. \A x \in H : x <= b.end
    BY <1>1
  <2> HIDE DEF H
  <2> QED
    BY <1>1, <2>3, <2>4, Largest
<1>4. /\ lo \in Nat /\ b.start <= lo /\ lo <= first
      /\ \A d \in Nat : lo <= d /\ d <= first => IsDateAvailable(d, occupied)
  OBVIOUS
<1>5. /\ hi \in Nat /\ last <= hi /\ hi < b.end
      /\ \A d \in Nat : last <= d /\ d <= hi => IsDateAvailable(d, occupied)
  OBVIOUS
<1>6. lo = b.start \/ ~IsDateAvailable(lo - 1, occupied)
  <2> SUFFICES ASSUME lo # b.start, IsDateAvailable(lo - 1, occupied) PROVE FALSE
    OBVIOUS
  <2>1. lo - 1 \in Nat /\ b.start <= lo - 1 /\ lo - 1 <= first
    BY <1>1, <1>4
  <2>2. ASSUME NEW d \in Nat, lo - 1 <= d, d <= first PROVE IsDateAvailable(d, occupied)
    <3>1. d = lo - 1 \/ lo <= d
      BY <1>4, <2>2
    <3> QED
      BY <1>4, <2>2, <3>1
  <2>3. lo - 1 \in L
    BY <2>1, <2>2
  <2> QED
    BY <1>2, <1>4, <2>3
<1>7. hi + 1 = b.end \/ ~IsDateAvailable(hi + 1, occupied)
  <2> SUFFICES ASSUME hi + 1 # b.end, IsDateAvailable(hi + 1, occupied) PROVE FALSE
    OBVIOUS
  <2>1. hi + 1 \in Nat /\ last <= hi + 1 /\ hi + 1 < b.end
    BY <1>1, <1>5
  <2>2. ASSUME NEW d \in Nat, last <= d, d <= hi + 1 PROVE IsDateAvailable(d, occupied)
    <3>1. d = hi + 1 \/ d <= hi
      BY <1>5, <2>2
    <3> QED
      BY <1>5, <2>2, <3>1
  <2>3. hi + 1 \in H
    BY <2>1, <2>2
  <2> QED
    BY <1>3, <1>5, <2>3
<1> HIDE DEF L, H
<1>8. lo \in Days /\ hi \in Days
  <2>1. PICK n \in Days : n <= b.start
    BY BookableFacts
  <2>2. n \in Nat /\ n <= lo
    BY <1>1, <1>4, <2>1, DaysAreNumbers
  <2>3. first <= hi /\ hi <= b.end - 1
    BY <1>1, <1>5
  <2> QED
    BY <1>1, <1>4, <1>5, <2>2, <2>3 DEF DaysAreARun
<1> DEFINE i == Interval(lo, hi)
<1>9. i.start = lo /\ i.end = hi + 1 /\ i \in Intervals
  BY <1>8 DEF Interval, Intervals
<1> HIDE DEF i
<1>10. i.end - i.start >= 2
  BY <1>1, <1>4, <1>5, <1>9
<1>11. ASSUME NEW d \in Days, i.start <= d, d < i.end PROVE IsDateAvailable(d, occupied)
  <2>1. d \in Nat /\ lo <= d /\ d <= hi
    BY <1>5, <1>9, <1>11, DaysAreNumbers
  <2>2. d <= first \/ (first <= d /\ d <= last) \/ last <= d
    BY <1>1, <2>1
  <2> QED
    BY <1>4, <1>5, <2>1, <2>2
<1>12. i.start <= first /\ last < i.end /\ b.start <= i.start /\ i.end <= b.end
  BY <1>1, <1>4, <1>5, <1>9
<1>13. i \in ValidOf(S, t, occupied)
  BY <1>6, <1>7, <1>9, <1>10, <1>11, <1>12
     DEF ValidOf, ValidBookingIntervals, IsIntervalGteMinimumDays,
         MinimumBookingDurationDays, Contains
<1> QED
  BY <1>12, <1>13

-----------------------------------------------------------------------------
(* What is accepted, and what is shown, in one state *)

\* What calls remember, as far as bookings and semesters are written from it.
Remembers(call) ==
    /\ call.pc \in {"occupied", "cost", "create"} => call.stay \in Stays
    /\ call.pc = "createSemester" => call.update \in SemesterUpdates

\* The clock, the semesters and the bookings are what they should be.
CalendarInv ==
    /\ Shapes
    /\ today \in Nat
    /\ semester \in [Semesters -> SemesterRows \cup {NoRow}]
    /\ \A p \in Clients : Remembers(req[p])

\* There are at most two semesters.
LEMMA SemestersAreSome ==
    ASSUME CalendarInv PROVE SomeSemesters(SemesterSet)
<1>1. SemesterSet \subseteq SemesterRows
  BY DEF CalendarInv, SemesterSet, Exists
<1>2. SemesterSet \subseteq {semester["SPRING"], semester["FALL"]}
  BY DEF SemesterSet, Semesters
<1> QED
  BY <1>1, <1>2 DEF SomeSemesters

\* A day is available if no confirmed booking of one of the cabins holds it.
LEMMA AvailableIsNotHeld ==
    ASSUME Shapes, NEW cabins, NEW d \in Nat
    PROVE  IsDateAvailable(d, Occupied(cabins)) <=> ~HeldBy(d, cabins)
<1>1. ASSUME NEW b \in BookingIds
      PROVE  Contains(Interval(booking[b].start, booking[b].end), d) <=>
                 booking[b].start <= d /\ d <= booking[b].end
  <2>1. booking[b].start \in Nat /\ booking[b].end \in Nat
    BY BookingShape, DaysAreNumbers
  <2> QED
    BY <2>1 DEF Contains, Interval
<1>2. ASSUME HeldBy(d, cabins) PROVE ~IsDateAvailable(d, Occupied(cabins))
  <2>1. PICK b \in ConfirmedIds : \E c \in cabins : Covers(booking[b], <<c, d>>)
    BY <1>2 DEF HeldBy
  <2>2. PICK c \in cabins : Covers(booking[b], <<c, d>>)
    BY <2>1
  <2>3. b \in BookingIds /\ booking[b].status = "CONFIRMED" /\ c \in booking[b].cabins
        /\ booking[b].start <= d /\ d <= booking[b].end
    BY <2>2 DEF ConfirmedIds, Covers
  <2>4. Interval(booking[b].start, booking[b].end) \in Occupied(cabins)
    BY <2>3 DEF Occupied, OccupiedDateIntervals, BookingSet
  <2> QED
    BY <1>1, <2>3, <2>4 DEF IsDateAvailable
<1>3. ASSUME ~IsDateAvailable(d, Occupied(cabins)) PROVE HeldBy(d, cabins)
  <2>1. PICK o \in Occupied(cabins) : Contains(o, d)
    BY <1>3 DEF IsDateAvailable
  <2>2. PICK c \in cabins : o \in OccupiedDateIntervals(BookingSet, c)
    BY DEF Occupied
  <2>3. PICK b \in BookingIds :
          /\ booking[b].status = "CONFIRMED" /\ c \in booking[b].cabins
          /\ o = Interval(booking[b].start, booking[b].end)
    BY <2>2 DEF OccupiedDateIntervals, BookingSet
  <2>4. Covers(booking[b], <<c, d>>)
    BY <1>1, <2>1, <2>3 DEF Covers
  <2> QED
    BY <2>3, <2>4 DEF HeldBy, ConfirmedIds
<1> QED
  BY <1>2, <1>3

\* validateBooking comes down to one valid interval around the stay.
LEMMA AcceptedIsWithin ==
    ASSUME DaysAreARun, CalendarInv, NEW cabins, cabins # {}, NEW occupied,
           NEW first \in Nat, NEW last \in Nat
    PROVE  Accepted(first, last, cabins, Valid(occupied)) <=>
               /\ today <= first /\ first < last
               /\ \E i \in Valid(occupied) : i.start <= first /\ last < i.end
<1> DEFINE s == Stay(first, last, cabins)
<1>1. /\ s.start = first /\ s.end = last /\ s.cabins = cabins
      /\ s.guests.internal = 0 /\ s.guests.external = 0
  BY DEF Stay
<1> HIDE DEF s
<1>2. IsIntervalGteMinimumDays(Interval(first, last)) <=> first < last
  BY DEF IsIntervalGteMinimumDays, MinimumBookingDurationDays, Interval
<1>3. IsBookingIntervalAvailable(s, Valid(occupied)) <=>
          \E i \in Valid(occupied) : i.start <= first /\ last < i.end
  BY <1>1 DEF IsBookingIntervalAvailable, Engulfs
<1>4. ASSUME first < last, NEW i \in Valid(occupied), i.start <= first, last < i.end
      PROVE  IsDateBookable(first, Valid(occupied)) /\ IsDateBookable(last, Valid(occupied))
  <2>1. i.start \in Nat /\ i.end \in Nat
    BY SemestersAreSome, ValidFacts DEF Valid, ValidOf, CalendarInv
  <2>2. Contains(i, first) /\ Contains(i, last)
    BY <1>4, <2>1 DEF Contains
  <2> QED
    BY <2>2 DEF IsDateBookable
<1>5. today \in Nat /\ 0 + 0 <= 0
  BY DEF CalendarInv
<1>6. Accepted(first, last, cabins, Valid(occupied)) <=>
          /\ today <= first /\ today <= last /\ cabins # {} /\ first <= last
          /\ IsIntervalGteMinimumDays(Interval(first, last))
          /\ IsDateBookable(first, Valid(occupied))
          /\ IsDateBookable(last, Valid(occupied))
          /\ IsBookingIntervalAvailable(s, Valid(occupied))
  BY <1>1, <1>5 DEF Accepted, ValidateBooking, s
<1> QED
  BY <1>2, <1>3, <1>4, <1>5, <1>6

\* The free stays in open semesters are accepted and no others.
LEMMA FreeStaysAreAccepted ==
    ASSUME DaysAreARun, CalendarInv PROVE AcceptsExactlyFreeStays
<1> SUFFICES ASSUME NEW cabins \in (SUBSET Cabins) \ {{}}, NEW first \in Days, NEW last \in Days
    PROVE LET valid == Valid(Occupied(cabins))
              free == {d \in Days : ~HeldBy(d, cabins)}
              nights == {d \in Days :
                            \E s \in OpenSemesters : s.startAt <= d /\ d < s.endAt}
          IN  Accepted(first, last, cabins, valid) <=>
                  /\ today < first /\ first < last
                  /\ first .. last \subseteq free
                  /\ first .. last - 1 \subseteq nights
  BY DEF AcceptsExactlyFreeStays
<1> DEFINE occupied == Occupied(cabins)
           valid == Valid(occupied)
           free == {d \in Days : ~HeldBy(d, cabins)}
           nights == {d \in Days :
                         \E s \in OpenSemesters : s.startAt <= d /\ d < s.endAt}
<1>1. /\ first \in Nat /\ last \in Nat /\ today \in Nat /\ Shapes
      /\ SomeSemesters(SemesterSet) /\ valid = ValidOf(SemesterSet, today, occupied)
  BY DaysAreNumbers, SemestersAreSome DEF CalendarInv, Valid, ValidOf
<1>2. \A d \in Nat : Night(SemesterSet, d) <=>
          \E s \in OpenSemesters : s.startAt <= d /\ d < s.endAt
  BY DEF Night, OpenSemesters
<1>3. \A d \in Nat : IsDateAvailable(d, occupied) <=> ~HeldBy(d, cabins)
  BY <1>1, AvailableIsNotHeld
<1>4. Accepted(first, last, cabins, valid) <=>
          /\ today <= first /\ first < last
          /\ \E i \in valid : i.start <= first /\ last < i.end
  BY <1>1, AcceptedIsWithin
<1> HIDE DEF occupied, valid
<1>5. ASSUME today <= first, first < last,
             NEW i \in valid, i.start <= first, last < i.end
      PROVE  /\ today < first
             /\ first .. last \subseteq free
             /\ first .. last - 1 \subseteq nights
  <2>1. /\ i.start \in Nat /\ i.end \in Nat /\ today + 1 <= i.start
        /\ \A d \in Nat : i.start <= d /\ d < i.end =>
              d \in Days /\ IsDateAvailable(d, occupied)
    BY <1>1, ValidFacts
  <2>2. PICK b \in BookableDateIntervals(SemesterSet, today) :
          b.start <= i.start /\ i.end <= b.end
    BY <1>1, ValidFacts
  <2>3. /\ b.start \in Nat /\ b.end \in Nat
        /\ \A d \in Nat : b.start <= d /\ d + 1 < b.end => Night(SemesterSet, d)
    BY <1>1, BookableFacts
  <2>4. today < first
    BY <1>1, <1>5, <2>1
  <2>5. ASSUME NEW d \in first .. last PROVE d \in free
    <3>1. d \in Nat /\ i.start <= d /\ d < i.end
      BY <1>1, <1>5, <2>1
    <3> QED
      BY <1>3, <2>1, <3>1
  <2>6. ASSUME NEW d \in first .. last - 1 PROVE d \in nights
    <3>1. /\ d \in Nat /\ i.start <= d /\ d < i.end
          /\ b.start <= d /\ d + 1 < b.end
      BY <1>1, <1>5, <2>1, <2>2, <2>3
    <3> QED
      BY <1>2, <2>1, <2>3, <3>1
  <2> QED
    BY <2>4, <2>5, <2>6
<1>6. ASSUME today < first, first < last,
             first .. last \subseteq free, first .. last - 1 \subseteq nights
      PROVE  today <= first /\ \E i \in valid : i.start <= first /\ last < i.end
  <2>1. ASSUME NEW d \in Nat, first <= d, d <= last PROVE IsDateAvailable(d, occupied)
    <3>1. d \in first .. last
      BY <1>1, <2>1
    <3> QED
      BY <1>3, <1>6, <3>1
  <2>2. ASSUME NEW d \in Nat, first <= d, d < last PROVE Night(SemesterSet, d)
    <3>1. d \in first .. last - 1
      BY <1>1, <2>2
    <3> QED
      BY <1>2, <1>6, <3>1
  <2>3. PICK b \in BookableDateIntervals(SemesterSet, today) :
          b.start <= first /\ last < b.end
    BY <1>1, <1>6, <2>2, NightsAreBookable
  <2>4. \E i \in ValidOf(SemesterSet, today, occupied) : i.start <= first /\ last < i.end
    BY <1>1, <1>6, <2>1, <2>3, FreeRunIsValid
  <2> QED
    BY <1>1, <1>6, <2>4
<1>7. Accepted(first, last, cabins, valid) <=>
          /\ today < first /\ first < last
          /\ first .. last \subseteq free
          /\ first .. last - 1 \subseteq nights
  BY <1>4, <1>5, <1>6
<1> QED
  BY <1>7 DEF valid, occupied

\* The calendar agrees with what is accepted.
LEMMA CalendarIsRight ==
    ASSUME DaysAreARun, CalendarInv PROVE CalendarShowsWhatIsAccepted
<1> SUFFICES ASSUME NEW cabins \in (SUBSET {c \in Cabins : cabin[c] # NoRow}) \ {{}},
                    NEW d \in Days
    PROVE LET occupied == Occupied(cabins)
              valid == Valid(occupied)
              accepted == {i \in Intervals :
                              Accepted(i.start, i.end - 1, cabins, valid)}
              day == CalendarDay(d, valid, occupied, cabin, cabins,
                                 [internal |-> 0, external |-> 0])
              covering == {i \in accepted : Contains(i, d)}
          IN  /\ day.bookable <=> covering # {}
              /\ day.availableForCheckIn <=>
                    day.bookable /\ \A i \in covering : i.start = d
              /\ day.availableForCheckOut <=>
                    day.bookable /\ \A i \in covering : i.end = d + 1
              /\ day.bookable => day.available
  BY DEF CalendarShowsWhatIsAccepted
<1> DEFINE occupied == Occupied(cabins)
           valid == Valid(occupied)
           accepted == {i \in Intervals :
                           Accepted(i.start, i.end - 1, cabins, valid)}
           day == CalendarDay(d, valid, occupied, cabin, cabins,
                              [internal |-> 0, external |-> 0])
           covering == {i \in accepted : Contains(i, d)}
<1>1. /\ d \in Nat /\ today \in Nat
      /\ SomeSemesters(SemesterSet) /\ valid = ValidOf(SemesterSet, today, occupied)
  BY DaysAreNumbers, SemestersAreSome DEF CalendarInv, Valid, ValidOf
<1>2. /\ day.bookable <=> \E i \in valid : Contains(i, d)
      /\ day.availableForCheckIn <=> \E i \in valid : i.start = d
      /\ day.availableForCheckOut <=> \E i \in valid : i.end = d + 1
      /\ day.available <=> IsDateAvailable(d, occupied)
  BY DEF CalendarDay, IsDateBookable, IsOnlyAvailableForCheckIn, IsOnlyAvailableForCheckOut
<1>3. ASSUME NEW j \in Intervals
      PROVE  /\ j.start \in Nat /\ j.end \in Nat /\ j.end - 1 \in Nat
             /\ j \in accepted <=>
                   /\ today <= j.start /\ j.start < j.end - 1
                   /\ \E i \in valid : i.start <= j.start /\ j.end - 1 < i.end
  <2>1. j.start \in Nat /\ j.end \in Nat /\ j.end - 1 \in Nat
    BY DaysAreNumbers DEF Intervals, Interval
  <2> QED
    BY <2>1, AcceptedIsWithin
<1> HIDE DEF occupied, valid, accepted, day
<1>4. ASSUME NEW i \in valid, Contains(i, d)
      PROVE  i \in covering /\ IsDateAvailable(d, occupied)
  <2>1. /\ i \in Intervals /\ i.start \in Nat /\ i.end \in Nat
        /\ today + 1 <= i.start /\ i.start + 1 < i.end
        /\ \A n \in Nat : i.start <= n /\ n < i.end => IsDateAvailable(n, occupied)
    BY <1>1, ValidFacts
  <2>2. i.start <= i.start /\ i.end - 1 < i.end /\ today <= i.start /\ i.start < i.end - 1
    BY <1>1, <2>1
  <2>3. i \in accepted
    BY <1>3, <2>1, <2>2
  <2> QED
    BY <1>1, <1>4, <2>1, <2>3 DEF Contains
<1>5. ASSUME NEW j \in covering
      PROVE  \E k \in valid : /\ k.start <= j.start /\ j.end <= k.end
                              /\ Contains(k, d) /\ Contains(j, d)
                              /\ k.start \in Nat /\ k.end \in Nat
                              /\ j.start \in Nat /\ j.end \in Nat
  <2>1. j \in Intervals /\ j \in accepted /\ Contains(j, d)
    BY DEF accepted
  <2>2. PICK k \in valid : k.start <= j.start /\ j.end - 1 < k.end
    BY <1>3, <2>1
  <2>3. k.start \in Nat /\ k.end \in Nat /\ j.start \in Nat /\ j.end \in Nat
    BY <1>1, <1>3, <2>1, ValidFacts
  <2>4. j.end <= k.end /\ Contains(k, d)
    BY <1>1, <2>1, <2>2, <2>3 DEF Contains
  <2> QED
    BY <2>1, <2>2, <2>3, <2>4
<1>6. \A i, k \in valid : Contains(i, d) /\ Contains(k, d) => i = k
  BY <1>1, ValidAreApart
<1> HIDE DEF covering
<1>7. day.bookable <=> covering # {}
  BY <1>2, <1>4, <1>5
<1>8. day.availableForCheckIn <=> day.bookable /\ \A i \in covering : i.start = d
  <2>1. ASSUME NEW i \in valid, i.start = d
        PROVE  Contains(i, d) /\ \A j \in covering : j.start = d
    <3>1. Contains(i, d)
      BY <1>1, <2>1, ValidFacts DEF Contains
    <3>2. ASSUME NEW j \in covering PROVE j.start = d
      <4>1. PICK k \in valid : /\ k.start <= j.start /\ Contains(k, d) /\ Contains(j, d)
                               /\ k.start \in Nat /\ j.start \in Nat
        BY <1>5
      <4>2. k = i
        BY <1>6, <3>1, <4>1
      <4> QED
        BY <1>1, <2>1, <4>1, <4>2 DEF Contains
    <3> QED
      BY <3>1, <3>2
  <2> QED
    BY <1>2, <1>4, <2>1
<1>9. day.availableForCheckOut <=> day.bookable /\ \A i \in covering : i.end = d + 1
  <2>1. ASSUME NEW i \in valid, i.end = d + 1
        PROVE  Contains(i, d) /\ \A j \in covering : j.end = d + 1
    <3>1. Contains(i, d)
      BY <1>1, <2>1, ValidFacts DEF Contains
    <3>2. ASSUME NEW j \in covering PROVE j.end = d + 1
      <4>1. PICK k \in valid : /\ j.end <= k.end /\ Contains(k, d) /\ Contains(j, d)
                               /\ k.end \in Nat /\ j.end \in Nat
        BY <1>5
      <4>2. k = i
        BY <1>6, <3>1, <4>1
      <4> QED
        BY <1>1, <2>1, <4>1, <4>2 DEF Contains
    <3> QED
      BY <3>1, <3>2
  <2> QED
    BY <1>2, <1>4, <2>1
<1>10. day.bookable => day.available
  BY <1>2, <1>4
<1> QED
  BY <1>7, <1>8, <1>9, <1>10 DEF covering, day, accepted, valid, occupied

-----------------------------------------------------------------------------
(* The invariant.  Any number of clients may confirm: nothing here depends  *)
(* on confirmed bookings being apart.                                       *)

\* A call of client p goes on and the bookings stay.
Proceeds(p) ==
    \E Y, call :
        /\ call \in CallsOf(Y) /\ req' = [req EXCEPT ![p] = call]
        /\ UNCHANGED booking
        /\ Remembers(call)

\* Ending a call.
LEMMA ReturnProceeds ==
    ASSUME NEW p, req' = [req EXCEPT ![p] = Idle], UNCHANGED booking
    PROVE  Proceeds(p)
<1>1. Idle.pc = "idle"
  BY DEF Idle
<1>2. Remembers(Idle)
  BY <1>1 DEF Remembers
<1> QED
  BY <1>2, IdleShape DEF Proceeds

\* Calls that go on from a record that is new or was remembered.
LEMMA QueriesProceed ==
    ASSUME CalendarInv, NEW p \in Clients,
           NewBooking(p) \/ FindOccupied(p) \/ ValidateNewBooking(p) \/ CalculateCost(p)
    PROVE  Proceeds(p)
<1>1. PICK X : req \in [Clients -> CallsOf(X)]
  BY DEF CalendarInv, Shapes
<1>2. Remembers(req[p]) /\ req[p] \in CallsOf(X)
  BY <1>1 DEF CalendarInv
<1>3. CASE NewBooking(p)
  <2>1. PICK stay \in MayBook :
          /\ req' = [req EXCEPT ![p] = [Idle EXCEPT !.pc = "occupied", !.stay = stay,
                                 !.left = stay.cabins,
                                 !.capacity = Capacity(cabin, stay.cabins)]]
          /\ UNCHANGED booking
    BY <1>3 DEF NewBooking, Begin, rows
  <2> DEFINE capacity == Capacity(cabin, stay.cabins)
             call == [Idle EXCEPT !.pc = "occupied", !.stay = stay,
                                  !.left = stay.cabins, !.capacity = capacity]
  <2>2. stay \in Stays
    BY BookingsAssumption
  <2>3. call \in CallsOf({0, Undefined, capacity})
    BY <2>2 DEF Idle, CallsOf, PCs, Statuses, Stays
  <2>4. Remembers(call)
    BY <2>2 DEF Idle, Remembers
  <2> QED
    BY <2>1, <2>3, <2>4 DEF Proceeds
<1>4. CASE FindOccupied(p)
  <2>1. PICK c \in req[p].left :
          /\ req[p].pc = "occupied" /\ UNCHANGED booking
          /\ req' = [req EXCEPT ![p] = [req[p] EXCEPT
                      !.left = @ \ {c},
                      !.occupied = @ \cup OccupiedDateIntervals(BookingSet, c)]]
    BY <1>4 DEF FindOccupied, Goto, rows
  <2> DEFINE call == [req[p] EXCEPT
                      !.left = @ \ {c},
                      !.occupied = @ \cup OccupiedDateIntervals(BookingSet, c)]
  <2>2. OccupiedDateIntervals(BookingSet, c) \subseteq Intervals
    BY BookingShape DEF CalendarInv, OccupiedDateIntervals, BookingSet, Intervals
  <2>3. call \in CallsOf(X)
    BY <1>2, <2>2 DEF CallsOf
  <2>4. Remembers(call)
    BY <1>2, <2>1 DEF Remembers, CallsOf
  <2> QED
    BY <2>1, <2>3, <2>4 DEF Proceeds
<1>5. CASE ValidateNewBooking(p)
  <2>1. CASE req' = [req EXCEPT ![p] = Idle]
    BY <1>5, <2>1, ReturnProceeds DEF ValidateNewBooking, rows
  <2>2. CASE req' # [req EXCEPT ![p] = Idle]
    <3> DEFINE call == [Idle EXCEPT !.pc = "cost", !.stay = req[p].stay]
    <3>1. /\ req[p].pc = "occupied" /\ UNCHANGED booking
          /\ req' = [req EXCEPT ![p] = call]
      BY <1>5, <2>2 DEF ValidateNewBooking, Return, Goto, rows
    <3>2. req[p].stay \in Stays
      BY <1>2, <3>1 DEF Remembers
    <3>3. call \in CallsOf({0, Undefined})
      BY <3>2 DEF Idle, CallsOf, PCs, Statuses
    <3>4. Remembers(call)
      BY <3>2 DEF Idle, Remembers
    <3> QED
      BY <3>1, <3>3, <3>4 DEF Proceeds
  <2> QED
    BY <2>1, <2>2
<1>6. CASE CalculateCost(p)
  <2> DEFINE cost == TotalCost(cabin, req[p].stay)
             call == [req[p] EXCEPT !.pc = "create", !.cost = cost]
  <2>1. req[p].pc = "cost" /\ UNCHANGED booking /\ req' = [req EXCEPT ![p] = call]
    BY <1>6 DEF CalculateCost, Goto, rows
  <2>2. call \in CallsOf(X \cup {cost})
    BY <1>2 DEF CallsOf, PCs
  <2>3. Remembers(call)
    BY <1>2, <2>1 DEF Remembers, CallsOf
  <2> QED
    BY <2>1, <2>2, <2>3 DEF Proceeds
<1> QED
  BY <1>3, <1>4, <1>5, <1>6

\* updateBookingStatus and its validation.
LEMMA ConfirmationsProceed ==
    ASSUME CalendarInv, NEW p \in Admins, UpdateBookingStatus(p) \/ ValidateConfirmation(p)
    PROVE  Proceeds(p)
<1>1. PICK X : req \in [Clients -> CallsOf(X)]
  BY DEF CalendarInv, Shapes
<1>2. req[p] \in CallsOf(X)
  BY <1>1 DEF Clients
<1>3. CASE UpdateBookingStatus(p)
  <2>1. PICK b \in BookingIds, s \in MaySetStatus[p] :
          /\ req' = [req EXCEPT ![p] = [Idle EXCEPT
                !.pc = IF s = "CONFIRMED" THEN "occupied" ELSE "write",
                !.booking = b, !.status = s, !.stay = StayOf(booking[b]),
                !.left = booking[b].cabins]]
          /\ UNCHANGED booking
    BY <1>3 DEF UpdateBookingStatus, Begin, rows
  <2> DEFINE call == [Idle EXCEPT
                !.pc = IF s = "CONFIRMED" THEN "occupied" ELSE "write",
                !.booking = b, !.status = s, !.stay = StayOf(booking[b]),
                !.left = booking[b].cabins]
  <2>2. s \in Statuses /\ StayOf(booking[b]) \in Stays /\ b \in Nat
        /\ booking[b].cabins \subseteq Cabins
    BY BookingsAssumption, BookingShape DEF CalendarInv
  <2>3. call \in CallsOf({0, Undefined})
    BY <2>2 DEF Idle, CallsOf, PCs
  <2>4. Remembers(call)
    BY <2>2 DEF Idle, Remembers
  <2> QED
    BY <2>1, <2>3, <2>4 DEF Proceeds
<1>4. CASE ValidateConfirmation(p)
  <2>1. CASE req' = [req EXCEPT ![p] = Idle]
    BY <1>4, <2>1, ReturnProceeds DEF ValidateConfirmation, rows
  <2>2. CASE req' # [req EXCEPT ![p] = Idle]
    <3> DEFINE call == [Idle EXCEPT !.pc = "write", !.booking = req[p].booking,
                                    !.status = req[p].status]
    <3>1. UNCHANGED booking /\ req' = [req EXCEPT ![p] = call]
      BY <1>4, <2>2 DEF ValidateConfirmation, Return, Goto, rows
    <3>2. call \in CallsOf({0, Undefined}) /\ call.pc = "write"
      BY <1>2 DEF Idle, CallsOf, PCs
    <3>3. Remembers(call)
      BY <3>2 DEF Remembers
    <3> QED
      BY <3>1, <3>2, <3>3 DEF Proceeds
  <2> QED
    BY <2>1, <2>2
<1> QED
  BY <1>3, <1>4

\* What updates of a semester write is a row of a semester.
LEMMA UpdatedIsRow ==
    ASSUME NEW row \in SemesterRows, NEW u \in SemesterUpdates
    PROVE  Updated(row, u) \in SemesterRows
<1>1. Or(u.startAt, row.startAt) \in Days
  BY BookingsAssumption DEF Or, SemesterUpdates, SemesterRows
<1>2. Or(u.endAt, row.endAt) \in Days
  BY BookingsAssumption DEF Or, SemesterUpdates, SemesterRows
<1>3. Or(u.bookingsEnabled, row.bookingsEnabled) \in BOOLEAN
  BY BookingsAssumption DEF Or, SemesterUpdates, SemesterRows
<1> QED
  BY <1>1, <1>2, <1>3 DEF Updated, SemesterRows

\* Updates of a semester, with or without a row of it.
LEMMA SemestersProceed ==
    ASSUME CalendarInv, NEW p \in Admins,
           UpdateBookingSemester(p) \/ CreateBookingSemester(p)
    PROVE  Proceeds(p) /\ semester' \in [Semesters -> SemesterRows \cup {NoRow}]
<1>0. p \in Clients /\ semester \in [Semesters -> SemesterRows \cup {NoRow}]
  BY DEF Clients, CalendarInv
<1>1. CASE UpdateBookingSemester(p)
  <2>1. PICK u \in MaySetSemester[p] :
          /\ IF Exists(u.semester)
             THEN /\ req' = [req EXCEPT ![p] = Idle]
                  /\ semester' = [semester EXCEPT ![u.semester] = Updated(@, u)]
             ELSE /\ req' = [req EXCEPT ![p] = [Idle EXCEPT !.pc = "createSemester",
                                                            !.update = u]]
                  /\ UNCHANGED semester
          /\ UNCHANGED booking
    BY <1>1 DEF UpdateBookingSemester, Begin
  <2>2. u \in SemesterUpdates /\ u.semester \in Semesters
    BY BookingsAssumption DEF SemesterUpdates
  <2>3. CASE Exists(u.semester)
    <3>1. semester[u.semester] \in SemesterRows
      BY <1>0, <2>2, <2>3 DEF Exists
    <3>2. Updated(semester[u.semester], u) \in SemesterRows
      BY <2>2, <3>1, UpdatedIsRow
    <3>3. semester' \in [Semesters -> SemesterRows \cup {NoRow}]
      BY <1>0, <2>1, <2>3, <3>2
    <3> QED
      BY <2>1, <2>3, <3>3, ReturnProceeds
  <2>4. CASE ~Exists(u.semester)
    <3> DEFINE call == [Idle EXCEPT !.pc = "createSemester", !.update = u]
    <3>1. call \in CallsOf({0, Undefined, u})
      BY DEF Idle, CallsOf, PCs, Statuses
    <3>2. Remembers(call)
      BY <2>2 DEF Idle, Remembers
    <3> QED
      BY <1>0, <2>1, <2>4, <3>1, <3>2 DEF Proceeds
  <2> QED
    BY <2>3, <2>4
<1>2. CASE CreateBookingSemester(p)
  <2> DEFINE u == req[p].update
             default == [startAt |-> SemesterDefaults[u.semester].startAt,
                         endAt |-> SemesterDefaults[u.semester].endAt,
                         bookingsEnabled |-> FALSE]
  <2>1. /\ req[p].pc = "createSemester"
        /\ \/ semester' = semester
           \/ semester' = [semester EXCEPT ![u.semester] = Updated(default, u)]
        /\ req' = [req EXCEPT ![p] = Idle] /\ UNCHANGED booking
    BY <1>2 DEF CreateBookingSemester, Return, Goto
  <2>2. u \in SemesterUpdates /\ u.semester \in Semesters
    BY <1>0, <2>1 DEF CalendarInv, Remembers, SemesterUpdates
  <2>3. default \in SemesterRows
    BY <2>2, BookingsAssumption DEF SemesterRows
  <2>4. Updated(default, u) \in SemesterRows
    BY <2>2, <2>3, UpdatedIsRow
  <2> HIDE DEF u, default
  <2>5. semester' \in [Semesters -> SemesterRows \cup {NoRow}]
    BY <1>0, <2>1, <2>2, <2>4
  <2> QED
    BY <2>1, <2>5, ReturnProceeds
<1> QED
  BY <1>1, <1>2

\* The other calls, and those that end.
LEMMA OthersProceed ==
    ASSUME NEW p \in Clients,
           \/ SendBookingConfirmation(p) \/ CallFails(p)
           \/ CreateCabin(p) \/ UpdateCabin(p) \/ UpdateBookingContact(p)
           \/ UpdateBookingTerms(p) \/ CreateBookingTerms(p)
    PROVE  Proceeds(p)
<1>1. CASE UpdateBookingTerms(p)
  <2>1. /\ req' = [req EXCEPT ![p] = [Idle EXCEPT !.pc = "createTerms", !.file = files']]
        /\ UNCHANGED booking
    BY <1>1 DEF UpdateBookingTerms, Begin
  <2>2. PICK n : n = files'
    OBVIOUS
  <2> DEFINE call == [Idle EXCEPT !.pc = "createTerms", !.file = n]
  <2>3. call \in CallsOf({0, Undefined, n}) /\ call.pc = "createTerms"
    BY DEF Idle, CallsOf, PCs, Statuses
  <2>4. Remembers(call)
    BY <2>3 DEF Remembers
  <2> QED
    BY <2>1, <2>2, <2>3, <2>4 DEF Proceeds
<1>2. CASE \/ SendBookingConfirmation(p) \/ CallFails(p)
           \/ CreateCabin(p) \/ UpdateCabin(p) \/ UpdateBookingContact(p)
           \/ CreateBookingTerms(p)
  BY <1>2, ReturnProceeds
     DEF SendBookingConfirmation, CallFails, CreateCabin, UpdateCabin,
         UpdateBookingContact, CreateBookingTerms, Begin, Return, Goto, rows
<1> QED
  BY <1>1, <1>2

\* Calls that write a booking: one is added, or the status of one is set.
LEMMA BookingWritesKeep ==
    ASSUME CalendarInv, NEW p \in Clients, CreateBooking(p) \/ UpdateBooking(p)
    PROVE  Shapes' /\ \A q \in Clients : Remembers(req[q])'
<1>1. PICK X : booking \in Seq(BookingsOf(X)) /\ req \in [Clients -> CallsOf(X)]
  BY DEF CalendarInv, Shapes
<1> DEFINE Z == X \cup {0, Undefined}
<1>2. booking \in Seq(BookingsOf(Z)) /\ req \in [Clients -> CallsOf(Z)]
  BY <1>1, MoreCosts
<1>3. req[p] \in CallsOf(Z) /\ Remembers(req[p]) /\ Idle \in CallsOf(Z)
  BY <1>2, IdleShape, MoreCosts DEF CalendarInv
<1> HIDE DEF Z
<1>4. CASE CreateBooking(p)
  <2> DEFINE row == [start |-> req[p].stay.start, end |-> req[p].stay.end,
                     cabins |-> req[p].stay.cabins, guests |-> req[p].stay.guests,
                     status |-> "PENDING", totalCost |-> req[p].cost]
             call == [Idle EXCEPT !.pc = "mail", !.booking = Len(booking')]
  <2>1. req[p].pc = "create" /\ booking' = Append(booking, row)
        /\ req' = [req EXCEPT ![p] = call]
    BY <1>4 DEF CreateBooking, Goto
  <2>2. row \in BookingsOf(Z)
    BY <1>3, <2>1 DEF BookingsOf, CallsOf, Stays, Statuses, Remembers
  <2> HIDE DEF row
  <2>3. booking' \in Seq(BookingsOf(Z)) /\ Len(booking') \in Nat
    BY <1>2, <2>1, <2>2, LenProperties
  <2>4. call \in CallsOf(Z) /\ call.pc = "mail"
    BY <1>3, <2>3 DEF Idle, CallsOf, PCs
  <2> HIDE DEF call
  <2>5. req' \in [Clients -> CallsOf(Z)] /\ req'[p] = call
        /\ \A q \in Clients \ {p} : req'[q] = req[q]
    BY <1>2, <2>1, <2>4
  <2>6. \A q \in Clients : Remembers(req'[q])
    BY <2>4, <2>5 DEF CalendarInv, Remembers
  <2> QED
    BY <2>3, <2>5, <2>6 DEF Shapes, Remembers
<1>5. CASE UpdateBooking(p)
  <2> DEFINE b == req[p].booking
             row == [booking[b] EXCEPT !.status = req[p].status]
  <2>1. booking' = [booking EXCEPT ![b] = row] /\ req' = [req EXCEPT ![p] = Idle]
    BY <1>5 DEF UpdateBooking, Return, Goto
  <2>2. booking \in [1 .. Len(booking) -> BookingsOf(Z)] /\ Len(booking) \in Nat
    BY <1>2, LenProperties
  <2>3. b \in 1 .. Len(booking) => row \in BookingsOf(Z)
    BY <1>3, <2>2 DEF BookingsOf, CallsOf
  <2> HIDE DEF row, b
  <2>4. booking' \in [1 .. Len(booking) -> BookingsOf(Z)]
    BY <2>1, <2>2, <2>3
  <2>5. booking' \in Seq(BookingsOf(Z))
    BY <2>2, <2>4
  <2>6. req' \in [Clients -> CallsOf(Z)] /\ req'[p] = Idle
        /\ \A q \in Clients \ {p} : req'[q] = req[q]
    BY <1>2, <1>3, <2>1
  <2>7. \A q \in Clients : Remembers(req'[q])
    BY <2>6 DEF CalendarInv, Remembers, Idle
  <2> QED
    BY <2>5, <2>6, <2>7 DEF Shapes, Remembers
<1> QED
  BY <1>4, <1>5

\* Calls that go on keep what the calendar relies on.
LEMMA ProceedingKeeps ==
    ASSUME CalendarInv, NEW p \in Clients, Proceeds(p), UNCHANGED today,
           semester' \in [Semesters -> SemesterRows \cup {NoRow}]
    PROVE  CalendarInv'
<1>1. PICK Y, call :
        /\ call \in CallsOf(Y) /\ req' = [req EXCEPT ![p] = call]
        /\ UNCHANGED booking
        /\ Remembers(call)
  BY DEF Proceeds
<1>2. Shapes' /\ req'[p] = call /\ \A q \in Clients \ {p} : req'[q] = req[q]
  BY <1>1, MoveKeepsShapes DEF CalendarInv
<1>3. ASSUME NEW q \in Clients PROVE Remembers(req'[q])
  BY <1>1, <1>2 DEF CalendarInv
<1> QED
  BY <1>2, <1>3 DEF CalendarInv, Remembers

-----------------------------------------------------------------------------
(* The theorems *)

\* The initial rows are of the right shape.
LEMMA CalendarInit == ASSUME Init PROVE CalendarInv
<1>1. booking \in Seq(BookingRows) /\ BookingRows = BookingsOf(Nat)
  BY BookingsAssumption DEF Init, BookingRows, BookingsOf
<1>2. booking \in Seq(BookingsOf(Nat \cup {0, Undefined}))
  BY <1>1, MoreCosts
<1>3. Idle \in CallsOf(Nat \cup {0, Undefined})
  BY IdleShape, MoreCosts
<1>4. req \in [Clients -> CallsOf(Nat \cup {0, Undefined})]
  BY <1>3 DEF Init
<1>5. Shapes
  BY <1>2, <1>4 DEF Shapes
<1>6. \A p \in Clients : Remembers(req[p])
  BY DEF Init, Remembers, Idle
<1> QED
  BY <1>5, <1>6, BookingsAssumption DEF CalendarInv, Init

\* Every step keeps the invariant.
LEMMA CalendarStep == ASSUME CalendarInv, [Next]_vars PROVE CalendarInv'
<1>0. semester \in [Semesters -> SemesterRows \cup {NoRow}] /\ today \in Nat
  BY DEF CalendarInv
<1>1. ASSUME NEW p \in Bookers, Booker(p) PROVE CalendarInv'
  <2>0. p \in Clients
    BY DEF Clients
  <2>1. today' = today /\ semester' = semester
    BY <1>1 DEF Booker, BookerContinues, NewBooking, FindOccupied, ValidateNewBooking,
                CalculateCost, CreateBooking, SendBookingConfirmation, rows
  <2>2. CASE CreateBooking(p)
    BY <1>0, <2>0, <2>1, <2>2, BookingWritesKeep DEF CalendarInv
  <2>3. CASE ~CreateBooking(p)
    <3>1. Proceeds(p)
      BY <1>1, <2>0, <2>3, QueriesProceed, OthersProceed DEF Booker, BookerContinues
    <3> QED
      BY <1>0, <2>0, <2>1, <3>1, ProceedingKeeps
  <2> QED
    BY <2>2, <2>3
<1>2. ASSUME NEW p \in Admins, Admin(p) PROVE CalendarInv'
  <2>0. p \in Clients
    BY DEF Clients
  <2>1. CASE UpdateBookingSemester(p) \/ CreateBookingSemester(p)
    <3>1. today' = today
      BY <2>1 DEF UpdateBookingSemester, CreateBookingSemester
    <3> QED
      BY <2>0, <2>1, <3>1, SemestersProceed, ProceedingKeeps
  <2>2. CASE \/ UpdateBookingStatus(p) \/ ValidateConfirmation(p) \/ FindOccupied(p)
             \/ CreateCabin(p) \/ UpdateCabin(p) \/ UpdateBookingContact(p)
             \/ UpdateBookingTerms(p) \/ CreateBookingTerms(p)
    <3>1. today' = today /\ semester' = semester
      BY <2>2 DEF UpdateBookingStatus, ValidateConfirmation, FindOccupied, CreateCabin,
                  UpdateCabin, UpdateBookingContact, UpdateBookingTerms,
                  CreateBookingTerms, rows
    <3>2. Proceeds(p)
      BY <2>0, <2>2, QueriesProceed, ConfirmationsProceed, OthersProceed
    <3> QED
      BY <1>0, <2>0, <3>1, <3>2, ProceedingKeeps
  <2>3. CASE UpdateBooking(p)
    <3>1. today' = today /\ semester' = semester
      BY <2>3 DEF UpdateBooking
    <3> QED
      BY <1>0, <2>0, <2>3, <3>1, BookingWritesKeep DEF CalendarInv
  <2> QED
    BY <1>2, <2>1, <2>2, <2>3 DEF Admin, AdminContinues
<1>3. ASSUME NEW p \in Clients, CallFails(p) PROVE CalendarInv'
  <2>1. today' = today /\ semester' = semester
    BY <1>3 DEF CallFails, rows
  <2> QED
    BY <1>0, <1>3, <2>1, OthersProceed, ProceedingKeeps
<1>4. ASSUME UNCHANGED <<semester, booking, req>>, today' \in Nat PROVE CalendarInv'
  BY <1>4 DEF CalendarInv, Shapes, Remembers
<1>5. CASE MailWorker \/ Upload \/ Tick \/ UNCHANGED vars
  <2>1. UNCHANGED <<semester, booking, req>> /\ (today' = today \/ today' = today + 1)
    BY <1>5 DEF MailWorker, TakeReceiptJob, SendReceipt, Upload, Tick, rows, vars
  <2> QED
    BY <1>0, <1>4, <2>1
<1> QED
  BY <1>1, <1>2, <1>3, <1>5 DEF Next

\* In every reachable state, for all cabins and dates, a booking is accepted
\* exactly if it begins after today and ends on a later day, no confirmed
\* booking holds one of its days, and each of its nights lies in an open
\* semester: getValidBookingIntervals merges, cuts and shifts to just that.
THEOREM AcceptsFreeStays ==
    ASSUME DaysAreARun PROVE Spec => []AcceptsExactlyFreeStays
<1>1. Init => CalendarInv
  BY CalendarInit
<1>2. CalendarInv /\ [Next]_vars => CalendarInv'
  BY CalendarStep
<1>3. CalendarInv => AcceptsExactlyFreeStays
  BY FreeStaysAreAccepted
<1> QED
  BY <1>1, <1>2, <1>3, PTL DEF Spec

\* In every reachable state the availability calendar is right: a day is shown
\* as bookable if a stay that covers it would be accepted, as a day to check
\* in or out only if such stays all begin or all end on it, and as available
\* whenever it is bookable.
THEOREM CalendarIsAccurate ==
    ASSUME DaysAreARun PROVE Spec => []CalendarShowsWhatIsAccepted
<1>1. Init => CalendarInv
  BY CalendarInit
<1>2. CalendarInv /\ [Next]_vars => CalendarInv'
  BY CalendarStep
<1>3. CalendarInv => CalendarShowsWhatIsAccepted
  BY CalendarIsRight
<1> QED
  BY <1>1, <1>2, <1>3, PTL DEF Spec

-----------------------------------------------------------------------------
(* Sums.  MapThenSumSet chooses a function that satisfies a recursive       *)
(* equation; what it chooses is known once there is one.                    *)

\* The element a sum takes first.
First(s) == CHOOSE x \in s : TRUE

\* g[s] is the sum of f over s, for every set s in D.
Sums(f, D, g) ==
    g = [s \in D |-> IF s = {} THEN 0 ELSE f[First(s)] + g[s \ {First(s)}]]

\* Sums over a finite set exist, and are numbers: a function that sums over the
\* sets of at most n elements extends to those of n + 1.
LEMMA SumExists ==
    ASSUME NEW S, IsFiniteSet(S), NEW f \in [S -> Nat]
    PROVE  \E g \in [SUBSET S -> Nat] : Sums(f, SUBSET S, g)
<1> DEFINE D(n) == {s \in SUBSET S : Cardinality(s) <= n}
           Bad == {n \in Nat : ~ \E g \in [D(n) -> Nat] : Sums(f, D(n), g)}
<1>1. \A s \in SUBSET S : IsFiniteSet(s) /\ Cardinality(s) \in Nat
                          /\ Cardinality(s) <= Cardinality(S)
  BY FS_Subset, FS_CardinalityType
<1>2. \A s \in SUBSET S : s # {} =>
          /\ First(s) \in s /\ s \ {First(s)} \in SUBSET S
          /\ Cardinality(s \ {First(s)}) = Cardinality(s) - 1
  <2> SUFFICES ASSUME NEW s \in SUBSET S, s # {}
               PROVE  /\ First(s) \in s /\ s \ {First(s)} \in SUBSET S
                      /\ Cardinality(s \ {First(s)}) = Cardinality(s) - 1
    OBVIOUS
  <2>1. First(s) \in s
    BY Zenon DEF First
  <2> QED
    BY <1>1, <2>1, FS_RemoveElement
<1>3. \A s \in SUBSET S : Cardinality(s) <= 0 <=> s = {}
  BY <1>1, FS_EmptySet
<1>4. 0 \notin Bad
  <2> DEFINE g == [s \in D(0) |-> 0]
  <2>1. g \in [D(0) -> Nat] /\ Sums(f, D(0), g)
    BY <1>3 DEF Sums
  <2> QED
    BY <2>1
<1>5. ASSUME NEW n \in Nat, n \notin Bad PROVE n + 1 \notin Bad
  <2>1. PICK g \in [D(n) -> Nat] : Sums(f, D(n), g)
    BY <1>5
  <2> DEFINE next == [s \in D(n + 1) |->
                        IF s = {} THEN 0 ELSE f[First(s)] + g[s \ {First(s)}]]
  <2>2. \A s \in D(n + 1) : s # {} => s \ {First(s)} \in D(n) /\ f[First(s)] \in Nat
    BY <1>1, <1>2
  <2>3. next \in [D(n + 1) -> Nat]
    BY <2>1, <2>2
  <2>4. D(n) \subseteq D(n + 1)
    BY <1>1
  <2>5. \A s \in D(n) : next[s] = g[s]
    <3> SUFFICES ASSUME NEW s \in D(n) PROVE next[s] = g[s]
      OBVIOUS
    <3>1. g[s] = IF s = {} THEN 0 ELSE f[First(s)] + g[s \ {First(s)}]
      BY <2>1, Zenon DEF Sums
    <3> QED
      BY <2>4, <3>1
  <2>6. Sums(f, D(n + 1), next)
    BY <2>2, <2>5 DEF Sums
  <2> QED
    BY <2>3, <2>6
<1>6. Bad = {}
  <2>1. Bad \subseteq Nat
    OBVIOUS
  <2> HIDE DEF Bad
  <2>2. \A n \in Bad : n # 0 /\ n - 1 \in Nat /\ n - 1 \in Bad
    <3> SUFFICES ASSUME NEW n \in Bad PROVE n # 0 /\ n - 1 \in Nat /\ n - 1 \in Bad
      OBVIOUS
    <3>1. n # 0 /\ n \in Nat
      BY <1>4, <2>1
    <3>2. n - 1 \in Nat /\ (n - 1) + 1 = n
      BY <3>1
    <3> QED
      BY <1>5, <3>1, <3>2
  <2>3. CASE Bad # {}
    <3>1. PICK n \in Bad : \A m \in Bad : n <= m
      BY <2>1, <2>3, Smallest
    <3> QED
      BY <2>1, <2>2, <3>1
  <2> QED
    BY <2>3
<1>7. D(Cardinality(S)) = SUBSET S /\ Cardinality(S) \in Nat
  BY <1>1, FS_CardinalityType
<1>8. \E g \in [D(Cardinality(S)) -> Nat] : Sums(f, D(Cardinality(S)), g)
  <2> HIDE DEF D
  <2> QED
    BY <1>6, <1>7
<1> HIDE DEF D
<1> QED
  BY <1>7, <1>8

\* Whatever function satisfies the definition of a sum, it is a number.
LEMMA SumIsNat ==
    ASSUME NEW S, IsFiniteSet(S), NEW f \in [S -> Nat], NEW g, Sums(f, SUBSET S, g)
    PROVE  g[S] \in Nat
<1>1. PICK h \in [SUBSET S -> Nat] : Sums(f, SUBSET S, h)
  BY SumExists
<1> DEFINE Bad == {n \in Nat : \E s \in SUBSET S : Cardinality(s) = n /\ g[s] # h[s]}
<1>2. \A s \in SUBSET S : IsFiniteSet(s) /\ Cardinality(s) \in Nat
  BY FS_Subset, FS_CardinalityType
<1>3. ASSUME NEW s \in SUBSET S, g[s] # h[s]
      PROVE  Cardinality(s) - 1 \in Bad
  <2>1. /\ g[s] = IF s = {} THEN 0 ELSE f[First(s)] + g[s \ {First(s)}]
        /\ h[s] = IF s = {} THEN 0 ELSE f[First(s)] + h[s \ {First(s)}]
    BY <1>1, Zenon DEF Sums
  <2>2. s # {} /\ g[s \ {First(s)}] # h[s \ {First(s)}]
    BY <1>3, <2>1
  <2>3. First(s) \in s
    BY <2>2, Zenon DEF First
  <2> QED
    BY <1>2, <2>2, <2>3, FS_RemoveElement
<1>4. Bad = {}
  <2> SUFFICES ASSUME Bad # {} PROVE FALSE
    OBVIOUS
  <2>1. PICK n \in Bad : \A m \in Bad : n <= m
    BY Smallest
  <2> QED
    BY <1>3, <2>1
<1> QED
  BY <1>2, <1>4

\* The capacity of cabins that exist.
LEMMA CapacityIsNat ==
    ASSUME NEW row, NEW S, IsFiniteSet(S), \A c \in S : row[c].capacity \in Nat
    PROVE  Capacity(row, S) \in Nat
<1> DEFINE f == [c \in S |-> row[c].capacity]
           body(g) == [s \in SUBSET S |->
                         IF s = {} THEN 0
                         ELSE row[CHOOSE x \in s : TRUE].capacity
                              + g[s \ {CHOOSE x \in s : TRUE}]]
           sum == CHOOSE g : g = body(g)
<1>1. f \in [S -> Nat]
  OBVIOUS
<1>2. \A s \in SUBSET S : s # {} => f[First(s)] = row[CHOOSE x \in s : TRUE].capacity
  <2>1. \A s \in SUBSET S : s # {} => First(s) \in S
    BY Zenon DEF First
  <2> QED
    BY <2>1 DEF First
<1>3. \A g : Sums(f, SUBSET S, g) <=> g = body(g)
  <2> HIDE DEF f
  <2> SUFFICES ASSUME NEW g
               PROVE [s \in SUBSET S |-> IF s = {} THEN 0 ELSE f[First(s)] + g[s \ {First(s)}]]
                     = body(g)
    BY DEF Sums
  <2> QED
    BY <1>2 DEF First
<1>4. \E g : g = body(g)
  <2> HIDE DEF body, f
  <2> QED
    BY <1>1, <1>3, SumExists
<1>5. sum = body(sum)
  <2> HIDE DEF body
  <2> QED
    BY <1>4, Zenon
<1>6. sum[S] \in Nat
  <2> HIDE DEF body, sum, f
  <2> QED
    BY <1>1, <1>3, <1>5, SumIsNat
<1>7. Capacity(row, S) = sum[S]
  BY Zenon DEF Capacity, MapThenSumSet, MapThenFoldSet
<1> QED
  BY <1>6, <1>7
\* The price of a night.
LEMMA PriceIsNat ==
    ASSUME NEW row, NEW S, IsFiniteSet(S), \A c \in S : row[c] \in CabinRows,
           NEW guests, NEW d
    PROVE  GetPrice(row, S, guests, d) \in Nat
<1> DEFINE weekendNight == Weekday(d) \in {5, 6}
           price(c) ==
             CASE IsInternalPrice(guests) /\ weekendNight ->
                     row[c].internalPriceWeekend
               [] IsInternalPrice(guests) /\ ~weekendNight ->
                     row[c].internalPrice
               [] ~IsInternalPrice(guests) /\ weekendNight ->
                     row[c].externalPriceWeekend
               [] ~IsInternalPrice(guests) /\ ~weekendNight ->
                     row[c].externalPrice
           f == [c \in S |-> price(c)]
           body(g) == [s \in SUBSET S |->
                         IF s = {} THEN 0
                         ELSE price(CHOOSE x \in s : TRUE)
                              + g[s \ {CHOOSE x \in s : TRUE}]]
           sum == CHOOSE g : g = body(g)
<1>1. f \in [S -> Nat]
  <2>1. (Weekday(d) \in {5, 6}) \in BOOLEAN /\ IsInternalPrice(guests) \in BOOLEAN
    BY DEF IsInternalPrice
  <2>2. \A c \in S : price(c) \in Nat
    BY <2>1 DEF CabinRows
  <2> QED
    BY <2>2
<1>2. \A s \in SUBSET S : s # {} => f[First(s)] = price(CHOOSE x \in s : TRUE)
  <2>1. \A s \in SUBSET S : s # {} => First(s) \in S
    BY Zenon DEF First
  <2> HIDE DEF price
  <2> QED
    BY <2>1 DEF First
<1>3. \A g : Sums(f, SUBSET S, g) <=> g = body(g)
  <2> HIDE DEF f, price
  <2> SUFFICES ASSUME NEW g
               PROVE [s \in SUBSET S |-> IF s = {} THEN 0 ELSE f[First(s)] + g[s \ {First(s)}]]
                     = body(g)
    BY DEF Sums
  <2> QED
    BY <1>2 DEF First
<1>4. \E g : g = body(g)
  <2> HIDE DEF body, f
  <2> QED
    BY <1>1, <1>3, SumExists
<1>5. sum = body(sum)
  <2> HIDE DEF body
  <2> QED
    BY <1>4, Zenon
<1>6. sum[S] \in Nat
  <2> HIDE DEF body, sum, f
  <2> QED
    BY <1>1, <1>3, <1>5, SumIsNat
<1>7. GetPrice(row, S, guests, d) = sum[S]
  BY Zenon DEF GetPrice, MapThenSumSet, MapThenFoldSet
<1> QED
  BY <1>6, <1>7

\* The cost of a stay.
LEMMA TotalCostIsNat ==
    ASSUME NEW row, NEW stay \in Stays, \A c \in stay.cabins : row[c] \in CabinRows
    PROVE  TotalCost(row, stay) \in Nat
<1> DEFINE S == {d \in Days : stay.start <= d /\ d <= stay.end}
           price(d) == GetPrice(row, stay.cabins, stay.guests, d)
           f == [d \in S |-> price(d)]
           body(g) == [s \in SUBSET S |->
                         IF s = {} THEN 0
                         ELSE price(CHOOSE x \in s : TRUE)
                              + g[s \ {CHOOSE x \in s : TRUE}]]
           sum == CHOOSE g : g = body(g)
<1>0. IsFiniteSet(S) /\ IsFiniteSet(stay.cabins)
  BY CalendarAssumption, FS_Subset DEF Stays
<1>1. f \in [S -> Nat]
  BY <1>0, PriceIsNat
<1>2. \A s \in SUBSET S : s # {} => f[First(s)] = price(CHOOSE x \in s : TRUE)
  <2> HIDE DEF price, S
  <2>1. \A s \in SUBSET S : s # {} => First(s) \in S
    BY Zenon DEF First
  <2> QED
    BY <2>1 DEF First
<1>3. \A g : Sums(f, SUBSET S, g) <=> g = body(g)
  <2> HIDE DEF f, price, S
  <2> SUFFICES ASSUME NEW g
               PROVE [s \in SUBSET S |-> IF s = {} THEN 0 ELSE f[First(s)] + g[s \ {First(s)}]]
                     = body(g)
    BY DEF Sums
  <2> QED
    BY <1>2 DEF First
<1>4. \E g : g = body(g)
  <2> HIDE DEF body, f, S
  <2> QED
    BY <1>0, <1>1, <1>3, SumExists
<1>5. sum = body(sum)
  <2> HIDE DEF body
  <2> QED
    BY <1>4, Zenon
<1>6. sum[S] \in Nat
  <2> HIDE DEF body, sum, f, S
  <2> QED
    BY <1>0, <1>1, <1>3, <1>5, SumIsNat
<1>7. TotalCost(row, stay) = sum[S]
  BY Zenon DEF TotalCost, MapThenSumSet, MapThenFoldSet
<1> QED
  BY <1>6, <1>7

-----------------------------------------------------------------------------
(* Types.  A booker books cabins that exist, and cabins are never deleted;  *)
(* so what it is told to pay is a sum of numbers.                           *)

\* What a call under way carries, and whose it is.
Carries(p, call) ==
    /\ call.pc \in {"occupied", "cost", "create"} => call.stay \in Stays
    /\ p \in Bookers /\ call.pc \in {"occupied", "cost"} =>
          \A c \in call.stay.cabins : cabin[c] # NoRow
    /\ call.pc = "createSemester" => call.update \in SemesterUpdates

CabinsTypeInv == CabinsTypeOK /\ \A p \in Clients : Carries(p, req[p])

\* The record that calls start from.
LEMMA IdleTyped == Idle \in Calls /\ Idle.pc = "idle"
  BY DEF Idle, Calls, PCs, Statuses

\* No row of a cabin is deleted.
CabinsStay == \A c \in Cabins : cabin[c] # NoRow => cabin'[c] # NoRow

\* What the steps of clients and of others do to calls.
LEMMA CallsMove ==
    ASSUME CabinsTypeInv, CabinsStay, NEW p \in Clients, NEW call \in Calls,
           req' = [req EXCEPT ![p] = call], Carries(p, call)
    PROVE  req' \in [Clients -> Calls] /\ \A q \in Clients : Carries(q, req[q])'
<1>1. req \in [Clients -> Calls]
  BY DEF CabinsTypeInv, CabinsTypeOK
<1>2. \A q \in Clients : Carries(q, req'[q])
  BY <1>1 DEF CabinsTypeInv
<1>3. ASSUME NEW q \in Clients PROVE Carries(q, req[q])'
  <2>1. req'[q] \in Calls /\ Carries(q, req'[q])
    BY <1>1, <1>2
  <2>2. \A stay \in Stays : stay.cabins \subseteq Cabins
    BY DEF Stays
  <2> QED
    BY <2>1, <2>2 DEF Carries, CabinsStay
<1> QED
  BY <1>1, <1>3

\* A step that leaves the rows of bookings, cabins and semesters alone, and
\* moves at most the call of one client, keeps the types if what it writes
\* besides has its type.
LEMMA CallStepTypes ==
    ASSUME CabinsTypeInv, NEW p \in Clients, NEW call \in Calls,
           req' = [req EXCEPT ![p] = call], Carries(p, call), CabinsStay,
           \/ UNCHANGED calls
           \/ calls' = [calls EXCEPT ![p] = @ + 1],
           /\ today' = today /\ worker' = worker /\ uploaded' = uploaded
           /\ receipts' = receipts /\ failed' = failed,
           cabin' \in [Cabins -> CabinRows \cup {NoRow}],
           semester' \in [Semesters -> SemesterRows \cup {NoRow}],
           booking' \in Seq(BookingRows),
           terms' \in Seq(Nat), files' \in Nat,
           emails' \subseteq Nat, unannounced' \subseteq Nat
    PROVE  CabinsTypeInv'
<1>1. /\ req' \in [Clients -> Calls] /\ \A q \in Clients : Carries(q, req[q])'
  BY CallsMove
<1>2. calls \in [Clients -> Nat] /\ calls[p] + 1 \in Nat
  BY DEF CabinsTypeInv, CabinsTypeOK
<1>3. calls' \in [Clients -> Nat]
  BY <1>2
<1> QED
  BY <1>1, <1>3 DEF CabinsTypeInv, CabinsTypeOK

\* The rows, and the jobs, of a step that writes none.
LEMMA RowsTyped ==
    ASSUME CabinsTypeInv
    PROVE  /\ cabin \in [Cabins -> CabinRows \cup {NoRow}]
           /\ semester \in [Semesters -> SemesterRows \cup {NoRow}]
           /\ booking \in Seq(BookingRows) /\ terms \in Seq(Nat) /\ files \in Nat
           /\ emails \subseteq Nat /\ unannounced \subseteq Nat
           /\ \A p \in Clients : req[p] \in Calls /\ Carries(p, req[p])
  BY DEF CabinsTypeInv, CabinsTypeOK

\* Moving a call alone.
LEMMA MoveTypes ==
    ASSUME CabinsTypeInv, NEW p \in Clients, NEW call \in Calls,
           req' = [req EXCEPT ![p] = call], Carries(p, call),
           UNCHANGED calls \/ calls' = [calls EXCEPT ![p] = @ + 1],
           UNCHANGED <<today, rows, uploaded, mail>>
    PROVE  CabinsTypeInv'
<1>1. CabinsStay
  BY DEF CabinsStay, rows
<1> QED
  BY <1>1, RowsTyped, CallStepTypes DEF rows, mail

\* The stay of a booking, and the days cabins are occupied.
LEMMA BookingsTyped ==
    ASSUME CabinsTypeInv
    PROVE  /\ \A b \in BookingIds : b \in Nat /\ booking[b] \in BookingRows
                                    /\ StayOf(booking[b]) \in Stays
                                    /\ booking[b].cabins \subseteq Cabins
           /\ \A c : OccupiedDateIntervals(BookingSet, c) \subseteq Intervals
<1>1. \A b \in BookingIds : b \in Nat /\ booking[b] \in BookingRows
  BY RowsTyped, LenProperties, ElementOfSeq DEF BookingIds
<1>2. \A b \in BookingIds : StayOf(booking[b]) \in Stays /\ booking[b].cabins \subseteq Cabins
  BY <1>1 DEF BookingRows, StayOf, Stays
<1>3. \A b \in BookingIds : booking[b].start \in Days /\ booking[b].end \in Days
  BY <1>1 DEF BookingRows
<1> QED
  BY <1>1, <1>2, <1>3 DEF OccupiedDateIntervals, BookingSet, Intervals

\* newBooking up to its writes.
LEMMA NewBookingTypes ==
    ASSUME CabinsTypeInv, NEW p \in Bookers,
           NewBooking(p) \/ FindOccupied(p) \/ ValidateNewBooking(p) \/ CalculateCost(p)
    PROVE  CabinsTypeInv'
<1>0. p \in Clients /\ req[p] \in Calls /\ Carries(p, req[p])
  BY RowsTyped DEF Clients
<1>1. CASE NewBooking(p)
  <2>1. PICK stay \in MayBook :
          /\ \A c \in stay.cabins : cabin[c] # NoRow
          /\ Begin(p, [Idle EXCEPT !.pc = "occupied", !.stay = stay,
                                 !.left = stay.cabins,
                                 !.capacity = Capacity(cabin, stay.cabins)])
          /\ UNCHANGED <<today, rows, uploaded, mail>>
    BY <1>1 DEF NewBooking
  <2> DEFINE capacity == Capacity(cabin, stay.cabins)
             call == [Idle EXCEPT !.pc = "occupied", !.stay = stay,
                                  !.left = stay.cabins, !.capacity = capacity]
  <2>2. stay \in Stays /\ stay.cabins \subseteq Cabins /\ IsFiniteSet(stay.cabins)
    BY BookingsAssumption, CalendarAssumption, FS_Subset DEF Stays
  <2>3. \A c \in stay.cabins : cabin[c].capacity \in Nat
    BY <2>1, <2>2, RowsTyped DEF CabinRows
  <2>4. capacity \in Nat
    BY <2>2, <2>3, CapacityIsNat
  <2> HIDE DEF capacity
  <2>5. call \in Calls /\ call.pc = "occupied" /\ call.stay = stay
    BY <2>2, <2>4, IdleTyped DEF Calls, PCs
  <2>6. Carries(p, call)
    BY <2>1, <2>2, <2>5 DEF Carries
  <2>7. req' = [req EXCEPT ![p] = call] /\ calls' = [calls EXCEPT ![p] = @ + 1]
    BY <2>1 DEF Begin, capacity
  <2> QED
    BY <1>0, <2>1, <2>5, <2>6, <2>7, MoveTypes
<1>2. CASE FindOccupied(p)
  <2>1. PICK c \in req[p].left :
          Goto(p, [req[p] EXCEPT
                      !.left = @ \ {c},
                      !.occupied = @ \cup OccupiedDateIntervals(BookingSet, c)])
    BY <1>2 DEF FindOccupied
  <2> DEFINE call == [req[p] EXCEPT
                      !.left = @ \ {c},
                      !.occupied = @ \cup OccupiedDateIntervals(BookingSet, c)]
  <2>2. OccupiedDateIntervals(BookingSet, c) \subseteq Intervals
    BY BookingsTyped
  <2>3. call \in Calls /\ call.pc = req[p].pc /\ call.stay = req[p].stay
        /\ call.update = req[p].update
    BY <1>0, <2>2 DEF Calls
  <2>4. Carries(p, call)
    BY <1>0, <2>3 DEF Carries
  <2> QED
    BY <1>0, <1>2, <2>1, <2>3, <2>4, MoveTypes DEF FindOccupied, Goto
<1>3. CASE ValidateNewBooking(p)
  <2> DEFINE paid == [Idle EXCEPT !.pc = "cost", !.stay = req[p].stay]
  <2>1. req[p].pc = "occupied" /\ req[p].stay \in Stays
    BY <1>0, <1>3 DEF ValidateNewBooking, Carries
  <2>2. paid \in Calls /\ paid.pc = "cost" /\ paid.stay = req[p].stay
    BY <2>1, IdleTyped DEF Calls, PCs
  <2>3. Carries(p, paid) /\ Carries(p, Idle)
    BY <1>0, <2>1, <2>2, IdleTyped DEF Carries
  <2>4. /\ req' = [req EXCEPT ![p] = paid] \/ req' = [req EXCEPT ![p] = Idle]
        /\ UNCHANGED calls
    BY <1>3 DEF ValidateNewBooking, Return, Goto
  <2> HIDE DEF paid
  <2> QED
    BY <1>0, <1>3, <2>2, <2>3, <2>4, IdleTyped, MoveTypes DEF ValidateNewBooking
<1>4. CASE CalculateCost(p)
  <2> DEFINE cost == TotalCost(cabin, req[p].stay)
             call == [req[p] EXCEPT !.pc = "create", !.cost = cost]
  <2>1. req[p].pc = "cost" /\ req[p].stay \in Stays /\ req[p].stay.cabins \subseteq Cabins
    BY <1>0, <1>4 DEF CalculateCost, Carries, Stays
  <2>2. \A c \in req[p].stay.cabins : cabin[c] \in CabinRows
    BY <1>0, <2>1, RowsTyped DEF Carries
  <2>3. cost \in Nat
    BY <2>1, <2>2, TotalCostIsNat
  <2> HIDE DEF cost
  <2>4. call \in Calls /\ call.pc = "create" /\ call.stay = req[p].stay
    BY <1>0, <2>3 DEF Calls, PCs
  <2>5. Carries(p, call)
    BY <2>1, <2>4 DEF Carries
  <2>6. req' = [req EXCEPT ![p] = call] /\ UNCHANGED calls
    BY <1>4 DEF CalculateCost, Goto, cost
  <2> QED
    BY <1>0, <1>4, <2>4, <2>5, <2>6, MoveTypes DEF CalculateCost
<1> QED
  BY <1>1, <1>2, <1>3, <1>4

\* The writes of newBooking.
LEMMA BookingWriteTypes ==
    ASSUME CabinsTypeInv, NEW p \in Bookers,
           CreateBooking(p) \/ SendBookingConfirmation(p)
    PROVE  CabinsTypeInv'
<1>0. p \in Clients /\ req[p] \in Calls /\ Carries(p, req[p])
  BY RowsTyped DEF Clients
<1>1. CASE CreateBooking(p)
  <2> DEFINE row == [start |-> req[p].stay.start, end |-> req[p].stay.end,
                     cabins |-> req[p].stay.cabins, guests |-> req[p].stay.guests,
                     status |-> "PENDING", totalCost |-> req[p].cost]
             call == [Idle EXCEPT !.pc = "mail", !.booking = Len(booking')]
  <2>1. req[p].stay \in Stays /\ req[p].cost \in Nat
    BY <1>0, <1>1 DEF CreateBooking, Carries, Calls
  <2>2. row \in BookingRows
    BY <2>1 DEF BookingRows, Stays, Statuses
  <2>3. booking' \in Seq(BookingRows) /\ Len(booking') \in Nat
    <3>1. booking' = Append(booking, row)
      BY <1>1 DEF CreateBooking
    <3> HIDE DEF row
    <3> QED
      BY <2>2, <3>1, RowsTyped, AppendProperties, LenProperties
  <2>4. call \in Calls /\ call.pc = "mail"
    BY <2>3, IdleTyped DEF Calls, PCs
  <2>5. Carries(p, call)
    BY <2>4 DEF Carries
  <2>6. req' = [req EXCEPT ![p] = call] /\ CabinsStay
    BY <1>1 DEF CreateBooking, Goto, CabinsStay
  <2> QED
    BY <1>0, <1>1, <2>3, <2>4, <2>5, <2>6, RowsTyped, CallStepTypes
    DEF CreateBooking, Goto, mail
<1>2. CASE SendBookingConfirmation(p)
  <2>1. emails' \subseteq Nat
    BY <1>0, <1>2, RowsTyped DEF SendBookingConfirmation, Calls
  <2>2. req' = [req EXCEPT ![p] = Idle] /\ Carries(p, Idle) /\ CabinsStay
    BY <1>2, IdleTyped DEF SendBookingConfirmation, Return, Goto, Carries, CabinsStay, rows
  <2> QED
    BY <1>0, <1>2, <2>1, <2>2, IdleTyped, RowsTyped, CallStepTypes
    DEF SendBookingConfirmation, Return, Goto, rows
<1> QED
  BY <1>1, <1>2

\* updateBookingStatus.
LEMMA StatusTypes ==
    ASSUME CabinsTypeInv, NEW p \in Admins,
           UpdateBookingStatus(p) \/ FindOccupied(p) \/ ValidateConfirmation(p)
           \/ UpdateBooking(p)
    PROVE  CabinsTypeInv'
<1>0. p \in Clients /\ p \notin Bookers /\ req[p] \in Calls /\ Carries(p, req[p])
  BY RowsTyped, BookingsAssumption DEF Clients
<1>1. CASE UpdateBookingStatus(p)
  <2>1. PICK b \in BookingIds, s \in MaySetStatus[p] :
          /\ Begin(p, [Idle EXCEPT
                !.pc = IF s = "CONFIRMED" THEN "occupied" ELSE "write",
                !.booking = b, !.status = s, !.stay = StayOf(booking[b]),
                !.left = booking[b].cabins])
          /\ UNCHANGED <<today, rows, uploaded, mail>>
    BY <1>1 DEF UpdateBookingStatus
  <2> DEFINE stay == StayOf(booking[b])
             call == [Idle EXCEPT
                !.pc = IF s = "CONFIRMED" THEN "occupied" ELSE "write",
                !.booking = b, !.status = s, !.stay = stay,
                !.left = booking[b].cabins]
  <2>2. b \in Nat /\ stay \in Stays /\ booking[b].cabins \subseteq Cabins
        /\ s \in Statuses
    BY BookingsTyped, BookingsAssumption
  <2>3. req' = [req EXCEPT ![p] = call] /\ calls' = [calls EXCEPT ![p] = @ + 1]
    BY <2>1 DEF Begin
  <2> HIDE DEF stay
  <2>4. call \in Calls /\ call.pc \in {"occupied", "write"} /\ call.stay = stay
    BY <2>2, IdleTyped DEF Calls, PCs
  <2>5. Carries(p, call)
    BY <1>0, <2>2, <2>4 DEF Carries
  <2> QED
    BY <1>0, <2>1, <2>3, <2>4, <2>5, MoveTypes
<1>2. CASE FindOccupied(p)
  <2>1. PICK c \in req[p].left :
          Goto(p, [req[p] EXCEPT
                      !.left = @ \ {c},
                      !.occupied = @ \cup OccupiedDateIntervals(BookingSet, c)])
    BY <1>2 DEF FindOccupied
  <2> DEFINE call == [req[p] EXCEPT
                      !.left = @ \ {c},
                      !.occupied = @ \cup OccupiedDateIntervals(BookingSet, c)]
  <2>2. OccupiedDateIntervals(BookingSet, c) \subseteq Intervals
    BY BookingsTyped
  <2>3. call \in Calls /\ call.pc = req[p].pc /\ call.stay = req[p].stay
        /\ call.update = req[p].update
    BY <1>0, <2>2 DEF Calls
  <2>4. Carries(p, call)
    BY <1>0, <2>3 DEF Carries
  <2> QED
    BY <1>0, <1>2, <2>1, <2>3, <2>4, MoveTypes DEF FindOccupied, Goto
<1>3. CASE ValidateConfirmation(p)
  <2> DEFINE write == [Idle EXCEPT !.pc = "write", !.booking = req[p].booking,
                                   !.status = req[p].status]
  <2>1. PICK call \in {Idle, write} : Goto(p, call)
    BY <1>3 DEF ValidateConfirmation, Return
  <2>2. write \in Calls /\ write.pc = "write"
    BY <1>0, IdleTyped DEF Calls, PCs
  <2>3. call \in Calls /\ call.pc \in {"idle", "write"}
    <3> HIDE DEF write
    <3> QED
      BY <2>1, <2>2, IdleTyped
  <2>4. Carries(p, call)
    BY <2>3 DEF Carries
  <2> QED
    BY <1>0, <1>3, <2>1, <2>3, <2>4, MoveTypes DEF ValidateConfirmation, Goto
<1>4. CASE UpdateBooking(p)
  <2>1. /\ booking' = [booking EXCEPT ![req[p].booking].status = req[p].status]
        /\ req[p].status \in Statuses
    BY <1>0, <1>4 DEF UpdateBooking, Calls
  <2>2. booking' \in Seq(BookingRows)
    <3>1. Len(booking) \in Nat /\ booking \in [1 .. Len(booking) -> BookingRows]
      BY RowsTyped, LenProperties
    <3>2. booking' \in [1 .. Len(booking) -> BookingRows]
      BY <2>1, <3>1 DEF BookingRows
    <3> QED
      BY <3>1, <3>2
  <2>3. req' = [req EXCEPT ![p] = Idle] /\ Carries(p, Idle) /\ CabinsStay
    BY <1>4, IdleTyped DEF UpdateBooking, Return, Goto, Carries, CabinsStay
  <2> QED
    BY <1>0, <1>4, <2>2, <2>3, IdleTyped, RowsTyped, CallStepTypes
    DEF UpdateBooking, Return, Goto, mail
<1> QED
  BY <1>1, <1>2, <1>3, <1>4

\* What an update makes of a semester, or of the defaults of one.
LEMMA UpdatedTyped ==
    ASSUME NEW u \in SemesterUpdates, NEW row,
           row.startAt \in Days, row.endAt \in Days, row.bookingsEnabled \in BOOLEAN
    PROVE  Updated(row, u) \in SemesterRows
<1>1. /\ u.startAt \in Days \cup {Undefined, Null} /\ u.endAt \in Days \cup {Undefined, Null}
      /\ u.bookingsEnabled \in BOOLEAN \cup {Undefined, Null}
  BY DEF SemesterUpdates
<1>2. Or(u.startAt, row.startAt) \in Days /\ Or(u.endAt, row.endAt) \in Days
  BY <1>1 DEF Or
<1>3. Or(u.bookingsEnabled, row.bookingsEnabled) \in BOOLEAN
  BY <1>1, Zenon DEF Or
<1> QED
  BY <1>2, <1>3 DEF Updated, SemesterRows

\* updateBookingSemester.
LEMMA SemesterTypes ==
    ASSUME CabinsTypeInv, NEW p \in Admins,
           UpdateBookingSemester(p) \/ CreateBookingSemester(p)
    PROVE  CabinsTypeInv'
<1>0. p \in Clients /\ p \notin Bookers /\ req[p] \in Calls /\ Carries(p, req[p])
  BY RowsTyped, BookingsAssumption DEF Clients
<1>1. CASE UpdateBookingSemester(p)
  <2>1. PICK u \in MaySetSemester[p] :
          /\ IF Exists(u.semester)
             THEN /\ Begin(p, Idle)
                  /\ semester' = [semester EXCEPT ![u.semester] = Updated(@, u)]
             ELSE /\ Begin(p, [Idle EXCEPT !.pc = "createSemester", !.update = u])
                  /\ UNCHANGED semester
          /\ UNCHANGED <<today, cabin, booking, terms, files, contact, uploaded, mail>>
    BY <1>1 DEF UpdateBookingSemester
  <2>2. u \in SemesterUpdates /\ u.semester \in Semesters
    BY BookingsAssumption DEF SemesterUpdates
  <2>3. CabinsStay
    BY <2>1 DEF CabinsStay
  <2>4. CASE Exists(u.semester)
    <3>1. semester[u.semester] \in SemesterRows
      BY <2>2, <2>4, RowsTyped DEF Exists
    <3>2. Updated(semester[u.semester], u) \in SemesterRows
      BY <2>2, <3>1, UpdatedTyped DEF SemesterRows
    <3>3. semester' \in [Semesters -> SemesterRows \cup {NoRow}]
      BY <2>1, <2>4, <3>2, RowsTyped
    <3>4. Carries(p, Idle)
      BY IdleTyped DEF Carries
    <3> QED
      BY <1>0, <2>1, <2>3, <2>4, <3>3, <3>4, IdleTyped, RowsTyped, CallStepTypes
      DEF Begin, mail
  <2>5. CASE ~Exists(u.semester)
    <3> DEFINE call == [Idle EXCEPT !.pc = "createSemester", !.update = u]
    <3>1. call \in Calls /\ call.pc = "createSemester" /\ call.update = u
      BY <2>2, IdleTyped DEF Calls, PCs
    <3>2. Carries(p, call)
      BY <2>2, <3>1 DEF Carries
    <3> QED
      BY <1>0, <2>1, <2>5, <3>1, <3>2, MoveTypes DEF Begin, rows
  <2> QED
    BY <2>4, <2>5
<1>2. CASE CreateBookingSemester(p)
  <2> DEFINE u == req[p].update
             default == [startAt |-> SemesterDefaults[u.semester].startAt,
                         endAt |-> SemesterDefaults[u.semester].endAt,
                         bookingsEnabled |-> FALSE]
  <2>1. u \in SemesterUpdates /\ u.semester \in Semesters
    BY <1>0, <1>2 DEF CreateBookingSemester, Carries, SemesterUpdates
  <2>2. /\ default.startAt \in Days /\ default.endAt \in Days
        /\ default.bookingsEnabled \in BOOLEAN
    BY <2>1, BookingsAssumption
  <2>3. Updated(default, u) \in SemesterRows
    <3> HIDE DEF default, u
    <3> QED
      BY <2>1, <2>2, UpdatedTyped
  <2>4. \/ semester' = semester
        \/ semester' = [semester EXCEPT ![u.semester] = Updated(default, u)]
    BY <1>2 DEF CreateBookingSemester
  <2>5. semester' \in [Semesters -> SemesterRows \cup {NoRow}]
    <3> HIDE DEF default, u
    <3> QED
      BY <2>1, <2>3, <2>4, RowsTyped
  <2>6. req' = [req EXCEPT ![p] = Idle] /\ Carries(p, Idle) /\ CabinsStay
    BY <1>2, IdleTyped DEF CreateBookingSemester, Return, Goto, Carries, CabinsStay
  <2> QED
    BY <1>0, <1>2, <2>5, <2>6, IdleTyped, RowsTyped, CallStepTypes
    DEF CreateBookingSemester, Return, Goto, mail
<1> QED
  BY <1>1, <1>2

\* Cabins.
LEMMA CabinTypes ==
    ASSUME CabinsTypeInv, NEW p \in Admins, CreateCabin(p) \/ UpdateCabin(p)
    PROVE  CabinsTypeInv'
<1>0. p \in Clients /\ Carries(p, Idle)
  BY IdleTyped DEF Clients, Carries
<1>1. ASSUME NEW c \in Cabins, NEW row \in CabinRows, Begin(p, Idle),
             cabin' = [cabin EXCEPT ![c] = row],
             UNCHANGED <<today, semester, booking, terms, files, contact, uploaded, mail>>
      PROVE  CabinsTypeInv'
  <2>1. cabin' \in [Cabins -> CabinRows \cup {NoRow}]
    BY <1>1, RowsTyped
  <2>2. CabinsStay
    BY <1>1, RowsTyped, BookingsAssumption DEF CabinsStay
  <2> QED
    BY <1>0, <1>1, <2>1, <2>2, IdleTyped, RowsTyped, CallStepTypes DEF Begin, mail
<1>2. CASE CreateCabin(p)
  BY <1>1, <1>2, BookingsAssumption DEF CreateCabin
<1>3. CASE UpdateCabin(p)
  <2>1. PICK u \in MayUpdateCabin[p] :
          /\ cabin[u.id] # NoRow
          /\ Begin(p, Idle)
          /\ cabin' = [cabin EXCEPT ![u.id] =
                [capacity |-> Or(u.capacity, @.capacity),
                 internalPrice |-> Or(u.internalPrice, @.internalPrice),
                 externalPrice |-> Or(u.externalPrice, @.externalPrice),
                 internalPriceWeekend |->
                    Or(u.internalPriceWeekend, @.internalPriceWeekend),
                 externalPriceWeekend |->
                    Or(u.externalPriceWeekend, @.externalPriceWeekend)]]
          /\ UNCHANGED <<today, semester, booking, terms, files, contact, uploaded, mail>>
    BY <1>3 DEF UpdateCabin
  <2>2. u \in CabinUpdates /\ u.id \in Cabins
    BY BookingsAssumption DEF CabinUpdates
  <2> DEFINE old == cabin[u.id]
  <2>3. old \in CabinRows
    BY <2>1, <2>2, RowsTyped
  <2>4. \A x \in Nat, y \in OrUndefined(Nat) : Or(y, x) \in Nat
    BY DEF Or, OrUndefined
  <2> DEFINE row == [capacity |-> Or(u.capacity, old.capacity),
                     internalPrice |-> Or(u.internalPrice, old.internalPrice),
                     externalPrice |-> Or(u.externalPrice, old.externalPrice),
                     internalPriceWeekend |->
                        Or(u.internalPriceWeekend, old.internalPriceWeekend),
                     externalPriceWeekend |->
                        Or(u.externalPriceWeekend, old.externalPriceWeekend)]
  <2>5. row \in CabinRows
    BY <2>2, <2>3, <2>4 DEF CabinUpdates, CabinRows
  <2>6. cabin' = [cabin EXCEPT ![u.id] = row]
    BY <2>1
  <2> HIDE DEF row
  <2> QED
    BY <1>1, <2>1, <2>2, <2>5, <2>6
<1> QED
  BY <1>2, <1>3

\* The contact and the terms.
LEMMA TermsTypes ==
    ASSUME CabinsTypeInv, NEW p \in Admins,
           UpdateBookingContact(p) \/ UpdateBookingTerms(p) \/ CreateBookingTerms(p)
    PROVE  CabinsTypeInv'
<1>0. p \in Clients /\ req[p] \in Calls /\ Carries(p, Idle)
  BY RowsTyped, IdleTyped DEF Clients, Carries
<1>1. CASE UpdateBookingContact(p)
  <2>1. CabinsStay
    BY <1>1 DEF UpdateBookingContact, CabinsStay
  <2> QED
    BY <1>0, <1>1, <2>1, IdleTyped, RowsTyped, CallStepTypes
    DEF UpdateBookingContact, Begin, mail
<1>2. CASE UpdateBookingTerms(p)
  <2> DEFINE call == [Idle EXCEPT !.pc = "createTerms", !.file = files']
  <2>1. files' \in Nat /\ CabinsStay
    BY <1>2, RowsTyped DEF UpdateBookingTerms, CabinsStay
  <2>2. call \in Calls /\ call.pc = "createTerms"
    BY <2>1, IdleTyped DEF Calls, PCs
  <2>3. Carries(p, call)
    BY <2>2 DEF Carries
  <2>4. req' = [req EXCEPT ![p] = call] /\ calls' = [calls EXCEPT ![p] = @ + 1]
    BY <1>2 DEF UpdateBookingTerms, Begin
  <2> QED
    BY <1>0, <1>2, <2>1, <2>2, <2>3, <2>4, RowsTyped, CallStepTypes
    DEF UpdateBookingTerms, mail
<1>3. CASE CreateBookingTerms(p)
  <2>1. terms' \in Seq(Nat) /\ CabinsStay
    BY <1>0, <1>3, RowsTyped, AppendProperties DEF CreateBookingTerms, CabinsStay, Calls
  <2> QED
    BY <1>0, <1>3, <2>1, IdleTyped, RowsTyped, CallStepTypes
    DEF CreateBookingTerms, Return, Goto, mail
<1> QED
  BY <1>1, <1>2, <1>3

\* The mail worker, failures, uploads and the clock.
LEMMA WorldTypes ==
    ASSUME CabinsTypeInv,
           \/ \E p \in Clients : CallFails(p)
           \/ MailWorker \/ Upload \/ Tick \/ UNCHANGED vars
    PROVE  CabinsTypeInv'
<1>1. ASSUME NEW p \in Clients, CallFails(p) PROVE CabinsTypeInv'
  <2>1. req[p] \in Calls /\ Carries(p, Idle) /\ CabinsStay
    BY <1>1, RowsTyped, IdleTyped DEF Carries, CallFails, CabinsStay, rows
  <2>2. unannounced' \subseteq Nat
    BY <1>1, <2>1, RowsTyped DEF CallFails, Calls
  <2> QED
    BY <1>1, <2>1, <2>2, IdleTyped, RowsTyped, CallStepTypes
    DEF CallFails, Return, Goto, rows
<1>2. CASE MailWorker
  <2>1. UNCHANGED <<today, rows, uploaded, unannounced, req, calls>>
    BY <1>2 DEF MailWorker, TakeReceiptJob, SendReceipt
  <2>2. emails' \subseteq Nat /\ receipts' \subseteq Nat /\ failed' \subseteq Nat
    BY <1>2 DEF MailWorker, TakeReceiptJob, SendReceipt, CabinsTypeInv, CabinsTypeOK,
                WorkerStates
  <2>3. worker' \in WorkerStates
    <3>1. CASE TakeReceiptJob
      <4>1. terms # <<>> => terms[Len(terms)] \in Nat
        BY RowsTyped, LenProperties, ElementOfSeq, EmptySeq
      <4> QED
        BY <3>1, <4>1, RowsTyped DEF TakeReceiptJob, WorkerStates
    <3>2. CASE SendReceipt
      BY <3>2 DEF SendReceipt, CabinsTypeInv, CabinsTypeOK, WorkerStates
    <3> QED
      BY <1>2, <3>1, <3>2 DEF MailWorker
  <2> QED
    BY <2>1, <2>2, <2>3 DEF CabinsTypeInv, CabinsTypeOK, Carries, rows
<1>3. CASE Upload
  BY <1>3 DEF Upload, CabinsTypeInv, CabinsTypeOK, Carries, rows, mail
<1>4. CASE Tick
  BY <1>4 DEF Tick, CabinsTypeInv, CabinsTypeOK, Carries, rows, mail
<1>5. CASE UNCHANGED vars
  BY <1>5 DEF vars, CabinsTypeInv, CabinsTypeOK, Carries, rows, mail
<1> QED
  BY <1>1, <1>2, <1>3, <1>4, <1>5

\* Every variable has its type in every reachable state; what a booking costs
\* is a number, although the cabins are read once more to compute it.
THEOREM CabinsTypeCorrect == Spec => []CabinsTypeOK
<1>1. Init => CabinsTypeInv
  <2> SUFFICES ASSUME Init PROVE CabinsTypeInv
    OBVIOUS
  <2>1. Len(terms) \in Nat /\ 1 .. Len(terms) \subseteq Nat
    BY BookingsAssumption, LenProperties DEF Init
  <2> QED
    BY <2>1, BookingsAssumption, IdleTyped
    DEF Init, CabinsTypeInv, CabinsTypeOK, Carries, WorkerStates
<1>2. CabinsTypeInv /\ [Next]_vars => CabinsTypeInv'
  BY NewBookingTypes, BookingWriteTypes, StatusTypes, SemesterTypes, CabinTypes,
     TermsTypes, WorldTypes
  DEF Next, Booker, BookerContinues, Admin, AdminContinues
<1>3. CabinsTypeInv => CabinsTypeOK
  BY DEF CabinsTypeInv
<1> QED
  BY <1>1, <1>2, <1>3, PTL DEF Spec
=============================================================================
