----------------------------- MODULE ViewProofs -----------------------------
(***************************************************************************)
(* The pages of the admin UI are right, for any tables, filters and number *)
(* of requests under way.                                                  *)
(*                                                                         *)
(* The argument has three parts.  The filter writes over the array that it *)
(* ranges over: Filtered is its loop invariant, and FilterInPlaceIs has it *)
(* for every pass, because there is no first pass where it fails.  A page  *)
(* sums over places in an array and the proxy over a set of rows:          *)
(* SpentIsTotal shows that these are the same sum where the array has no   *)
(* row twice.  With these, GoodPage is what a page satisfies whatever      *)
(* happens to the tables while it is put together, and ReadRight says which*)
(* rows it has read.                                                       *)
(***************************************************************************)
EXTENDS AdminView, StoreProofs, SequenceTheorems

-----------------------------------------------------------------------------
(* The filter that writes over the array it reads.                         *)

\* The function that FilterInPlace chooses, over the first n rows.
Filtering(rows, filter, n, loop) ==
  loop = [i \in 0..n |->
        IF i = 0 THEN [array |-> rows, kept |-> 0]
        ELSE IF Matches(filter, loop[i - 1].array[i])
             THEN [array |-> [loop[i - 1].array EXCEPT
                                ![loop[i - 1].kept + 1] = loop[i - 1].array[i]],
                   kept |-> loop[i - 1].kept + 1]
             ELSE loop[i - 1]]

\* FilterInPlace is the last value of the loop.
LEMMA FilterIsLoop ==
  ASSUME NEW rows, NEW filter
  PROVE FilterInPlace(rows, filter) =
          (CHOOSE loop : Filtering(rows, filter, Len(rows), loop))[Len(rows)]
  BY DEF FilterInPlace, Filtering

\* There is such a function: the equation that defines it is not empty.
LEMMA FilteringExists ==
  ASSUME NEW rows, NEW filter, NEW n \in Nat
  PROVE \E loop : Filtering(rows, filter, n, loop)
  <1> DEFINE Bad == {m \in Nat : ~ \E loop : Filtering(rows, filter, m, loop)}
  <1>1. SUFFICES ASSUME Bad # {} PROVE FALSE
    BY <1>1
  <1>2. PICK m \in Bad : \A k \in Bad : m <= k
    <2>1. Bad \subseteq Nat
      OBVIOUS
    <2> HIDE DEF Bad
    <2> QED BY <1>1, <2>1, SmallestOf
  <1>3. m # 0
    <2> DEFINE g == [i \in 0..0 |-> [array |-> rows, kept |-> 0]]
    <2>1. Filtering(rows, filter, 0, g)
      BY DEF Filtering
    <2> HIDE DEF g
    <2> QED BY <1>2, <2>1
  <1> DEFINE k == m - 1
  <1>4. k \in Nat /\ m = k + 1 /\ k \notin Bad
    BY <1>2, <1>3
  <1>5. PICK g : Filtering(rows, filter, k, g)
    BY <1>4
  <1> HIDE DEF k
  <1> DEFINE step(b, t) == IF Matches(filter, t)
                           THEN [array |-> [b.array EXCEPT ![b.kept + 1] = t],
                                 kept |-> b.kept + 1]
                           ELSE b
             h == [i \in 0..m |-> IF i = m THEN step(g[k], g[k].array[m]) ELSE g[i]]
  <1>6. ASSUME NEW i \in 0..m
        PROVE h[i] = IF i = 0 THEN [array |-> rows, kept |-> 0]
                     ELSE step(h[i - 1], h[i - 1].array[i])
    <2>1. CASE i = m
      <3>1. h[k] = g[k] /\ i - 1 = k /\ i # 0
        BY <1>4, <2>1
      <3> QED BY <2>1, <3>1
    <2>2. CASE i # m
      <3>1. i \in 0..k
        BY <1>4, <2>2
      <3>2. i # 0 => i - 1 \in 0..k /\ i - 1 # m /\ i - 1 \in 0..m
        BY <1>4, <3>1
      <3>3. h[i] = g[i] /\ (i # 0 => h[i - 1] = g[i - 1])
        BY <2>2, <3>2
      <3>4. g[i] = IF i = 0 THEN [array |-> rows, kept |-> 0]
                   ELSE step(g[i - 1], g[i - 1].array[i])
        BY <1>5, <3>1 DEF Filtering
      <3> HIDE DEF h, step
      <3> QED BY <3>3, <3>4
    <2> QED BY <2>1, <2>2
  <1>7. h = [i \in 0..m |-> h[i]]
    OBVIOUS
  <1>8. \A i \in 0..m : h[i] = IF i = 0 THEN [array |-> rows, kept |-> 0]
                               ELSE step(h[i - 1], h[i - 1].array[i])
    BY <1>6
  <1> HIDE DEF h
  <1>9. Filtering(rows, filter, m, h)
    BY <1>7, <1>8, Zenon DEF Filtering
  <1> QED BY <1>2, <1>9

\* Where the loop is after i rows: what it kept of them is in front, in order;
\* what it has not yet read is untouched.
Filtered(rows, filter, i, before) ==
  /\ before.array \in [1..Len(rows) -> Row]
  /\ \A j \in 1..Len(rows) : before.array[j] \in Range(rows)
  /\ before.kept \in 0..i
  /\ \A j \in (i + 1)..Len(rows) : before.array[j] = rows[j]
  /\ \A j \in 1..before.kept :
       \E o \in 1..i : before.array[j] = rows[o] /\ Matches(filter, rows[o])
  /\ \A o \in 1..i : Matches(filter, rows[o]) =>
       \E j \in 1..before.kept : before.array[j] = rows[o]
  /\ \A j, k \in 1..before.kept : \A o, p \in 1..i :
       j < k /\ before.array[j] = rows[o] /\ before.array[k] = rows[p] => o < p
  /\ (\A o \in 1..i : Matches(filter, rows[o])) => before.kept = i

\* A pass that keeps its row ...
LEMMA FilterKeeps ==
  ASSUME NEW rows \in Seq(Row), IsInjective(rows), NEW filter,
         NEW i \in 1..Len(rows), NEW before, Filtered(rows, filter, i - 1, before),
         Matches(filter, before.array[i])
  PROVE Filtered(rows, filter, i,
          [array |-> [before.array EXCEPT ![before.kept + 1] = before.array[i]],
           kept |-> before.kept + 1])
  <1> DEFINE N == Len(rows)
             old == before.array
             n == before.kept
             t == old[i]
             new == [old EXCEPT ![n + 1] = t]
             after == [array |-> new, kept |-> n + 1]
  <1>1. N \in Nat /\ rows \in [1..N -> Row] /\ i \in 1..N
    OBVIOUS
  <1>2. \A o, p \in 1..N : rows[o] = rows[p] => o = p
    BY DEF IsInjective
  <1>3. /\ old \in [1..N -> Row] /\ n \in 0..(i - 1)
        /\ \A j \in i..N : old[j] = rows[j]
    BY DEF Filtered
  <1>4. \A j \in 1..n : \E o \in 1..(i - 1) : old[j] = rows[o] /\ Matches(filter, rows[o])
    BY DEF Filtered
  <1>5. \A o \in 1..(i - 1) : Matches(filter, rows[o]) => \E j \in 1..n : old[j] = rows[o]
    BY DEF Filtered
  <1>6. \A j, k \in 1..n : \A o, p \in 1..(i - 1) :
          j < k /\ old[j] = rows[o] /\ old[k] = rows[p] => o < p
    BY DEF Filtered
  <1>7. t = rows[i] /\ Matches(filter, rows[i])
    BY <1>1, <1>3
  <1>8. n + 1 \in 1..N
    BY <1>1, <1>3
  <1>9. new \in [1..N -> Row] /\ new[n + 1] = rows[i] /\ \A j \in 1..N : j # n + 1 => new[j] = old[j]
    BY <1>1, <1>3, <1>7, <1>8
  <1> HIDE DEF old, n, t, new, N
  <1>10. \A j \in (i + 1)..N : new[j] = rows[j]
    BY <1>1, <1>3, <1>9
  <1>11. \A j \in 1..(n + 1) : j = n + 1 \/ (j \in 1..n /\ new[j] = old[j])
    BY <1>1, <1>3, <1>9
  <1>12. \A o \in 1..i : o = i \/ o \in 1..(i - 1)
    BY <1>1
  <1>13. \A j \in 1..(n + 1) : \E o \in 1..i : new[j] = rows[o] /\ Matches(filter, rows[o])
    BY <1>1, <1>4, <1>7, <1>9, <1>11
  <1>14. \A o \in 1..i : Matches(filter, rows[o]) => \E j \in 1..(n + 1) : new[j] = rows[o]
    <2> SUFFICES ASSUME NEW o \in 1..i, Matches(filter, rows[o])
                 PROVE \E j \in 1..(n + 1) : new[j] = rows[o]
      OBVIOUS
    <2>1. CASE o = i
      BY <1>3, <1>9, <2>1
    <2>2. CASE o \in 1..(i - 1)
      <3>1. PICK j \in 1..n : old[j] = rows[o]
        BY <1>5, <2>2
      <3>2. j \in 1..(n + 1) /\ j # n + 1 /\ j \in 1..N
        BY <1>1, <1>3, <3>1
      <3> QED BY <1>9, <3>1, <3>2
    <2> QED BY <1>12, <2>1, <2>2
  <1>15. ASSUME NEW j \in 1..(n + 1), NEW k \in 1..(n + 1), NEW o \in 1..i, NEW p \in 1..i,
                j < k, new[j] = rows[o], new[k] = rows[p]
         PROVE o < p
    <2>1. j \in 1..n /\ new[j] = old[j]
      BY <1>3, <1>11, <1>15
    <2>2. PICK q \in 1..(i - 1) : old[j] = rows[q]
      BY <1>4, <2>1
    <2>3. o = q
      <3>1. o \in 1..N /\ q \in 1..N /\ rows[o] = rows[q]
        BY <1>1, <1>15, <2>1, <2>2
      <3> QED BY <1>2, <3>1
    <2>4. CASE k = n + 1
      <3>1. p = i
        BY <1>1, <1>2, <1>9, <1>15, <2>4
      <3> QED BY <1>1, <2>3, <3>1
    <2>5. CASE k \in 1..n /\ new[k] = old[k]
      <3>1. PICK r \in 1..(i - 1) : old[k] = rows[r]
        BY <1>4, <2>5
      <3>2. p = r
        <4>1. p \in 1..N /\ r \in 1..N /\ rows[p] = rows[r]
          BY <1>1, <1>15, <2>5, <3>1
        <4> QED BY <1>2, <4>1
      <3> QED BY <1>6, <1>15, <2>1, <2>2, <2>3, <2>5, <3>1, <3>2
    <2> QED BY <1>11, <2>4, <2>5
  <1>16. n + 1 \in 0..i
    BY <1>1, <1>3
  <1>19. (\A o \in 1..(i - 1) : Matches(filter, rows[o])) => n = i - 1
    BY DEF Filtered, n
  <1>20. (\A o \in 1..i : Matches(filter, rows[o])) => n + 1 = i
    <2>1. \A o \in 1..(i - 1) : o \in 1..i
      BY <1>1
    <2> QED BY <1>1, <1>19, <2>1
  <1>17. after.array = new /\ after.kept = n + 1
    OBVIOUS
  <1> HIDE DEF after
  <1>21. \A j \in 1..N : new[j] \in Range(rows)
    <2>1. \A j \in 1..N : old[j] \in Range(rows)
      BY DEF Filtered, old, N
    <2>2. rows[i] \in Range(rows)
      BY <1>1 DEF Range
    <2> QED BY <1>9, <2>1, <2>2
  <1>22. new \in [1..N -> Row]
    BY <1>9
  <1>18. Filtered(rows, filter, i, after)
    BY <1>22, <1>10, <1>21, <1>13, <1>14, <1>15, <1>16, <1>17, <1>20, Zenon DEF Filtered, N
  <1> QED BY <1>18, Zenon DEF after, new, n, t, old

\* ... and one that does not.
LEMMA FilterDrops ==
  ASSUME NEW rows \in Seq(Row), IsInjective(rows), NEW filter,
         NEW i \in 1..Len(rows), NEW before, Filtered(rows, filter, i - 1, before),
         ~ Matches(filter, before.array[i])
  PROVE Filtered(rows, filter, i, before)
  <1> DEFINE N == Len(rows)
             old == before.array
             n == before.kept
  <1>1. N \in Nat /\ rows \in [1..N -> Row] /\ i \in 1..N
    OBVIOUS
  <1>2. \A o, p \in 1..N : rows[o] = rows[p] => o = p
    BY DEF IsInjective
  <1>3. /\ old \in [1..N -> Row] /\ n \in 0..(i - 1)
        /\ \A j \in i..N : old[j] = rows[j]
    BY DEF Filtered
  <1>4. \A j \in 1..n : \E o \in 1..(i - 1) : old[j] = rows[o] /\ Matches(filter, rows[o])
    BY DEF Filtered
  <1>5. \A o \in 1..(i - 1) : Matches(filter, rows[o]) => \E j \in 1..n : old[j] = rows[o]
    BY DEF Filtered
  <1>6. \A j, k \in 1..n : \A o, p \in 1..(i - 1) :
          j < k /\ old[j] = rows[o] /\ old[k] = rows[p] => o < p
    BY DEF Filtered
  <1>7. ~ Matches(filter, rows[i])
    BY <1>1, <1>3
  <1> HIDE DEF old, n, N
  <1>8. \A o \in 1..i : o \in 1..N /\ (o = i \/ o \in 1..(i - 1))
    BY <1>1
  <1>9. \A o \in 1..(i - 1) : o \in 1..i /\ o \in 1..N
    BY <1>1
  <1>10. \A j \in 1..n : \E o \in 1..i : old[j] = rows[o] /\ Matches(filter, rows[o])
    BY <1>4, <1>9
  <1>11. \A o \in 1..i : Matches(filter, rows[o]) => \E j \in 1..n : old[j] = rows[o]
    BY <1>5, <1>7, <1>8
  <1>12. ASSUME NEW j \in 1..n, NEW o \in 1..i, old[j] = rows[o] PROVE o \in 1..(i - 1)
    <2>1. PICK q \in 1..(i - 1) : old[j] = rows[q]
      BY <1>4
    <2> QED BY <1>2, <1>8, <1>9, <1>12, <2>1
  <1>13. \A j, k \in 1..n : \A o, p \in 1..i :
           j < k /\ old[j] = rows[o] /\ old[k] = rows[p] => o < p
    BY <1>6, <1>12
  <1>14. n \in 0..i /\ \A j \in (i + 1)..N : old[j] = rows[j]
    BY <1>1, <1>3
  <1>15. i \in 1..i
    BY <1>1
  <1>16. \A j \in 1..N : old[j] \in Range(rows)
    BY DEF Filtered, old, N
  <1> QED BY <1>3, <1>7, <1>10, <1>11, <1>13, <1>14, <1>15, <1>16 DEF Filtered, old, n, N

\* What the loop leaves, for every filter and every list of different rows.
LEMMA FilterInPlaceIs ==
  ASSUME NEW rows \in Seq(Row), IsInjective(rows), NEW filter
  PROVE Filtered(rows, filter, Len(rows), FilterInPlace(rows, filter))
  <1> DEFINE N    == Len(rows)
             loop == CHOOSE loop : Filtering(rows, filter, N, loop)
             Bad  == {i \in 0..N : ~ Filtered(rows, filter, i, loop[i])}
  <1>1. N \in Nat
    OBVIOUS
  <1>2. Filtering(rows, filter, N, loop)
    BY <1>1, FilteringExists
  <1>3. FilterInPlace(rows, filter) = loop[N]
    BY FilterIsLoop
  <1> HIDE DEF loop
  <1>4. Bad = {}
    <2>1. SUFFICES ASSUME Bad # {} PROVE FALSE
      BY <2>1
    <2>2. PICK i \in Bad : \A k \in Bad : i <= k
      <3>1. Bad \subseteq Nat
        BY <1>1
      <3> HIDE DEF Bad
      <3> QED BY <2>1, <3>1, SmallestOf
    <2>3. i \in 0..N /\ ~ Filtered(rows, filter, i, loop[i])
      BY <2>2
    <2>4. i # 0
      <3>1. loop[0] = [array |-> rows, kept |-> 0]
        BY <1>1, <1>2 DEF Filtering
      <3>2. Filtered(rows, filter, 0, loop[0])
        BY <3>1 DEF Filtered, Range
      <3> QED BY <2>3, <3>2
    <2> DEFINE before == loop[i - 1]
    <2>5. i \in 1..N /\ i - 1 \in 0..N /\ i - 1 \notin Bad
      BY <1>1, <2>2, <2>3, <2>4
    <2>6. Filtered(rows, filter, i - 1, before)
      BY <2>5, Zenon
    <2>7. loop[i] = IF Matches(filter, before.array[i])
                    THEN [array |-> [before.array EXCEPT ![before.kept + 1] = before.array[i]],
                          kept |-> before.kept + 1]
                    ELSE before
      BY <1>2, <2>3, <2>4 DEF Filtering
    <2> HIDE DEF before, Bad
    <2>8. i \in 1..Len(rows)
      BY <2>5
    <2>9. CASE Matches(filter, before.array[i])
      <3>1. Filtered(rows, filter, i,
              [array |-> [before.array EXCEPT ![before.kept + 1] = before.array[i]],
               kept |-> before.kept + 1])
        BY <2>6, <2>8, <2>9, FilterKeeps
      <3> QED BY <2>3, <2>7, <2>9, <3>1, Zenon
    <2>10. CASE ~ Matches(filter, before.array[i])
      <3>1. Filtered(rows, filter, i, before)
        BY <2>6, <2>8, <2>10, FilterDrops
      <3> QED BY <2>3, <2>7, <2>10, <3>1, Zenon
    <2> QED BY <2>9, <2>10
  <1>5. N \in 0..N /\ N \notin Bad
    BY <1>1, <1>4
  <1>6. Filtered(rows, filter, N, loop[N])
    BY <1>5, Zenon
  <1> QED BY <1>3, <1>6, Zenon

\* What ORDER BY gives: the rows of the table, once each, newest first.
LEMMA NewestFirstIs ==
  ASSUME NEW S, S \subseteq Row, IsFiniteSet(S), NEW rows \in NewestFirst(S)
  PROVE /\ rows \in Seq(Row) /\ IsInjective(rows) /\ Range(rows) = S
        /\ \A i, j \in DOMAIN rows : i < j => rows[i].createdAt >= rows[j].createdAt
  <1> DEFINE n == Cardinality(S)
  <1>1. n \in Nat
    BY FS_CardinalityType
  <1>2. /\ rows \in [1..n -> S] /\ \A i, j \in 1..n : i # j => rows[i] # rows[j]
        /\ \A i, j \in DOMAIN rows : i < j => rows[i].createdAt >= rows[j].createdAt
    BY DEF NewestFirst, SetToSeqs
  <1>3. IsFiniteSet(1..n) /\ Cardinality(1..n) = n
    <2>1. 1 \in Int /\ n \in Int
      BY <1>1
    <2>2. Cardinality(1..n) = IF 1 > n THEN 0 ELSE n - 1 + 1
      BY <2>1, FS_Interval
    <2> HIDE DEF n
    <2> QED BY <1>1, <2>1, <2>2, FS_Interval
  <1>4. rows \in Injection(1..n, S)
    BY <1>2 DEF Injection, IsInjective
  <1>5. rows \in Surjection(1..n, S)
    BY <1>3, <1>4, FS_Injection
  <1>6. Range(rows) = S
    BY <1>2, <1>5 DEF Surjection, Range
  <1>7. rows \in Seq(Row)
    BY <1>1, <1>2
  <1> QED BY <1>2, <1>6, <1>7 DEF IsInjective

\* What FilterTransactions puts on a page.
LEMMA FilteredPage ==
  ASSUME NEW rows \in Seq(Row), IsInjective(rows), NEW filter,
         \A i, j \in DOMAIN rows : i < j => rows[i].createdAt >= rows[j].createdAt
  PROVE LET result == FilterInPlace(rows, filter)
            shown  == SubSeq(result.array, 1, result.kept)
        IN  /\ result.array \in Seq(Row) /\ shown \in Seq(Row)
            /\ Range(result.array) \subseteq Range(rows)
            /\ IsInjective(shown)
            /\ Range(shown) = {t \in Range(rows) : Matches(filter, t)}
            /\ \A i, j \in DOMAIN shown : i < j => shown[i].createdAt >= shown[j].createdAt
            /\ (\A t \in Range(rows) : Matches(filter, t)) => shown = result.array
  <1> DEFINE result == FilterInPlace(rows, filter)
             array  == result.array
             n      == result.kept
             shown  == SubSeq(array, 1, n)
             N      == Len(rows)
  <1>1. N \in Nat /\ rows \in [1..N -> Row] /\ DOMAIN rows = 1..N
    OBVIOUS
  <1>2. /\ array \in [1..N -> Row] /\ n \in 0..N
        /\ \A j \in 1..N : array[j] \in Range(rows)
        /\ \A j \in 1..n : \E o \in 1..N : array[j] = rows[o] /\ Matches(filter, rows[o])
        /\ \A o \in 1..N : Matches(filter, rows[o]) => \E j \in 1..n : array[j] = rows[o]
        /\ \A j, k \in 1..n : \A o, p \in 1..N :
             j < k /\ array[j] = rows[o] /\ array[k] = rows[p] => o < p
        /\ (\A o \in 1..N : Matches(filter, rows[o])) => n = N
    <2>1. Filtered(rows, filter, N, result)
      BY FilterInPlaceIs
    <2> HIDE DEF result, N
    <2> QED BY <2>1 DEF Filtered, N
  <1> HIDE DEF result, array, n, N
  <1>3. array \in Seq(Row) /\ Len(array) = N
    BY <1>1, <1>2
  <1>4. /\ shown \in [1..n -> Row] /\ Len(shown) = n /\ DOMAIN shown = 1..n
        /\ shown \in Seq(Row)
        /\ \A j \in 1..n : shown[j] = array[j]
    <2>1. n \in Int /\ 1 \in Int /\ \A j \in 1..n : array[j] \in Row
      BY <1>1, <1>2
    <2>2. /\ shown \in Seq(Row)
          /\ Len(shown) = IF 1 <= n THEN (n - 1) + 1 ELSE 0
          /\ \A j \in 1..((n - 1) + 1) : shown[j] = array[(1 + j) - 1]
      BY <2>1, SubSeqProperties
    <2> HIDE DEF shown
    <2>3. Len(shown) = n /\ (n - 1) + 1 = n
      BY <1>1, <1>2, <2>2
    <2>4. \A j \in 1..n : shown[j] = array[j]
      BY <1>1, <1>2, <2>2, <2>3
    <2>5. DOMAIN shown = 1..n /\ shown \in [1..n -> Row]
      BY <2>2, <2>3
    <2> QED BY <2>2, <2>3, <2>4, <2>5
  <1> HIDE DEF shown
  <1>5. ASSUME NEW j \in 1..n, NEW k \in 1..n, j < k
        PROVE shown[j] # shown[k] /\ shown[j].createdAt >= shown[k].createdAt
    <2>1. PICK o \in 1..N : array[j] = rows[o]
      BY <1>2
    <2>2. PICK p \in 1..N : array[k] = rows[p]
      BY <1>2
    <2>3. o < p
      BY <1>2, <1>5, <2>1, <2>2
    <2>4. rows[o] # rows[p] /\ rows[o].createdAt >= rows[p].createdAt
      BY <1>1, <2>3 DEF IsInjective
    <2> QED BY <1>4, <2>1, <2>2, <2>4
  <1>6. IsInjective(shown)
    <2> SUFFICES ASSUME NEW j \in 1..n, NEW k \in 1..n, shown[j] = shown[k] PROVE j = k
      BY <1>4 DEF IsInjective
    <2>1. j < k \/ k < j \/ j = k
      BY <1>1, <1>2
    <2> QED BY <1>5, <2>1
  <1>7. Range(shown) = {t \in Range(rows) : Matches(filter, t)}
    <2>1. ASSUME NEW j \in 1..n
          PROVE shown[j] \in Range(rows) /\ Matches(filter, shown[j])
      BY <1>1, <1>2, <1>4 DEF Range
    <2>2. ASSUME NEW o \in 1..N, Matches(filter, rows[o]) PROVE \E j \in 1..n : shown[j] = rows[o]
      BY <1>2, <1>4, <2>2
    <2> QED BY <1>1, <1>4, <2>1, <2>2 DEF Range
  <1>8. (\A t \in Range(rows) : Matches(filter, t)) => shown = array
    <2> SUFFICES ASSUME \A t \in Range(rows) : Matches(filter, t) PROVE shown = array
      OBVIOUS
    <2>1. \A o \in 1..N : Matches(filter, rows[o])
      BY <1>1 DEF Range
    <2>2. n = N
      BY <1>2, <2>1
    <2> QED BY <1>2, <1>4, <2>2
  <1>9. Range(array) \subseteq Range(rows)
    BY <1>2 DEF Range
  <1> QED BY <1>3, <1>4, <1>5, <1>6, <1>7, <1>8, <1>9 DEF shown, array, n, result

-----------------------------------------------------------------------------
(* The sums of the page and of the proxy.                                  *)

\* The sum that consumptionByUserWallet makes of the rows at the places I.
Spent(rows, I) == MapThenSumSet(LAMBDA i : rows[i].amount, I)

\* The amounts at these places ...
AmountsAt(rows, I) == [i \in I |-> rows[i].amount]

\* Spent is the value of such sums (StoreProofs!Sums) for all its places.
LEMMA SpentSums ==
  ASSUME NEW rows, NEW I, IsFiniteSet(I)
  PROVE \E g : Sums(AmountsAt(rows, I), I, g) /\ Spent(rows, I) = g[I]
  <1> DEFINE Equation(g) ==
        g = [s \in SUBSET I |-> IF s = {} THEN 0
               ELSE LET i == CHOOSE x \in s : TRUE IN rows[i].amount + g[s \ {i}]]
      g == CHOOSE g : Equation(g)
  <1>1. Spent(rows, I) = g[I]
    BY DEF Spent, MapThenSumSet, MapThenFoldSet
  <1>2. ASSUME NEW h PROVE Equation(h) <=> Sums(AmountsAt(rows, I), I, h)
    <2>1. \A s \in SUBSET I : s # {} => AmountsAt(rows, I)[First(s)] = rows[First(s)].amount
      BY DEF First, AmountsAt
    <2> QED BY <2>1 DEF Sums, First
  <1> HIDE DEF Equation
  <1>3. \E h : Equation(h)
    BY <1>2, SumsExist
  <1>4. Equation(g)
    BY <1>3
  <1> HIDE DEF g
  <1> QED BY <1>1, <1>2, <1>4

\* A sum over places takes one of them off.
LEMMA SpentStep ==
  ASSUME NEW rows, NEW I, IsFiniteSet(I)
  PROVE /\ I = {} => Spent(rows, I) = 0
        /\ I # {} => \E i \in I : Spent(rows, I) = rows[i].amount + Spent(rows, I \ {i})
  <1>1. PICK g : Sums(AmountsAt(rows, I), I, g) /\ Spent(rows, I) = g[I]
    BY SpentSums
  <1>2. CASE I = {}
    BY <1>1, <1>2, SumsAt
  <1>3. CASE I # {}
    <2> DEFINE i    == First(I)
               rest == I \ {i}
    <2>1. i \in I /\ g[I] = AmountsAt(rows, I)[i] + g[rest]
      <3>1. I \in SUBSET I
        OBVIOUS
      <3>2. \A s \in SUBSET I : s # {} =>
              First(s) \in s /\ g[s] = AmountsAt(rows, I)[First(s)] + g[s \ {First(s)}]
        BY <1>1, SumsAt
      <3> QED BY <1>3, <3>1, <3>2
    <2>2. PICK h : Sums(AmountsAt(rows, rest), rest, h) /\ Spent(rows, rest) = h[rest]
      BY SpentSums, FS_Subset
    <2>3. IsFiniteSet(rest) /\ rest \subseteq I
      BY FS_Subset
    <2>4. \A x \in rest : AmountsAt(rows, I)[x] = AmountsAt(rows, rest)[x]
      BY DEF AmountsAt
    <2>5. AmountsAt(rows, I)[i] = rows[i].amount
      BY <2>1 DEF AmountsAt
    <2> HIDE DEF i, rest
    <2>6. g[rest] = h[rest]
      BY <1>1, <2>2, <2>3, <2>4, SumsAgree
    <2> QED BY <1>1, <1>3, <2>1, <2>2, <2>5, <2>6 DEF rest
  <1> QED BY <1>2, <1>3

\* ... and the rows that are there.
At(rows, I) == {rows[i] : i \in I}

\* Where no row is there twice, summing places up is summing rows up.
LEMMA SpentIsTotal ==
  ASSUME NEW rows \in Seq(Row), IsInjective(rows), NEW I \in SUBSET DOMAIN rows
  PROVE Spent(rows, I) = Total(At(rows, I)) /\ Spent(rows, I) \in Int
  <1> DEFINE Bad == {J \in SUBSET I : Spent(rows, J) # Total(At(rows, J))}
  <1>1. IsFiniteSet(I) /\ I \in SUBSET I
    <2>1. DOMAIN rows = 1..Len(rows) /\ Len(rows) \in Int /\ 1 \in Int
      OBVIOUS
    <2>2. IsFiniteSet(1..Len(rows))
      BY <2>1, FS_Interval
    <2> QED BY <2>1, <2>2, FS_Subset
  <1>2. ASSUME NEW J \in SUBSET I
        PROVE IsFiniteSet(J) /\ IsFiniteSet(At(rows, J)) /\ \A t \in At(rows, J) : t.amount \in Int
    <2>1. IsFiniteSet(J)
      BY <1>1, FS_Subset
    <2> DEFINE f == [i \in J |-> rows[i]]
    <2>2. f \in Surjection(J, At(rows, J))
      BY DEF Surjection, At
    <2> HIDE DEF f
    <2>3. IsFiniteSet(At(rows, J))
      BY <2>1, <2>2, FS_Surjection
    <2>4. \A i \in J : rows[i] \in Row
      OBVIOUS
    <2> QED BY <2>1, <2>3, <2>4 DEF At, Row
  <1>3. Bad = {}
    <2>1. SUFFICES ASSUME Bad # {} PROVE FALSE
      BY <2>1
    <2>2. PICK m \in Bad : \A J \in Bad : J \subseteq m => J = m
      <3>1. Bad \subseteq SUBSET I
        OBVIOUS
      <3> HIDE DEF Bad
      <3> QED BY <1>1, <2>1, <3>1, MinimalSubset
    <2>3. m \in SUBSET I /\ Spent(rows, m) # Total(At(rows, m))
      BY <2>2
    <2>4. m # {}
      <3>1. SUFFICES ASSUME m = {} PROVE FALSE
        OBVIOUS
      <3>2. At(rows, m) = {}
        BY <3>1 DEF At
      <3>3. Spent(rows, m) = 0 /\ Total(At(rows, m)) = 0
        BY <1>2, <2>3, <3>1, <3>2, SpentStep, TotalStep
      <3> QED BY <2>3, <3>3
    <2>5. PICK i \in m : Spent(rows, m) = rows[i].amount + Spent(rows, m \ {i})
      BY <1>2, <2>3, <2>4, SpentStep
    <2> DEFINE rest == m \ {i}
    <2>6. rest \in SUBSET I /\ rest \notin Bad
      BY <2>2, <2>5
    <2>7. Spent(rows, rest) = Total(At(rows, rest))
      BY <2>6
    <2>8. rows[i] \in At(rows, m) /\ At(rows, m) \ {rows[i]} = At(rows, rest)
      BY <2>3, <2>5 DEF At, IsInjective
    <2> HIDE DEF Bad
    <2>9. Total(At(rows, m)) = rows[i].amount + Total(At(rows, m) \ {rows[i]})
      BY <1>2, <2>3, <2>8, TotalWithout
    <2> QED BY <2>3, <2>5, <2>7, <2>8, <2>9, Zenon
  <1>4. Spent(rows, I) = Total(At(rows, I))
    BY <1>1, <1>3
  <1>5. Total(At(rows, I)) \in Int
    BY <1>1, <1>2, TotalInt
  <1> QED BY <1>4, <1>5

-----------------------------------------------------------------------------
(* Pages.                                                                  *)

\* Where a page has its rows.
Listed == {"access", "render", "rendered"}

\* What ShownMatchesFilter says of one page.
ShownRight(r) ==
  r.pc \in Listed =>
    /\ IsInjective(r.shown)
    /\ Range(r.shown) = {t \in r.listed : Matches(r.filter, t)}
    /\ \A i, j \in DOMAIN r.shown : i < j => r.shown[i].createdAt >= r.shown[j].createdAt

\* Without a filter the array holds every row that was listed, once.
Complete(r) ==
  r.pc \in Listed /\ r.filter = NoFilter =>
    IsInjective(r.all) /\ Range(r.all) = r.listed

\* The rows that count for a pair since the beginning of a month.
CountedFor(rows, p, since) ==
  {t \in rows : t.user = p[1] /\ t.wallet = p[2] /\ t.status = "success" /\ t.createdAt >= since}

\* The rows on a page are among those that the proxy may record.
InBounds(r) == r.pc \in Listed => \A t \in Range(r.all) : t.id \in 1..MaxRows

\* The sums of an unfiltered page are the totals of the rows it listed.
Summed(r) ==
  r.pc = "rendered" /\ r.filter = NoFilter =>
    \A p \in UserIds \X WalletIds : r.consumption[p] = Total(CountedFor(r.listed, p, r.at))

\* What a page holds once read does not depend on the tables any more.
GoodPage(r) == r \in Page /\ ShownRight(r) /\ Complete(r) /\ InBounds(r) /\ Summed(r)

\* Rows have the ids that were given so far, and there are finitely many.
RowsInv ==
  /\ StoreTypeOK /\ IsFiniteSet(transactions)
  /\ recorded \in 0..MaxRows
  /\ \A t \in transactions : t.id \in 1..recorded

\* The inductive invariant: what was read is good.
PagesInv ==
  /\ RowsInv
  /\ page \in [Browsers -> Page] /\ \A b \in Browsers : GoodPage(page[b])

\* Nothing was read yet: a blank page is good.
LEMMA BlankPage == GoodPage(Blank) /\ Blank.pc = "idle" /\ Blank.filter = NoFilter
  <1>1. NoFilter \in Filter
    BY DEF NoFilter, Filter
  <1>2. <<>> \in Seq(Row) /\ 0 \in 0..MaxClock
    BY StoreAssumption
  <1>3. Blank \in Page
    BY <1>1, <1>2 DEF Blank, Page, PagePCs
  <1>4. Blank.pc = "idle" /\ Blank.filter = NoFilter
    BY DEF Blank
  <1> QED BY <1>3, <1>4 DEF GoodPage, ShownRight, Complete, InBounds, Summed, Listed

\* A month begins within the bounds of the clock.
LEMMA MonthStart ==
  ASSUME StoreTypeOK PROVE StartOfMonth \in 0..MaxClock
  <1>1. clock \in Nat /\ clock <= MaxClock /\ MonthLength \in Nat \ {0} /\ MaxClock \in Nat
    BY StoreAssumption DEF StoreTypeOK
  <1>2. ASSUME NEW c \in Nat, NEW m \in Nat \ {0} PROVE (c \div m) * m \in 0..c
    <2>1. c \div m \in Nat /\ c % m \in Nat /\ c = m * (c \div m) + (c % m)
      OBVIOUS
    <2>2. \A q, k, d \in Nat : d = k * q + (d - k * q) /\ d - k * q \in Nat => q * k \in 0..d
      OBVIOUS
    <2> QED BY <2>1, <2>2
  <1>3. (clock \div MonthLength) * MonthLength \in 0..clock
    BY <1>1, <1>2
  <1> QED BY <1>1, <1>3 DEF StartOfMonth

\* Each query leaves a good page, and keeps what ReadRight needs of it.
LEMMA RequestGood ==
  ASSUME PagesInv, NEW b \in Browsers, NEW filter \in Filter
  PROVE LET r == [Blank EXCEPT !.pc = "wallets", !.filter = filter,
                               !.users = DOMAIN proxyUsers, !.before = transactions]
        IN  /\ GoodPage(r) /\ r.pc = "wallets"
            /\ r.before = transactions /\ r.listed = {}
  <1> DEFINE r == [Blank EXCEPT !.pc = "wallets", !.filter = filter,
                                !.users = DOMAIN proxyUsers, !.before = transactions]
  <1>1. Blank \in Page
    BY BlankPage DEF GoodPage
  <1>2. r.pc = "wallets" /\ r.before = transactions /\ r.listed = {}
    BY DEF Blank
  <1>3. r \in Page
    BY <1>1 DEF Page, PagePCs, PagesInv, RowsInv, StoreTypeOK
  <1> HIDE DEF r
  <1>4. GoodPage(r)
    BY <1>2, <1>3 DEF GoodPage, ShownRight, Complete, InBounds, Summed, Listed
  <1> QED BY <1>2, <1>4 DEF r

\* The second query, of the wallets.
LEMMA ListWalletsGood ==
  ASSUME PagesInv, NEW b \in Browsers, page[b].pc = "wallets"
  PROVE LET r == [page[b] EXCEPT !.pc = "rows", !.wallets = DOMAIN wallets]
        IN  /\ GoodPage(r) /\ r.pc = "rows"
            /\ r.before = page[b].before /\ r.listed = page[b].listed
  <1> DEFINE r == [page[b] EXCEPT !.pc = "rows", !.wallets = DOMAIN wallets]
  <1>1. page[b] \in Page
    BY DEF PagesInv
  <1>2. /\ r.pc = "rows"
        /\ r.before = page[b].before /\ r.listed = page[b].listed
    BY <1>1 DEF Page
  <1>3. r \in Page
    BY <1>1 DEF Page, PagePCs, PagesInv, RowsInv, StoreTypeOK
  <1> HIDE DEF r
  <1>4. GoodPage(r)
    BY <1>2, <1>3 DEF GoodPage, ShownRight, Complete, InBounds, Summed, Listed
  <1> QED BY <1>2, <1>4 DEF r

\* The third query, and the filter over its answer.
LEMMA FilterTransactionsGood ==
  ASSUME PagesInv, NEW b \in Browsers, page[b].pc = "rows",
         NEW rows \in NewestFirst(transactions)
  PROVE LET result == FilterInPlace(rows, page[b].filter)
            r == [page[b] EXCEPT
                    !.pc = "access", !.all = result.array,
                    !.shown = SubSeq(result.array, 1, result.kept), !.listed = transactions]
        IN  /\ GoodPage(r) /\ r.pc = "access" /\ r.listed = transactions
            /\ r.before = page[b].before
  <1> DEFINE filter == page[b].filter
             result == FilterInPlace(rows, filter)
             array  == result.array
             shown  == SubSeq(array, 1, result.kept)
             r == [page[b] EXCEPT !.pc = "access", !.all = array, !.shown = shown,
                                  !.listed = transactions]
  <1>1. /\ rows \in Seq(Row) /\ IsInjective(rows) /\ Range(rows) = transactions
        /\ \A i, j \in DOMAIN rows : i < j => rows[i].createdAt >= rows[j].createdAt
    BY NewestFirstIs DEF PagesInv, RowsInv, StoreTypeOK
  <1>2. /\ array \in Seq(Row) /\ shown \in Seq(Row) /\ Range(array) \subseteq Range(rows)
        /\ IsInjective(shown)
        /\ Range(shown) = {t \in Range(rows) : Matches(filter, t)}
        /\ \A i, j \in DOMAIN shown : i < j => shown[i].createdAt >= shown[j].createdAt
        /\ (\A t \in Range(rows) : Matches(filter, t)) => shown = array
    <2> HIDE DEF filter
    <2> QED BY <1>1, FilteredPage
  <1> HIDE DEF array, shown, result
  <1>3. Range(shown) = {t \in transactions : Matches(filter, t)}
    BY <1>1, <1>2
  <1>4. page[b] \in Page /\ transactions \subseteq Row
    BY DEF PagesInv, RowsInv, StoreTypeOK
  <1>5. /\ r.pc = "access" /\ r.listed = transactions /\ r.all = array /\ r.shown = shown
        /\ r.before = page[b].before /\ r.filter = filter
    BY <1>4 DEF Page
  <1>6. r \in Page
    BY <1>2, <1>4 DEF Page, PagePCs
  <1> HIDE DEF r
  <1>7. ShownRight(r)
    BY <1>2, <1>3, <1>5 DEF ShownRight
  <1>8. Complete(r)
    <2> SUFFICES ASSUME filter = NoFilter PROVE IsInjective(array) /\ Range(array) = transactions
      BY <1>5 DEF Complete
    <2>1. \A t \in Range(rows) : Matches(filter, t)
      BY DEF Matches, NoFilter
    <2>2. shown = array
      BY <1>2, <2>1
    <2>3. {t \in Range(rows) : Matches(filter, t)} = Range(rows)
      BY <2>1
    <2>4. IsInjective(shown) /\ Range(shown) = transactions
      BY <1>1, <1>2, <2>3
    <2> QED BY <2>2, <2>4, Zenon
  <1>11. InBounds(r)
    <2>1. \A t \in transactions : t.id \in 1..MaxRows
      BY AdminViewAssumption DEF PagesInv, RowsInv
    <2> QED BY <1>1, <1>2, <1>5, <2>1 DEF InBounds
  <1>9. GoodPage(r)
    BY <1>5, <1>6, <1>7, <1>8, <1>11 DEF GoodPage, Summed
  <1> QED BY <1>5, <1>9 DEF r, array, shown, result

\* The fourth query, of the assignments.
LEMMA ListUserWalletsGood ==
  ASSUME PagesInv, NEW b \in Browsers, page[b].pc = "access"
  PROVE LET r == [page[b] EXCEPT !.pc = "render", !.access = DOMAIN userWallet]
        IN  /\ GoodPage(r) /\ r.pc = "render"
            /\ r.before = page[b].before /\ r.listed = page[b].listed
  <1> DEFINE r == [page[b] EXCEPT !.pc = "render", !.access = DOMAIN userWallet]
  <1>1. page[b] \in Page /\ GoodPage(page[b])
    BY DEF PagesInv
  <1>2. /\ r.pc = "render" /\ r.listed = page[b].listed /\ r.all = page[b].all
        /\ r.shown = page[b].shown /\ r.filter = page[b].filter
        /\ r.before = page[b].before
    BY <1>1 DEF Page
  <1>3. r \in Page
    BY <1>1 DEF Page, PagePCs, PagesInv, RowsInv, StoreTypeOK
  <1> HIDE DEF r
  <1>4. GoodPage(r)
    BY <1>1, <1>2, <1>3 DEF GoodPage, ShownRight, Complete, InBounds, Summed, Listed
  <1> QED BY <1>2, <1>4 DEF r

\* Sums over places are numbers.
LEMMA SpentInt ==
  ASSUME NEW rows \in Seq(Row), NEW I \in SUBSET DOMAIN rows
  PROVE Spent(rows, I) \in Int
  <1> DEFINE Bad == {J \in SUBSET I : Spent(rows, J) \notin Int}
  <1>1. IsFiniteSet(I) /\ I \in SUBSET I
    <2>1. DOMAIN rows = 1..Len(rows) /\ Len(rows) \in Int /\ 1 \in Int
      OBVIOUS
    <2>2. IsFiniteSet(1..Len(rows))
      BY <2>1, FS_Interval
    <2> QED BY <2>1, <2>2, FS_Subset
  <1>2. SUFFICES ASSUME Bad # {} PROVE FALSE
    BY <1>1, <1>2
  <1>3. PICK m \in Bad : \A J \in Bad : J \subseteq m => J = m
    <2>1. Bad \subseteq SUBSET I
      OBVIOUS
    <2> HIDE DEF Bad
    <2> QED BY <1>1, <1>2, <2>1, MinimalSubset
  <1>4. m \in SUBSET I /\ Spent(rows, m) \notin Int /\ IsFiniteSet(m)
    BY <1>1, <1>3, FS_Subset
  <1>5. m # {}
    BY <1>4, SpentStep
  <1>6. PICK i \in m : Spent(rows, m) = rows[i].amount + Spent(rows, m \ {i})
    BY <1>4, <1>5, SpentStep
  <1>7. m \ {i} \in SUBSET I /\ m \ {i} \notin Bad
    BY <1>3, <1>6
  <1>8. Spent(rows, m \ {i}) \in Int
    BY <1>7
  <1>9. rows[i] \in Row
    BY <1>4, <1>6
  <1>10. rows[i].amount \in Int
    BY <1>9 DEF Row
  <1> QED BY <1>4, <1>6, <1>8, <1>10

\* The sums of the page are the totals of the rows in its array, if it has none
\* of them twice.
LEMMA PageSums ==
  ASSUME NEW rows \in Seq(Row)
  PROVE /\ ConsumptionByUserWallet(rows) \in [UserIds \X WalletIds -> Int]
        /\ IsInjective(rows) => \A p \in UserIds \X WalletIds :
             ConsumptionByUserWallet(rows)[p] = Total(CountedFor(Range(rows), p, StartOfMonth))
  <1> DEFINE I(p) == {i \in DOMAIN rows : /\ p = <<rows[i].user, rows[i].wallet>>
                                          /\ rows[i].status = "success"
                                          /\ rows[i].createdAt >= StartOfMonth}
  <1>1. ConsumptionByUserWallet(rows) = [p \in UserIds \X WalletIds |-> Spent(rows, I(p))]
    BY DEF ConsumptionByUserWallet, Spent
  <1>2. ASSUME NEW p \in UserIds \X WalletIds
        PROVE /\ Spent(rows, I(p)) \in Int
              /\ IsInjective(rows) =>
                   Spent(rows, I(p)) = Total(CountedFor(Range(rows), p, StartOfMonth))
    <2>1. I(p) \in SUBSET DOMAIN rows
      OBVIOUS
    <2>2. At(rows, I(p)) = CountedFor(Range(rows), p, StartOfMonth)
      BY DEF At, CountedFor, Range
    <2> HIDE DEF I
    <2>3. IsInjective(rows) => Spent(rows, I(p)) = Total(At(rows, I(p)))
      BY <2>1, SpentIsTotal
    <2>4. Spent(rows, I(p)) \in Int
      BY <2>1, SpentInt
    <2> QED BY <2>2, <2>3, <2>4, Zenon
  <1> HIDE DEF I
  <1> QED BY <1>1, <1>2

\* The sums and the resources, over the array that the filter wrote to.
LEMMA RenderGood ==
  ASSUME PagesInv, NEW b \in Browsers, page[b].pc = "render"
  PROVE LET r == [page[b] EXCEPT
                    !.pc = "rendered", !.at = StartOfMonth,
                    !.consumption = ConsumptionByUserWallet(page[b].all),
                    !.resources = ResourceBaseURLs(page[b].all)]
        IN  /\ GoodPage(r) /\ r.pc = "rendered"
            /\ r.before = page[b].before /\ r.listed = page[b].listed
  <1> DEFINE all         == page[b].all
             consumption == ConsumptionByUserWallet(all)
             resources   == ResourceBaseURLs(all)
             r == [page[b] EXCEPT !.pc = "rendered", !.at = StartOfMonth,
                                  !.consumption = consumption, !.resources = resources]
  <1>1. page[b] \in Page /\ GoodPage(page[b]) /\ StoreTypeOK
    BY DEF PagesInv, RowsInv
  <1>2. all \in Seq(Row)
    BY <1>1 DEF Page
  <1>3. /\ consumption \in [UserIds \X WalletIds -> Int]
        /\ IsInjective(all) => \A p \in UserIds \X WalletIds :
             consumption[p] = Total(CountedFor(Range(all), p, StartOfMonth))
    <2> HIDE DEF all
    <2> QED BY <1>2, PageSums
  <1>4. resources \subseteq Resources
    <2>1. \A i \in DOMAIN all : all[i].id \in 1..MaxRows
      BY <1>1 DEF GoodPage, InBounds, Listed, Range
    <2> QED BY <2>1 DEF ResourceBaseURLs, Resources
  <1>5. StartOfMonth \in 0..MaxClock
    BY <1>1, MonthStart
  <1> HIDE DEF consumption, resources
  <1>6. /\ r.pc = "rendered" /\ r.listed = page[b].listed /\ r.all = page[b].all
        /\ r.shown = page[b].shown /\ r.filter = page[b].filter
        /\ r.before = page[b].before
        /\ r.consumption = consumption /\ r.at = StartOfMonth
    BY <1>1 DEF Page
  <1>7. r \in Page
    BY <1>1, <1>3, <1>4, <1>5 DEF Page, PagePCs
  <1> HIDE DEF r
  <1>8. ShownRight(r) /\ Complete(r) /\ InBounds(r)
    BY <1>1, <1>6 DEF GoodPage, ShownRight, Complete, InBounds, Listed
  <1>9. Summed(r)
    <2> SUFFICES ASSUME r.filter = NoFilter, NEW p \in UserIds \X WalletIds
                 PROVE r.consumption[p] = Total(CountedFor(r.listed, p, r.at))
      BY DEF Summed
    <2>1. IsInjective(all) /\ Range(all) = r.listed
      BY <1>1, <1>6 DEF GoodPage, Complete, Listed
    <2>2. consumption[p] = Total(CountedFor(Range(all), p, StartOfMonth))
      BY <1>3, <2>1
    <2> QED BY <1>6, <2>1, <2>2, Zenon
  <1> QED BY <1>6, <1>7, <1>8, <1>9 DEF GoodPage, r, consumption, resources

-----------------------------------------------------------------------------
(* Which rows a page has read.                                             *)

\* The rows there were when the page was asked for, and those it has listed, are
\* rows of the table by now; it has listed all that there were.
ReadRight(r) ==
  /\ r.before \subseteq transactions /\ r.listed \subseteq transactions
  /\ r.pc \in Listed => r.before \subseteq r.listed

\* ReadRight for every request under way, and no success of a negative amount.
ReadInv ==
  /\ \A t \in transactions : t.status = "success" => t.amount \in Nat
  /\ \A b \in Browsers : ReadRight(page[b])

\* A step of a request writes a good page, which has read the right rows.
GoodStep(b) ==
  \E r : /\ page' = [page EXCEPT ![b] = r] /\ UNCHANGED <<storeVars, recorded>>
         /\ GoodPage(r) /\ (ReadRight(page[b]) => ReadRight(r))

\* One case per step of commonData.
LEMMA PageStepGood ==
  ASSUME PagesInv, NEW b \in Browsers, PageStep(b)
  PROVE GoodStep(b)
  <1>1. ASSUME NEW pc, NEW r, Read(b, pc, r), GoodPage(r),
               ReadRight(page[b]) => ReadRight(r)
        PROVE GoodStep(b)
    BY <1>1 DEF Read, GoodStep
  <1>2. ASSUME NEW filter \in Filter, RequestPage(b, filter)
        PROVE GoodStep(b)
    <2> DEFINE r == [Blank EXCEPT !.pc = "wallets", !.filter = filter,
                                  !.users = DOMAIN proxyUsers, !.before = transactions]
    <2>1. Read(b, "idle", r)
      BY <1>2 DEF RequestPage
    <2>2. GoodPage(r) /\ r.pc = "wallets" /\ r.before = transactions /\ r.listed = {}
      BY RequestGood
    <2> HIDE DEF r
    <2>3. ReadRight(r)
      BY <2>2 DEF ReadRight, Listed
    <2> QED BY <1>1, <2>1, <2>2, <2>3
  <1>3. ASSUME ListWallets(b)
        PROVE GoodStep(b)
    <2> DEFINE r == [page[b] EXCEPT !.pc = "rows", !.wallets = DOMAIN wallets]
    <2>1. Read(b, "wallets", r) /\ page[b].pc = "wallets"
      BY <1>3 DEF ListWallets, Read
    <2>2. /\ GoodPage(r) /\ r.pc = "rows"
          /\ r.before = page[b].before /\ r.listed = page[b].listed
      BY <2>1, ListWalletsGood
    <2> HIDE DEF r
    <2>3. ReadRight(page[b]) => ReadRight(r)
      BY <2>1, <2>2 DEF ReadRight, Listed
    <2> QED BY <1>1, <2>1, <2>2, <2>3
  <1>4. ASSUME FilterTransactions(b)
        PROVE GoodStep(b)
    <2> DEFINE R(rows) ==
          LET result == FilterInPlace(rows, page[b].filter)
          IN [page[b] EXCEPT
                !.pc = "access", !.all = result.array,
                !.shown = SubSeq(result.array, 1, result.kept), !.listed = transactions]
    <2>1. PICK rows \in NewestFirst(transactions) : Read(b, "rows", R(rows))
      BY <1>4 DEF FilterTransactions
    <2> DEFINE r == R(rows)
    <2>2. Read(b, "rows", r) /\ page[b].pc = "rows"
      BY <2>1 DEF Read
    <2>3. /\ GoodPage(r) /\ r.pc = "access" /\ r.listed = transactions
          /\ r.before = page[b].before
      BY <2>2, FilterTransactionsGood
    <2> HIDE DEF r, R
    <2>4. ReadRight(page[b]) => ReadRight(r)
      BY <2>3 DEF ReadRight
    <2> QED BY <1>1, <2>2, <2>3, <2>4
  <1>5. ASSUME ListUserWallets(b)
        PROVE GoodStep(b)
    <2> DEFINE r == [page[b] EXCEPT !.pc = "render", !.access = DOMAIN userWallet]
    <2>1. Read(b, "access", r) /\ page[b].pc = "access"
      BY <1>5 DEF ListUserWallets, Read
    <2>2. /\ GoodPage(r) /\ r.pc = "render"
          /\ r.before = page[b].before /\ r.listed = page[b].listed
      BY <2>1, ListUserWalletsGood
    <2> HIDE DEF r
    <2>3. ReadRight(page[b]) => ReadRight(r)
      BY <2>1, <2>2 DEF ReadRight, Listed
    <2> QED BY <1>1, <2>1, <2>2, <2>3
  <1>6. ASSUME Render(b)
        PROVE GoodStep(b)
    <2> DEFINE r == [page[b] EXCEPT
                       !.pc = "rendered", !.at = StartOfMonth,
                       !.consumption = ConsumptionByUserWallet(page[b].all),
                       !.resources = ResourceBaseURLs(page[b].all)]
    <2>1. Read(b, "render", r) /\ page[b].pc = "render"
      BY <1>6 DEF Render, Read
    <2>2. /\ GoodPage(r) /\ r.pc = "rendered"
          /\ r.before = page[b].before /\ r.listed = page[b].listed
      BY <2>1, RenderGood
    <2> HIDE DEF r
    <2>3. ReadRight(page[b]) => ReadRight(r)
      BY <2>1, <2>2 DEF ReadRight, Listed
    <2> QED BY <1>1, <2>1, <2>2, <2>3
  <1>7. ASSUME SendPage(b)
        PROVE GoodStep(b)
    <2>1. Read(b, page[b].pc, Blank)
      BY <1>7 DEF SendPage
    <2>2. Blank.pc = "idle" /\ Blank.before = {} /\ Blank.listed = {}
      BY DEF Blank
    <2>3. ReadRight(Blank)
      BY <2>2 DEF ReadRight, Listed
    <2> QED BY <1>1, <2>1, <2>3, BlankPage
  <1> QED BY <1>2, <1>3, <1>4, <1>5, <1>6, <1>7 DEF PageStep

\* The administrator only takes rows away, and none where foreign keys are off.
LEMMA AdminKeepsRows ==
  ASSUME AdminNext
  PROVE /\ transactions' \subseteq transactions
        /\ ~ ForeignKeys => transactions' = transactions
  BY DEF AdminNext, CreateUser, DeleteUser, CreateWallet, DeleteWallet, Cascade,
         Assign, UpdateMonthlyBudget, SetLimit, DeleteUserWallet

\* The proxy writes a row with a new id, and no success of a negative amount.
LEMMA RecordedRow ==
  ASSUME RowsInv, RowRecorded
  PROVE /\ RowsInv' /\ UNCHANGED page /\ transactions \subseteq transactions'
        /\ ReadInv => ReadInv'
  <1>1. PICK u \in UserIds, w \in WalletIds, amount \in Amounts,
             status \in {"success", "failed_unknown"} :
               /\ status = "success" => amount >= 0
               /\ InsertTransaction(recorded + 1, u, w, amount, status)
    BY DEF RowRecorded
  <1>2. /\ recorded \in Nat /\ recorded < MaxRows /\ recorded' = recorded + 1
        /\ MaxRows \in Nat /\ UNCHANGED page
    BY AdminViewAssumption DEF RowsInv, RowRecorded
  <1>3. StoreTypeOK'
    <2>1. recorded + 1 \in Nat /\ amount \in Int /\ status \in Statuses
      BY <1>2, AdminViewAssumption DEF Statuses
    <2> QED BY <1>1, <2>1, InsertTransactionType DEF RowsInv
  <1> DEFINE row == [id |-> recorded + 1, user |-> u, wallet |-> w, amount |-> amount,
                     status |-> status, createdAt |-> clock]
  <1>4. /\ transactions' = transactions \cup {row} /\ row.id = recorded + 1
        /\ row.status = "success" => row.amount \in Nat
    BY <1>1, AdminViewAssumption DEF InsertTransaction
  <1> HIDE DEF row
  <1>5. IsFiniteSet(transactions')
    BY <1>4, FS_AddElement DEF RowsInv
  <1>6. \A t \in transactions' : t.id \in 1..recorded'
    BY <1>2, <1>4 DEF RowsInv
  <1>7. ReadInv => ReadInv'
    BY <1>2, <1>4 DEF ReadInv, ReadRight
  <1> QED BY <1>2, <1>3, <1>4, <1>5, <1>6, <1>7 DEF RowsInv

\* No page is under way at first.
LEMMA PagesInit == Init => PagesInv /\ ReadInv
  <1> SUFFICES ASSUME Init PROVE PagesInv /\ ReadInv
    OBVIOUS
  <1>1. StoreTypeOK /\ transactions = {}
    BY StoreInitOK DEF Init, StoreInit
  <1>2. RowsInv
    BY <1>1, FS_EmptySet, AdminViewAssumption DEF RowsInv, Init
  <1>3. /\ page = [b \in Browsers |-> Blank] /\ Blank \in Page
        /\ Blank.before = {} /\ Blank.listed = {} /\ Blank.pc = "idle"
    BY BlankPage DEF Init, GoodPage, Blank
  <1> HIDE DEF Blank
  <1>4. PagesInv
    BY <1>2, <1>3, BlankPage DEF PagesInv
  <1>5. ReadInv
    BY <1>1, <1>3 DEF ReadInv, ReadRight, Listed
  <1> QED BY <1>4, <1>5

\* What a page holds stays good, whatever is written meanwhile.
LEMMA PagesStep == PagesInv /\ [Next]_vars => PagesInv'
  <1> SUFFICES ASSUME PagesInv, [Next]_vars PROVE PagesInv'
    OBVIOUS
  <1>1. ASSUME RowsInv', UNCHANGED page PROVE PagesInv'
    BY <1>1 DEF PagesInv, GoodPage, ShownRight, Complete, InBounds, Summed
  <1>2. ASSUME NEW b \in Browsers, PageStep(b) PROVE PagesInv'
    <2>1. PICK r : /\ page' = [page EXCEPT ![b] = r] /\ UNCHANGED <<storeVars, recorded>>
                   /\ GoodPage(r)
      BY <1>2, PageStepGood DEF GoodStep
    <2>2. RowsInv'
      BY <2>1 DEF PagesInv, RowsInv, StoreTypeOK, storeVars
    <2>3. r \in Page
      BY <2>1 DEF GoodPage
    <2>4. page' \in [Browsers -> Page] /\ \A c \in Browsers : GoodPage(page'[c])
      BY <2>1, <2>3 DEF PagesInv
    <2>5. \A c \in Browsers : GoodPage(page[c])'
      BY <2>4 DEF GoodPage, ShownRight, Complete, InBounds, Summed
    <2> QED BY <2>2, <2>4, <2>5 DEF PagesInv
  <1>3. CASE RowRecorded
    BY <1>1, <1>3, RecordedRow DEF PagesInv
  <1>4. CASE (AdminNext \/ Tick) /\ UNCHANGED viewVars
    <2>1. StoreTypeOK'
      BY <1>4, AdminType, TickType DEF PagesInv, RowsInv
    <2>2. transactions' \subseteq transactions
      BY <1>4, AdminKeepsRows DEF Tick, tables
    <2>3. IsFiniteSet(transactions')
      BY <2>2, FS_Subset DEF PagesInv, RowsInv
    <2>4. RowsInv'
      BY <1>4, <2>1, <2>2, <2>3 DEF PagesInv, RowsInv, viewVars
    <2> QED BY <1>1, <1>4, <2>4 DEF viewVars
  <1>5. CASE UNCHANGED vars
    <2>1. RowsInv'
      BY <1>5 DEF PagesInv, RowsInv, StoreTypeOK, vars, storeVars, viewVars
    <2> QED BY <1>1, <1>5, <2>1 DEF vars, viewVars
  <1> QED BY <1>2, <1>3, <1>4, <1>5 DEF Next

\* Without foreign keys a row that was read stays in the table.
LEMMA ReadStep ==
  ASSUME ~ ForeignKeys, PagesInv, ReadInv, [Next]_vars
  PROVE ReadInv'
  <1>1. ASSUME UNCHANGED <<page, transactions>> PROVE ReadInv'
    BY <1>1 DEF ReadInv, ReadRight
  <1>2. ASSUME NEW b \in Browsers, PageStep(b) PROVE ReadInv'
    <2>1. PICK r : /\ page' = [page EXCEPT ![b] = r] /\ UNCHANGED <<storeVars, recorded>>
                   /\ ReadRight(r)
      BY <1>2, PageStepGood DEF GoodStep, ReadInv
    <2>2. \A c \in Browsers : ReadRight(page'[c])
      BY <2>1 DEF PagesInv, ReadInv
    <2> QED BY <2>1, <2>2 DEF ReadInv, ReadRight, storeVars
  <1>3. CASE RowRecorded
    BY <1>3, RecordedRow DEF PagesInv
  <1>4. CASE (AdminNext \/ Tick) /\ UNCHANGED viewVars
    BY <1>1, <1>4, AdminKeepsRows DEF Tick, tables, viewVars
  <1>5. CASE UNCHANGED vars
    BY <1>1, <1>5 DEF vars, storeVars, viewVars
  <1> QED BY <1>2, <1>3, <1>4, <1>5 DEF Next

\* The invariant of this module.
LEMMA PagesAlways == Spec => []PagesInv
  <1>1. Init => PagesInv
    BY PagesInit
  <1> QED BY <1>1, PagesStep, PTL DEF Spec

-----------------------------------------------------------------------------
(* Theorems.                                                               *)

\* Every page under way is one that commonData can have put together so far:
\* its rows are rows of the table, its sums numbers, its resources those of
\* recorded rows.
THEOREM ViewTypes == Spec => []ViewTypeOK
  <1>1. PagesInv => ViewTypeOK
    BY DEF PagesInv, RowsInv, ViewTypeOK
  <1> QED BY <1>1, PagesAlways, PTL

\* The history on a page is what matches the filter, once each and newest
\* first, for every filter and every table, although filterTransactions writes
\* over the array it ranges over (helpers.go:155).
THEOREM FilterRight == Spec => []ShownMatchesFilter
  <1>1. PagesInv => ShownMatchesFilter
    BY DEF PagesInv, GoodPage, ShownRight, Listed, ShownMatchesFilter
  <1> QED BY <1>1, PagesAlways, PTL

\* The month sum of the proxy, of the rows of a user, is the total of the rows
\* that count.
LEMMA ProxySum ==
  ASSUME NEW rows, NEW p
  PROVE CountFor(rows, p) = Total(CountedFor(rows, p, StartOfMonth))
  <1>1. Counted({t \in rows : t.user = p[1]}, p[2]) = CountedFor(rows, p, StartOfMonth)
    BY DEF Counted, CountedFor
  <1>2. CountFor(rows, p) = Total(Counted({t \in rows : t.user = p[1]}, p[2]))
    BY Zenon DEF CountFor, CurrentMonthConsumption, Total
  <1> QED BY <1>1, <1>2, Zenon

\* What a rendered page says was consumed in its month.
LEMMA PageSum ==
  ASSUME PagesInv, NEW b \in Browsers, page[b].pc = "rendered",
         page[b].filter = NoFilter, page[b].at = StartOfMonth, NEW p \in page[b].access
  PROVE page[b].consumption[p] = Total(CountedFor(page[b].listed, p, StartOfMonth))
  <1>1. page[b] \in Page /\ Summed(page[b])
    BY DEF PagesInv, GoodPage
  <1>2. p \in UserIds \X WalletIds
    BY <1>1 DEF Page
  <1> QED BY <1>1, <1>2 DEF Summed

\* The consumption that an unfiltered page shows of an assignment is the one
\* the proxy's currentMonthConsumption has of the same rows.
THEOREM SumsAgreeWithProxy == Spec => []ConsumptionAgrees
  <1>1. ASSUME PagesInv, NEW b \in Browsers, page[b].pc = "rendered",
               page[b].filter = NoFilter, page[b].at = StartOfMonth, NEW p \in page[b].access
        PROVE page[b].consumption[p] =
                CurrentMonthConsumption({t \in page[b].listed : t.user = p[1]}, p[2])
    <2>1. page[b].consumption[p] = CountFor(page[b].listed, p)
      BY <1>1, PageSum, ProxySum, Zenon
    <2> QED BY <2>1 DEF CountFor
  <1>2. PagesInv => ConsumptionAgrees
    BY <1>1 DEF ConsumptionAgrees
  <1> QED BY <1>2, PagesAlways, PTL

\* With foreign keys off, as main.go:24 opens the database: what an unfiltered
\* page says was consumed this month is no less than what the proxy counted when
\* the page was asked for, and no more than what it counts by now, although the
\* page is put together in five steps and in no transaction.
THEOREM ConsumptionUpToDate == ~ ForeignKeys => (Spec => []ConsumptionCurrent)
  <1> SUFFICES ASSUME ~ ForeignKeys PROVE Spec => []ConsumptionCurrent
    OBVIOUS
  <1> DEFINE Inv == PagesInv /\ ReadInv
  <1>1. Init => Inv
    BY PagesInit
  <1>2. Inv /\ [Next]_vars => Inv'
    BY PagesStep, ReadStep
  <1>3. ASSUME PagesInv, ReadInv, NEW b \in Browsers, page[b].pc = "rendered",
               page[b].filter = NoFilter, page[b].at = StartOfMonth, NEW p \in page[b].access
        PROVE /\ CountFor(page[b].before, p) <= page[b].consumption[p]
              /\ page[b].consumption[p] <= CountFor(transactions, p)
    <2> DEFINE early == CountedFor(page[b].before, p, StartOfMonth)
               mid   == CountedFor(page[b].listed, p, StartOfMonth)
               late  == CountedFor(transactions, p, StartOfMonth)
    <2>1. ReadRight(page[b]) /\ IsFiniteSet(transactions)
      BY <1>3 DEF PagesInv, RowsInv, ReadInv
    <2>2. early \in SUBSET mid /\ mid \in SUBSET late /\ late \in SUBSET transactions
      BY <1>3, <2>1 DEF ReadRight, Listed, CountedFor
    <2>3. \A t \in late : t.amount \in Nat
      BY <1>3 DEF ReadInv, CountedFor
    <2>4. /\ CountFor(page[b].before, p) = Total(early)
          /\ page[b].consumption[p] = Total(mid)
          /\ CountFor(transactions, p) = Total(late)
      BY <1>3, ProxySum, PageSum
    <2> HIDE DEF early, mid, late
    <2>5. IsFiniteSet(late) /\ IsFiniteSet(mid) /\ \A t \in mid : t.amount \in Nat
      BY <2>1, <2>2, <2>3, FS_Subset
    <2>6. Total(early) <= Total(mid)
      BY <2>2, <2>5, TotalGrows
    <2>7. Total(mid) <= Total(late)
      BY <2>2, <2>3, <2>5, TotalGrows
    <2> QED BY <2>4, <2>6, <2>7
  <1>4. Inv => ConsumptionCurrent
    BY <1>3 DEF ConsumptionCurrent
  <1> HIDE DEF Inv
  <1>5. Spec => []Inv
    BY <1>1, <1>2, PTL DEF Spec
  <1> QED BY <1>4, <1>5, PTL
=============================================================================
