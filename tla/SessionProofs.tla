---------------------------- MODULE SessionProofs ----------------------------
(***************************************************************************)
(* The start and the login, for any number of processes that migrate one   *)
(* database at once, of tabs, of stops and of lines in .env:               *)
(*   - the settings of a process are those in force when it started;       *)
(*   - whoever serves finds the database migrated (StartupInv);            *)
(*   - the administrator's data change only for somebody who has logged in *)
(*     to the process that runs (SessionInv);                              *)
(*   - every variable has its type, which needs the two invariants.        *)
(***************************************************************************)
EXTENDS AdminSession, LeastElements

(* The file .env.                                                          *)

\* One line of the file, after those before it.
Filled(set, line) ==
  IF line.key \in Keys /\ set[line.key] = Unset THEN [set EXCEPT ![line.key] = line.value] ELSE set

Loading(variables, lines, n, g) ==
  g = [s \in SUBSET (1..n) |->
         IF s = {} THEN variables ELSE Filled(g[s \ {Max(s)}], lines[Max(s)])]

\* Load is the value of the fold for all lines.
LEMMA LoadIsFold ==
  ASSUME NEW variables, NEW lines \in Seq(Line)
  PROVE Load(variables, lines) =
          (CHOOSE g : Loading(variables, lines, Len(lines), g))[1..Len(lines)]
  <1>1. DOMAIN lines = 1..Len(lines)
    OBVIOUS
  <1>2. Load(variables, lines) =
          (CHOOSE g : g = [s \in SUBSET (DOMAIN lines) |->
             IF s = {} THEN variables ELSE Filled(g[s \ {Max(s)}], lines[Max(s)])])[DOMAIN lines]
    BY DEF Load, FoldLeft, MapThenFoldSet, Filled
  <1> QED BY <1>1, <1>2 DEF Loading

\* There is a function that satisfies the equation of the fold.
LEMMA LoadingExists ==
  ASSUME NEW variables, NEW lines, NEW n \in Nat
  PROVE \E g : Loading(variables, lines, n, g)
  <1> DEFINE Bad == {m \in Nat : ~ \E g : Loading(variables, lines, m, g)}
  <1>1. SUFFICES ASSUME Bad # {} PROVE FALSE
    BY <1>1
  <1>2. PICK m \in Bad : \A k \in Bad : m <= k
    BY <1>1, SmallestOf
  <1>3. m # 0
    <2> DEFINE g == [s \in SUBSET (1..0) |-> variables]
    <2>1. g = [s \in SUBSET (1..0) |->
                 IF s = {} THEN variables ELSE Filled(g[s \ {Max(s)}], lines[Max(s)])]
      OBVIOUS
    <2> HIDE DEF g
    <2>2. Loading(variables, lines, 0, g)
      BY <2>1 DEF Loading
    <2> QED BY <1>2, <2>2
  <1> DEFINE k == m - 1
  <1>4. k \in Nat /\ m = k + 1 /\ k \notin Bad
    BY <1>2, <1>3
  <1>5. PICK g : Loading(variables, lines, k, g)
    BY <1>4
  <1> HIDE DEF k
  <1> DEFINE h == [s \in SUBSET (1..m) |->
                     IF m \in s THEN Filled(g[s \ {m}], lines[m]) ELSE g[s]]
  <1>6. ASSUME NEW s \in SUBSET (1..m)
        PROVE h[s] = IF s = {} THEN variables ELSE Filled(h[s \ {Max(s)}], lines[Max(s)])
    <2>1. CASE m \in s
      <3>1. Max(s) = m
        BY <1>4, <2>1, LargestInRange
      <3>2. s \ {m} \in SUBSET (1..m) /\ m \notin s \ {m}
        OBVIOUS
      <3>3. h[s \ {m}] = g[s \ {m}]
        BY <3>2
      <3>4. h[s] = Filled(g[s \ {m}], lines[m])
        BY <2>1
      <3> HIDE DEF h
      <3> QED BY <2>1, <3>1, <3>3, <3>4
    <2>2. CASE m \notin s
      <3>1. s \in SUBSET (1..k) /\ s \ {Max(s)} \in SUBSET (1..m) /\ m \notin s \ {Max(s)}
        <4>1. \A x \in 1..m : x # m => x \in 1..k
          BY <1>4
        <4> QED BY <2>2, <4>1
      <3>2. \A r \in SUBSET (1..m) : m \notin r => h[r] = g[r]
        OBVIOUS
      <3> HIDE DEF h
      <3>4. h[s] = g[s] /\ h[s \ {Max(s)}] = g[s \ {Max(s)}]
        BY <2>2, <3>1, <3>2
      <3>3. g[s] = IF s = {} THEN variables ELSE Filled(g[s \ {Max(s)}], lines[Max(s)])
        BY <1>5, <3>1 DEF Loading
      <3> QED BY <3>3, <3>4
    <2> QED BY <2>1, <2>2
  <1>7. h = [s \in SUBSET (1..m) |-> h[s]]
    OBVIOUS
  <1> HIDE DEF h
  <1>8. h = [s \in SUBSET (1..m) |->
               IF s = {} THEN variables ELSE Filled(h[s \ {Max(s)}], lines[Max(s)])]
    BY <1>6, <1>7, Zenon
  <1>9. Loading(variables, lines, m, h)
    BY <1>8 DEF Loading
  <1> QED BY <1>2, <1>9

\* Those of the first n lines that say something of a key.
Said(lines, n, key) == {i \in 1..n : lines[i].key = key /\ lines[i].value # Unset}

\* What variables and the first n lines say of a key, if anything.
Heard(variables, lines, n, key) ==
  IF variables[key] # Unset THEN variables[key]
  ELSE IF Said(lines, n, key) = {} THEN Unset ELSE lines[Min(Said(lines, n, key))].value

\* A key that some line sets has a first such line.
LEMMA SaidFirst ==
  ASSUME NEW lines, NEW n \in Nat, NEW key, Said(lines, n, key) # {}
  PROVE /\ Min(Said(lines, n, key)) \in Said(lines, n, key)
        /\ \A i \in Said(lines, n, key) : Min(Said(lines, n, key)) <= i
  <1>1. Said(lines, n, key) \subseteq Nat
    BY DEF Said
  <1> QED BY <1>1, SmallestOf DEF Min

\* One line more.
LEMMA SaidNext ==
  ASSUME NEW lines, NEW n \in Nat, NEW key
  PROVE IF lines[n + 1].key = key /\ lines[n + 1].value # Unset
        THEN Said(lines, n + 1, key) = Said(lines, n, key) \cup {n + 1}
        ELSE Said(lines, n + 1, key) = Said(lines, n, key)
  <1>1. \A i : i \in 1..(n + 1) <=> i \in 1..n \/ i = n + 1
    OBVIOUS
  <1> QED BY <1>1 DEF Said

\* One more line matters to a key that is unset so far.
LEMMA HeardNext ==
  ASSUME NEW variables, NEW lines, NEW n \in Nat, NEW key
  PROVE Heard(variables, lines, n + 1, key) =
          IF Heard(variables, lines, n, key) = Unset /\ lines[n + 1].key = key
          THEN lines[n + 1].value ELSE Heard(variables, lines, n, key)
  <1> DEFINE here == lines[n + 1].key = key /\ lines[n + 1].value # Unset
             old  == Said(lines, n, key)
             new  == Said(lines, n + 1, key)
  <1>1. n + 1 \in Nat /\ old \subseteq 1..n
    BY DEF Said
  <1>2. (here => new = old \cup {n + 1}) /\ (~ here => new = old)
    BY SaidNext
  <1>3. /\ old # {} => Min(old) \in old /\ \A i \in old : Min(old) <= i
        /\ new # {} => Min(new) \in new /\ \A i \in new : Min(new) <= i
    BY <1>1, SaidFirst
  <1>4. \A i \in old : lines[i].value # Unset
    BY DEF Said
  <1>5. /\ Heard(variables, lines, n, key) =
             IF variables[key] # Unset THEN variables[key]
             ELSE IF old = {} THEN Unset ELSE lines[Min(old)].value
        /\ Heard(variables, lines, n + 1, key) =
             IF variables[key] # Unset THEN variables[key]
             ELSE IF new = {} THEN Unset ELSE lines[Min(new)].value
    BY DEF Heard
  <1> HIDE DEF old, new, here
  <1>6. old # {} => new # {} /\ Min(new) = Min(old) /\ lines[Min(old)].value # Unset
    <2> SUFFICES ASSUME old # {} PROVE new # {} /\ Min(new) = Min(old) /\ lines[Min(old)].value # Unset
      OBVIOUS
    <2>1. old \subseteq new /\ \A i \in new : i \in old \/ i = n + 1
      BY <1>2
    <2>2. /\ Min(old) \in old /\ \A i \in old : Min(old) <= i
          /\ Min(new) \in new /\ \A i \in new : Min(new) <= i
      BY <1>3, <2>1
    <2>3. Min(old) \in 1..n /\ lines[Min(old)].value # Unset
      BY <1>1, <1>4, <2>2
    <2>4. Min(new) <= Min(old)
      BY <2>1, <2>2
    <2>5. Min(new) \in old
      BY <2>1, <2>2, <2>3, <2>4
    <2>6. Min(new) = Min(old)
      <3>1. Min(new) \in 1..n /\ Min(old) <= Min(new)
        BY <1>1, <2>2, <2>5
      <3> QED BY <2>3, <2>4, <3>1
    <2> QED BY <2>1, <2>3, <2>6
  <1>7. old = {} /\ here => new # {} /\ Min(new) = n + 1
    BY <1>1, <1>2, <1>3
  <1>8. old = {} /\ ~ here => new = {}
    BY <1>2
  <1> USE DEF here
  <1>9. CASE variables[key] # Unset
    BY <1>5, <1>9
  <1>10. CASE variables[key] = Unset /\ old = {}
    BY <1>5, <1>7, <1>8, <1>10
  <1>11. CASE variables[key] = Unset /\ old # {}
    BY <1>5, <1>6, <1>11
  <1> QED BY <1>9, <1>10, <1>11

\* Load leaves every variable with what it and the file say of it.
LEMMA LoadHears ==
  ASSUME NEW variables \in [Keys -> Values], NEW lines \in Seq(Line)
  PROVE Load(variables, lines) = [key \in Keys |-> Heard(variables, lines, Len(lines), key)]
  <1> DEFINE N    == Len(lines)
             g    == CHOOSE g : Loading(variables, lines, N, g)
             H(n) == [key \in Keys |-> Heard(variables, lines, n, key)]
             Bad  == {n \in 0..N : g[1..n] # H(n)}
  <1>1. N \in Nat
    OBVIOUS
  <1>2. Loading(variables, lines, N, g)
    BY <1>1, LoadingExists
  <1>3. Load(variables, lines) = g[1..N]
    BY LoadIsFold
  <1> HIDE DEF N, g
  <1>4. Bad = {}
    <2> HIDE DEF H
    <2>1. SUFFICES ASSUME Bad # {} PROVE FALSE
      BY <2>1
    <2>2. PICK n \in Bad : \A k \in Bad : n <= k
      <3>1. Bad \subseteq Nat
        BY <1>1
      <3> HIDE DEF Bad
      <3> QED BY <2>1, <3>1, SmallestOf
    <2>3. CASE n = 0
      <3>1. 1..0 = {} /\ {} \in SUBSET (1..N)
        OBVIOUS
      <3>2. g[{}] = variables
        BY <1>2, <3>1 DEF Loading
      <3>3. g[1..0] = variables
        BY <3>1, <3>2
      <3>4. ASSUME NEW key \in Keys PROVE Heard(variables, lines, 0, key) = variables[key]
        <4>1. Said(lines, 0, key) = {}
          BY DEF Said
        <4> QED BY <4>1 DEF Heard
      <3>5. H(0) = variables
        BY <3>4 DEF H
      <3> QED BY <2>2, <2>3, <3>3, <3>5
    <2>4. CASE n # 0
      <3> DEFINE k == n - 1
      <3>1. k \in 0..N /\ n = k + 1 /\ k \notin Bad /\ n \in 1..N /\ k \in Nat
        BY <1>1, <2>2, <2>4
      <3>2. g[1..k] = H(k)
        BY <3>1, Zenon
      <3> HIDE DEF k
      <3>3. Max(1..n) = n
        BY <3>1, LargestInRange
      <3>4. (1..n) \ {n} = 1..k /\ 1..n # {} /\ 1..n \in SUBSET (1..N)
        <4>1. k \in Nat /\ n = k + 1 /\ n \in 1..N
          BY <3>1
        <4>2. (1..(k + 1)) \ {k + 1} = 1..k
          BY <4>1, RangeWithoutLast
        <4>3. \A x \in 1..n : x \in 1..N
          BY <1>1, <4>1
        <4>4. (1..n) \ {n} = 1..k
          BY <4>1, <4>2, Zenon
        <4> QED BY <4>1, <4>3, <4>4
      <3>5. g[1..n] = Filled(g[(1..n) \ {Max(1..n)}], lines[Max(1..n)])
        BY <1>2, <3>4 DEF Loading
      <3>6. g[1..n] = Filled(H(k), lines[n])
        BY <3>2, <3>3, <3>4, <3>5
      <3>7. Filled(H(k), lines[n]) = H(n)
        <4>1. ASSUME NEW key \in Keys
              PROVE Heard(variables, lines, n, key) =
                      IF Heard(variables, lines, k, key) = Unset /\ lines[n].key = key
                      THEN lines[n].value ELSE Heard(variables, lines, k, key)
          <5>1. Heard(variables, lines, k + 1, key) =
                  IF Heard(variables, lines, k, key) = Unset /\ lines[k + 1].key = key
                  THEN lines[k + 1].value ELSE Heard(variables, lines, k, key)
            BY <3>1, HeardNext
          <5> QED BY <3>1, <5>1, Zenon
        <4> QED BY <4>1 DEF Filled, H
      <3> QED BY <2>2, <3>6, <3>7
    <2> QED BY <2>3, <2>4
  <1>5. g[1..N] = H(N)
    <2>1. N \notin Bad /\ N \in 0..N
      BY <1>1, <1>4
    <2> QED BY <2>1
  <1> QED BY <1>3, <1>5 DEF N

\* What is heard is a value.
LEMMA HeardValue ==
  ASSUME NEW variables \in [Keys -> Values], NEW lines \in Seq(Line), NEW key \in Keys
  PROVE Heard(variables, lines, Len(lines), key) \in Values
  <1> DEFINE said == Said(lines, Len(lines), key)
  <1>1. said # {} => Min(said) \in 1..Len(lines)
    <2>1. said # {} => Min(said) \in said
      BY SaidFirst
    <2> QED BY <2>1 DEF Said
  <1>2. ASSUME NEW i \in 1..Len(lines) PROVE lines[i].value \in Values
    <2>1. lines[i] \in Line
      OBVIOUS
    <2>2. \A line \in Line : line.value \in Values
      BY DEF Line
    <2> QED BY <2>1, <2>2
  <1>3. Heard(variables, lines, Len(lines), key) =
          IF variables[key] # Unset THEN variables[key]
          ELSE IF said = {} THEN Unset ELSE lines[Min(said)].value
    BY DEF Heard
  <1> HIDE DEF said
  <1> QED BY <1>1, <1>2, <1>3, StartupAssumption
\* What Get says after Load is what is in force.
LEMMA GetIsInForce ==
  ASSUME environment \in [Keys -> Values], dotenv \in Seq(Line), NEW key \in Keys
  PROVE /\ Get(Load(environment, dotenv), key) = InForce(key)
        /\ Get(Load(environment, dotenv), key) \in Values
  <1> DEFINE heard == Heard(environment, dotenv, Len(dotenv), key)
             first == [key |-> key, value |-> environment[key]]
             lines == <<first>> \o dotenv
             said  == {i \in DOMAIN lines : lines[i].key = key /\ lines[i].value # Unset}
             old   == Said(dotenv, Len(dotenv), key)
  <1>1. Get(Load(environment, dotenv), key) = IF heard = Unset THEN "admin" ELSE heard
    BY LoadHears DEF Get
  <1>2. InForce(key) = IF said = {} THEN "admin" ELSE lines[Min(said)].value
    BY Zenon DEF InForce
  <1>3. /\ DOMAIN lines = 1..(Len(dotenv) + 1)
        /\ lines[1] = first
        /\ \A i \in 1..Len(dotenv) : lines[i + 1] = dotenv[i]
    OBVIOUS
  <1>4. first.key = key /\ first.value = environment[key]
    OBVIOUS
  <1> HIDE DEF lines, first
  <1>5. /\ said \subseteq 1..(Len(dotenv) + 1)
        /\ 1 \in said <=> environment[key] # Unset
        /\ \A i \in 1..Len(dotenv) : i + 1 \in said <=> i \in old
    BY <1>3, <1>4 DEF Said
  <1>6. old \subseteq 1..Len(dotenv)
    BY DEF Said
  <1>7. /\ said # {} => Min(said) \in said /\ \A i \in said : Min(said) <= i
        /\ old # {} => Min(old) \in old /\ \A i \in old : Min(old) <= i
    <2>1. said \subseteq Nat
      BY <1>5
    <2> HIDE DEF said
    <2>2. said # {} => Min(said) \in said /\ \A i \in said : Min(said) <= i
      BY <2>1, SmallestOf DEF Min
    <2> QED BY <2>2, SaidFirst
  <1>8. heard = IF environment[key] # Unset THEN environment[key]
                ELSE IF old = {} THEN Unset ELSE dotenv[Min(old)].value
    BY DEF Heard
  <1>9. \A i \in old : dotenv[i].value # Unset
    BY DEF Said
  <1> HIDE DEF said, old, heard
  <1>10. ASSUME environment[key] # Unset
        PROVE Get(Load(environment, dotenv), key) = InForce(key)
    <2>1. 1 \in said
      BY <1>5, <1>10
    <2>2. Min(said) \in 1..(Len(dotenv) + 1) /\ Min(said) <= 1
      BY <1>5, <1>7, <2>1
    <2>3. Min(said) = 1 /\ said # {}
      BY <2>1, <2>2
    <2> QED BY <1>1, <1>2, <1>3, <1>4, <1>8, <1>10, <2>3
  <1>11. ASSUME environment[key] = Unset /\ old = {}
        PROVE Get(Load(environment, dotenv), key) = InForce(key)
    <2>1. said = {}
      <3>1. SUFFICES ASSUME NEW i \in said PROVE FALSE
        OBVIOUS
      <3>2. i \in 1..(Len(dotenv) + 1) /\ i # 1
        BY <1>5, <1>11, <3>1
      <3>3. i - 1 \in 1..Len(dotenv) /\ (i - 1) + 1 = i
        BY <3>2
      <3> QED BY <1>5, <1>11, <3>1, <3>3
    <2>2. heard = Unset /\ InForce(key) = "admin"
      BY <1>2, <1>8, <1>11, <2>1, Zenon
    <2> QED BY <1>1, <2>2, Zenon
  <1>12. ASSUME environment[key] = Unset /\ old # {}
        PROVE Get(Load(environment, dotenv), key) = InForce(key)
    <2>1. Min(old) \in 1..Len(dotenv) /\ Min(old) + 1 \in said
      BY <1>5, <1>6, <1>7, <1>12
    <2>2. /\ Min(said) \in 1..(Len(dotenv) + 1) /\ Min(said) # 1 /\ Min(said) \in said
          /\ Min(said) <= Min(old) + 1
      BY <1>5, <1>7, <1>12, <2>1
    <2>3. Min(said) - 1 \in 1..Len(dotenv) /\ (Min(said) - 1) + 1 = Min(said)
      BY <2>2
    <2>4. Min(said) - 1 \in old
      BY <1>5, <2>2, <2>3
    <2>5. Min(old) <= Min(said) - 1
      BY <1>7, <1>12, <2>4
    <2>6. Min(said) = Min(old) + 1
      BY <2>1, <2>2, <2>5
    <2>7. lines[Min(said)].value = dotenv[Min(old)].value
      BY <1>3, <2>1, <2>6
    <2>8. heard = dotenv[Min(old)].value /\ heard # Unset
      BY <1>7, <1>8, <1>9, <1>12, Zenon
    <2>9. InForce(key) = dotenv[Min(old)].value
      BY <1>2, <2>1, <2>7, Zenon
    <2> QED BY <1>1, <2>8, <2>9, Zenon
  <1>13. Get(Load(environment, dotenv), key) = InForce(key)
    BY <1>10, <1>11, <1>12
  <1>14. heard \in Values
    BY HeardValue DEF heard
  <1> QED BY <1>1, <1>13, <1>14, StartupAssumption

-----------------------------------------------------------------------------
(* The migration.                                                          *)

AllTables  == ToSet(Tables)
AllColumns == ToSet(Columns)

Served == {"wire", "listen", "serving"}

\* What a process at record r has seen to, in tables ts and columns cs with
\* wallets bs that lack an endpoint.  Nobody undoes it.
Migrated(r, ts, cs, bs) ==
  /\ r.pc \in Steps
  /\ r.pc = "create" => /\ r.at \in 1..Len(Tables)
                        /\ \A i \in 1..(r.at - 1) : Tables[i] \in ts
  /\ r.pc \in Steps \ {"down", "create"} => AllTables \subseteq ts
  /\ r.pc \in {"look", "add"} => /\ r.at \in 1..Len(Columns)
                                 /\ \A i \in 1..(r.at - 1) : Columns[i] \in cs
  /\ r.pc \in {"fill"} \cup Served => AllColumns \subseteq cs
  /\ r.pc \in Served => bs = {}
  /\ r.admin # "none" => r.pc \in {"listen", "serving"}

\* The shape of a record that EXCEPT updates.
Shaped(r) ==
  r = [pc |-> r.pc, at |-> r.at, settings |-> r.settings, admin |-> r.admin]

StartupInv ==
  /\ tables \subseteq AllTables /\ columns \subseteq AllColumns
  /\ DOMAIN proc = Processes /\ proc = [p \in Processes |-> proc[p]]
  /\ \A p \in Processes : Shaped(proc[p]) /\ Migrated(proc[p], tables, columns, blank)
  /\ \A p \in Processes : adminPort = p => proc[p].admin # "none"

-----------------------------------------------------------------------------
\* The tables and columns that migrations name.
LEMMA Sequences ==
  /\ Len(Tables) = 4 /\ Len(Columns) = 3
  /\ \A i \in 1..Len(Tables) : Tables[i] \in AllTables
  /\ \A i \in 1..Len(Columns) : Columns[i] \in AllColumns
  /\ \A S : (\A i \in 1..Len(Tables) : Tables[i] \in S) => AllTables \subseteq S
  /\ \A S : (\A i \in 1..Len(Columns) : Columns[i] \in S) => AllColumns \subseteq S
  BY DEF Tables, Columns, AllTables, AllColumns, ToSet

\* A process that is down relies on nothing.
LEMMA OffMigrated ==
  /\ Shaped(Off) /\ Off.admin = "none" /\ Off.pc = "down"
  /\ \A ts, cs, bs : Migrated(Off, ts, cs, bs)
  BY DEF Shaped, Migrated, Off, Steps, Served

\* At first every process is down.
LEMMA InitStartup == Init => StartupInv
  <1> SUFFICES ASSUME Init PROVE StartupInv
    OBVIOUS
  <1>1. proc = [p \in Processes |-> Off] /\ adminPort = NoProcess /\ NoProcess \notin Processes
    BY StartupAssumption DEF Init, StartupInit
  <1>2. tables \subseteq AllTables /\ columns \subseteq AllColumns
    BY DEF Init, StartupInit, AllTables, AllColumns
  <1> QED BY <1>1, <1>2, OffMigrated DEF StartupInv

\* A database that only gains, and gains no blank endpoint once complete.
Gains == /\ tables \subseteq tables' /\ tables' \subseteq AllTables
         /\ columns \subseteq columns' /\ columns' \subseteq AllColumns
         /\ AllColumns \subseteq columns => blank' \subseteq blank

\* What is there stays: tables and columns only grow.
LEMMA StaysMigrated ==
  ASSUME Gains, NEW r, Migrated(r, tables, columns, blank)
  PROVE Migrated(r, tables', columns', blank')
  BY DEF Gains, Migrated, Served

\* A process moves to another record, and what others rely on is kept.
LEMMA ProcessMove ==
  ASSUME StartupInv, NEW p \in Processes, NEW r, proc' = [proc EXCEPT ![p] = r],
         Shaped(r), Migrated(r, tables', columns', blank'), Gains,
         \/ adminPort' = p /\ r.admin # "none"
         \/ adminPort' = adminPort /\ (adminPort = p => r.admin # "none")
         \/ adminPort' = NoProcess
  PROVE StartupInv'
  <1>1. proc'[p] = r /\ \A q \in Processes : q # p => proc'[q] = proc[q]
    BY DEF StartupInv
  <1>2. \A q \in Processes : Shaped(proc'[q]) /\ Migrated(proc'[q], tables', columns', blank')
    BY <1>1, StaysMigrated DEF StartupInv
  <1>3. DOMAIN proc' = Processes /\ proc' = [q \in Processes |-> proc'[q]]
    BY DEF StartupInv
  <1>4. \A q \in Processes : adminPort' = q => proc'[q].admin # "none"
    BY <1>1, StartupAssumption DEF StartupInv
  <1> QED BY <1>2, <1>3, <1>4 DEF StartupInv, Gains

\* The two fields that Goto sets.
Moved(r, pc, at) == [r EXCEPT !.pc = pc, !.at = at]

\* A step along the program counter keeps the shape of a process.
LEMMA GotoShape ==
  ASSUME NEW r, Shaped(r), NEW pc, NEW at
  PROVE /\ Shaped(Moved(r, pc, at)) /\ Moved(r, pc, at).pc = pc
        /\ Moved(r, pc, at).at = at /\ Moved(r, pc, at).admin = r.admin
  <1> DEFINE m == [r EXCEPT !.pc = pc]
             n == [m EXCEPT !.at = at]
  <1>1. m = [pc |-> pc, at |-> r.at, settings |-> r.settings, admin |-> r.admin]
    BY DEF Shaped
  <1>2. Shaped(m) /\ m.pc = pc /\ m.admin = r.admin
    BY <1>1 DEF Shaped
  <1>3. [r EXCEPT !.pc = pc, !.at = at] = n
    BY DEF Shaped
  <1> HIDE DEF m
  <1>4. n = [pc |-> m.pc, at |-> at, settings |-> m.settings, admin |-> m.admin]
    BY <1>2 DEF Shaped
  <1>5. Shaped(n) /\ n.pc = pc /\ n.at = at /\ n.admin = r.admin
    BY <1>2, <1>4 DEF Shaped
  <1> QED BY <1>3, <1>5 DEF Moved

\* A process that exits frees its ports.
LEMMA ExitsInv ==
  ASSUME StartupInv, NEW p \in Processes, Exits(p), UNCHANGED <<tables, columns, blank>>
  PROVE StartupInv'
  <1>1. proc' = [proc EXCEPT ![p] = Off]
    BY DEF Exits
  <1>2. adminPort' = NoProcess \/ (adminPort' = adminPort /\ adminPort # p)
    BY DEF Exits
  <1>3. Gains
    BY DEF StartupInv, Gains
  <1> QED BY <1>1, <1>2, <1>3, OffMigrated, ProcessMove

\* A step of a process inside the migration, which does not touch the ports.
LEMMA GotoInv ==
  ASSUME StartupInv, NEW p \in Processes, NEW pc \in Steps, NEW at, Goto(p, pc, at),
         UNCHANGED adminPort, Gains,
         \A r : /\ r.pc = pc /\ r.at = at /\ r.admin = proc[p].admin
                => Migrated(r, tables', columns', blank')
  PROVE StartupInv'
  <1> DEFINE n == Moved(proc[p], pc, at)
  <1>1. Shaped(proc[p])
    BY DEF StartupInv
  <1>2. Shaped(n) /\ n.pc = pc /\ n.at = at /\ n.admin = proc[p].admin
    BY <1>1, GotoShape
  <1>3. proc' = [proc EXCEPT ![p] = n]
    BY Zenon DEF Goto, Moved
  <1> HIDE DEF n
  <1>4. adminPort = p => n.admin # "none"
    BY <1>2 DEF StartupInv
  <1>5. Migrated(n, tables', columns', blank')
    BY <1>2
  <1> QED BY <1>2, <1>3, <1>4, <1>5, ProcessMove

-----------------------------------------------------------------------------
(* One lemma for each step of the start.                                   *)

\* A process that starts reads its settings.
LEMMA StartInv == ASSUME StartupInv, NEW p \in Processes, Start(p) PROVE StartupInv'
  <1> DEFINE set == [key \in Keys |-> Get(Load(environment, dotenv), key)]
             n   == [Off EXCEPT !.pc = "create", !.settings = set]
  <1>1. n = [pc |-> "create", at |-> 1, settings |-> set, admin |-> "none"]
    <2> DEFINE m == [Off EXCEPT !.pc = "create"]
    <2>1. Off = [pc |-> "down", at |-> 1, settings |-> Off.settings, admin |-> "none"]
      BY DEF Off
    <2>2. m = [pc |-> "create", at |-> 1, settings |-> Off.settings, admin |-> "none"]
      BY <2>1
    <2> HIDE DEF set
    <2>3. n = [m EXCEPT !.settings = set]
      BY <2>1
    <2> HIDE DEF m
    <2> QED BY <2>2, <2>3
  <1>2. proc' = [proc EXCEPT ![p] = n] /\ UNCHANGED adminPort
    BY DEF Start
  <1>3. Gains
    BY DEF Start, databaseVars, Gains, StartupInv
  <1> HIDE DEF n, set
  <1>4. Shaped(n) /\ Migrated(n, tables', columns', blank')
    BY <1>1, Sequences DEF Shaped, Migrated, Steps, Served
  <1>5. adminPort # p
    BY DEF Start, StartupInv, Migrated
  <1> QED BY <1>2, <1>3, <1>4, <1>5, ProcessMove

\* A new table is seen, and comes with its columns.
LEMMA CreateTableInv == ASSUME StartupInv, NEW p \in Processes, CreateTable(p) PROVE StartupInv'
  <1> DEFINE at == proc[p].at
  <1>1. at \in 1..Len(Tables) /\ proc[p].admin = "none"
        /\ \A i \in 1..(at - 1) : Tables[i] \in tables
    BY DEF CreateTable, StartupInv, Migrated
  <1>2. tables' = tables \cup {Tables[at]} /\ blank' = blank /\ UNCHANGED adminPort
    BY DEF CreateTable
  <1>3. columns \subseteq columns' /\ columns' \subseteq AllColumns
    BY DEF CreateTable, StartupInv, AllColumns
  <1>4. Gains
    BY <1>1, <1>2, <1>3, Sequences DEF Gains, StartupInv
  <1>5. \A i \in 1..at : Tables[i] \in tables'
    BY <1>1, <1>2, Sequences
  <1>6. CASE at = Len(Tables)
    <2>1. AllTables \subseteq tables'
      BY <1>5, <1>6, Sequences
    <2>2. \A r : r.pc = "look" /\ r.at = 1 /\ r.admin = proc[p].admin
                 => Migrated(r, tables', columns', blank')
      BY <1>1, <2>1, Sequences DEF Migrated, Steps, Served
    <2>3. Goto(p, "look", 1)
      BY <1>6 DEF CreateTable
    <2> QED BY <1>2, <1>4, <2>2, <2>3, GotoInv DEF Steps
  <1>7. CASE at # Len(Tables)
    <2>1. at + 1 \in 1..Len(Tables) /\ \A i \in 1..((at + 1) - 1) : Tables[i] \in tables'
      BY <1>1, <1>5, <1>7, Sequences
    <2> DEFINE next == at + 1
    <2>2. Goto(p, "create", next)
      BY <1>7 DEF CreateTable
    <2> HIDE DEF next
    <2>3. \A r : r.pc = "create" /\ r.at = next /\ r.admin = proc[p].admin
                 => Migrated(r, tables', columns', blank')
      BY <1>1, <2>1 DEF Migrated, Steps, Served, next
    <2> QED BY <1>2, <1>4, <2>2, <2>3, GotoInv DEF Steps
  <1> QED BY <1>6, <1>7

\* Once its column is there a process goes on to the next.
LEMMA NextColumnInv ==
  ASSUME StartupInv, NEW p \in Processes, proc[p].pc \in {"look", "add"},
         Columns[proc[p].at] \in columns', NextColumn(p), Gains
  PROVE StartupInv'
  <1> DEFINE at == proc[p].at
  <1>1. /\ at \in 1..Len(Columns) /\ proc[p].admin = "none" /\ AllTables \subseteq tables'
        /\ \A i \in 1..(at - 1) : Columns[i] \in columns'
    BY DEF StartupInv, Migrated, Steps, Gains
  <1>2. \A i \in 1..at : Columns[i] \in columns'
    BY <1>1, Sequences
  <1>3. UNCHANGED adminPort
    BY DEF NextColumn
  <1>4. CASE at = Len(Columns)
    <2>1. AllColumns \subseteq columns'
      BY <1>2, <1>4, Sequences
    <2>2. \A r : r.pc = "fill" /\ r.at = 1 /\ r.admin = proc[p].admin
                 => Migrated(r, tables', columns', blank')
      BY <1>1, <2>1 DEF Migrated, Steps, Served
    <2>3. Goto(p, "fill", 1)
      BY <1>4 DEF NextColumn
    <2> QED BY <1>3, <2>2, <2>3, GotoInv DEF Steps
  <1>5. CASE at # Len(Columns)
    <2>1. at + 1 \in 1..Len(Columns) /\ \A i \in 1..((at + 1) - 1) : Columns[i] \in columns'
      BY <1>1, <1>2, <1>5, Sequences
    <2> DEFINE next == at + 1
    <2>2. Goto(p, "look", next)
      BY <1>5 DEF NextColumn
    <2> HIDE DEF next
    <2>3. \A r : r.pc = "look" /\ r.at = next /\ r.admin = proc[p].admin
                 => Migrated(r, tables', columns', blank')
      BY <1>1, <2>1 DEF Migrated, Steps, Served, next
    <2> QED BY <1>3, <2>2, <2>3, GotoInv DEF Steps
  <1> QED BY <1>4, <1>5

\* A column that is seen is there.
LEMMA LookForColumnInv ==
  ASSUME StartupInv, NEW p \in Processes, LookForColumn(p) PROVE StartupInv'
  <1>1. proc[p].pc = "look" /\ UNCHANGED <<tables, columns, blank>> /\ Gains
    BY DEF LookForColumn, databaseVars, Gains, StartupInv
  <1>2. CASE Columns[proc[p].at] \in columns
    BY <1>1, <1>2, NextColumnInv DEF LookForColumn
  <1>3. CASE Columns[proc[p].at] \notin columns
    <2> DEFINE at == proc[p].at
    <2>1. Goto(p, "add", at) /\ UNCHANGED adminPort
      BY <1>3 DEF LookForColumn
    <2>2. /\ at \in 1..Len(Columns) /\ proc[p].admin = "none" /\ AllTables \subseteq tables
          /\ \A i \in 1..(at - 1) : Columns[i] \in columns
      BY <1>1 DEF StartupInv, Migrated, Steps
    <2> HIDE DEF at
    <2>3. \A r : r.pc = "add" /\ r.at = at /\ r.admin = proc[p].admin
                 => Migrated(r, tables', columns', blank')
      BY <1>1, <2>2 DEF Migrated, Steps, Served
    <2> QED BY <1>1, <2>1, <2>3, GotoInv DEF Steps
  <1> QED BY <1>2, <1>3

\* A column that is added was missing, so that nobody serves yet.
LEMMA AddColumnInv == ASSUME StartupInv, NEW p \in Processes, AddColumn(p) PROVE StartupInv'
  <1> DEFINE column == Columns[proc[p].at]
  <1>1. proc[p].pc = "add" /\ UNCHANGED tables
    BY DEF AddColumn
  <1>2. column \in AllColumns
    BY <1>1, Sequences DEF StartupInv, Migrated
  <1>3. CASE column \in columns
    BY <1>1, <1>3, ExitsInv DEF AddColumn
  <1>4. CASE column \notin columns
    <2>1. columns' = columns \cup {column} /\ NextColumn(p)
      BY <1>4 DEF AddColumn
    <2>2. Gains
      BY <1>1, <1>2, <1>4, <2>1 DEF Gains, StartupInv
    <2> QED BY <1>1, <2>1, <2>2, NextColumnInv
  <1> QED BY <1>3, <1>4

\* The UPDATE of wallets leaves no blank endpoint.
LEMMA FillEndpointsInv ==
  ASSUME StartupInv, NEW p \in Processes, FillEndpoints(p) PROVE StartupInv'
  <1>1. /\ Goto(p, "wire", 1) /\ UNCHANGED <<tables, columns, adminPort>> /\ blank' = {}
        /\ proc[p].pc = "fill"
    BY DEF FillEndpoints
  <1>2. Gains
    BY <1>1 DEF Gains, StartupInv
  <1>3. AllTables \subseteq tables /\ AllColumns \subseteq columns /\ proc[p].admin = "none"
    BY <1>1 DEF StartupInv, Migrated, Steps
  <1>4. \A r : r.pc = "wire" /\ r.at = 1 /\ r.admin = proc[p].admin
               => Migrated(r, tables', columns', blank')
    BY <1>1, <1>3 DEF Migrated, Steps, Served
  <1> QED BY <1>1, <1>2, <1>4, GotoInv DEF Steps

\* The admin goroutine exists from here on.
LEMMA WireInv == ASSUME StartupInv, NEW p \in Processes, Wire(p) PROVE StartupInv'
  <1> DEFINE r == proc[p]
             m == [r EXCEPT !.pc = "listen"]
             n == [m EXCEPT !.admin = "starting"]
  <1>1. /\ proc' = [proc EXCEPT ![p] = n] /\ UNCHANGED <<tables, columns, blank, adminPort>>
        /\ r.pc = "wire"
    BY DEF Wire, databaseVars
  <1>2. Shaped(r) /\ Migrated(r, tables, columns, blank)
    BY DEF StartupInv
  <1> HIDE DEF r
  <1>3. m = [pc |-> "listen", at |-> r.at, settings |-> r.settings, admin |-> r.admin]
    BY <1>2 DEF Shaped
  <1> HIDE DEF m
  <1>4. n = [pc |-> "listen", at |-> r.at, settings |-> r.settings, admin |-> "starting"]
    BY <1>3
  <1>5. Shaped(n) /\ n.pc = "listen" /\ n.admin = "starting"
    BY <1>4 DEF Shaped
  <1> HIDE DEF n
  <1>6. Migrated(n, tables', columns', blank')
    BY <1>1, <1>2, <1>5 DEF Migrated, Steps, Served
  <1>7. Gains
    BY <1>1 DEF Gains, StartupInv
  <1> QED BY <1>1, <1>5, <1>6, <1>7, ProcessMove

\* The port of the admin UI is free, or it goes without.
LEMMA ListenAdminInv ==
  ASSUME StartupInv, NEW p \in Processes, ListenAdmin(p) PROVE StartupInv'
  <1> DEFINE r    == proc[p]
             took == IF adminPort = NoProcess THEN "up" ELSE "failed"
             n    == [r EXCEPT !.admin = took]
  <1>1. /\ proc' = [proc EXCEPT ![p] = n] /\ UNCHANGED <<tables, columns, blank>>
        /\ adminPort' \in {adminPort, p} /\ r.admin = "starting"
    BY DEF ListenAdmin, databaseVars
  <1>2. Shaped(r) /\ Migrated(r, tables, columns, blank)
    BY DEF StartupInv
  <1> HIDE DEF r
  <1>3. took # "none"
    OBVIOUS
  <1> HIDE DEF took
  <1>4. n = [pc |-> r.pc, at |-> r.at, settings |-> r.settings, admin |-> took]
    BY <1>2 DEF Shaped
  <1>5. Shaped(n) /\ n.pc = r.pc /\ n.at = r.at /\ n.admin = took
    BY <1>4 DEF Shaped
  <1> HIDE DEF n
  <1>6. Migrated(n, tables', columns', blank')
    BY <1>1, <1>2, <1>3, <1>5 DEF Migrated
  <1>7. Gains
    BY <1>1 DEF Gains, StartupInv
  <1> QED BY <1>1, <1>3, <1>5, <1>6, <1>7, ProcessMove

\* The proxy's port is free, or it exits.
LEMMA ListenProxyInv ==
  ASSUME StartupInv, NEW p \in Processes, ListenProxy(p) PROVE StartupInv'
  <1>1. UNCHANGED <<tables, columns, blank>> /\ Gains /\ proc[p].pc = "listen"
    BY DEF ListenProxy, databaseVars, Gains, StartupInv
  <1>2. CASE Exits(p)
    BY <1>1, <1>2, ExitsInv
  <1>3. CASE Goto(p, "serving", 1) /\ UNCHANGED adminPort
    <2>1. AllTables \subseteq tables /\ AllColumns \subseteq columns /\ blank = {}
      BY <1>1 DEF StartupInv, Migrated, Steps, Served
    <2>2. \A r : r.pc = "serving" /\ r.at = 1 /\ r.admin = proc[p].admin
                 => Migrated(r, tables', columns', blank')
      BY <1>1, <2>1 DEF Migrated, Steps, Served
    <2> QED BY <1>1, <1>3, <2>2, GotoInv DEF Steps
  <1> QED BY <1>2, <1>3 DEF ListenProxy

\* Steps that leave the processes and the schema alone.
LEMMA OthersInv ==
  ASSUME StartupInv, UNCHANGED <<tables, columns, blank, proc, adminPort>>
  PROVE StartupInv'
  BY DEF StartupInv

\* Every step keeps StartupInv.
LEMMA NextStartup == StartupInv /\ [Next]_vars => StartupInv'
  <1> SUFFICES ASSUME StartupInv, [Next]_vars PROVE StartupInv'
    OBVIOUS
  <1>1. CASE UNCHANGED vars
    BY <1>1, OthersInv DEF vars, startupVars, databaseVars, processVars
  <1>2. ASSUME NEW p \in Processes, MainStep(p) PROVE StartupInv'
    BY <1>2, StartInv, CreateTableInv, LookForColumnInv, AddColumnInv, FillEndpointsInv,
       WireInv, ListenProxyInv DEF MainStep, New, Migrating
  <1>3. ASSUME NEW p \in Processes, AdminListener(p) PROVE StartupInv'
    BY <1>3, ListenAdminInv DEF AdminListener
  <1>4. ASSUME NEW p \in Processes, Stop(p) PROVE StartupInv'
    BY <1>4, ExitsInv DEF Stop, databaseVars
  <1>5. ASSUME NEW t \in Tabs, BrowserStep(t) \/ AdminStep(t) PROVE StartupInv'
    <2>1. UNCHANGED startupVars \/ \E w \in WalletIds : CreateWallet(w)
      BY <1>5 DEF BrowserStep, Send, Receive, Lose, AdminStep, HandlePage, HandleLogin,
                  HandleLogout, HandleCreateWallet
    <2> QED BY <2>1, OthersInv DEF CreateWallet, startupVars, databaseVars, processVars
  <1>6. CASE Edit
    BY <1>6, OthersInv DEF Edit, databaseVars, processVars
  <1> QED BY <1>1, <1>2, <1>3, <1>4, <1>5, <1>6 DEF Next

\* Whoever listens or is about to finds every table and column and no wallet
\* without an endpoint (Migrate), however many processes migrate one database
\* at once and wherever each of them is stopped.
THEOREM MigratedBeforeServing == Spec => []ServingIsMigrated
  <1>1. StartupInv => ServingIsMigrated
    BY DEF StartupInv, ServingIsMigrated, Migrated, Served, Steps, AllTables, AllColumns
  <1> QED BY <1>1, InitStartup, NextStartup, PTL DEF Spec
-----------------------------------------------------------------------------
(* The login.                                                              *)

Message == Request \cup Answer

\* The token of a process is in hands that the process gave it to.
Earned(c, given) == c \in Processes => c \in given

SessionInv ==
  /\ adminPort \in Processes \cup {NoProcess}
  /\ cookie \in Cookies /\ Earned(cookie, admitted)
  /\ tab \in [Tabs -> {Quiet} \cup Message]
  /\ \A t \in Tabs : tab[t].state # "idle" => Earned(tab[t].cookie, admitted)

-----------------------------------------------------------------------------
\* A message is something under way.
LEMMA QuietOrMessage ==
  /\ Quiet.state = "idle"
  /\ \A m \in Message : m.state # "idle" /\ m # Quiet /\ m.cookie \in Cookies
  BY DEF Quiet, Message, Request, Answer

\* At first nobody has a token.
LEMMA InitSession == Init => SessionInv
  BY QuietOrMessage, SessionAssumption DEF Init, StartupInit, SessionInv, Earned, Cookies

\* A tab that goes quiet, or holds a message with an earned cookie.
LEMMA TabMove ==
  ASSUME SessionInv, NEW t \in Tabs, NEW m \in {Quiet} \cup Message,
         tab' = [tab EXCEPT ![t] = m], m.state # "idle" => Earned(m.cookie, admitted'),
         cookie' \in Cookies, Earned(cookie', admitted'),
         adminPort' \in Processes \cup {NoProcess}, admitted \subseteq admitted'
  PROVE SessionInv'
  BY DEF SessionInv, Earned

\* A browser only passes on cookies that it was given.
LEMMA BrowserSession ==
  ASSUME SessionInv, NEW t \in Tabs, BrowserStep(t) PROVE SessionInv'
  <1>1. ASSUME NEW m \in Request, m.cookie = cookie, Send(t, m) PROVE SessionInv'
    BY <1>1, QuietOrMessage, TabMove DEF Send, SessionInv, Message, Earned, startupVars,
       processVars
  <1>2. CASE Receive(t)
    <2>1. tab[t] \in Message
      BY <1>2, QuietOrMessage DEF Receive, SessionInv
    <2>2. cookie' \in Cookies /\ Earned(cookie', admitted')
      BY <1>2, <2>1, QuietOrMessage DEF Receive, SessionInv, Earned
    <2> QED BY <1>2, <2>2, QuietOrMessage, TabMove
        DEF Receive, Done, SessionInv, startupVars, processVars
  <1>3. CASE Lose(t)
    BY <1>3, QuietOrMessage, TabMove
    DEF Lose, Done, SessionInv, Earned, startupVars, processVars
  <1>4. ASSUME NEW form \in {"page", "logout", "wallet"}
        PROVE [state |-> "sent", form |-> form, cookie |-> cookie] \in Request
    BY DEF SessionInv, Request
  <1>5. ASSUME NEW login \in Logins
        PROVE [state |-> "sent", form |-> "login", cookie |-> cookie, login |-> login]
                \in Request
    BY DEF SessionInv, Request
  <1> QED BY <1>1, <1>2, <1>3, <1>4, <1>5 DEF BrowserStep

\* A server gives its token to who has its credentials.
LEMMA AdminStepSession ==
  ASSUME SessionInv, NEW t \in Tabs, AdminStep(t) PROVE SessionInv'
  <1>1. \A w \in WalletIds : CreateWallet(w) => UNCHANGED adminPort
    BY DEF CreateWallet, processVars
  <1>2. UNCHANGED startupVars => UNCHANGED adminPort
    BY DEF startupVars, processVars
  <1>3. CASE HandlePage(t) \/ \E w \in WalletIds : HandleCreateWallet(t, w)
    BY <1>1, <1>2, <1>3, QuietOrMessage, TabMove
    DEF HandlePage, HandleCreateWallet, Done, SessionInv, Earned
  <1>4. CASE HandleLogin(t)
    <2> DEFINE m == [state |-> "answered", cookie |-> adminPort]
    <2>1. adminPort \in Processes
      BY <1>4 DEF HandleLogin, Sent, SessionInv
    <2>2. m \in Message /\ m.cookie = adminPort
      BY <2>1 DEF Message, Answer, Cookies
    <2>3. \/ /\ tab' = [tab EXCEPT ![t] = m] /\ admitted' = admitted \cup {adminPort}
          \/ Done(t) /\ UNCHANGED admitted
      BY <1>4 DEF HandleLogin
    <2>4. UNCHANGED <<cookie, adminPort>>
      BY <1>2, <1>4 DEF HandleLogin
    <2> HIDE DEF m
    <2> QED BY <2>2, <2>3, <2>4, QuietOrMessage, TabMove DEF Done, SessionInv, Earned
  <1>5. CASE HandleLogout(t)
    <2> DEFINE m == [state |-> "answered", cookie |-> NoCookie]
    <2>1. m \in Message /\ m.cookie = NoCookie /\ NoCookie \notin Processes
      BY SessionAssumption DEF Message, Answer, Cookies
    <2>2. tab' = [tab EXCEPT ![t] = m] /\ UNCHANGED <<cookie, adminPort, admitted>>
      BY <1>2, <1>5 DEF HandleLogout
    <2> HIDE DEF m
    <2> QED BY <2>1, <2>2, TabMove DEF SessionInv, Earned
  <1> QED BY <1>3, <1>4, <1>5 DEF AdminStep

-----------------------------------------------------------------------------
(* A process that makes its server retires the token it had before.        *)

\* A restart turns tokens of the process into stale ones ...
LEMMA RetiredCookie ==
  ASSUME NEW c \in Cookies, NEW p \in Processes, Earned(c, admitted), admitted' = admitted \ {p}
  PROVE Retired(c, p) \in Cookies /\ Earned(Retired(c, p), admitted')
  BY SessionAssumption DEF Retired, Cookies, Earned

\* ... also those under way.
LEMMA RetiredMessage ==
  ASSUME NEW m \in Message, NEW p
  PROVE LET n == [m EXCEPT !.cookie = Retired(m.cookie, p)]
        IN  /\ n.cookie = Retired(m.cookie, p) /\ n.state = m.state
            /\ Retired(m.cookie, p) \in Cookies => n \in Message
  <1>1. CASE m \in Answer
    BY <1>1 DEF Message, Answer
  <1>2. CASE m \in Request
    BY <1>2 DEF Message, Request
  <1> QED BY <1>1, <1>2 DEF Message

\* A token is new, and nobody has it.
LEMMA NewSession ==
  ASSUME SessionInv, NEW p \in Processes, New(p) PROVE SessionInv'
  <1>1. /\ admitted' = admitted \ {p} /\ cookie' = Retired(cookie, p)
        /\ UNCHANGED adminPort
    BY DEF New, Wire, NewSessionToken
  <1>2. cookie' \in Cookies /\ Earned(cookie', admitted')
    BY <1>1, RetiredCookie DEF SessionInv, Earned
  <1>3. ASSUME NEW t \in Tabs
        PROVE /\ tab'[t] \in {Quiet} \cup Message
              /\ tab'[t].state # "idle" => Earned(tab'[t].cookie, admitted')
    <2> DEFINE n == [tab[t] EXCEPT !.cookie = Retired(@, p)]
    <2>1. tab'[t] = IF tab[t] = Quiet THEN Quiet ELSE n
      BY DEF New, NewSessionToken
    <2>2. CASE tab[t] = Quiet
      BY <2>1, <2>2, QuietOrMessage
    <2>3. CASE tab[t] # Quiet
      <3>1. tab[t] \in Message /\ Earned(tab[t].cookie, admitted) /\ tab[t].cookie \in Cookies
        BY <2>3, QuietOrMessage DEF SessionInv
      <3>2. /\ n.cookie = Retired(tab[t].cookie, p) /\ n \in Message
            /\ Earned(Retired(tab[t].cookie, p), admitted')
        BY <1>1, <3>1, RetiredCookie, RetiredMessage
      <3> HIDE DEF n
      <3> QED BY <2>1, <2>3, <3>2 DEF Earned
    <2> QED BY <2>2, <2>3
  <1>4. tab' \in [Tabs -> {Quiet} \cup Message]
    <2>1. tab' = [t \in Tabs |-> tab'[t]]
      BY DEF New, NewSessionToken
    <2> QED BY <1>3, <2>1
  <1>5. adminPort' \in Processes \cup {NoProcess}
    BY <1>1 DEF SessionInv
  <1> QED BY <1>2, <1>3, <1>4, <1>5 DEF SessionInv

\* The other steps of a process at most give a port away or take one.
LEMMA ProcessSession ==
  ASSUME SessionInv, NEW p \in Processes,
         \/ Start(p) \/ Migrating(p) \/ ListenProxy(p) \/ ListenAdmin(p) \/ Stop(p) \/ Edit,
         UNCHANGED sessionVars
  PROVE SessionInv'
  <1>1. Exits(p) => adminPort' \in {adminPort, NoProcess}
    BY DEF Exits
  <1>2. adminPort' \in {adminPort, NoProcess, p}
    BY <1>1 DEF Start, Migrating, CreateTable, LookForColumn, AddColumn, FillEndpoints,
                NextColumn, ListenProxy, ListenAdmin, Stop, Edit, processVars
  <1> QED BY <1>2 DEF SessionInv, Earned, sessionVars

\* Every step keeps SessionInv.
LEMMA NextSession == SessionInv /\ [Next]_vars => SessionInv'
  <1> SUFFICES ASSUME SessionInv, [Next]_vars PROVE SessionInv'
    OBVIOUS
  <1>1. CASE UNCHANGED vars
    BY <1>1 DEF vars, sessionVars, startupVars, processVars, SessionInv, Earned
  <1>2. ASSUME NEW p \in Processes,
               MainStep(p) \/ AdminListener(p) \/ (Stop(p) /\ UNCHANGED sessionVars)
        PROVE SessionInv'
    BY <1>2, NewSession, ProcessSession DEF MainStep, AdminListener
  <1>3. CASE Edit /\ UNCHANGED sessionVars
    BY <1>3 DEF Edit, processVars, sessionVars, SessionInv, Earned
  <1> QED BY <1>1, <1>2, <1>3, BrowserSession, AdminStepSession DEF Next

\* The administrator's data change only through a process that was given its
\* credentials since it started, whatever the tabs of a browser, its logouts
\* and the restarts of the processes do in between.
THEOREM LoginNeeded == Spec => ChangesNeedLogin
  <1>1. SessionInv /\ [Next]_vars => [stored' # stored => adminPort \in admitted]_vars
    <2> SUFFICES ASSUME SessionInv, Next, stored' # stored PROVE adminPort \in admitted
      BY DEF vars, startupVars, databaseVars
    <2>1. PICK t \in Tabs : \E w \in WalletIds : HandleCreateWallet(t, w) /\ Authenticated(t)
      BY DEF Next, MainStep, New, Wire, Start, Migrating, CreateTable, LookForColumn,
             AddColumn, FillEndpoints, ListenProxy, AdminListener, ListenAdmin, Stop,
             BrowserStep, Send, Receive, Lose, AdminStep, HandlePage, HandleLogin,
             HandleLogout, HandleCreateWallet, Edit, startupVars, databaseVars
    <2>2. adminPort \in Processes /\ tab[t].state = "sent" /\ tab[t].cookie = adminPort
      BY <2>1 DEF HandleCreateWallet, Sent, Authenticated, SessionInv
    <2> QED BY <2>2 DEF SessionInv, Earned
  <1> QED BY <1>1, InitSession, NextSession, PTL DEF Spec, ChangesNeedLogin
-----------------------------------------------------------------------------
(* Types and settings.                                                     *)

\* A process moves to a record r: if it starts, with the settings in force.
Moves(p, r) ==
  /\ proc' = [proc EXCEPT ![p] = r]
  /\ proc[p].pc = "down" /\ r.pc # "down" => r.settings = [key \in Keys |-> InForce(key)]

\* A process that is down is a process.
LEMMA OffTyped == Off \in Process /\ Off.pc = "down"
  BY Sequences, StartupAssumption DEF Off, Process, Steps

\* One lemma per step of a process: it stays one.
LEMMA GotoMoves ==
  ASSUME SessionTypeOK, NEW p \in Processes, NEW pc \in Steps, NEW at \in 1..Len(Tables),
         proc[p].pc # "down", Goto(p, pc, at)
  PROVE \E r \in Process : Moves(p, r)
  <1> DEFINE r == Moved(proc[p], pc, at)
  <1>1. proc' = [proc EXCEPT ![p] = r]
    BY Zenon DEF Goto, Moved
  <1>2. proc[p] \in Process
    BY DEF SessionTypeOK
  <1>3. r \in Process
    BY <1>2 DEF Moved, Process
  <1> HIDE DEF r
  <1> QED BY <1>1, <1>3 DEF Moves

\* A process that exits is down.
LEMMA ExitsMoves ==
  ASSUME NEW p \in Processes, Exits(p) PROVE \E r \in Process : Moves(p, r)
  BY OffTyped DEF Exits, Moves

\* Each step of a process moves it to a record of the right type.
LEMMA StartMoves ==
  ASSUME SessionTypeOK, NEW p \in Processes, Start(p) PROVE \E r \in Process : Moves(p, r)
  <1> DEFINE set == [key \in Keys |-> Get(Load(environment, dotenv), key)]
             n   == [Off EXCEPT !.pc = "create", !.settings = set]
  <1>1. environment \in [Keys -> Values] /\ dotenv \in Seq(Line)
    BY StartupAssumption DEF SessionTypeOK
  <1>2. set = [key \in Keys |-> InForce(key)] /\ set \in [Keys -> Values]
    BY <1>1, GetIsInForce
  <1>3. proc' = [proc EXCEPT ![p] = n]
    BY DEF Start
  <1> HIDE DEF set
  <1>4. n \in Process /\ n.settings = set
    BY <1>2, OffTyped DEF Process, Steps
  <1> HIDE DEF n
  <1> QED BY <1>2, <1>3, <1>4 DEF Moves

\* The steps of a migration.
LEMMA MigratingMoves ==
  ASSUME SessionTypeOK, StartupInv, NEW p \in Processes, Migrating(p)
  PROVE \E r \in Process : Moves(p, r)
  <1>1. proc[p] \in Process /\ Migrated(proc[p], tables, columns, blank)
    BY DEF SessionTypeOK, StartupInv
  <1>2. CASE CreateTable(p)
    <2>1. proc[p].pc = "create" /\ proc[p].at \in 1..Len(Tables)
      BY <1>1, <1>2 DEF CreateTable, Migrated
    <2>2. \/ Goto(p, "look", 1)
          \/ proc[p].at # Len(Tables) /\ Goto(p, "create", proc[p].at + 1)
      BY <1>2 DEF CreateTable
    <2>3. proc[p].at # Len(Tables) => proc[p].at + 1 \in 1..Len(Tables)
      BY <2>1, Sequences
    <2> QED BY <2>1, <2>2, <2>3, GotoMoves, Sequences DEF Steps
  <1>3. ASSUME proc[p].pc \in {"look", "add"}, NextColumn(p)
        PROVE \E r \in Process : Moves(p, r)
    <2>1. proc[p].at \in 1..Len(Columns)
      BY <1>1, <1>3 DEF Migrated
    <2>2. \/ Goto(p, "fill", 1)
          \/ proc[p].at # Len(Columns) /\ Goto(p, "look", proc[p].at + 1)
      BY <1>3 DEF NextColumn
    <2>3. proc[p].at # Len(Columns) => proc[p].at + 1 \in 1..Len(Tables)
      BY <2>1, Sequences
    <2> QED BY <1>3, <2>2, <2>3, GotoMoves, Sequences DEF Steps
  <1>4. CASE LookForColumn(p)
    <2>1. proc[p].pc = "look" /\ proc[p].at \in 1..Len(Tables)
      BY <1>1, <1>4, Sequences DEF LookForColumn, Migrated
    <2>2. NextColumn(p) \/ Goto(p, "add", proc[p].at)
      BY <1>4 DEF LookForColumn
    <2> QED BY <1>3, <2>1, <2>2, GotoMoves DEF Steps
  <1>5. CASE AddColumn(p)
    BY <1>3, <1>5, ExitsMoves DEF AddColumn
  <1>6. CASE FillEndpoints(p)
    BY <1>6, GotoMoves, Sequences DEF FillEndpoints, Steps
  <1> QED BY <1>2, <1>4, <1>5, <1>6 DEF Migrating

\* The session token and the handlers are made.
LEMMA WireMoves ==
  ASSUME SessionTypeOK, NEW p \in Processes, Wire(p) PROVE \E r \in Process : Moves(p, r)
  <1> DEFINE n == [proc[p] EXCEPT !.pc = "listen", !.admin = "starting"]
  <1>1. proc' = [proc EXCEPT ![p] = n] /\ proc[p].pc = "wire" /\ proc[p] \in Process
    BY DEF Wire, SessionTypeOK
  <1>2. n \in Process
    BY <1>1 DEF Process, Steps
  <1> HIDE DEF n
  <1> QED BY <1>1, <1>2 DEF Moves

\* The admin UI listens or not.
LEMMA ListenAdminMoves ==
  ASSUME SessionTypeOK, StartupInv, NEW p \in Processes, ListenAdmin(p)
  PROVE \E r \in Process : Moves(p, r)
  <1> DEFINE took == IF adminPort = NoProcess THEN "up" ELSE "failed"
             n    == [proc[p] EXCEPT !.admin = took]
  <1>1. proc' = [proc EXCEPT ![p] = n] /\ proc[p].admin = "starting" /\ proc[p] \in Process
    BY DEF ListenAdmin, SessionTypeOK
  <1>2. proc[p].pc # "down"
    BY <1>1 DEF StartupInv, Migrated
  <1>3. n \in Process
    BY <1>1 DEF Process
  <1> HIDE DEF n
  <1> QED BY <1>1, <1>2, <1>3 DEF Moves

\* The proxy listens, or the process exits.
LEMMA ListenProxyMoves ==
  ASSUME SessionTypeOK, NEW p \in Processes, ListenProxy(p) PROVE \E r \in Process : Moves(p, r)
  BY ExitsMoves, GotoMoves, Sequences DEF ListenProxy, Steps

\* A step moves no process or one.
LEMMA NextMoves ==
  ASSUME SessionTypeOK, StartupInv, Next
  PROVE UNCHANGED proc \/ \E p \in Processes : \E r \in Process : Moves(p, r)
  <1>1. ASSUME NEW p \in Processes, MainStep(p) \/ AdminListener(p) \/ Stop(p)
        PROVE \E r \in Process : Moves(p, r)
    BY <1>1, StartMoves, MigratingMoves, WireMoves, ListenAdminMoves, ListenProxyMoves,
       ExitsMoves DEF MainStep, New, AdminListener, Stop
  <1>2. ASSUME NEW t \in Tabs, BrowserStep(t) \/ AdminStep(t) PROVE UNCHANGED proc
    BY <1>2 DEF BrowserStep, Send, Receive, Lose, AdminStep, HandlePage, HandleLogin,
                HandleLogout, HandleCreateWallet, CreateWallet, startupVars, processVars
  <1>3. Edit => UNCHANGED proc
    BY DEF Edit, processVars
  <1> QED BY <1>1, <1>2, <1>3 DEF Next

\* The variables that neither invariant nor the records of processes type.
OthersTyped ==
  /\ environment \in Environments /\ dotenv \in Files
  /\ stored \subseteq WalletIds /\ blank \subseteq stored
  /\ proxyPort \in Processes \cup {NoProcess}
  /\ stops \in 0..MaxStops
  /\ admitted \subseteq Processes

\* At first all is typed.
LEMMA InitTyped == Init => SessionTypeOK
  <1> SUFFICES ASSUME Init PROVE SessionTypeOK
    OBVIOUS
  <1>1. proc = [p \in Processes |-> Off] /\ tab = [t \in Tabs |-> Quiet]
    BY DEF Init, StartupInit
  <1>2. proc \in [Processes -> Process]
    BY <1>1, OffTyped
  <1>3. OthersTyped
    BY StartupAssumption DEF Init, StartupInit, OthersTyped
  <1>4. StartupInv /\ SessionInv
    BY InitStartup, InitSession
  <1>5. proxyPort = NoProcess /\ adminPort = NoProcess
    BY DEF Init, StartupInit
  <1> QED BY <1>2, <1>3, <1>4, <1>5
      DEF OthersTyped, StartupInv, SessionInv, Message, SessionTypeOK, AllTables, AllColumns

\* What is not about a process keeps its type.
LEMMA NextOthersTyped ==
  ASSUME SessionTypeOK, SessionInv, Next PROVE OthersTyped'
  <1> USE StartupAssumption DEF SessionTypeOK, OthersTyped
  <1>1. ASSUME NEW p \in Processes, MainStep(p) PROVE OthersTyped'
    <2>1. CASE New(p)
      BY <2>1 DEF New, Wire, NewSessionToken, settingVars, databaseVars
    <2>2. CASE Start(p) /\ UNCHANGED sessionVars
      BY <2>2 DEF Start, settingVars, databaseVars, sessionVars
    <2>3. CASE Migrating(p) /\ UNCHANGED sessionVars
      BY <2>3 DEF Migrating, CreateTable, LookForColumn, AddColumn, FillEndpoints,
                  NextColumn, Exits, settingVars, databaseVars, sessionVars
    <2>4. CASE ListenProxy(p) /\ UNCHANGED sessionVars
      BY <2>4 DEF ListenProxy, Exits, settingVars, databaseVars, sessionVars
    <2> QED BY <1>1, <2>1, <2>2, <2>3, <2>4 DEF MainStep
  <1>2. ASSUME NEW p \in Processes, AdminListener(p) PROVE OthersTyped'
    BY <1>2 DEF AdminListener, ListenAdmin, settingVars, databaseVars, sessionVars
  <1>3. ASSUME NEW p \in Processes, Stop(p), UNCHANGED sessionVars PROVE OthersTyped'
    BY <1>3 DEF Stop, Exits, settingVars, databaseVars, sessionVars
  <1>4. ASSUME NEW t \in Tabs, BrowserStep(t) PROVE OthersTyped'
    BY <1>4 DEF BrowserStep, Send, Receive, Lose, startupVars, settingVars, databaseVars,
                processVars
  <1>5. ASSUME NEW t \in Tabs, HandlePage(t) \/ HandleLogout(t) PROVE OthersTyped'
    BY <1>5 DEF HandlePage, HandleLogout, startupVars, settingVars, databaseVars, processVars
  <1>6. ASSUME NEW t \in Tabs, HandleLogin(t) PROVE OthersTyped'
    <2>1. adminPort \in Processes
      BY <1>6 DEF HandleLogin, Sent
    <2> QED BY <1>6, <2>1 DEF HandleLogin, startupVars, settingVars, databaseVars, processVars
  <1>7. ASSUME NEW t \in Tabs, NEW w \in WalletIds, HandleCreateWallet(t, w)
        PROVE OthersTyped'
    BY <1>7 DEF HandleCreateWallet, CreateWallet, startupVars, settingVars, databaseVars,
                processVars
  <1>8. ASSUME Edit, UNCHANGED sessionVars PROVE OthersTyped'
    BY <1>8 DEF Edit, databaseVars, processVars, sessionVars
  <1> QED BY <1>1, <1>2, <1>3, <1>4, <1>5, <1>6, <1>7, <1>8 DEF Next, AdminStep

TypedInv == SessionTypeOK /\ StartupInv /\ SessionInv

\* Every step keeps the types.
LEMMA NextTyped == TypedInv /\ [Next]_vars => TypedInv'
  <1> SUFFICES ASSUME TypedInv, [Next]_vars PROVE TypedInv'
    OBVIOUS
  <1>1. StartupInv' /\ SessionInv'
    BY NextStartup, NextSession DEF TypedInv
  <1>2. CASE UNCHANGED vars
    BY <1>1, <1>2 DEF TypedInv, SessionTypeOK, vars, sessionVars, startupVars, settingVars,
                      databaseVars, processVars
  <1>3. CASE Next
    <2>1. proc' \in [Processes -> Process]
      BY <1>3, NextMoves DEF TypedInv, SessionTypeOK, Moves
    <2>2. OthersTyped'
      BY <1>3, NextOthersTyped DEF TypedInv
    <2> QED BY <1>1, <2>1, <2>2 DEF TypedInv, OthersTyped, StartupInv, SessionInv, Message,
                                    SessionTypeOK, AllTables, AllColumns
  <1> QED BY <1>2, <1>3

\* Every variable has its type, in particular the settings that Load and Get
\* put together and the cookies that restarts replace.
THEOREM SessionTypes == Spec => []SessionTypeOK
  <1>1. Init => TypedInv
    BY InitTyped, InitStartup, InitSession DEF TypedInv
  <1>2. TypedInv => SessionTypeOK
    BY DEF TypedInv
  <1> QED BY <1>1, <1>2, NextTyped, PTL DEF Spec

\* A process works with the environment, else the first line of .env that says
\* anything, else the default (env.Load, env.Get), whatever the lines are.
THEOREM SettingsAtStart == Spec => SettingsInForce
  <1> DEFINE InForceNow ==
        \A p \in Processes : proc[p].pc = "down" /\ proc'[p].pc # "down" =>
          proc'[p].settings = [key \in Keys |-> InForce(key)]
  <1>1. TypedInv /\ [Next]_vars => [InForceNow]_vars
    <2> SUFFICES ASSUME TypedInv, Next PROVE InForceNow
      OBVIOUS
    <2>1. UNCHANGED proc \/ \E p \in Processes : \E r \in Process : Moves(p, r)
      BY NextMoves DEF TypedInv
    <2>2. proc \in [Processes -> Process]
      BY DEF TypedInv, SessionTypeOK
    <2> QED BY <2>1, <2>2 DEF Moves
  <1>2. Init => TypedInv
    BY InitTyped, InitStartup, InitSession DEF TypedInv
  <1> QED BY <1>1, <1>2, NextTyped, PTL DEF Spec, SettingsInForce
=============================================================================
