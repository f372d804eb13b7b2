---------------------------- MODULE BudgetProofs ----------------------------
(***************************************************************************)
(* Budgets: PaymentBacked, OvershootBounded and OverspendWrittenOff of     *)
(* PayProxy, and WithdrawnAtOnce of Standing, for any number of            *)
(* connections.                                                            *)
(*                                                                         *)
(* Handlers read the rows, compare, sign, and write a row, and others do   *)
(* the same in between.  That the overshoot is at most one payment for     *)
(* each other connection is not inductive: it does not say why the rows    *)
(* that a handler has not seen are few.  They are few because whoever      *)
(* writes one was ahead of it when it read, and once done reads again and  *)
(* queues behind it.  The ledger of a user and a wallet is this queue,     *)
(* with whom each reader K[c] has ahead of it and, for the cap that was    *)
(* last compared with, those P who may still add to what was compared.     *)
(***************************************************************************)
EXTENDS PayProxyProofs, Standing

\* What the connections in S may still add, and what all but one may.
Due(S) == Cardinality(S) * MaxAmount
Room   == (Cardinality(Conns) - 1) * MaxAmount

\* More connections may add more.
LEMMA DueGrows ==
  ASSUME NEW S \in SUBSET Conns, NEW T \in SUBSET S
  PROVE Due(T) \in Nat /\ Due(S) \in Nat /\ Due(T) <= Due(S)
  <1>1. /\ Cardinality(S) \in Nat /\ Cardinality(T) \in Nat
        /\ Cardinality(T) <= Cardinality(S)
    <2>1. IsFiniteSet(S) /\ IsFiniteSet(T)
      BY PayProxyAssumption, FS_Subset
    <2> QED BY <2>1, FS_CardinalityType, FS_Subset
  <1>2. \A i, j, m \in Nat : i <= j => i * m \in Nat /\ j * m \in Nat /\ i * m <= j * m
    OBVIOUS
  <1> QED BY <1>1, <1>2, PayProxyAssumption DEF Due

\* One connection less may add one largest amount less.
LEMMA DueLess ==
  ASSUME NEW S \in SUBSET Conns, NEW c \in S
  PROVE Due(S \ {c}) \in Nat /\ Due(S) \in Nat /\ Due(S \ {c}) + MaxAmount = Due(S)
  <1>1. /\ Cardinality(S) \in Nat /\ Cardinality(S \ {c}) \in Nat
        /\ Cardinality(S \ {c}) = Cardinality(S) - 1
    <2>1. IsFiniteSet(S) /\ IsFiniteSet(S \ {c})
      BY PayProxyAssumption, FS_Subset
    <2> QED BY <2>1, FS_CardinalityType, FS_RemoveElement
  <1>2. \A i, j, m \in Nat : i = j - 1 => i * m + m = j * m
    OBVIOUS
  <1>3. Due(S \ {c}) + MaxAmount = Due(S)
    BY <1>1, <1>2, PayProxyAssumption DEF Due
  <1> QED BY <1>3, DueGrows

\* All but one connection have no more than Room to fill.
LEMMA DueOthers ==
  ASSUME NEW c \in Conns, NEW S \in SUBSET (Conns \ {c})
  PROVE Due(S) \in Nat /\ Room \in Nat /\ Due(S) <= Room
  <1> DEFINE others == Conns \ {c}
  <1>1. Due(others) = Room
    <2>1. Cardinality(others) = Cardinality(Conns) - 1
      BY PayProxyAssumption, FS_RemoveElement
    <2> QED BY <2>1 DEF Due, Room
  <1> HIDE DEF others
  <1>2. Due(S) \in Nat /\ Due(others) \in Nat /\ Due(S) <= Due(others)
    BY DueGrows DEF others
  <1> QED BY <1>1, <1>2

\* Nobody adds nothing.
LEMMA DueNone == Due({}) = 0
  BY FS_EmptySet, PayProxyAssumption DEF Due

-----------------------------------------------------------------------------
\* In the queue K, the connection c comes before d, and so does all before c.
Before(c, d, K) == c \in K[d] /\ K[c] \subseteq K[d]

\* The queue.  P are those ahead of the latest cleared connection; a connection
\* that is checking and not in P has K[c] ahead of it, with whom it leaves Room
\* for every row that it has not seen.
Queued(rows, cleared, checking, seen, K, P) ==
  /\ P \subseteq cleared \cup checking
  /\ \A c \in checking \ P :
       /\ K[c] \subseteq (cleared \cup checking) \ {c}
       /\ P \cup cleared \subseteq K[c]
       /\ Total(rows \ seen[c]) + Due(K[c]) <= Room
  /\ \A c, d \in checking \ P : c = d \/ Before(c, d, K) \/ Before(d, c, K)

\* What one cap covers: the rows, the latest cleared connection, and P.
Covered(rows, cleared, price, P, limit) ==
  /\ Total(rows) + Due(P) <= limit + Room
  /\ \A c \in cleared \ P : Total(rows) + price[c] + Due(P) <= limit + Room
  /\ \A c, d \in cleared \ P : c = d

\* Nothing was ever allowed.
Untouched(rows, cleared, P) == Total(rows) = 0 /\ cleared = {} /\ P = {}

\* Nothing was allowed, or some cap covers it.
Bounded(rows, cleared, price, limits, P) ==
  Untouched(rows, cleared, P) \/ \E limit \in limits : Covered(rows, cleared, price, P, limit)

\* There is such a queue.
Ledger(rows, cleared, checking, price, seen, limits) ==
  \E K \in [Conns -> SUBSET Conns], P \in SUBSET Conns :
    /\ Queued(rows, cleared, checking, seen, K, P)
    /\ Bounded(rows, cleared, price, limits, P)

\* The types of what a ledger is about.
Sound(rows, cleared, checking, price, limits) ==
  /\ IsFiniteSet(rows) /\ \A t \in rows : t.amount \in Nat
  /\ cleared \subseteq Conns /\ checking \subseteq Conns /\ cleared \cap checking = {}
  /\ \A c \in cleared \cup checking : price[c] \in 0..MaxAmount
  /\ limits \subseteq Int

\* What the invariant is for: what is consumed is within a cap and Room.
LEMMA LedgerBounds ==
  ASSUME NEW rows, NEW cleared, NEW checking, NEW price, NEW seen, NEW limits,
         Sound(rows, cleared, checking, price, limits),
         Ledger(rows, cleared, checking, price, seen, limits)
  PROVE Total(rows) = 0 \/ \E limit \in limits : Total(rows) <= limit + Room
  <1>1. PICK P \in SUBSET Conns : Bounded(rows, cleared, price, limits, P)
    BY DEF Ledger
  <1>2. Due(P) \in Nat
    BY DueGrows
  <1>3. Total(rows) \in Nat
    BY TotalNat DEF Sound
  <1>4. ASSUME NEW limit \in limits, Covered(rows, cleared, price, P, limit)
        PROVE Total(rows) <= limit + Room
    <2>1. limit \in Int /\ Room \in Int
      BY FS_CardinalityType, PayProxyAssumption DEF Sound, Room
    <2> QED BY <1>2, <1>3, <1>4, <2>1 DEF Covered
  <1> QED BY <1>1, <1>4 DEF Bounded, Untouched

\* Room is a number, also where there is no connection.
LEMMA RoomType == Room \in Int
  <1>1. Cardinality(Conns) - 1 \in Int
    BY FS_CardinalityType, PayProxyAssumption
  <1>2. \A i \in Int, m \in Nat : i * m \in Int
    OBVIOUS
  <1> QED BY <1>1, <1>2, PayProxyAssumption DEF Room

\* Rows and connections drop out: what is left still fits.
LEMMA LedgerShrinks ==
  ASSUME NEW rows, NEW cleared, NEW checking, NEW price, NEW seen, NEW limits,
         Sound(rows, cleared, checking, price, limits),
         Ledger(rows, cleared, checking, price, seen, limits),
         NEW rows2, NEW cleared2, NEW checking2, NEW price2, NEW seen2, NEW limits2,
         rows2 \subseteq rows, cleared2 \subseteq cleared, checking2 \subseteq checking,
         \A c \in cleared2 : price2[c] = price[c],
         \A c \in checking2 : seen2[c] = seen[c],
         limits \subseteq limits2
  PROVE Ledger(rows2, cleared2, checking2, price2, seen2, limits2)
  <1> DEFINE act2 == cleared2 \cup checking2
  <1>1. PICK K \in [Conns -> SUBSET Conns], P \in SUBSET Conns :
               /\ Queued(rows, cleared, checking, seen, K, P)
               /\ Bounded(rows, cleared, price, limits, P)
    BY DEF Ledger
  <1> DEFINE L == [c \in Conns |-> K[c] \cap act2]
             Q == P \cap act2
  <1>2. L \in [Conns -> SUBSET Conns] /\ Q \in SUBSET Conns
    OBVIOUS
  <1>3. /\ Total(rows) \in Nat /\ Total(rows2) \in Nat /\ Total(rows2) <= Total(rows)
        /\ Room \in Int
    BY TotalGrows, RoomType DEF Sound
  <1>4. Due(P) \in Nat /\ Due(Q) \in Nat /\ Due(Q) <= Due(P)
    BY DueGrows
  <1>5. Queued(rows2, cleared2, checking2, seen2, L, Q)
    <2>1. Q \subseteq act2
      OBVIOUS
    <2>2. ASSUME NEW c \in checking2 \ Q
          PROVE /\ L[c] \subseteq act2 \ {c} /\ Q \cup cleared2 \subseteq L[c]
                /\ Total(rows2 \ seen2[c]) + Due(L[c]) <= Room
      <3>1. c \in checking \ P /\ c \in Conns /\ seen2[c] = seen[c]
        BY <2>2 DEF Sound
      <3>2. /\ K[c] \subseteq (cleared \cup checking) \ {c}
            /\ P \cup cleared \subseteq K[c]
            /\ Total(rows \ seen[c]) + Due(K[c]) <= Room
        BY <1>1, <3>1 DEF Queued
      <3>3. L[c] = K[c] \cap act2
        BY <3>1
      <3>4. Due(K[c]) \in Nat /\ Due(L[c]) \in Nat /\ Due(L[c]) <= Due(K[c])
        BY <3>1, <3>3, DueGrows
      <3>5. /\ Total(rows \ seen[c]) \in Nat /\ Total(rows2 \ seen2[c]) \in Nat
            /\ Total(rows2 \ seen2[c]) <= Total(rows \ seen[c])
        <4>1. /\ IsFiniteSet(rows \ seen[c]) /\ \A t \in rows \ seen[c] : t.amount \in Nat
              /\ rows2 \ seen2[c] \in SUBSET (rows \ seen[c])
          BY <3>1, FS_Subset DEF Sound
        <4> QED BY <4>1, TotalGrows
      <3>6. Total(rows2 \ seen2[c]) + Due(L[c]) <= Room
        BY <1>3, <3>2, <3>4, <3>5
      <3> QED BY <3>2, <3>3, <3>6
    <2>3. ASSUME NEW c \in checking2 \ Q, NEW d \in checking2 \ Q
          PROVE c = d \/ Before(c, d, L) \/ Before(d, c, L)
      <3>1. c \in checking \ P /\ d \in checking \ P /\ c \in Conns /\ d \in Conns
        BY <2>3 DEF Sound
      <3>2. c = d \/ Before(c, d, K) \/ Before(d, c, K)
        BY <1>1, <3>1 DEF Queued
      <3> QED BY <2>3, <3>1, <3>2 DEF Before
    <2> HIDE DEF L, Q
    <2> QED BY <2>1, <2>2, <2>3 DEF Queued
  <1>6. Bounded(rows2, cleared2, price2, limits2, Q)
    <2>1. CASE Untouched(rows, cleared, P)
      <3>1. Total(rows2) = 0 /\ cleared2 = {} /\ Q = {}
        BY <1>3, <2>1 DEF Untouched
      <3> HIDE DEF Q
      <3> QED BY <3>1 DEF Bounded, Untouched
    <2>2. ASSUME NEW limit \in limits, Covered(rows, cleared, price, P, limit)
          PROVE Covered(rows2, cleared2, price2, Q, limit)
      <3>1. limit \in Int
        BY DEF Sound
      <3>2. Total(rows2) + Due(Q) <= limit + Room
        BY <1>3, <1>4, <2>2, <3>1 DEF Covered
      <3>3. ASSUME NEW c \in cleared2 \ Q
            PROVE c \in cleared \ P /\ Total(rows2) + price2[c] + Due(Q) <= limit + Room
        <4>1. c \in cleared \ P /\ price2[c] = price[c] /\ price[c] \in Int
          BY <3>3, PayProxyAssumption DEF Sound
        <4> QED BY <1>3, <1>4, <2>2, <3>1, <4>1 DEF Covered
      <3> HIDE DEF Q
      <3> QED BY <2>2, <3>2, <3>3 DEF Covered
    <2> HIDE DEF Q
    <2> QED BY <1>1, <2>1, <2>2 DEF Bounded, Untouched
  <1> HIDE DEF L, Q
  <1> QED BY <1>2, <1>5, <1>6 DEF Ledger

\* A connection that has just read the rows queues behind all the others.
LEMMA LedgerReads ==
  ASSUME NEW rows, NEW cleared, NEW checking, NEW price, NEW seen, NEW limits,
         Sound(rows, cleared, checking, price, limits),
         Ledger(rows, cleared, checking, price, seen, limits),
         NEW c \in Conns, c \notin cleared \cup checking,
         NEW price2, NEW seen2, rows \subseteq seen2[c],
         \A d \in cleared : price2[d] = price[d],
         \A d \in checking : seen2[d] = seen[d]
  PROVE Ledger(rows, cleared, checking \cup {c}, price2, seen2, limits)
  <1> DEFINE act == cleared \cup checking
             more == checking \cup {c}
  <1>1. PICK K \in [Conns -> SUBSET Conns], P \in SUBSET Conns :
               /\ Queued(rows, cleared, checking, seen, K, P)
               /\ Bounded(rows, cleared, price, limits, P)
    BY DEF Ledger
  <1> DEFINE L == [K EXCEPT ![c] = act]
  <1>2. /\ L \in [Conns -> SUBSET Conns] /\ L[c] = act
        /\ \A d \in Conns : d # c => L[d] = K[d]
    BY DEF Sound
  <1> HIDE DEF L
  <1>3. P \subseteq act /\ act \subseteq Conns
    BY <1>1 DEF Queued, Sound
  <1>4. Total(rows \ seen2[c]) + Due(L[c]) <= Room
    <2>1. Total(rows \ seen2[c]) = 0
      <3>1. rows \ seen2[c] = {}
        OBVIOUS
      <3>2. Total({}) = 0
        BY TotalStep, FS_EmptySet
      <3> QED BY <3>1, <3>2, Zenon
    <2>2. act \in SUBSET (Conns \ {c})
      BY DEF Sound
    <2> HIDE DEF act
    <2>3. Due(act) \in Nat /\ Room \in Nat /\ Due(act) <= Room
      BY <2>2, DueOthers
    <2>4. Due(L[c]) = Due(act)
      BY <1>2, Zenon
    <2> QED BY <2>1, <2>3, <2>4
  <1>5. ASSUME NEW d \in checking \ P
        PROVE /\ d # c /\ d \in Conns /\ K[d] \subseteq act \ {d} /\ P \cup cleared \subseteq K[d]
              /\ L[d] = K[d] /\ seen2[d] = seen[d]
              /\ Total(rows \ seen2[d]) + Due(L[d]) <= Room
    <2>1. d # c /\ d \in Conns /\ seen2[d] = seen[d]
      BY DEF Sound
    <2>2. /\ K[d] \subseteq act \ {d} /\ P \cup cleared \subseteq K[d]
          /\ Total(rows \ seen[d]) + Due(K[d]) <= Room
      BY <1>1, <2>1 DEF Queued
    <2>3. L[d] = K[d]
      BY <1>2, <2>1
    <2>4. Total(rows \ seen2[d]) + Due(L[d]) = Total(rows \ seen[d]) + Due(K[d])
      BY <2>1, <2>3, Zenon
    <2> QED BY <2>1, <2>2, <2>3, <2>4
  <1>6. Queued(rows, cleared, more, seen2, L, P)
    <2>1. P \subseteq cleared \cup more
      BY <1>3
    <2>2. ASSUME NEW d \in more \ P
          PROVE /\ L[d] \subseteq (cleared \cup more) \ {d} /\ P \cup cleared \subseteq L[d]
                /\ Total(rows \ seen2[d]) + Due(L[d]) <= Room
      <3>1. CASE d = c
        BY <1>2, <1>3, <1>4, <3>1 DEF Sound
      <3>2. CASE d # c
        BY <1>5, <3>2, <2>2
      <3> QED BY <3>1, <3>2
    <2>3. ASSUME NEW d \in more \ P, NEW e \in more \ P
          PROVE d = e \/ Before(d, e, L) \/ Before(e, d, L)
      <3>1. CASE d # c /\ e # c
        <4>1. d = e \/ Before(d, e, K) \/ Before(e, d, K)
          BY <1>1, <3>1 DEF Queued
        <4> QED BY <1>5, <3>1, <4>1 DEF Before
      <3>2. CASE d = c /\ e # c
        BY <1>2, <1>5, <3>2 DEF Before
      <3>3. CASE d # c /\ e = c
        BY <1>2, <1>5, <3>3 DEF Before
      <3> QED BY <3>1, <3>2, <3>3
    <2> HIDE DEF more
    <2> QED BY <2>1, <2>2, <2>3 DEF Queued
  <1>7. Bounded(rows, cleared, price2, limits, P)
    BY <1>1 DEF Bounded, Covered
  <1> QED BY <1>2, <1>6, <1>7 DEF Ledger

\* A connection finds that the rows it has read leave room for its payment.
LEMMA LedgerClears ==
  ASSUME NEW rows, NEW cleared, NEW checking, NEW price, NEW seen, NEW limits,
         Sound(rows, cleared, checking, price, limits),
         Ledger(rows, cleared, checking, price, seen, limits),
         NEW c \in checking, NEW limit \in limits,
         Total(rows \cap seen[c]) + price[c] <= limit,
         NEW price2, NEW seen2,
         \A d \in cleared \cup {c} : price2[d] = price[d],
         \A d \in checking \ {c} : seen2[d] = seen[d]
  PROVE Ledger(rows, cleared \cup {c}, checking \ {c}, price2, seen2, limits)
  <1> DEFINE act == cleared \cup checking
             yes == cleared \cup {c}
             less == checking \ {c}
  <1>1. PICK K \in [Conns -> SUBSET Conns], P \in SUBSET Conns :
               /\ Queued(rows, cleared, checking, seen, K, P)
               /\ Bounded(rows, cleared, price, limits, P)
    BY DEF Ledger
  <1>2. c \in Conns /\ c \notin cleared /\ yes \cup less = act
    BY DEF Sound
  <1>3. CASE c \in P
    <2>1. Queued(rows, yes, less, seen2, K, P)
      <3>1. P \subseteq yes \cup less
        BY <1>1, <1>2 DEF Queued
      <3>2. ASSUME NEW d \in less \ P
            PROVE /\ K[d] \subseteq (yes \cup less) \ {d} /\ P \cup yes \subseteq K[d]
                  /\ Total(rows \ seen2[d]) + Due(K[d]) <= Room
        <4>1. /\ K[d] \subseteq act \ {d} /\ P \cup cleared \subseteq K[d]
              /\ Total(rows \ seen[d]) + Due(K[d]) <= Room /\ seen2[d] = seen[d]
          BY <1>1 DEF Queued
        <4> QED BY <1>2, <1>3, <4>1
      <3>3. \A d, e \in less \ P : d = e \/ Before(d, e, K) \/ Before(e, d, K)
        BY <1>1 DEF Queued
      <3> HIDE DEF yes, less
      <3> QED BY <3>1, <3>2, <3>3 DEF Queued
    <2>2. Bounded(rows, yes, price2, limits, P)
      <3>1. ~ Untouched(rows, cleared, P)
        BY <1>3 DEF Untouched
      <3>2. PICK b \in limits : Covered(rows, cleared, price, P, b)
        BY <1>1, <3>1 DEF Bounded
      <3>3. yes \ P = cleared \ P
        BY <1>3
      <3>4. \A d \in cleared \ P : price2[d] = price[d]
        OBVIOUS
      <3> HIDE DEF yes
      <3>5. Covered(rows, yes, price2, P, b)
        BY <3>2, <3>3, <3>4 DEF Covered
      <3> QED BY <3>5 DEF Bounded
    <2> HIDE DEF yes, less
    <2>3. Ledger(rows, yes, less, price2, seen2, limits)
      BY <2>1, <2>2 DEF Ledger
    <2> QED BY <2>3, Zenon DEF yes, less
  <1>4. CASE c \notin P
    <2> DEFINE Q == K[c]
    <2>1. /\ Q \subseteq act \ {c} /\ P \cup cleared \subseteq Q /\ Q \in SUBSET Conns
          /\ Total(rows \ seen[c]) + Due(Q) <= Room
      BY <1>1, <1>2, <1>4 DEF Queued
    <2>2. Queued(rows, yes, less, seen2, K, Q)
      <3>1. Q \subseteq yes \cup less
        BY <1>2, <2>1
      <3>2. ASSUME NEW d \in less \ Q
            PROVE /\ K[d] \subseteq (yes \cup less) \ {d} /\ Q \cup yes \subseteq K[d]
                  /\ Total(rows \ seen2[d]) + Due(K[d]) <= Room
        <4>1. d \in checking \ P /\ d # c /\ seen2[d] = seen[d]
          BY <2>1, <3>2
        <4>2. /\ K[d] \subseteq act \ {d} /\ P \cup cleared \subseteq K[d]
              /\ Total(rows \ seen[d]) + Due(K[d]) <= Room
          BY <1>1, <4>1 DEF Queued
        <4>3. Before(c, d, K)
          <5>1. Before(c, d, K) \/ Before(d, c, K)
            BY <1>1, <1>4, <4>1 DEF Queued
          <5> QED BY <3>2, <5>1 DEF Before
        <4> QED BY <1>2, <4>1, <4>2, <4>3 DEF Before
      <3>3. ASSUME NEW d \in less \ Q, NEW e \in less \ Q
            PROVE d = e \/ Before(d, e, K) \/ Before(e, d, K)
        BY <1>1, <2>1, <3>3 DEF Queued
      <3> HIDE DEF yes, less, Q
      <3> QED BY <3>1, <3>2, <3>3 DEF Queued
    <2>3. Covered(rows, yes, price2, Q, limit)
      <3>1. /\ Total(rows) \in Nat /\ Total(rows \cap seen[c]) \in Int
            /\ Total(rows \ seen[c]) \in Int
            /\ Total(rows) = Total(rows \cap seen[c]) + Total(rows \ seen[c])
        <4>1. \A t \in rows : t.amount \in Int
          BY DEF Sound
        <4>2. /\ rows \cap seen[c] \in SUBSET rows /\ rows \ seen[c] \in SUBSET rows
          OBVIOUS
        <4>3. \A s \in SUBSET rows : Total(s) \in Nat
          BY TotalGrows DEF Sound
        <4>4. Total(rows) = Total(rows \cap seen[c]) + Total(rows \ seen[c])
          BY <4>1, TotalSplit DEF Sound
        <4> QED BY <4>2, <4>3, <4>4
      <3>2. Due(Q) \in Nat
        BY <2>1, DueGrows
      <3>3. price[c] \in Int /\ price[c] >= 0 /\ limit \in Int /\ Room \in Int /\ price2[c] = price[c]
        BY RoomType, PayProxyAssumption DEF Sound
      <3>4. /\ Total(rows) + Due(Q) <= limit + Room
            /\ Total(rows) + price2[c] + Due(Q) <= limit + Room
        BY <2>1, <3>1, <3>2, <3>3
      <3>5. yes \ Q = {c}
        BY <2>1
      <3> HIDE DEF yes, Q
      <3> QED BY <3>4, <3>5 DEF Covered
    <2>4. Bounded(rows, yes, price2, limits, Q)
      BY <2>3 DEF Bounded
    <2> HIDE DEF yes, less, Q
    <2>5. Ledger(rows, yes, less, price2, seen2, limits)
      BY <2>1, <2>2, <2>4 DEF Ledger
    <2> QED BY <2>5, Zenon DEF yes, less
  <1> QED BY <1>3, <1>4

\* A connection whose payment is made writes its row.
LEMMA LedgerRecords ==
  ASSUME NEW rows, NEW cleared, NEW checking, NEW price, NEW seen, NEW limits,
         Sound(rows, cleared, checking, price, limits),
         Ledger(rows, cleared, checking, price, seen, limits),
         NEW c \in cleared, NEW row, row.amount = price[c],
         NEW price2, NEW seen2,
         \A d \in cleared \ {c} : price2[d] = price[d],
         \A d \in checking : seen2[d] = seen[d]
  PROVE Ledger(rows \cup {row}, cleared \ {c}, checking, price2, seen2, limits)
  <1> DEFINE act == cleared \cup checking
             more == rows \cup {row}
             less == cleared \ {c}
  <1>1. PICK K \in [Conns -> SUBSET Conns], P \in SUBSET Conns :
               /\ Queued(rows, cleared, checking, seen, K, P)
               /\ Bounded(rows, cleared, price, limits, P)
    BY DEF Ledger
  <1> DEFINE L == [d \in Conns |-> K[d] \ {c}]
             Q == P \ {c}
  <1>2. /\ L \in [Conns -> SUBSET Conns] /\ Q \in SUBSET Conns
        /\ \A d \in Conns : L[d] = K[d] \ {c}
    OBVIOUS
  <1> HIDE DEF L
  <1>3. c \in Conns /\ c \notin checking
    BY DEF Sound
  <1>4. row.amount \in Nat /\ row.amount <= MaxAmount /\ MaxAmount \in Nat /\ Room \in Int
    BY RoomType, PayProxyAssumption DEF Sound
  <1>5. Total(rows) \in Nat /\ Total(more) \in Nat /\ Total(more) <= Total(rows) + row.amount
    BY <1>4, TotalAdd, TotalNat DEF Sound
  <1>6. Queued(more, less, checking, seen2, L, Q)
    <2>1. Q \subseteq less \cup checking
      BY <1>1, <1>3 DEF Queued
    <2>2. ASSUME NEW d \in checking \ Q
          PROVE /\ L[d] \subseteq (less \cup checking) \ {d} /\ Q \cup less \subseteq L[d]
                /\ Total(more \ seen2[d]) + Due(L[d]) <= Room
      <3>1. d \in checking \ P /\ d \in Conns /\ seen2[d] = seen[d] /\ d # c
        BY <1>3, <2>2 DEF Sound
      <3>2. /\ K[d] \subseteq act \ {d} /\ P \cup cleared \subseteq K[d]
            /\ Total(rows \ seen[d]) + Due(K[d]) <= Room
        BY <1>1, <3>1 DEF Queued
      <3>3. L[d] = K[d] \ {c} /\ c \in K[d] /\ K[d] \in SUBSET Conns
        BY <1>2, <3>1, <3>2
      <3>4. Due(L[d]) \in Nat /\ Due(K[d]) \in Nat /\ Due(L[d]) + MaxAmount = Due(K[d])
        BY <3>3, DueLess
      <3>5. /\ Total(rows \ seen[d]) \in Nat /\ Total(more \ seen2[d]) \in Nat
            /\ Total(more \ seen2[d]) <= Total(rows \ seen[d]) + row.amount
        <4> DEFINE old == rows \ seen[d]
                   now == old \cup {row}
        <4>1. IsFiniteSet(old) /\ \A t \in old : t.amount \in Nat
          BY FS_Subset DEF Sound
        <4>2. more \ seen2[d] \in SUBSET now
          BY <3>1
        <4> HIDE DEF old
        <4>3. Total(old) \in Nat /\ Total(now) \in Nat /\ Total(now) <= Total(old) + row.amount
          BY <1>4, <4>1, TotalAdd, TotalNat
        <4>4. IsFiniteSet(now) /\ \A t \in now : t.amount \in Nat
          BY <1>4, <4>1, FS_AddElement
        <4> HIDE DEF now, more
        <4>5. Total(more \ seen2[d]) \in Nat /\ Total(more \ seen2[d]) <= Total(now)
          BY <4>2, <4>4, TotalGrows
        <4>6. /\ Total(old) \in Nat /\ Total(more \ seen2[d]) \in Nat
              /\ Total(more \ seen2[d]) <= Total(old) + row.amount
          BY <1>4, <4>3, <4>5
        <4> QED BY <4>6 DEF old
      <3>6. Total(more \ seen2[d]) + Due(L[d]) <= Room
        BY <1>4, <3>2, <3>4, <3>5
      <3> QED BY <3>1, <3>2, <3>3, <3>6
    <2>3. ASSUME NEW d \in checking \ Q, NEW e \in checking \ Q
          PROVE d = e \/ Before(d, e, L) \/ Before(e, d, L)
      <3>1. d \in checking \ P /\ e \in checking \ P /\ d # c /\ e # c /\ d \in Conns /\ e \in Conns
        BY <1>3 DEF Sound
      <3>2. d = e \/ Before(d, e, K) \/ Before(e, d, K)
        BY <1>1, <3>1 DEF Queued
      <3> QED BY <1>2, <3>1, <3>2 DEF Before
    <2> HIDE DEF more, less, Q
    <2> QED BY <2>1, <2>2, <2>3 DEF Queued
  <1>7. Bounded(more, less, price2, limits, Q)
    <2>1. ~ Untouched(rows, cleared, P)
      BY DEF Untouched
    <2>2. PICK b \in limits : Covered(rows, cleared, price, P, b)
      BY <1>1, <2>1 DEF Bounded
    <2>3. b \in Int
      BY DEF Sound
    <2>4. CASE c \in P
      <3>1. Due(Q) \in Nat /\ Due(P) \in Nat /\ Due(Q) + MaxAmount = Due(P)
        BY <2>4, DueLess
      <3>2. Total(more) + Due(Q) <= b + Room
        BY <1>4, <1>5, <2>2, <2>3, <3>1 DEF Covered
      <3>3. ASSUME NEW d \in less \ Q
            PROVE d \in cleared \ P /\ Total(more) + price2[d] + Due(Q) <= b + Room
        <4>1. d \in cleared \ P /\ price2[d] = price[d] /\ price[d] \in Int
          BY <2>4, PayProxyAssumption DEF Sound
        <4> QED BY <1>4, <1>5, <2>2, <2>3, <3>1, <4>1 DEF Covered
      <3> HIDE DEF more, less, Q
      <3>4. Covered(more, less, price2, Q, b)
        BY <2>2, <3>2, <3>3 DEF Covered
      <3> QED BY <3>4 DEF Bounded
    <2>5. CASE c \notin P
      <3>1. Q = P /\ less \ Q = {}
        BY <2>2, <2>5 DEF Covered
      <3>2. Due(P) \in Nat
        BY DueGrows
      <3>3. Total(rows) + price[c] + Due(P) <= b + Room
        BY <2>2, <2>5 DEF Covered
      <3>4. Total(more) + Due(P) <= b + Room
        BY <1>4, <1>5, <2>3, <3>2, <3>3
      <3> HIDE DEF more, less, Q
      <3>5. Total(more) + Due(Q) <= b + Room
        BY <3>1, <3>4, Zenon
      <3>6. Covered(more, less, price2, Q, b)
        BY <3>1, <3>5 DEF Covered
      <3> QED BY <3>6 DEF Bounded
    <2> QED BY <2>4, <2>5
  <1> HIDE DEF more, less, Q
  <1>8. Ledger(more, less, checking, price2, seen2, limits)
    BY <1>2, <1>6, <1>7 DEF Ledger
  <1> QED BY <1>8, Zenon DEF more, less

-----------------------------------------------------------------------------
\* The amount of the option under consideration.
Price(r) == Head(r.offer).amount
\* An amount that parsePaymentAmount reads as it is signed.
Exact(r) == Head(r.offer).form = "uint"

\* r has read the rows for u and w, and not compared yet.
IsChecking(r, u, w) == r.user = u /\ r.wallet = w /\ Exact(r) /\ r.pc = "compare"

\* A payment was made, or may have been.
Outcome(r) == r.pc = "retry" \/ (r.pc = "record" /\ r.status = "success")

\* r has passed the comparison for u and w, and its row is not written yet.
IsCleared(r, u, w) ==
  r.user = u /\ r.wallet = w /\ Exact(r) /\ (r.pc = "sign" \/ Outcome(r))

\* Those of u and w, and what they have read.
Checking(u, w)  == {c \in Conns : IsChecking(conn[c], u, w)}
Cleared(u, w)   == {c \in Conns : IsCleared(conn[c], u, w)}
Prices          == [c \in Conns |-> Price(conn[c])]
Seen            == [c \in Conns |-> conn[c].listed]
Consuming(u, w) == Counted(ListTransactionsByUser(u), w)
Caps(u, w)      == {g.budget : g \in {h \in grants : h.user = u /\ h.wallet = w}}

\* The payments of user u through wallet w are within its caps, as far as one
\* can tell before the exchanges under way are over.
Accounted(u, w) ==
  \/ Unlimited \in Caps(u, w)
  \/ Ledger(Consuming(u, w), Cleared(u, w), Checking(u, w), Prices, Seen, Caps(u, w))

AllAccounted == \A u \in UserIds, w \in WalletIds : Accounted(u, w)

\* A grant stands behind what a request is going to sign.
Backing(r) ==
  /\ r.pc \in {"list", "compare"} => r.budget # Unlimited /\ r.budget \in Caps(r.user, r.wallet)
  /\ r.pc = "sign" /\ Exact(r) =>
       \E b \in Caps(r.user, r.wallet) : b = Unlimited \/ Price(r) <= b
  /\ Outcome(r) => Exact(r)
  /\ IsFiniteSet(r.listed) /\ \A t \in r.listed : t.status = "success" => t.amount \in Nat

Funded ==
  /\ IsFiniteSet(transactions)
  /\ \A pair \in DOMAIN userWallet : userWallet[pair] \in Caps(pair[1], pair[2])
  /\ \A c \in Conns : Backing(conn[c])

BudgetInv == ExchangeInv /\ Funded /\ PaymentBacked /\ AllAccounted

\* A success row has the amount of a payment.
LEMMA SuccessfulRows ==
  ASSUME ExchangeInv, NEW t \in transactions, t.status = "success"
  PROVE t.amount \in Nat
  BY DEF ExchangeInv, Matched, TypeInv, TypeOK, Payment

\* A price that is exact is one of the amounts.
LEMMA PriceType ==
  ASSUME TypeInv, NEW c \in Conns,
         conn[c].pc \in {"assign", "list", "compare", "sign", "retry", "record"}
  PROVE Price(conn[c]) \in Int /\ (Exact(conn[c]) => Price(conn[c]) \in 0..MaxAmount)
  <1>1. conn[c].offer \in Seq(Option) /\ conn[c].offer # <<>>
    BY ConnType DEF Connection, Ready
  <1>2. Head(conn[c].offer) \in Option
    BY <1>1
  <1>3. ASSUME NEW o \in Option
        PROVE o.amount \in Int /\ (o.form = "uint" => o.amount \in 0..MaxAmount)
    BY DEF Option
  <1> QED BY <1>2, <1>3 DEF Price, Exact

\* Caps are budgets.
LEMMA CapsType == ASSUME TypeInv, NEW u, NEW w PROVE Caps(u, w) \subseteq Int \cup {Unlimited}
  BY StoreAssumption DEF TypeInv, TypeOK, StoreTypeOK, Caps, Grant, Limits

\* The ledger of a pair is about what it should be.
LEMMA AccountsSound ==
  ASSUME ExchangeInv, Funded, NEW u, NEW w, Unlimited \notin Caps(u, w)
  PROVE Sound(Consuming(u, w), Cleared(u, w), Checking(u, w), Prices, Caps(u, w))
  <1>1. IsFiniteSet(Consuming(u, w))
    <2>1. Consuming(u, w) \in SUBSET transactions
      BY DEF Consuming, Counted, ListTransactionsByUser
    <2> QED BY <2>1, FS_Subset DEF Funded
  <1>2. \A t \in Consuming(u, w) : t.amount \in Nat
    BY SuccessfulRows DEF Consuming, Counted, ListTransactionsByUser
  <1>3. /\ Cleared(u, w) \subseteq Conns /\ Checking(u, w) \subseteq Conns
        /\ Cleared(u, w) \cap Checking(u, w) = {}
    BY DEF Cleared, Checking, IsCleared, IsChecking, Outcome
  <1>4. \A c \in Cleared(u, w) \cup Checking(u, w) : Prices[c] \in 0..MaxAmount
    BY PriceType DEF ExchangeInv, Cleared, Checking, IsCleared, IsChecking, Outcome, Prices
  <1>5. Caps(u, w) \subseteq Int
    BY CapsType DEF ExchangeInv
  <1> QED BY <1>1, <1>2, <1>3, <1>4, <1>5 DEF Sound

\* Grants stay, and so do caps.
LEMMA CapsGrow ==
  ASSUME grants \subseteq grants', NEW u, NEW w
  PROVE Caps(u, w) \subseteq Caps(u, w)'
  BY DEF Caps

\* Nobody begins to check or to pay, and no row is added.
LEMMA AccountShrinks ==
  ASSUME ExchangeInv, Funded, NEW u, NEW w, Accounted(u, w),
         grants \subseteq grants', Consuming(u, w)' \subseteq Consuming(u, w),
         \A d \in Conns : IsChecking(conn'[d], u, w) =>
           IsChecking(conn[d], u, w) /\ conn'[d].listed = conn[d].listed,
         \A d \in Conns : IsCleared(conn'[d], u, w) =>
           IsCleared(conn[d], u, w) /\ Price(conn'[d]) = Price(conn[d])
  PROVE Accounted(u, w)'
  <1>1. Caps(u, w) \subseteq Caps(u, w)'
    BY CapsGrow
  <1>2. CASE Unlimited \in Caps(u, w)
    BY <1>1, <1>2 DEF Accounted
  <1>3. CASE Unlimited \notin Caps(u, w)
    <2>1. Sound(Consuming(u, w), Cleared(u, w), Checking(u, w), Prices, Caps(u, w))
      BY <1>3, AccountsSound
    <2>2. Ledger(Consuming(u, w), Cleared(u, w), Checking(u, w), Prices, Seen, Caps(u, w))
      BY <1>3 DEF Accounted
    <2>3. /\ Cleared(u, w)' \subseteq Cleared(u, w) /\ Checking(u, w)' \subseteq Checking(u, w)
          /\ \A c \in Cleared(u, w)' : Prices'[c] = Prices[c]
          /\ \A c \in Checking(u, w)' : Seen'[c] = Seen[c]
      BY DEF Cleared, Checking, Prices, Seen
    <2>4. Ledger(Consuming(u, w)', Cleared(u, w)', Checking(u, w)', Prices', Seen', Caps(u, w)')
      BY <1>1, <2>1, <2>2, <2>3, LedgerShrinks
    <2> QED BY <2>4 DEF Accounted
  <1> QED BY <1>2, <1>3

-----------------------------------------------------------------------------
(* The steps.                                                              *)

\* What the invariant says of the other connections, when one moves.
LEMMA MovedFunded ==
  ASSUME BudgetInv, NEW c \in Conns, NEW r, Backing(r),
         conn' = [conn EXCEPT ![c] = r],
         UNCHANGED <<transactions, userWallet, grants>>
  PROVE /\ Funded'
        /\ conn'[c] = r /\ \A d \in Conns : d # c => conn'[d] = conn[d]
  <1>1. conn'[c] = r /\ \A d \in Conns : d # c => conn'[d] = conn[d]
    BY DEF BudgetInv, ExchangeInv, TypeInv, TypeOK
  <1>2. ASSUME NEW d \in Conns PROVE Backing(conn[d])'
    <2>1. Backing(conn'[d])
      BY <1>1 DEF BudgetInv, Funded
    <2> QED BY <2>1 DEF Backing, Caps
  <1>3. IsFiniteSet(transactions)'
    BY DEF BudgetInv, Funded
  <1>4. (\A pair \in DOMAIN userWallet : userWallet[pair] \in Caps(pair[1], pair[2]))'
    BY DEF BudgetInv, Funded, Caps
  <1> QED BY <1>1, <1>2, <1>3, <1>4 DEF Funded

\* Where neither rows nor clock change, what is consumed does not.
LEMMA SameRows ==
  ASSUME UNCHANGED <<transactions, clock>>, NEW u, NEW w
  PROVE Consuming(u, w)' = Consuming(u, w)
  BY DEF Consuming, Counted, ListTransactionsByUser, StartOfMonth

\* A connection moves, and is not nearer to a payment than it was.
LEMMA StepsOn ==
  ASSUME BudgetInv, NEW c \in Conns, NEW r, Backing(r),
         \A u \in UserIds, w \in WalletIds :
           /\ ~ IsChecking(r, u, w)
           /\ IsCleared(r, u, w) => IsCleared(conn[c], u, w) /\ r.offer = conn[c].offer,
         conn' = [conn EXCEPT ![c] = r],
         UNCHANGED <<transactions, userWallet, grants, clock>>
  PROVE Funded' /\ AllAccounted'
  <1>1. /\ Funded'
        /\ conn'[c] = r /\ \A d \in Conns : d # c => conn'[d] = conn[d]
    BY MovedFunded
  <1>2. ASSUME NEW u \in UserIds, NEW w \in WalletIds PROVE Accounted(u, w)'
    <2>1. ExchangeInv /\ Funded /\ Accounted(u, w)
      BY DEF BudgetInv, AllAccounted
    <2>2. Consuming(u, w)' \subseteq Consuming(u, w)
      BY SameRows
    <2>3. r.offer = conn[c].offer => Price(r) = Price(conn[c])
      BY DEF Price
    <2> QED BY <1>1, <2>1, <2>2, <2>3, AccountShrinks
  <1> QED BY <1>1, <1>2 DEF AllAccounted

\* A connection that is not, or no more, on its way to a payment.
Aside(r) == r.pc # "compare" /\ r.pc # "sign" /\ ~ Outcome(r)

\* A connection moves to where it neither checks nor pays.
LEMMA StepsAside ==
  ASSUME BudgetInv, NEW c \in Conns, NEW r, Backing(r), Aside(r),
         conn' = [conn EXCEPT ![c] = r],
         UNCHANGED <<transactions, userWallet, grants, clock>>
  PROVE Funded' /\ AllAccounted'
  BY StepsOn DEF Aside, IsChecking, IsCleared

\* A fresh connection does not.
LEMMA FreshAside == ASSUME NEW tunnel PROVE Backing(Fresh(tunnel)) /\ Aside(Fresh(tunnel))
  BY FS_EmptySet DEF Fresh, Backing, Aside, Outcome

\* One lemma per step of a handler, and for those of clients and upstream.
LEMMA AnswerBudget ==
  ASSUME BudgetInv, NEW c \in Conns, Answer(c) PROVE Funded' /\ AllAccounted'
  <1> DEFINE r == Fresh(conn[c].tunnel)
  <1>1. Backing(r) /\ Aside(r)
    BY FreshAside
  <1>2. conn' = [conn EXCEPT ![c] = r]
    BY DEF Answer, Move
  <1>3. UNCHANGED <<transactions, userWallet, grants, clock>>
    BY DEF Answer, Move, storeVars
  <1> HIDE DEF r
  <1> QED BY <1>1, <1>2, <1>3, StepsAside

\* An answer, or the next tunnel request.
LEMMA ConcludeBudget ==
  ASSUME BudgetInv, NEW c \in Conns, Conclude(c, "failed_unknown") \/ Conclude(c, "no_matching_wallet_found")
  PROVE Funded' /\ AllAccounted'
  <1>1. ASSUME NEW status, status # "success", Conclude(c, status)
        PROVE Funded' /\ AllAccounted'
    <2> DEFINE r == [conn[c] EXCEPT !.pc = "record", !.status = status]
    <2>1. r.pc = "record" /\ r.status = status /\ r.listed = conn[c].listed
      BY ConnType DEF BudgetInv, ExchangeInv, Connection
    <2>2. conn' = [conn EXCEPT ![c] = r]
      BY <1>1 DEF Conclude, Move
    <2>3. UNCHANGED <<transactions, userWallet, grants, clock>>
      BY <1>1 DEF Conclude, Move, storeVars
    <2> HIDE DEF r
    <2>4. Backing(r) /\ Aside(r)
      BY <1>1, <2>1 DEF Backing, Aside, Outcome, BudgetInv, Funded
    <2> QED BY <2>2, <2>3, <2>4, StepsAside
  <1> QED BY <1>1

\* Clients only start requests.
LEMMA ClientBudget ==
  ASSUME BudgetInv, NEW c \in Conns, ClientStep(c) PROVE Funded' /\ AllAccounted'
  <1>1. ASSUME NEW r, Backing(r), Aside(r), Move(c, r) PROVE Funded' /\ AllAccounted'
    <2>1. /\ conn' = [conn EXCEPT ![c] = r]
          /\ UNCHANGED <<transactions, userWallet, grants, clock>>
      BY <1>1 DEF Move, storeVars
    <2> QED BY <1>1, <2>1, StepsAside
  <1>2. ASSUME NEW u \in UserIds \cup {NoUser}, NEW body \in {"none", "unread"},
               BeginRequest(c, u, body)
        PROVE Funded' /\ AllAccounted'
    <2> DEFINE r == [conn[c] EXCEPT !.pc = "upstream", !.user = u, !.body = body]
    <2>1. r.pc = "upstream" /\ r.listed = conn[c].listed
      BY ConnType DEF BudgetInv, ExchangeInv, Connection
    <2>2. Move(c, r)
      BY <1>2 DEF BeginRequest
    <2> HIDE DEF r
    <2>3. Backing(r) /\ Aside(r)
      BY <2>1 DEF Backing, Aside, Outcome, BudgetInv, Funded
    <2> QED BY <1>1, <2>2, <2>3
  <1>3. ASSUME NEW tunnel, Move(c, Fresh(tunnel)) PROVE Funded' /\ AllAccounted'
    BY <1>1, <1>3, FreshAside
  <1> QED BY <1>2, <1>3 DEF ClientStep, OpenTunnel, CloseTunnel

\* The upstream decides how a payment ends.
LEMMA UpstreamBudget ==
  ASSUME BudgetInv, NEW c \in Conns, UpstreamStep(c) PROVE Funded' /\ AllAccounted'
  <1>1. CASE PassThrough(c)
    BY <1>1, AnswerBudget DEF PassThrough
  <1>2. ASSUME NEW offer \in Offers, Challenged(c, offer) PROVE Funded' /\ AllAccounted'
    <2> DEFINE r == [conn[c] EXCEPT !.pc = "select", !.offer = offer, !.id = exchanges + 1,
                                    !.body = Spent(@)]
    <2>1. r.pc = "select" /\ r.listed = conn[c].listed
      BY ConnType DEF BudgetInv, ExchangeInv, Connection
    <2>2. conn' = [conn EXCEPT ![c] = r]
      BY <1>2 DEF Challenged
    <2>3. UNCHANGED <<transactions, userWallet, grants, clock>>
      BY <1>2 DEF Challenged, storeVars
    <2> HIDE DEF r
    <2>4. Backing(r) /\ Aside(r)
      BY <2>1 DEF Backing, Aside, Outcome, BudgetInv, Funded
    <2> QED BY <2>2, <2>3, <2>4, StepsAside
  <1>3. CASE RetryAnswered(c)
    <2>1. CASE Conclude(c, "failed_unknown")
      BY <2>1, ConcludeBudget
    <2>2. CASE Conclude(c, "success")
      <3> DEFINE r == [conn[c] EXCEPT !.pc = "record", !.status = "success"]
      <3>1. /\ r.pc = "record" /\ r.status = "success" /\ r.listed = conn[c].listed
            /\ r.user = conn[c].user /\ r.wallet = conn[c].wallet /\ r.offer = conn[c].offer
        BY ConnType DEF BudgetInv, ExchangeInv, Connection
      <3>2. conn' = [conn EXCEPT ![c] = r]
        BY <2>2 DEF Conclude, Move
      <3>3. UNCHANGED <<transactions, userWallet, grants, clock>>
        BY <2>2 DEF Conclude, Move, storeVars
      <3>4. conn[c].pc = "retry"
        BY <1>3 DEF RetryAnswered, At
      <3> HIDE DEF r
      <3>5. Backing(r)
        BY <3>1, <3>4 DEF Backing, Outcome, Exact, BudgetInv, Funded
      <3>6. \A u \in UserIds, w \in WalletIds :
              ~ IsChecking(r, u, w) /\ (IsCleared(r, u, w) => IsCleared(conn[c], u, w))
        BY <3>1, <3>4 DEF IsChecking, IsCleared, Outcome, Exact
      <3> QED BY <3>1, <3>2, <3>3, <3>5, <3>6, StepsOn
    <2> QED BY <1>3, <2>1, <2>2 DEF RetryAnswered
  <1> QED BY <1>1, <1>2, <1>3 DEF UpstreamStep

\* An option is taken up, or none is left.
LEMMA SelectBudget ==
  ASSUME BudgetInv, NEW c \in Conns,
         SkipOption(c) \/ (\E w \in WalletIds : UseWallet(c, w)) \/ GiveUp(c)
  PROVE Funded' /\ AllAccounted'
  <1>1. ASSUME NEW r, r.pc \in {"select", "assign"}, r.listed = conn[c].listed, Move(c, r)
        PROVE Funded' /\ AllAccounted'
    <2>1. /\ conn' = [conn EXCEPT ![c] = r]
          /\ UNCHANGED <<transactions, userWallet, grants, clock>>
      BY <1>1 DEF Move, storeVars
    <2>2. Backing(r) /\ Aside(r)
      BY <1>1 DEF Backing, Aside, Outcome, BudgetInv, Funded
    <2> QED BY <2>1, <2>2, StepsAside
  <1>2. CASE SkipOption(c)
    <2> DEFINE r == [conn[c] EXCEPT !.offer = Tail(conn[c].offer)]
    <2>1. r.pc = "select" /\ r.listed = conn[c].listed
      BY <1>2, ConnType DEF BudgetInv, ExchangeInv, Connection, SkipOption, At
    <2>2. Move(c, r)
      BY <1>2 DEF SkipOption
    <2> HIDE DEF r
    <2> QED BY <1>1, <2>1, <2>2
  <1>3. ASSUME NEW w \in WalletIds, UseWallet(c, w) PROVE Funded' /\ AllAccounted'
    <2> DEFINE r == [conn[c] EXCEPT !.pc = "assign", !.wallet = w]
    <2>1. r.pc = "assign" /\ r.listed = conn[c].listed
      BY ConnType DEF BudgetInv, ExchangeInv, Connection
    <2>2. Move(c, r)
      BY <1>3 DEF UseWallet
    <2> HIDE DEF r
    <2> QED BY <1>1, <2>1, <2>2
  <1> QED BY <1>2, <1>3, AnswerBudget DEF GiveUp

\* The budget that is read is one that was granted.
LEMMA ReadAssignmentBudget ==
  ASSUME BudgetInv, NEW c \in Conns, ReadAssignment(c)
  PROVE Funded' /\ AllAccounted'
  <1> DEFINE limit == userWallet[Pair(c)]
             user == conn[c].user
             wallet == conn[c].wallet
  <1>1. Pair(c) = <<user, wallet>> /\ Pair(c) \in DOMAIN userWallet
    BY DEF ReadAssignment, Pair
  <1>2. limit \in Caps(user, wallet)
    <2>1. limit \in Caps(Pair(c)[1], Pair(c)[2])
      BY <1>1 DEF BudgetInv, Funded
    <2> QED BY <2>1 DEF Pair
  <1>3. CASE limit = Unlimited /\ GoTo(c, "sign")
    <2> DEFINE r == [conn[c] EXCEPT !.pc = "sign"]
    <2>1. /\ r.pc = "sign" /\ r.listed = conn[c].listed
          /\ r.user = user /\ r.wallet = wallet
      BY ConnType DEF BudgetInv, ExchangeInv, Connection
    <2>2. /\ conn' = [conn EXCEPT ![c] = r]
          /\ UNCHANGED <<transactions, userWallet, grants, clock>>
      BY <1>3 DEF GoTo, Move, storeVars
    <2> HIDE DEF r, limit, user, wallet
    <2>3. Backing(r)
      BY <1>2, <1>3, <2>1 DEF Backing, Outcome, BudgetInv, Funded
    <2>4. /\ Funded'
          /\ conn'[c] = r /\ \A d \in Conns : d # c => conn'[d] = conn[d]
      BY <2>2, <2>3, MovedFunded
    <2>5. ASSUME NEW u \in UserIds, NEW w \in WalletIds PROVE Accounted(u, w)'
      <3>1. CASE u = user /\ w = wallet
        <4>1. Unlimited \in Caps(u, w)'
          BY <1>2, <1>3, <2>2, <3>1 DEF Caps
        <4> QED BY <4>1 DEF Accounted
      <3>2. CASE ~ (u = user /\ w = wallet)
        <4>1. ~ IsChecking(r, u, w) /\ ~ IsCleared(r, u, w)
          BY <2>1, <3>2 DEF IsChecking, IsCleared
        <4>2. ExchangeInv /\ Funded /\ Accounted(u, w)
          BY DEF BudgetInv, AllAccounted
        <4>3. Consuming(u, w)' \subseteq Consuming(u, w)
          BY <2>2, SameRows
        <4> QED BY <2>2, <2>4, <4>1, <4>2, <4>3, AccountShrinks
      <3> QED BY <3>1, <3>2
    <2> QED BY <2>4, <2>5 DEF AllAccounted
  <1>4. CASE limit # Unlimited /\ Move(c, [conn[c] EXCEPT !.pc = "list", !.budget = limit])
    <2> DEFINE r == [conn[c] EXCEPT !.pc = "list", !.budget = limit]
    <2>1. /\ r.pc = "list" /\ r.listed = conn[c].listed /\ r.budget = limit
          /\ r.user = user /\ r.wallet = wallet
      BY ConnType DEF BudgetInv, ExchangeInv, Connection
    <2>2. /\ conn' = [conn EXCEPT ![c] = r]
          /\ UNCHANGED <<transactions, userWallet, grants, clock>>
      BY <1>4 DEF Move, storeVars
    <2> HIDE DEF r, limit, user, wallet
    <2>3. Backing(r) /\ Aside(r)
      BY <1>2, <1>4, <2>1 DEF Backing, Outcome, Aside, BudgetInv, Funded
    <2> QED BY <2>2, <2>3, StepsAside
  <1> QED BY <1>3, <1>4 DEF ReadAssignment

\* The rows are read: from here on the connection is in the queue.
LEMMA ListTransactionsBudget ==
  ASSUME BudgetInv, NEW c \in Conns, ListTransactions(c)
  PROVE Funded' /\ AllAccounted'
  <1>1. CASE Conclude(c, "failed_unknown")
    BY <1>1, ConcludeBudget
  <1>2. CASE Move(c, [conn[c] EXCEPT !.pc = "compare",
                                     !.listed = ListTransactionsByUser(conn[c].user)])
    <2> DEFINE rows == ListTransactionsByUser(conn[c].user)
               r == [conn[c] EXCEPT !.pc = "compare", !.listed = rows]
    <2>1. /\ r.pc = "compare" /\ r.listed = rows /\ r.budget = conn[c].budget
          /\ r.user = conn[c].user /\ r.wallet = conn[c].wallet /\ r.offer = conn[c].offer
          /\ conn[c].pc = "list"
      BY ConnType DEF BudgetInv, ExchangeInv, Connection, ListTransactions, At
    <2>2. /\ conn' = [conn EXCEPT ![c] = r]
          /\ UNCHANGED <<transactions, userWallet, grants, clock>>
      BY <1>2 DEF Move, storeVars
    <2>3. IsFiniteSet(rows) /\ \A t \in rows : t.status = "success" => t.amount \in Nat
      BY FS_Subset, SuccessfulRows DEF ListTransactionsByUser, BudgetInv, Funded
    <2> HIDE DEF r
    <2>4. Backing(r)
      BY <2>1, <2>3 DEF Backing, Outcome, BudgetInv, Funded
    <2>5. /\ Funded'
          /\ conn'[c] = r /\ \A d \in Conns : d # c => conn'[d] = conn[d]
      BY <2>2, <2>4, MovedFunded
    <2>6. ASSUME NEW u \in UserIds, NEW w \in WalletIds PROVE Accounted(u, w)'
      <3>1. ExchangeInv /\ Funded /\ Accounted(u, w)
        BY DEF BudgetInv, AllAccounted
      <3>2. Consuming(u, w)' = Consuming(u, w) /\ Caps(u, w)' = Caps(u, w)
        BY <2>2, SameRows DEF Caps
      <3>3. ~ IsCleared(r, u, w)
        BY <2>1 DEF IsCleared, Outcome
      <3>4. CASE ~ IsChecking(r, u, w)
        BY <2>2, <2>5, <3>1, <3>2, <3>3, <3>4, AccountShrinks
      <3>5. CASE Unlimited \in Caps(u, w)
        BY <3>2, <3>5 DEF Accounted
      <3>6. CASE IsChecking(r, u, w) /\ Unlimited \notin Caps(u, w)
        <4>1. Sound(Consuming(u, w), Cleared(u, w), Checking(u, w), Prices, Caps(u, w))
          BY <3>1, <3>6, AccountsSound
        <4>2. Ledger(Consuming(u, w), Cleared(u, w), Checking(u, w), Prices, Seen, Caps(u, w))
          BY <3>1, <3>6 DEF Accounted
        <4>3. /\ c \notin Cleared(u, w) \cup Checking(u, w)
              /\ Cleared(u, w)' = Cleared(u, w)
              /\ Checking(u, w)' = Checking(u, w) \cup {c}
          BY <2>1, <2>5, <3>3, <3>6 DEF Cleared, Checking, IsCleared, IsChecking, Outcome
        <4>4. /\ Consuming(u, w) \subseteq Seen'[c]
              /\ \A d \in Cleared(u, w) : Prices'[d] = Prices[d]
              /\ \A d \in Checking(u, w) : Seen'[d] = Seen[d]
          <5>1. conn[c].user = u
            BY <2>1, <3>6 DEF IsChecking
          <5>2. Seen'[c] = rows /\ Consuming(u, w) \subseteq rows
            BY <2>1, <2>5, <5>1 DEF Seen, Consuming, Counted
          <5>3. \A d \in Conns : d # c => Seen'[d] = Seen[d] /\ Prices'[d] = Prices[d]
            BY <2>5 DEF Seen, Prices
          <5>4. Cleared(u, w) \subseteq Conns /\ Checking(u, w) \subseteq Conns
            BY DEF Cleared, Checking
          <5> QED BY <4>3, <5>2, <5>3, <5>4
        <4>5. Ledger(Consuming(u, w), Cleared(u, w), Checking(u, w) \cup {c}, Prices', Seen',
                     Caps(u, w))
          BY <4>1, <4>2, <4>3, <4>4, LedgerReads
        <4>6. Ledger(Consuming(u, w)', Cleared(u, w)', Checking(u, w)', Prices', Seen',
                     Caps(u, w)')
          BY <3>2, <4>3, <4>5, Zenon
        <4> QED BY <4>6 DEF Accounted
      <3> QED BY <3>4, <3>5, <3>6
    <2> QED BY <2>5, <2>6 DEF AllAccounted
  <1> QED BY <1>1, <1>2 DEF ListTransactions

\* The consumption that is compared is at least what the listed rows consume now.
LEMMA ListedConsumption ==
  ASSUME BudgetInv, NEW c \in Conns
  PROVE LET used == CurrentMonthConsumption(conn[c].listed, conn[c].wallet)
        IN /\ used \in Nat
           /\ \A u : Total(Consuming(u, conn[c].wallet) \cap conn[c].listed) \in Nat
           /\ \A u : Total(Consuming(u, conn[c].wallet) \cap conn[c].listed) <= used
  <1> DEFINE rows == Counted(conn[c].listed, conn[c].wallet)
  <1>1. IsFiniteSet(conn[c].listed) /\ \A t \in conn[c].listed : t.status = "success" => t.amount \in Nat
    BY DEF BudgetInv, Funded, Backing
  <1>2. IsFiniteSet(rows) /\ \A t \in rows : t.amount \in Nat
    <2>1. rows \in SUBSET conn[c].listed
      BY DEF Counted
    <2>2. IsFiniteSet(rows)
      BY <1>1, <2>1, FS_Subset
    <2> QED BY <1>1, <2>2 DEF Counted
  <1>3. CurrentMonthConsumption(conn[c].listed, conn[c].wallet) = Total(rows)
    BY DEF CurrentMonthConsumption, Total
  <1>4. ASSUME NEW u
        PROVE Consuming(u, conn[c].wallet) \cap conn[c].listed \in SUBSET rows
    BY DEF Consuming, Counted
  <1> HIDE DEF rows
  <1>5. Total(rows) \in Nat
    BY <1>2, TotalNat
  <1>6. ASSUME NEW u
        PROVE /\ Total(Consuming(u, conn[c].wallet) \cap conn[c].listed) \in Nat
              /\ Total(Consuming(u, conn[c].wallet) \cap conn[c].listed) <= Total(rows)
    BY <1>2, <1>4, TotalGrows
  <1> QED BY <1>3, <1>5, <1>6

\* The comparison: the connection leaves the queue, denied or cleared.
LEMMA CompareBudgetBudget ==
  ASSUME BudgetInv, NEW c \in Conns, CompareBudget(c)
  PROVE Funded' /\ AllAccounted'
  <1> DEFINE user == conn[c].user
             wallet == conn[c].wallet
             used == CurrentMonthConsumption(conn[c].listed, wallet)
             price == Price(conn[c])
  <1>1. conn[c].pc = "compare"
    BY DEF CompareBudget, At
  <1>2. CASE OverBudget(c)
    <2> DEFINE r == [conn[c] EXCEPT !.pc = "record", !.status = "budget_exceeded", !.listed = {}]
    <2>1. r.pc = "record" /\ r.status = "budget_exceeded" /\ r.listed = {}
      BY ConnType DEF BudgetInv, ExchangeInv, Connection
    <2>2. /\ conn' = [conn EXCEPT ![c] = r]
          /\ UNCHANGED <<transactions, userWallet, grants, clock>>
      BY <1>2 DEF CompareBudget, Move, storeVars
    <2> HIDE DEF r
    <2>3. Backing(r) /\ Aside(r)
      BY <2>1, FS_EmptySet DEF Backing, Outcome, Aside
    <2> QED BY <2>2, <2>3, StepsAside
  <1>3. CASE ~ OverBudget(c)
    <2> DEFINE r == [conn[c] EXCEPT !.pc = "sign", !.listed = {}]
               limit == conn[c].budget
    <2>1. /\ r.pc = "sign" /\ r.listed = {}
          /\ r.user = user /\ r.wallet = wallet /\ r.offer = conn[c].offer
      BY ConnType DEF BudgetInv, ExchangeInv, Connection
    <2>2. /\ conn' = [conn EXCEPT ![c] = r]
          /\ UNCHANGED <<transactions, userWallet, grants, clock>>
      BY <1>3 DEF CompareBudget, Move, storeVars
    <2>3. limit \in Caps(user, wallet) /\ limit # Unlimited
      BY <1>1 DEF BudgetInv, Funded, Backing
    <2>4. limit \in Int
      BY <2>3, CapsType DEF BudgetInv, ExchangeInv
    <2>5. price \in Int /\ used \in Nat
      BY <1>1, PriceType, ListedConsumption DEF BudgetInv, ExchangeInv
    <2>6. used + price <= limit
      <3>1. ~ (used + price > limit)
        BY <1>3 DEF OverBudget, Option1, Price
      <3> HIDE DEF used, price, limit
      <3> QED BY <2>4, <2>5, <3>1
    <2>7. Price(r) = price /\ (Exact(r) <=> Exact(conn[c]))
      BY <2>1 DEF Price, Exact
    <2> HIDE DEF r, used, price, limit
    <2>8. price <= limit
      BY <2>4, <2>5, <2>6
    <2>9. Backing(r)
      BY <2>1, <2>3, <2>7, <2>8, FS_EmptySet DEF Backing, Outcome
    <2>10. /\ Funded'
           /\ conn'[c] = r /\ \A d \in Conns : d # c => conn'[d] = conn[d]
      BY <2>2, <2>9, MovedFunded
    <2>11. ASSUME NEW u \in UserIds, NEW w \in WalletIds PROVE Accounted(u, w)'
      <3>1. ExchangeInv /\ Funded /\ Accounted(u, w)
        BY DEF BudgetInv, AllAccounted
      <3>2. Consuming(u, w)' = Consuming(u, w) /\ Caps(u, w)' = Caps(u, w)
        BY <2>2, SameRows DEF Caps
      <3>3. ~ IsChecking(r, u, w)
        BY <2>1 DEF IsChecking
      <3>4. CASE ~ IsCleared(r, u, w)
        BY <2>2, <2>10, <3>1, <3>2, <3>3, <3>4, AccountShrinks
      <3>5. CASE Unlimited \in Caps(u, w)
        BY <3>2, <3>5 DEF Accounted
      <3>6. CASE IsCleared(r, u, w) /\ Unlimited \notin Caps(u, w)
        <4>1. Sound(Consuming(u, w), Cleared(u, w), Checking(u, w), Prices, Caps(u, w))
          BY <3>1, <3>6, AccountsSound
        <4>2. Ledger(Consuming(u, w), Cleared(u, w), Checking(u, w), Prices, Seen, Caps(u, w))
          BY <3>1, <3>6 DEF Accounted
        <4>3. user = u /\ wallet = w
          BY <2>1, <3>6 DEF IsCleared
        <4>4. IsChecking(conn[c], u, w) /\ ~ IsCleared(conn[c], u, w)
          BY <1>1, <2>1, <2>7, <3>6, <4>3 DEF IsCleared, IsChecking, Outcome
        <4>5. /\ c \in Checking(u, w) /\ limit \in Caps(u, w)
              /\ Cleared(u, w)' = Cleared(u, w) \cup {c}
              /\ Checking(u, w)' = Checking(u, w) \ {c}
          <5>1. limit \in Caps(u, w)
            BY <2>3, <4>3, Zenon
          <5>2. /\ c \in Checking(u, w)
                /\ Cleared(u, w)' = Cleared(u, w) \cup {c}
                /\ Checking(u, w)' = Checking(u, w) \ {c}
            BY <2>10, <3>3, <3>6, <4>4 DEF Cleared, Checking
          <5> QED BY <5>1, <5>2
        <4>6. Total(Consuming(u, w) \cap Seen[c]) + Prices[c] <= limit
          <5>1. Seen[c] = conn[c].listed /\ Prices[c] = price
            BY DEF Seen, Prices, price
          <5>2. /\ Total(Consuming(u, wallet) \cap conn[c].listed) \in Nat
                /\ Total(Consuming(u, wallet) \cap conn[c].listed) <= used
            BY ListedConsumption DEF used
          <5>3. Total(Consuming(u, wallet) \cap conn[c].listed) + price <= limit
            BY <2>4, <2>5, <2>6, <5>2
          <5> QED BY <4>3, <5>1, <5>3, Zenon
        <4>7. /\ \A d \in Cleared(u, w) \cup {c} : Prices'[d] = Prices[d]
              /\ \A d \in Checking(u, w) \ {c} : Seen'[d] = Seen[d]
          <5>1. \A d \in Conns : Prices'[d] = Prices[d]
            BY <2>7, <2>10 DEF Prices, price
          <5>2. \A d \in Conns : d # c => Seen'[d] = Seen[d]
            BY <2>10 DEF Seen
          <5> QED BY <5>1, <5>2 DEF Cleared, Checking
        <4>8. Ledger(Consuming(u, w), Cleared(u, w) \cup {c}, Checking(u, w) \ {c}, Prices',
                     Seen', Caps(u, w))
          BY <4>1, <4>2, <4>5, <4>6, <4>7, LedgerClears
        <4>9. Ledger(Consuming(u, w)', Cleared(u, w)', Checking(u, w)', Prices', Seen',
                     Caps(u, w)')
          BY <3>2, <4>5, <4>8, Zenon
        <4> QED BY <4>9 DEF Accounted
      <3> QED BY <3>4, <3>5, <3>6
    <2> QED BY <2>10, <2>11 DEF AllAccounted
  <1> QED BY <1>2, <1>3

\* A cleared connection signs.
LEMMA SignBudget ==
  ASSUME BudgetInv, NEW c \in Conns, Sign(c) PROVE Funded' /\ AllAccounted'
  <1> DEFINE r == [conn[c] EXCEPT !.pc = "retry"]
  <1>1. /\ r.pc = "retry" /\ r.listed = conn[c].listed
        /\ r.user = conn[c].user /\ r.wallet = conn[c].wallet /\ r.offer = conn[c].offer
    BY ConnType DEF BudgetInv, ExchangeInv, Connection
  <1>2. /\ conn' = [conn EXCEPT ![c] = r]
        /\ UNCHANGED <<transactions, userWallet, grants, clock>>
    BY DEF Sign, storeVars
  <1>3. conn[c].pc = "sign" /\ Exact(conn[c])
    BY DEF Sign, At, Exact, Option1
  <1> HIDE DEF r
  <1>4. Backing(r)
    BY <1>1, <1>3 DEF Backing, Exact, Outcome, BudgetInv, Funded
  <1>5. \A u \in UserIds, w \in WalletIds :
          ~ IsChecking(r, u, w) /\ (IsCleared(r, u, w) => IsCleared(conn[c], u, w))
    BY <1>1, <1>3 DEF IsChecking, IsCleared, Exact
  <1> QED BY <1>1, <1>2, <1>4, <1>5, StepsOn

\* A row is written: a cleared connection turns into what it consumed.
LEMMA RecordBudget ==
  ASSUME BudgetInv, NEW c \in Conns, Record(c) PROVE Funded' /\ AllAccounted'
  <1> DEFINE r == Fresh(conn[c].tunnel)
             row == [id |-> conn[c].id, user |-> conn[c].user, wallet |-> conn[c].wallet,
                     amount |-> Option1(c).amount, status |-> conn[c].status,
                     createdAt |-> clock]
  <1>1. Backing(r) /\ Aside(r)
    BY FreshAside
  <1>2. /\ conn' = [conn EXCEPT ![c] = r] /\ conn[c].pc = "record"
        /\ transactions' = transactions \cup {row}
        /\ UNCHANGED <<userWallet, grants, clock>>
    BY DEF Record, InsertTransaction, At
  <1>3. /\ row.user = conn[c].user /\ row.wallet = conn[c].wallet
        /\ row.status = conn[c].status /\ row.amount = Price(conn[c])
    BY DEF Option1, Price
  <1> HIDE DEF r, row
  <1>4. conn'[c] = r /\ \A d \in Conns : d # c => conn'[d] = conn[d]
    BY <1>2 DEF BudgetInv, ExchangeInv, TypeInv, TypeOK
  <1>5. Funded'
    <2>1. IsFiniteSet(transactions')
      BY <1>2, FS_AddElement DEF BudgetInv, Funded
    <2>2. \A pair \in DOMAIN userWallet' : userWallet'[pair] \in Caps(pair[1], pair[2])'
      BY <1>2 DEF BudgetInv, Funded, Caps
    <2>3. ASSUME NEW d \in Conns PROVE Backing(conn[d])'
      <3>1. Backing(conn'[d])
        BY <1>1, <1>4 DEF BudgetInv, Funded
      <3> QED BY <1>2, <3>1 DEF Backing, Caps
    <2> QED BY <2>1, <2>2, <2>3 DEF Funded
  <1>6. ASSUME NEW u \in UserIds, NEW w \in WalletIds PROVE Accounted(u, w)'
    <2>1. ExchangeInv /\ Funded /\ Accounted(u, w)
      BY DEF BudgetInv, AllAccounted
    <2>2. Caps(u, w)' = Caps(u, w)
      BY <1>2 DEF Caps
    <2>3. ~ IsChecking(r, u, w) /\ ~ IsCleared(r, u, w)
      BY <1>1 DEF Aside, IsChecking, IsCleared
    <2>4. CASE row \notin Consuming(u, w)'
      <3>1. Consuming(u, w)' \subseteq Consuming(u, w)
        BY <1>2, <2>4 DEF Consuming, Counted, ListTransactionsByUser, StartOfMonth
      <3> QED BY <1>2, <1>4, <2>1, <2>3, <3>1, AccountShrinks
    <2>5. CASE Unlimited \in Caps(u, w)
      BY <2>2, <2>5 DEF Accounted
    <2>6. CASE row \in Consuming(u, w)' /\ Unlimited \notin Caps(u, w)
      <3>1. Consuming(u, w)' = Consuming(u, w) \cup {row}
        BY <1>2, <2>6 DEF Consuming, Counted, ListTransactionsByUser, StartOfMonth
      <3>2. conn[c].user = u /\ conn[c].wallet = w /\ conn[c].status = "success"
        BY <1>3, <2>6 DEF Consuming, Counted, ListTransactionsByUser
      <3>3. IsCleared(conn[c], u, w) /\ ~ IsChecking(conn[c], u, w)
        BY <1>2, <3>2 DEF IsCleared, IsChecking, Outcome, BudgetInv, Funded, Backing
      <3>4. Sound(Consuming(u, w), Cleared(u, w), Checking(u, w), Prices, Caps(u, w))
        BY <2>1, <2>6, AccountsSound
      <3>5. Ledger(Consuming(u, w), Cleared(u, w), Checking(u, w), Prices, Seen, Caps(u, w))
        BY <2>1, <2>6 DEF Accounted
      <3>6. /\ c \in Cleared(u, w)
            /\ Cleared(u, w)' = Cleared(u, w) \ {c}
            /\ Checking(u, w)' = Checking(u, w)
        BY <1>4, <2>3, <3>3 DEF Cleared, Checking
      <3>7. /\ row.amount = Prices[c]
            /\ \A d \in Cleared(u, w) \ {c} : Prices'[d] = Prices[d]
            /\ \A d \in Checking(u, w) : Seen'[d] = Seen[d]
        BY <1>3, <1>4, <3>3 DEF Prices, Seen, Cleared, Checking
      <3>8. Ledger(Consuming(u, w) \cup {row}, Cleared(u, w) \ {c}, Checking(u, w), Prices', Seen',
                   Caps(u, w))
        BY <3>4, <3>5, <3>6, <3>7, LedgerRecords
      <3>9. Ledger(Consuming(u, w)', Cleared(u, w)', Checking(u, w)', Prices', Seen', Caps(u, w)')
        BY <2>2, <3>1, <3>6, <3>8, Zenon
      <3> QED BY <3>9 DEF Accounted
    <2> QED BY <2>4, <2>5, <2>6
  <1> QED BY <1>5, <1>6 DEF AllAccounted

\* A row is not written: what was cleared for it is not used.
LEMMA RecordFailsBudget ==
  ASSUME BudgetInv, NEW c \in Conns, RecordFails(c) PROVE Funded' /\ AllAccounted'
  <1> DEFINE r == Fresh(conn[c].tunnel)
  <1>1. Backing(r) /\ Aside(r)
    BY FreshAside
  <1>2. /\ conn' = [conn EXCEPT ![c] = r]
        /\ UNCHANGED <<transactions, userWallet, grants, clock>>
    BY DEF RecordFails, storeVars
  <1> HIDE DEF r
  <1> QED BY <1>1, <1>2, StepsAside

\* All steps of a handler.
LEMMA HandlerBudget ==
  ASSUME BudgetInv, NEW c \in Conns, HandlerStep(c) PROVE Funded' /\ AllAccounted'
  <1>1. AssignmentFails(c) \/ Unassigned(c) \/ SignFails(c) \/ RetryFails(c) =>
          Conclude(c, "failed_unknown") \/ Conclude(c, "no_matching_wallet_found")
    BY DEF AssignmentFails, Unassigned, SignFails, RetryFails
  <1> QED BY <1>1, ConcludeBudget, SelectBudget, ReadAssignmentBudget, ListTransactionsBudget,
             CompareBudgetBudget, SignBudget, RecordBudget, RecordFailsBudget DEF HandlerStep

\* A crash empties the queue, and takes back no row.
LEMMA CrashBudget == ASSUME BudgetInv, Crash PROVE Funded' /\ AllAccounted'
  <1>1. /\ \A d \in Conns : conn'[d] = Fresh(NoUser)
        /\ UNCHANGED <<transactions, userWallet, grants, clock>>
    BY DEF Crash, storeVars
  <1>2. Backing(Fresh(NoUser)) /\ Aside(Fresh(NoUser))
    BY FreshAside
  <1>3. Funded'
    <2>1. IsFiniteSet(transactions')
      BY <1>1 DEF BudgetInv, Funded
    <2>2. \A pair \in DOMAIN userWallet' : userWallet'[pair] \in Caps(pair[1], pair[2])'
      BY <1>1 DEF BudgetInv, Funded, Caps
    <2>3. ASSUME NEW d \in Conns PROVE Backing(conn[d])'
      <3>1. Backing(conn'[d])
        BY <1>1, <1>2
      <3> QED BY <1>1, <3>1 DEF Backing, Caps
    <2> QED BY <2>1, <2>2, <2>3 DEF Funded
  <1>4. ASSUME NEW u \in UserIds, NEW w \in WalletIds PROVE Accounted(u, w)'
    <2>1. ExchangeInv /\ Funded /\ Accounted(u, w)
      BY DEF BudgetInv, AllAccounted
    <2>2. Consuming(u, w)' \subseteq Consuming(u, w)
      BY <1>1, SameRows
    <2>3. \A d \in Conns : ~ IsChecking(conn'[d], u, w) /\ ~ IsCleared(conn'[d], u, w)
      BY <1>1, <1>2 DEF Aside, IsChecking, IsCleared
    <2> QED BY <1>1, <2>1, <2>2, <2>3, AccountShrinks
  <1> QED BY <1>3, <1>4 DEF AllAccounted

-----------------------------------------------------------------------------
(* The administrator and the clock.                                        *)

\* Later times are in the same month or in a later one.
LEMMA MonthAdvances ==
  ASSUME NEW now \in Nat, NEW later \in Nat, now <= later
  PROVE (now \div MonthLength) * MonthLength <= (later \div MonthLength) * MonthLength
  <1>1. MonthLength \in Nat /\ MonthLength > 0
    BY StoreAssumption
  <1>2. now \div MonthLength \in Nat /\ later \div MonthLength \in Nat
    BY <1>1
  <1>3. now \div MonthLength <= later \div MonthLength
    BY <1>1
  <1>4. \A i, j, m \in Nat : i <= j => i * m <= j * m
    OBVIOUS
  <1> QED BY <1>1, <1>2, <1>3, <1>4

\* Every assignment there is was granted.
Assigned == \A pair \in DOMAIN userWallet : userWallet[pair] \in Caps(pair[1], pair[2])

\* A budget is set by a grant.
LEMMA SetLimitGrants ==
  ASSUME Assigned, NEW u, NEW w, NEW limit, SetLimit(u, w, limit)
  PROVE grants \subseteq grants' /\ Assigned'
  <1> DEFINE g == [user |-> u, wallet |-> w, budget |-> limit]
             pair == <<u, w>>
  <1>1. /\ g.user = u /\ g.wallet = w /\ g.budget = limit
        /\ pair[1] = u /\ pair[2] = w
        /\ grants' = grants \cup {g} /\ userWallet' = Put(userWallet, pair, limit)
    BY DEF SetLimit
  <1> HIDE DEF g, pair
  <1>2. grants \subseteq grants' /\ limit \in Caps(u, w)'
    BY <1>1 DEF Caps
  <1>3. ASSUME NEW p \in DOMAIN userWallet'
        PROVE userWallet'[p] \in Caps(p[1], p[2])'
    <2>1. p \in DOMAIN userWallet \cup {pair}
          /\ userWallet'[p] = IF p = pair THEN limit ELSE userWallet[p]
      BY <1>1, <1>3 DEF Put
    <2>2. CASE p = pair
      BY <1>1, <1>2, <2>1, <2>2
    <2>3. CASE p # pair
      BY <1>2, <2>1, <2>3, CapsGrow DEF Assigned
    <2> QED BY <2>2, <2>3
  <1> QED BY <1>2, <1>3 DEF Assigned

\* A new or changed assignment is a grant, and no grant is forgotten.
LEMMA StoreGrants ==
  ASSUME Assigned, StoreNext PROVE grants \subseteq grants' /\ Assigned'
  <1>1. ASSUME NEW K, userWallet' = Drop(userWallet, K), UNCHANGED grants
        PROVE grants \subseteq grants' /\ Assigned'
    BY <1>1 DEF Drop, Restrict, Assigned, Caps
  <1>2. ASSUME UNCHANGED <<userWallet, grants>> PROVE grants \subseteq grants' /\ Assigned'
    BY <1>2 DEF Assigned, Caps
  <1>3. ASSUME NEW users, NEW ws, Cascade(users, ws), UNCHANGED grants
        PROVE grants \subseteq grants' /\ Assigned'
    BY <1>1, <1>2, <1>3 DEF Cascade
  <1>4. CASE Tick
    BY <1>2, <1>4 DEF Tick, tables
  <1>5. CASE AdminNext
    BY <1>1, <1>2, <1>3, <1>5, SetLimitGrants
    DEF AdminNext, CreateUser, DeleteUser, CreateWallet, DeleteWallet, Assign,
        UpdateMonthlyBudget, DeleteUserWallet
  <1> QED BY <1>4, <1>5 DEF StoreNext

\* Time goes by and rows are deleted: neither makes a row count.
LEMMA StoreConsumes ==
  ASSUME TypeInv, StoreNext, NEW u, NEW w
  PROVE Consuming(u, w)' \subseteq Consuming(u, w)
  <1>1. transactions' \subseteq transactions
    BY StoreNextRows
  <1>2. clock \in Nat /\ clock' \in Nat /\ clock <= clock'
    <2>1. clock \in 0..MaxClock /\ MaxClock \in Nat
      BY StoreAssumption DEF TypeInv, TypeOK, StoreTypeOK
    <2>2. clock' = clock + 1 \/ clock' = clock
      BY DEF StoreNext, Tick, AdminNext, CreateUser, DeleteUser, CreateWallet, DeleteWallet,
             Assign, UpdateMonthlyBudget, SetLimit, DeleteUserWallet
    <2> QED BY <2>1, <2>2
  <1>3. StartOfMonth <= StartOfMonth'
    BY <1>2, MonthAdvances DEF StartOfMonth
  <1>4. StartOfMonth \in Nat /\ StartOfMonth' \in Nat
    <2>1. ASSUME NEW now \in Nat PROVE (now \div MonthLength) * MonthLength \in Nat
      <3>1. MonthLength \in Nat /\ now \div MonthLength \in Nat
        BY StoreAssumption
      <3>2. \A i, m \in Nat : i * m \in Nat
        OBVIOUS
      <3> QED BY <3>1, <3>2
    <2> QED BY <1>2, <2>1 DEF StartOfMonth
  <1>5. \A t \in transactions : t.createdAt \in Nat
    BY StoreAssumption DEF TypeInv, TypeOK, StoreTypeOK, Row
  <1>6. \A t \in transactions : t.createdAt >= StartOfMonth' => t.createdAt >= StartOfMonth
    BY <1>3, <1>4, <1>5
  <1> QED BY <1>1, <1>6 DEF Consuming, Counted, ListTransactionsByUser

\* All that the administrator and the clock do.
LEMMA StoreBudget == ASSUME BudgetInv, StoreNext PROVE Funded' /\ AllAccounted'
  <1>1. grants \subseteq grants' /\ Assigned'
    BY StoreGrants DEF BudgetInv, Funded, Assigned
  <1>2. conn' = conn
    BY DEF StoreNext, proxyVars
  <1>3. Funded'
    <2>1. IsFiniteSet(transactions')
      BY StoreNextRows, FS_Subset DEF BudgetInv, Funded
    <2>2. ASSUME NEW d \in Conns PROVE Backing(conn[d])'
      BY <1>1, <1>2, CapsGrow DEF BudgetInv, Funded, Backing
    <2> QED BY <1>1, <2>1, <2>2 DEF Funded, Assigned
  <1>4. ASSUME NEW u \in UserIds, NEW w \in WalletIds PROVE Accounted(u, w)'
    <2>1. ExchangeInv /\ Funded /\ Accounted(u, w)
      BY DEF BudgetInv, AllAccounted
    <2>2. Consuming(u, w)' \subseteq Consuming(u, w)
      BY StoreConsumes DEF BudgetInv, ExchangeInv
    <2> QED BY <1>1, <1>2, <2>1, <2>2, AccountShrinks
  <1> QED BY <1>3, <1>4 DEF AllAccounted

-----------------------------------------------------------------------------
\* Only Sign adds a payment, and grants are never taken back.
LEMMA NextSigns ==
  ASSUME BudgetInv, Next
  PROVE grants \subseteq grants' /\ (signed' = signed \/ \E c \in Conns : Sign(c))
  <1>1. ASSUME NEW c \in Conns, HandlerStep(c), ~ Sign(c) PROVE UNCHANGED <<grants, signed>>
    BY <1>1 DEF HandlerStep, SkipOption, UseWallet, GiveUp, AssignmentFails, Unassigned,
                ReadAssignment, ListTransactions, CompareBudget, SignFails, RetryFails, Record,
                InsertTransaction, RecordFails, Answer, Conclude, GoTo, Move, storeVars
  <1>2. ASSUME NEW c \in Conns, ClientStep(c) \/ UpstreamStep(c)
        PROVE UNCHANGED <<grants, signed>>
    BY <1>2 DEF ClientStep, UpstreamStep, OpenTunnel, CloseTunnel, BeginRequest, PassThrough,
                Challenged, RetryAnswered, Answer, Conclude, Move, storeVars
  <1>3. Crash => UNCHANGED <<grants, signed>>
    BY DEF Crash, storeVars
  <1>4. StoreNext => grants \subseteq grants' /\ UNCHANGED signed
    BY StoreGrants DEF StoreNext, proxyVars, BudgetInv, Funded, Assigned
  <1>5. ASSUME NEW c \in Conns, Sign(c) PROVE UNCHANGED grants
    BY <1>5 DEF Sign, storeVars
  <1> QED BY <1>1, <1>2, <1>3, <1>4, <1>5 DEF Next, ProxyNext

\* What is signed is backed, because what is about to be is.
LEMMA NextBacked == ASSUME BudgetInv, Next PROVE PaymentBacked'
  <1>1. grants \subseteq grants' /\ (signed' = signed \/ \E c \in Conns : Sign(c))
    BY NextSigns
  <1>2. CASE signed' = signed
    BY <1>1, <1>2 DEF BudgetInv, PaymentBacked
  <1>3. ASSUME NEW c \in Conns, Sign(c) PROVE PaymentBacked'
    <2> DEFINE p == [id |-> conn[c].id, user |-> conn[c].user, wallet |-> conn[c].wallet,
                     amount |-> Option1(c).amount, at |-> clock]
    <2>1. /\ p.user = conn[c].user /\ p.wallet = conn[c].wallet /\ p.amount = Price(conn[c])
          /\ signed' = signed \cup {p} /\ conn[c].pc = "sign" /\ Exact(conn[c])
      BY <1>3 DEF Sign, At, Option1, Price, Exact
    <2> HIDE DEF p
    <2>2. PICK b \in Caps(conn[c].user, conn[c].wallet) : b = Unlimited \/ Price(conn[c]) <= b
      BY <2>1 DEF BudgetInv, Funded, Backing
    <2>3. \E g \in grants : /\ g.user = p.user /\ g.wallet = p.wallet
                            /\ g.budget = Unlimited \/ p.amount <= g.budget
      BY <2>1, <2>2 DEF Caps
    <2> QED BY <1>1, <2>1, <2>3 DEF BudgetInv, PaymentBacked
  <1> QED BY <1>1, <1>2, <1>3

\* At first nothing is consumed.
LEMMA InitBudget == Init => BudgetInv
  <1> SUFFICES ASSUME Init PROVE BudgetInv
    OBVIOUS
  <1>1. ExchangeInv
    BY InitType, InitExchange DEF ExchangeInv
  <1>2. \A c \in Conns : conn[c] = Fresh(NoUser)
    BY DEF Init
  <1>3. Funded
    <2>1. transactions = {} /\ DOMAIN userWallet = {}
      BY DEF Init, StoreInit
    <2> QED BY <1>2, <2>1, FreshAside, FS_EmptySet DEF Funded
  <1>4. PaymentBacked
    BY DEF Init, PaymentBacked
  <1>5. ASSUME NEW u \in UserIds, NEW w \in WalletIds PROVE Accounted(u, w)
    <2>1. Consuming(u, w) = {}
      BY DEF Init, StoreInit, Consuming, Counted, ListTransactionsByUser
    <2>2. Cleared(u, w) = {} /\ Checking(u, w) = {}
      BY <1>2, FreshAside DEF Cleared, Checking, IsCleared, IsChecking, Aside
    <2>3. Total({}) = 0
      BY TotalStep, FS_EmptySet
    <2> DEFINE K == [c \in Conns |-> {}]
    <2>4. K \in [Conns -> SUBSET Conns] /\ {} \in SUBSET Conns
      OBVIOUS
    <2>5. Ledger({}, {}, {}, Prices, Seen, Caps(u, w))
      BY <2>3, <2>4 DEF Ledger, Queued, Bounded, Untouched
    <2>6. Ledger(Consuming(u, w), Cleared(u, w), Checking(u, w), Prices, Seen, Caps(u, w))
      BY <2>1, <2>2, <2>5, Zenon
    <2> QED BY <2>6 DEF Accounted
  <1> QED BY <1>1, <1>3, <1>4, <1>5 DEF BudgetInv, AllAccounted

\* Every step keeps the invariant.
LEMMA NextBudget == BudgetInv /\ [Next]_vars => BudgetInv'
  <1> SUFFICES ASSUME BudgetInv, [Next]_vars PROVE BudgetInv'
    OBVIOUS
  <1>1. ExchangeInv'
    BY NextExchange DEF BudgetInv
  <1>2. CASE UNCHANGED vars
    <2>1. UNCHANGED <<conn, transactions, userWallet, grants, clock, signed>>
      BY <1>2 DEF vars, storeVars, proxyVars
    <2>2. Funded'
      BY <2>1 DEF BudgetInv, Funded, Backing, Caps
    <2>3. ASSUME NEW u \in UserIds, NEW w \in WalletIds PROVE Accounted(u, w)'
      <3>1. ExchangeInv /\ Funded /\ Accounted(u, w)
        BY DEF BudgetInv, AllAccounted
      <3> QED BY <2>1, <3>1, SameRows, AccountShrinks
    <2>4. PaymentBacked'
      BY <2>1 DEF BudgetInv, PaymentBacked
    <2> QED BY <1>1, <2>2, <2>3, <2>4 DEF BudgetInv, AllAccounted
  <1>3. CASE Next
    <2>1. PaymentBacked'
      BY <1>3, NextBacked
    <2>2. Funded' /\ AllAccounted'
      BY <1>3, HandlerBudget, ClientBudget, UpstreamBudget, CrashBudget, StoreBudget
      DEF Next, ProxyNext
    <2> QED BY <1>1, <2>1, <2>2 DEF BudgetInv
  <1> QED BY <1>2, <1>3

\* The invariant of this module.
LEMMA BudgetInvariant == Spec => []BudgetInv
  BY InitBudget, NextBudget, PTL DEF Spec

\* No payment is ever signed that no budget of the administrator allowed by
\* itself, however budgets change between the check and the signature.
THEOREM PaymentsAllowed == Spec => []PaymentBacked
  <1>1. BudgetInv => PaymentBacked
    BY DEF BudgetInv
  <1> QED BY <1>1, BudgetInvariant, PTL

\* The cap is missed by at most the largest amount once per other connection,
\* for any number of connections and however their checks, payments and rows
\* interleave with each other, with new budgets, deletions, crashes and months.
THEOREM OvershootLimited == Spec => []OvershootBounded
  <1>1. ASSUME BudgetInv PROVE OvershootBounded
    <2>1. ASSUME NEW u \in UserIds, NEW w \in WalletIds,
                 CurrentMonthConsumption(ListTransactionsByUser(u), w) # 0
          PROVE \E g \in grants :
                  /\ g.user = u /\ g.wallet = w
                  /\ \/ g.budget = Unlimited
                     \/ CurrentMonthConsumption(ListTransactionsByUser(u), w)
                          <= g.budget + (Cardinality(Conns) - 1) * MaxAmount
      <3>1. CurrentMonthConsumption(ListTransactionsByUser(u), w) = Total(Consuming(u, w))
        BY DEF CurrentMonthConsumption, Total, Consuming
      <3>2. ExchangeInv /\ Funded /\ Accounted(u, w)
        BY <1>1 DEF BudgetInv, AllAccounted
      <3>3. \E b \in Caps(u, w) : b = Unlimited \/ Total(Consuming(u, w)) <= b + Room
        <4>1. CASE Unlimited \in Caps(u, w)
          BY <4>1
        <4>2. CASE Unlimited \notin Caps(u, w)
          <5>1. Sound(Consuming(u, w), Cleared(u, w), Checking(u, w), Prices, Caps(u, w))
            BY <3>2, <4>2, AccountsSound
          <5>2. Ledger(Consuming(u, w), Cleared(u, w), Checking(u, w), Prices, Seen, Caps(u, w))
            BY <3>2, <4>2 DEF Accounted
          <5>3. \E b \in Caps(u, w) : Total(Consuming(u, w)) <= b + Room
            BY <2>1, <3>1, <5>1, <5>2, LedgerBounds
          <5> QED BY <5>3
        <4> QED BY <4>1, <4>2
      <3> QED BY <3>1, <3>3 DEF Caps, Room
    <2> QED BY <2>1 DEF OvershootBounded
  <1> QED BY <1>1, BudgetInvariant, PTL

-----------------------------------------------------------------------------
(***************************************************************************)
(* Money rather than rows: what was signed and not written off is in a     *)
(* success row or on its way to one, and the ledger bounds both.           *)
(***************************************************************************)

\* Payments are signed before their rows are written.
Timed ==
  /\ \A p \in signed : p.at <= clock
  /\ \A p \in signed : \A t \in transactions : t.id = p.id => p.at <= t.createdAt

MoneyInv == BudgetInv /\ LossInv /\ Timed

\* A step that signs for nothing and writes no row.
LEMMA TimePasses ==
  ASSUME TypeOK, TypeOK', Timed, signed' = signed, transactions' \subseteq transactions,
         clock <= clock'
  PROVE Timed'
  <1>1. \A p \in signed : p.at \in Int
    BY DEF TypeOK, Payment
  <1>2. clock \in Int /\ clock' \in Int
    BY DEF TypeOK, StoreTypeOK
  <1> QED BY <1>1, <1>2 DEF Timed

\* A payment is signed now, and its exchange has no row yet.
LEMMA SignTimed == ASSUME ExchangeInv, Timed, NEW c \in Conns, Sign(c) PROVE Timed'
  <1>1. InExchange(c) /\ UNCHANGED <<transactions, clock>>
    BY DEF Sign, At, InExchange, storeVars
  <1>2. \A t \in transactions : t.id # conn[c].id
    BY <1>1 DEF ExchangeInv, Stage
  <1>3. \A p \in signed' : p \in signed \/ (p.id = conn[c].id /\ p.at = clock)
    BY DEF Sign
  <1>4. clock \in Int
    BY DEF ExchangeInv, TypeInv, TypeOK, StoreTypeOK
  <1> QED BY <1>1, <1>2, <1>3, <1>4 DEF Timed

\* A row is written now, and what it is a row of was signed earlier.
LEMMA RecordTimed == ASSUME Timed, NEW c \in Conns, Record(c) PROVE Timed'
  <1>1. UNCHANGED <<signed, clock>>
    BY DEF Record, InsertTransaction
  <1>2. \A t \in transactions' : t \in transactions \/ t.createdAt = clock
    BY DEF Record, InsertTransaction
  <1> QED BY <1>1, <1>2 DEF Timed

\* Every step keeps the order of payments and rows.
LEMMA NextTimed == ASSUME ExchangeInv, Timed, [Next]_vars PROVE Timed'
  <1>1. TypeOK /\ TypeOK'
    BY NextType DEF ExchangeInv, TypeInv
  <1>2. clock \in Int
    BY <1>1 DEF TypeOK, StoreTypeOK
  <1>3. ASSUME UNCHANGED <<signed, transactions, clock>> PROVE Timed'
    BY <1>1, <1>2, <1>3, TimePasses
  <1>4. CASE UNCHANGED vars
    BY <1>3, <1>4 DEF vars, storeVars, proxyVars
  <1>5. ASSUME NEW c \in Conns, HandlerStep(c) PROVE Timed'
    <2>1. CASE Sign(c) \/ Record(c)
      BY <2>1, SignTimed, RecordTimed
    <2>2. CASE ~ (Sign(c) \/ Record(c))
      BY <1>3, <1>5, <2>2
      DEF HandlerStep, SkipOption, UseWallet, GiveUp, AssignmentFails, Unassigned,
          ReadAssignment, ListTransactions, CompareBudget, SignFails, RetryFails,
          RecordFails, Conclude, Answer, GoTo, Move, storeVars
    <2> QED BY <2>1, <2>2
  <1>6. ASSUME NEW c \in Conns, ClientStep(c) \/ UpstreamStep(c) PROVE Timed'
    BY <1>3, <1>6
    DEF ClientStep, UpstreamStep, OpenTunnel, CloseTunnel, BeginRequest, PassThrough,
        Challenged, RetryAnswered, Conclude, Answer, Move, storeVars
  <1>7. CASE Crash
    BY <1>3, <1>7 DEF Crash, storeVars
  <1>8. CASE StoreNext
    <2>1. transactions' \subseteq transactions /\ signed' = signed
      BY <1>8, StoreNextRows DEF StoreNext, proxyVars
    <2>2. clock <= clock'
      <3>1. Tick => clock <= clock'
        BY <1>2 DEF Tick
      <3>2. AdminNext => clock' = clock
        BY DEF AdminNext, CreateUser, DeleteUser, CreateWallet, DeleteWallet, Assign,
               UpdateMonthlyBudget, SetLimit, DeleteUserWallet
      <3> QED BY <1>2, <1>8, <3>1, <3>2 DEF StoreNext
    <2> QED BY <1>1, <2>1, <2>2, TimePasses
  <1> QED BY <1>4, <1>5, <1>6, <1>7, <1>8 DEF Next, ProxyNext

\* There are no more payments than exchanges.
LEMMA FinitelySigned == ASSUME ExchangeInv PROVE IsFiniteSet(signed)
  <1> DEFINE f == [p \in signed |-> p.id]
  <1>1. f \in [signed -> 1..exchanges]
    BY DEF ExchangeInv, Numbered
  <1>2. \A p, q \in signed : f[p] = f[q] => p = q
    BY DEF ExchangeInv, Matched
  <1>3. f \in Injection(signed, 1..exchanges)
    BY <1>1, <1>2, Zenon DEF Injection, IsInjective
  <1>4. IsFiniteSet(1..exchanges)
    <2>1. 1 \in Int /\ exchanges \in Int
      BY DEF ExchangeInv, TypeInv, TypeOK
    <2> QED BY <2>1, FS_Interval
  <1> QED BY <1>3, <1>4, FS_Injection

\* Payments that each have a row of their amount among rows sum up to no more.
LEMMA RowsOfPayments ==
  ASSUME NEW S, IsFiniteSet(S), \A p \in S : p.amount \in Nat,
         \A p, q \in S : p.id = q.id => p = q,
         NEW rows, IsFiniteSet(rows), \A t \in rows : t.amount \in Nat,
         \A r, t \in rows : r.id = t.id => r = t,
         \A p \in S : \E t \in rows : t.id = p.id /\ t.amount = p.amount
  PROVE Total(S) <= Total(rows)
  <1> DEFINE Of(s) == {t \in rows : \E p \in s : p.id = t.id}
             Bad == {s \in SUBSET S : Total(s) # Total(Of(s))}
  <1>1. Bad = {}
    <2>1. SUFFICES ASSUME Bad # {} PROVE FALSE
      BY <2>1
    <2>2. PICK m \in Bad : \A t \in Bad : t \subseteq m => t = m
      <3>1. Bad \subseteq SUBSET S
        OBVIOUS
      <3> HIDE DEF Bad
      <3> QED BY <2>1, <3>1, MinimalSubset
    <2>3. m \in SUBSET S /\ Total(m) # Total(Of(m))
      BY <2>2
    <2>4. m # {}
      <3>1. SUFFICES ASSUME m = {} PROVE FALSE
        BY <3>1
      <3>2. Of(m) = m
        BY <3>1
      <3> HIDE DEF Of
      <3> QED BY <2>3, <3>2, Zenon
    <2>5. PICK p \in m : TRUE
      BY <2>4
    <2>6. PICK t \in rows : t.id = p.id /\ t.amount = p.amount
      BY <2>3, <2>5
    <2> DEFINE n == m \ {p}
    <2>7. Of(n) = Of(m) \ {t} /\ t \in Of(m)
      BY <2>3, <2>5, <2>6
    <2>8. Total(n) = Total(Of(n))
      <3>1. n \in SUBSET S /\ n \subseteq m /\ n # m
        BY <2>3, <2>5
      <3> HIDE DEF n, Of
      <3> QED BY <2>2, <3>1
    <2>9. IsFiniteSet(m) /\ \A q \in m : q.amount \in Int
      BY <2>3, FS_Subset
    <2>10. Total(m) = p.amount + Total(m \ {p})
      BY <2>9, TotalWithout
    <2> DEFINE o == Of(m)
    <2>11. IsFiniteSet(o) /\ (\A r \in o : r.amount \in Int) /\ t \in o
      BY <2>7, FS_Subset
    <2> HIDE DEF Of, o, n
    <2>12. Total(o) = t.amount + Total(o \ {t})
      BY <2>11, TotalWithout
    <2>13. Total(o \ {t}) = Total(n)
      BY <2>7, <2>8, Zenon DEF o
    <2>14. Total(m) = Total(o)
      <3>1. Total(m \ {p}) = Total(n)
        BY Zenon DEF n
      <3> QED BY <2>6, <2>10, <2>12, <2>13, <3>1
    <2> QED BY <2>3, <2>14, Zenon DEF o
  <1>2. Total(S) = Total(Of(S))
    BY <1>1
  <1> DEFINE part == Of(S)
  <1>3. part \in SUBSET rows
    OBVIOUS
  <1> HIDE DEF part
  <1>4. Total(part) <= Total(rows)
    BY <1>3, TotalGrows
  <1>5. Total(part) = Total(S)
    BY <1>2, Zenon DEF part
  <1> QED BY <1>4, <1>5

\* Payments that are each in the hands of a connection of their own among C sum
\* up to no more than these may add.
LEMMA HandsOfConnections ==
  ASSUME NEW S, IsFiniteSet(S), \A p \in S : p.amount \in 0..MaxAmount,
         \A p, q \in S : p.id = q.id => p = q,
         NEW C \in SUBSET Conns, \A p \in S : \E c \in C : conn[c].id = p.id
  PROVE Total(S) <= Due(C)
  <1> DEFINE Hands(s) == {c \in C : \E p \in s : conn[c].id = p.id}
             Bad == {s \in SUBSET S : ~ (Total(s) <= Due(Hands(s)))}
  <1>1. Bad = {}
    <2>1. SUFFICES ASSUME Bad # {} PROVE FALSE
      BY <2>1
    <2>2. PICK m \in Bad : \A t \in Bad : t \subseteq m => t = m
      <3>1. Bad \subseteq SUBSET S
        OBVIOUS
      <3> HIDE DEF Bad
      <3> QED BY <2>1, <3>1, MinimalSubset
    <2> DEFINE H == Hands(m)
    <2>3. m \in SUBSET S /\ ~ (Total(m) <= Due(H)) /\ H \in SUBSET Conns
      BY <2>2
    <2>4. m # {}
      <3>1. SUFFICES ASSUME m = {} PROVE FALSE
        BY <3>1
      <3>2. Total(m) = 0
        BY <3>1, TotalStep, FS_EmptySet
      <3>3. Due(H) \in Nat
        <4> HIDE DEF H
        <4> QED BY <2>3, DueGrows
      <3> HIDE DEF H
      <3> QED BY <2>3, <3>2, <3>3
    <2>5. PICK p \in m : TRUE
      BY <2>4
    <2>6. PICK c \in C : conn[c].id = p.id
      BY <2>3, <2>5
    <2> DEFINE n == m \ {p}
               G == Hands(n)
    <2>7. c \in H /\ G \in SUBSET (H \ {c})
      BY <2>3, <2>5, <2>6
    <2>8. Total(n) <= Due(G)
      <3>1. n \in SUBSET S /\ n \subseteq m /\ n # m
        BY <2>3, <2>5
      <3>2. n \notin Bad
        <4> HIDE DEF n, Bad
        <4> QED BY <2>2, <3>1
      <3> QED BY <3>1, <3>2
    <2>9. /\ IsFiniteSet(m) /\ IsFiniteSet(n)
          /\ (\A q \in m : q.amount \in Int) /\ (\A q \in n : q.amount \in Int)
      BY <2>3, PayProxyAssumption, FS_Subset
    <2>10. p.amount \in 0..MaxAmount /\ MaxAmount \in Nat
      BY <2>3, PayProxyAssumption
    <2> HIDE DEF n, G, H, Hands, Bad
    <2>11. Total(m) = p.amount + Total(n)
      <3>1. Total(m) = p.amount + Total(m \ {p})
        BY <2>9, TotalWithout
      <3> QED BY <3>1, Zenon DEF n
    <2>12. Due(H \ {c}) \in Nat /\ Due(H) \in Nat /\ Due(H \ {c}) + MaxAmount = Due(H)
      BY <2>3, <2>7, DueLess
    <2>13. Due(G) \in Nat /\ Due(G) <= Due(H \ {c})
      <3>1. H \ {c} \in SUBSET Conns
        BY <2>3
      <3> QED BY <2>7, <3>1, DueGrows
    <2>14. Total(n) \in Int
      BY <2>9, TotalInt
    <2> QED BY <2>3, <2>8, <2>10, <2>11, <2>12, <2>13, <2>14
  <1>2. Total(S) <= Due(Hands(S))
    BY <1>1
  <1> DEFINE H == Hands(S)
  <1>3. H \in SUBSET C
    OBVIOUS
  <1> HIDE DEF H
  <1>4. Due(H) \in Nat /\ Due(C) \in Nat /\ Due(H) <= Due(C)
    BY <1>3, DueGrows
  <1>5. Total(S) <= Due(H)
    BY <1>2, Zenon DEF H
  <1>6. Total(S) \in Int
    <2>1. \A p \in S : p.amount \in Int
      BY PayProxyAssumption
    <2> QED BY <2>1, TotalInt
  <1> QED BY <1>4, <1>5, <1>6

\* Payments of this month that were signed for u and w and not written off, and
\* those of them without a row yet.
Kept(u, w) == {p \in signed : /\ p.user = u /\ p.wallet = w /\ p.at >= StartOfMonth
                              /\ ~ WrittenOff(p)}
Under(u, w) == {p \in Kept(u, w) : \A t \in transactions : t.id # p.id}

\* What is kept has its row among those that consume, ...
LEMMA KeptRow ==
  ASSUME MoneyInv, NEW u, NEW w, NEW p \in Kept(u, w) \ Under(u, w)
  PROVE \E t \in Consuming(u, w) : t.id = p.id /\ t.amount = p.amount
  <1>1. p \in signed /\ p.user = u /\ p.wallet = w /\ p.at >= StartOfMonth /\ ~ WrittenOff(p)
    BY DEF Kept
  <1>2. PICK t \in transactions : t.id = p.id
    BY DEF Under
  <1>3. t.status = "success"
    BY <1>1, <1>2 DEF WrittenOff
  <1>4. t.user = u /\ t.wallet = w /\ t.amount = p.amount
    BY <1>1, <1>2 DEF MoneyInv, LossInv, ExchangeInv, Matched
  <1>5. t.createdAt >= StartOfMonth
    <2>1. p.at <= t.createdAt
      BY <1>1, <1>2 DEF MoneyInv, Timed
    <2>2. p.at \in Int /\ t.createdAt \in Int
      BY <1>1 DEF MoneyInv, LossInv, ExchangeInv, TypeInv, TypeOK, StoreTypeOK, Payment, Row
    <2>3. StartOfMonth \in Int
      <3>1. clock \in Int /\ MonthLength \in Nat \ {0}
        BY StoreAssumption DEF MoneyInv, LossInv, ExchangeInv, TypeInv, TypeOK, StoreTypeOK
      <3>2. \A i \in Int, m \in Nat \ {0} : (i \div m) * m \in Int
        OBVIOUS
      <3> QED BY <3>1, <3>2 DEF StartOfMonth
    <2> QED BY <1>1, <2>1, <2>2, <2>3
  <1> QED BY <1>2, <1>3, <1>4, <1>5 DEF Consuming, Counted, ListTransactionsByUser

\* ... or is in the hands of a connection that was cleared for it.
LEMMA KeptUnderWay ==
  ASSUME MoneyInv, NEW u, NEW w, ParentsExist(u, w), NEW p \in Under(u, w)
  PROVE \E c \in Cleared(u, w) : conn[c].id = p.id /\ Prices[c] = p.amount
  <1>1. p \in signed /\ p.user = u /\ p.wallet = w /\ ~ WrittenOff(p)
    BY DEF Under, Kept
  <1>2. PICK c \in Conns : conn[c].id = p.id /\ conn[c].pc \in {"retry", "record"}
    <2>1. p.id \notin lost
      BY <1>1 DEF WrittenOff
    <2>2. \A t \in transactions : t.id # p.id
      BY DEF Under
    <2>3. ForeignKeys => p.user \in DOMAIN proxyUsers /\ p.wallet \in DOMAIN wallets
      BY <1>1 DEF ParentsExist
    <2> QED BY <1>1, <2>1, <2>2, <2>3 DEF MoneyInv, LossInv, NoSilentLoss
  <1>3. Outcome(conn[c])
    BY <1>1, <1>2 DEF WrittenOff, At, Outcome
  <1>4. Exact(conn[c])
    BY <1>3 DEF MoneyInv, BudgetInv, Funded, Backing
  <1>5. /\ p.user = conn[c].user /\ p.wallet = conn[c].wallet
        /\ p.amount = Head(conn[c].offer).amount
    BY <1>1, <1>2 DEF MoneyInv, LossInv, ExchangeInv, Stage, InExchange, Option1
  <1> QED BY <1>1, <1>2, <1>3, <1>4, <1>5 DEF Cleared, IsCleared, Prices, Price

\* Hence rows and cleared connections have room for all that is kept.
LEMMA KeptTotal ==
  ASSUME MoneyInv, NEW u \in UserIds, NEW w \in WalletIds, ParentsExist(u, w),
         Unlimited \notin Caps(u, w), Total(Kept(u, w)) # 0
  PROVE \E b \in Caps(u, w) : Total(Kept(u, w)) <= b + Room
  <1> DEFINE kept == Kept(u, w)
             under == Under(u, w)
             done == kept \ under
             rows == Consuming(u, w)
             cleared == Cleared(u, w)
  <1>1. Sound(rows, cleared, Checking(u, w), Prices, Caps(u, w))
    BY AccountsSound DEF MoneyInv, BudgetInv
  <1>2. PICK P \in SUBSET Conns : Bounded(rows, cleared, Prices, Caps(u, w), P)
    <2>1. Ledger(rows, cleared, Checking(u, w), Prices, Seen, Caps(u, w))
      BY DEF MoneyInv, BudgetInv, AllAccounted, Accounted
    <2> HIDE DEF rows, cleared
    <2> QED BY <2>1 DEF Ledger
  <1>3. /\ \A p \in done : \E t \in rows : t.id = p.id /\ t.amount = p.amount
        /\ \A p \in under : \E c \in cleared : conn[c].id = p.id /\ Prices[c] = p.amount
    BY KeptRow, KeptUnderWay
  <1>4. /\ kept \subseteq signed /\ under \subseteq kept
        /\ rows \subseteq transactions
    BY DEF Kept, Under, Consuming, Counted, ListTransactionsByUser
  <1>5. /\ \A p, q \in signed : p.id = q.id => p = q
        /\ \A r, t \in transactions : r.id = t.id => r = t
        /\ \A p \in signed : p.amount \in Nat
    BY DEF MoneyInv, LossInv, ExchangeInv, Matched, TypeInv, TypeOK, Payment
  <1>6. IsFiniteSet(signed)
    BY FinitelySigned DEF MoneyInv, LossInv
  <1>7. \A c, d \in cleared : conn[c].id = conn[d].id => c = d
    BY DEF MoneyInv, LossInv, ExchangeInv, Numbered, InExchange, Cleared, IsCleared, Outcome
  <1> HIDE DEF kept, under, rows, cleared
  <1>8. IsFiniteSet(kept) /\ IsFiniteSet(under) /\ IsFiniteSet(done)
    BY <1>4, <1>6, FS_Subset
  <1>9. Total(kept) = Total(under) + Total(done)
    <2>1. Total(kept) = Total(kept \cap under) + Total(kept \ under)
      <3>1. \A p \in kept : p.amount \in Int
        BY <1>4, <1>5
      <3> QED BY <1>8, <3>1, TotalSplit
    <2>2. kept \cap under = under
      BY <1>4
    <2>3. Total(kept \cap under) = Total(under)
      BY <2>2, Zenon
    <2> QED BY <2>1, <2>3
  <1>10. Total(done) <= Total(rows)
    <2>1. IsFiniteSet(rows) /\ \A t \in rows : t.amount \in Nat
      BY <1>1 DEF Sound
    <2>2. /\ \A p \in done : p.amount \in Nat
          /\ \A p, q \in done : p.id = q.id => p = q
          /\ \A r, t \in rows : r.id = t.id => r = t
      BY <1>4, <1>5
    <2> HIDE DEF done
    <2> QED BY <1>3, <1>8, <2>1, <2>2, RowsOfPayments
  <1>11. Total(done) \in Nat /\ Total(under) \in Nat /\ Total(rows) \in Nat
    <2>1. /\ \A p \in done : p.amount \in Nat
          /\ \A p \in under : p.amount \in Nat
      BY <1>4, <1>5
    <2>2. IsFiniteSet(rows) /\ \A t \in rows : t.amount \in Nat
      BY <1>1 DEF Sound
    <2> HIDE DEF done
    <2> QED BY <1>8, <2>1, <2>2, TotalNat
  <1>12. Total(kept) # 0
    BY DEF kept
  <1>13. \A c \in cleared : c \in Conns /\ Prices[c] \in 0..MaxAmount
    BY <1>1 DEF Sound
  <1>14. /\ \A p \in under : p.amount \in 0..MaxAmount
         /\ \A p, q \in under : p.id = q.id => p = q
    BY <1>3, <1>4, <1>5, <1>13
  <1>15. CASE Untouched(rows, cleared, P)
    <2>1. under = {}
      BY <1>3, <1>15 DEF Untouched
    <2>2. Total(under) = 0
      BY <2>1, TotalStep, FS_EmptySet
    <2> HIDE DEF done
    <2> QED BY <1>9, <1>10, <1>11, <1>12, <1>15, <2>2 DEF Untouched
  <1>16. ASSUME NEW b \in Caps(u, w), Covered(rows, cleared, Prices, P, b)
         PROVE Total(kept) <= b + Room
    <2>1. b \in Int /\ Room \in Int /\ Due(P) \in Nat
      BY <1>1, RoomType, DueGrows DEF Sound
    <2>2. CASE cleared \subseteq P
      <3>1. \A p \in under : \E c \in P : conn[c].id = p.id
        BY <1>3, <2>2
      <3>2. Total(under) <= Due(P)
        BY <1>8, <1>14, <3>1, HandsOfConnections
      <3> HIDE DEF done
      <3> QED BY <1>9, <1>10, <1>11, <1>16, <2>1, <3>2 DEF Covered
    <2>3. CASE ~ (cleared \subseteq P)
      <3>1. PICK c \in cleared \ P : TRUE
        BY <2>3
      <3>2. \A d \in cleared : d = c \/ d \in P
        BY <1>16, <3>1 DEF Covered
      <3> DEFINE last == {p \in under : conn[c].id = p.id}
                 rest == under \ last
      <3>3. \A p \in rest : \E d \in P : conn[d].id = p.id
        BY <1>3, <3>2
      <3>4. \A p \in last : p.amount = Prices[c]
        BY <1>3, <3>1, <1>7
      <3>5. IsFiniteSet(last) /\ IsFiniteSet(rest)
        BY <1>8, FS_Subset
      <3>6. Total(rest) <= Due(P)
        <4>1. /\ \A p \in rest : p.amount \in 0..MaxAmount
              /\ \A p, q \in rest : p.id = q.id => p = q
          BY <1>14
        <4> HIDE DEF rest
        <4> QED BY <3>3, <3>5, <4>1, HandsOfConnections
      <3>7. Total(last) <= Prices[c] /\ Total(last) \in Nat
        <4>1. CASE last = {}
          <5>1. Total(last) = 0
            BY <4>1, TotalStep, FS_EmptySet
          <5> HIDE DEF last
          <5> QED BY <1>13, <3>1, <5>1, PayProxyAssumption
        <4>2. CASE last # {}
          <5>1. PICK p \in last : TRUE
            BY <4>2
          <5>2. last \ {p} = {} /\ (\A q \in last : q.amount \in Int) /\ p.amount \in Nat
            BY <1>14, <5>1, PayProxyAssumption
          <5>3. p.amount = Prices[c]
            BY <3>4, <5>1
          <5> HIDE DEF last
          <5>4. Total(last) = p.amount + Total(last \ {p})
            BY <3>5, <5>1, <5>2, TotalWithout
          <5>5. Total(last \ {p}) = 0
            BY <5>2, TotalStep, FS_EmptySet
          <5> QED BY <5>2, <5>3, <5>4, <5>5
        <4> QED BY <4>1, <4>2
      <3>8. Total(under) = Total(last) + Total(rest)
        <4>1. Total(under) = Total(under \cap last) + Total(under \ last)
          <5>1. \A p \in under : p.amount \in Int
            BY <1>14, PayProxyAssumption
          <5> HIDE DEF last
          <5> QED BY <1>8, <5>1, TotalSplit
        <4>2. under \cap last = last
          OBVIOUS
        <4>3. Total(under \cap last) = Total(last)
          BY <4>2, Zenon
        <4> HIDE DEF last
        <4> QED BY <4>1, <4>3
      <3>9. Total(rest) \in Nat
        <4>1. \A p \in rest : p.amount \in Nat
          BY <1>14, PayProxyAssumption
        <4> HIDE DEF rest
        <4> QED BY <3>5, <4>1, TotalNat
      <3>10. Total(rows) + Prices[c] + Due(P) <= b + Room /\ Prices[c] \in Nat
        BY <1>13, <1>16, <3>1, PayProxyAssumption DEF Covered
      <3> HIDE DEF done, last, rest
      <3> QED BY <1>9, <1>10, <1>11, <2>1, <3>6, <3>7, <3>8, <3>9, <3>10
    <2> QED BY <2>2, <2>3
  <1> QED BY <1>2, <1>15, <1>16 DEF Bounded, kept

\* The invariants together.
LEMMA MoneyInvariant == Spec => []MoneyInv
  <1>1. Init => MoneyInv
    <2>1. Init => LossInv
      BY InitType, InitExchange, InitLoss DEF LossInv, ExchangeInv
    <2>2. Init => Timed
      BY DEF Init, Timed
    <2> QED BY <2>1, <2>2, InitBudget DEF MoneyInv
  <1>2. MoneyInv /\ [Next]_vars => MoneyInv'
    BY NextBudget, NextLoss, NextTimed DEF MoneyInv, LossInv
  <1> QED BY <1>1, <1>2, PTL DEF Spec

\* Of the money signed for in a month, whether its row is written or not and
\* whatever settles of it, what exceeds a budget and one largest payment per
\* other connection was written off by the proxy itself.
THEOREM OverspendExplained == Spec => []OverspendWrittenOff
  <1>1. ASSUME MoneyInv PROVE OverspendWrittenOff
    <2>1. ASSUME NEW u \in UserIds, NEW w \in WalletIds, ParentsExist(u, w),
                 Total(Kept(u, w)) # 0
          PROVE \E g \in grants :
                  /\ g.user = u /\ g.wallet = w
                  /\ \/ g.budget = Unlimited
                     \/ Total(Kept(u, w)) <= g.budget + Room
      <3>1. \E b \in Caps(u, w) : b = Unlimited \/ Total(Kept(u, w)) <= b + Room
        BY <1>1, <2>1, KeptTotal
      <3> QED BY <3>1 DEF Caps
    <2> QED BY <2>1 DEF OverspendWrittenOff, Kept, Total, Room
  <1> QED BY <1>1, MoneyInvariant, PTL

-----------------------------------------------------------------------------
(***************************************************************************)
(* Withdrawals: a request relies on an assignment that stood while it was  *)
(* served.  From its reading to its comparison the request holds what it   *)
(* read; the comparison leaves an assignment that allows the price.        *)
(***************************************************************************)

\* What a request relies on is among the assignments that it may have found.
Reliant(r, found) ==
  /\ r.pc \in {"list", "compare"} =>
       [user |-> r.user, wallet |-> r.wallet, budget |-> r.budget] \in found
  /\ r.pc = "sign" /\ Exact(r) =>
       \E g \in found : /\ g.user = r.user /\ g.wallet = r.wallet
                        /\ g.budget = Unlimited \/ Price(r) <= g.budget

StandInv == \A c \in Conns : Reliant(conn[c], stood[c].assignments)

\* What was found stays found, while the request is not paid for.
LEMMA Remembered ==
  ASSUME Watch, NEW c \in Conns, conn'[c].pc \in {"list", "compare", "sign"}
  PROVE /\ stood[c].assignments \subseteq stood'[c].assignments
        /\ InTables(conn[c].user)'.assignments \subseteq stood'[c].assignments
  <1>1. Unpaid(c)'
    BY DEF Unpaid
  <1> DEFINE now == InTables(conn[c].user)'
  <1>2. stood'[c] = [users |-> stood[c].users \cup now.users,
                     assignments |-> stood[c].assignments \cup now.assignments]
    BY <1>1 DEF Watch
  <1> HIDE DEF now
  <1>3. stood'[c].assignments = stood[c].assignments \cup now.assignments
    BY <1>2
  <1> QED BY <1>3 DEF now

\* The comparison is passed by prices within the budget that was read.
LEMMA WithinLimit ==
  ASSUME BudgetInv, NEW c \in Conns, At(c, "compare"), ~ OverBudget(c)
  PROVE Price(conn[c]) <= conn[c].budget
  <1> DEFINE used  == CurrentMonthConsumption(conn[c].listed, conn[c].wallet)
             price == Price(conn[c])
             limit == conn[c].budget
  <1>1. limit \in Int
    <2>1. limit \in Caps(conn[c].user, conn[c].wallet) /\ limit # Unlimited
      BY DEF At, BudgetInv, Funded, Backing
    <2> QED BY <2>1, CapsType DEF BudgetInv, ExchangeInv
  <1>2. price \in Int /\ used \in Nat
    BY PriceType, ListedConsumption DEF At, BudgetInv, ExchangeInv
  <1>3. ~ (used + price > limit)
    BY DEF OverBudget, Option1, Price
  <1> HIDE DEF used, price, limit
  <1>4. price <= limit
    BY <1>1, <1>2, <1>3
  <1> QED BY <1>4 DEF price, limit

\* The three queries and the comparison are the only way to a signature.
LEMMA OnlyWay ==
  ASSUME TypeInv, [Next]_vars, NEW c \in Conns,
         conn'[c].pc \in {"list", "compare", "sign"}
  PROVE conn'[c] = conn[c] \/ ReadAssignment(c) \/ ListTransactions(c) \/ CompareBudget(c)
  <1>1. conn \in [Conns -> Connection] /\ conn[c] \in Connection
    BY ConnType DEF TypeInv, TypeOK
  <1>2. ASSUME NEW r, conn' = [conn EXCEPT ![c] = r] PROVE conn'[c] = r
    BY <1>1, <1>2
  <1>3. ASSUME NEW d \in Conns, HandlerStep(d) \/ ClientStep(d) \/ UpstreamStep(d), d # c
        PROVE conn'[c] = conn[c]
    BY <1>3, Elsewhere
  <1>4. ASSUME NEW status, Conclude(c, status) PROVE FALSE
    <2> DEFINE r == [conn[c] EXCEPT !.pc = "record", !.status = status]
    <2>1. r.pc = "record" /\ conn' = [conn EXCEPT ![c] = r]
      BY <1>1, <1>4 DEF Conclude, Move, Connection
    <2> HIDE DEF r
    <2> QED BY <1>2, <2>1
  <1>5. ASSUME NEW tunnel, conn' = [conn EXCEPT ![c] = Fresh(tunnel)] PROVE FALSE
    <2>1. Fresh(tunnel).pc = "idle"
      BY DEF Fresh
    <2> QED BY <1>2, <1>5, <2>1
  <1>6. ASSUME HandlerStep(c)
        PROVE ReadAssignment(c) \/ ListTransactions(c) \/ CompareBudget(c)
    <2>1. ASSUME SkipOption(c) PROVE FALSE
      <3> DEFINE r == [conn[c] EXCEPT !.offer = Tail(conn[c].offer)]
      <3>1. r.pc = "select" /\ conn' = [conn EXCEPT ![c] = r]
        BY <1>1, <2>1 DEF SkipOption, At, Move, Connection
      <3> HIDE DEF r
      <3> QED BY <1>2, <3>1
    <2>2. ASSUME NEW w \in WalletIds, UseWallet(c, w) PROVE FALSE
      <3> DEFINE r == [conn[c] EXCEPT !.pc = "assign", !.wallet = w]
      <3>1. r.pc = "assign" /\ conn' = [conn EXCEPT ![c] = r]
        BY <1>1, <2>2 DEF UseWallet, Move, Connection
      <3> HIDE DEF r
      <3> QED BY <1>2, <3>1
    <2>3. ASSUME Sign(c) PROVE FALSE
      <3> DEFINE r == [conn[c] EXCEPT !.pc = "retry"]
      <3>1. r.pc = "retry" /\ conn' = [conn EXCEPT ![c] = r]
        BY <1>1, <2>3 DEF Sign, Connection
      <3> HIDE DEF r
      <3> QED BY <1>2, <3>1
    <2>4. ~ GiveUp(c) /\ ~ Record(c) /\ ~ RecordFails(c)
      BY <1>5 DEF GiveUp, Answer, Move, Record, RecordFails
    <2>5. ~ AssignmentFails(c) /\ ~ Unassigned(c) /\ ~ SignFails(c) /\ ~ RetryFails(c)
      BY <1>4 DEF AssignmentFails, Unassigned, SignFails, RetryFails
    <2> QED BY <1>6, <2>1, <2>2, <2>3, <2>4, <2>5 DEF HandlerStep
  <1>7. ~ ClientStep(c)
    <2>1. ASSUME NEW u, NEW body, BeginRequest(c, u, body) PROVE FALSE
      <3> DEFINE r == [conn[c] EXCEPT !.pc = "upstream", !.user = u, !.body = body]
      <3>1. r.pc = "upstream" /\ conn' = [conn EXCEPT ![c] = r]
        BY <1>1, <2>1 DEF BeginRequest, Move, Connection
      <3> HIDE DEF r
      <3> QED BY <1>2, <3>1
    <2> QED BY <1>5, <2>1 DEF ClientStep, OpenTunnel, CloseTunnel, Move
  <1>8. ~ UpstreamStep(c)
    <2>1. ASSUME NEW offer \in Offers, Challenged(c, offer) PROVE FALSE
      <3> DEFINE r == [conn[c] EXCEPT !.pc = "select", !.offer = offer,
                                      !.id = exchanges + 1, !.body = Spent(@)]
      <3>1. r.pc = "select" /\ conn' = [conn EXCEPT ![c] = r]
        BY <1>1, <2>1 DEF Challenged, Connection
      <3> HIDE DEF r
      <3> QED BY <1>2, <3>1
    <2> QED BY <1>4, <1>5, <2>1 DEF UpstreamStep, PassThrough, RetryAnswered, Answer, Move
  <1>9. ~ Crash
    BY DEF Crash, Fresh
  <1>10. CASE StoreNext \/ UNCHANGED vars
    BY <1>10 DEF StoreNext, proxyVars, vars
  <1> QED BY <1>3, <1>6, <1>7, <1>8, <1>9, <1>10 DEF Next, ProxyNext

\* A step of the watched proxy keeps what requests rely on.
LEMMA NextStands ==
  ASSUME BudgetInv, StandInv, [Next]_vars, Watch
  PROVE StandInv'
  <1> SUFFICES ASSUME NEW c \in Conns, conn'[c].pc \in {"list", "compare", "sign"}
               PROVE Reliant(conn[c], stood[c].assignments)'
    BY Zenon DEF StandInv, Reliant
  <1>1. /\ stood[c].assignments \subseteq stood'[c].assignments
        /\ InTables(conn[c].user)'.assignments \subseteq stood'[c].assignments
    BY Remembered
  <1>2. /\ Reliant(conn[c], stood[c].assignments)
        /\ conn \in [Conns -> Connection] /\ conn[c] \in Connection
    BY ConnType DEF StandInv, BudgetInv, ExchangeInv, TypeInv, TypeOK
  <1>3. ASSUME NEW r, Move(c, r) PROVE conn'[c] = r
    BY <1>2, <1>3 DEF Move
  <1> DEFINE read(r) == [user |-> r.user, wallet |-> r.wallet, budget |-> r.budget]
  <1>4. CASE conn'[c] = conn[c]
    BY <1>1, <1>2, <1>4 DEF Reliant, Exact, Price
  <1>5. CASE ReadAssignment(c)
    <2> DEFINE g == [user |-> conn[c].user, wallet |-> conn[c].wallet,
                     budget |-> userWallet[Pair(c)]]
    <2>1. Pair(c) \in DOMAIN userWallet /\ UNCHANGED userWallet
      BY <1>5 DEF ReadAssignment, GoTo, Move, storeVars
    <2>2. ASSUME conn'[c].user = conn[c].user PROVE g \in stood'[c].assignments
      <3>1. g \in InTables(conn[c].user)'.assignments
        BY <2>1, <2>2 DEF InTables, Pair
      <3> QED BY <1>1, <3>1
    <2>3. CASE userWallet[Pair(c)] = Unlimited /\ GoTo(c, "sign")
      <3> DEFINE r == [conn[c] EXCEPT !.pc = "sign"]
      <3>1. /\ r.pc = "sign" /\ r.user = conn[c].user /\ r.wallet = conn[c].wallet
            /\ Move(c, r)
        BY <1>2, <2>3 DEF GoTo, Connection
      <3>2. g.user = conn[c].user /\ g.wallet = conn[c].wallet /\ g.budget = Unlimited
        BY <2>3
      <3> HIDE DEF g, r
      <3>3. conn'[c] = r
        BY <1>3, <3>1
      <3> QED BY <2>2, <3>1, <3>2, <3>3 DEF Reliant
    <2>4. CASE Move(c, [conn[c] EXCEPT !.pc = "list", !.budget = userWallet[Pair(c)]])
      <3> DEFINE r == [conn[c] EXCEPT !.pc = "list", !.budget = userWallet[Pair(c)]]
      <3>1. r.pc = "list" /\ r.user = conn[c].user /\ read(r) = g /\ Move(c, r)
        BY <1>2, <2>4 DEF Connection
      <3> HIDE DEF g, r
      <3>2. conn'[c] = r
        BY <1>3, <3>1
      <3> QED BY <2>2, <3>1, <3>2 DEF Reliant
    <2> QED BY <1>5, <2>3, <2>4 DEF ReadAssignment
  <1>6. CASE ListTransactions(c)
    <2> DEFINE r == [conn[c] EXCEPT !.pc = "compare",
                                    !.listed = ListTransactionsByUser(conn[c].user)]
               q == [conn[c] EXCEPT !.pc = "record", !.status = "failed_unknown"]
    <2>1. /\ conn[c].pc = "list" /\ r.pc = "compare" /\ q.pc = "record"
          /\ read(r) = read(conn[c]) /\ (Move(c, r) \/ Move(c, q))
      BY <1>2, <1>6 DEF ListTransactions, Conclude, At, Connection
    <2>2. read(conn[c]) \in stood'[c].assignments
      BY <1>1, <1>2, <2>1 DEF Reliant
    <2> HIDE DEF r, q
    <2>3. conn'[c] = r
      BY <1>3, <2>1
    <2> QED BY <2>1, <2>2, <2>3 DEF Reliant
  <1>7. CASE CompareBudget(c)
    <2> DEFINE r == [conn[c] EXCEPT !.pc = "sign", !.listed = {}]
               q == [conn[c] EXCEPT !.pc = "record", !.status = "budget_exceeded",
                                    !.listed = {}]
    <2>1. conn[c].pc = "compare" /\ ~ OverBudget(c) /\ Move(c, r)
      <3>1. conn[c].pc = "compare" /\ q.pc = "record"
        BY <1>2, <1>7 DEF CompareBudget, At, Connection
      <3>2. OverBudget(c) => Move(c, q)
        BY <1>7 DEF CompareBudget
      <3>3. ~ OverBudget(c) => Move(c, r)
        BY <1>7 DEF CompareBudget
      <3> HIDE DEF q, r
      <3> QED BY <1>3, <3>1, <3>2, <3>3
    <2>2. /\ r.pc = "sign" /\ r.user = conn[c].user
          /\ r.wallet = conn[c].wallet /\ r.offer = conn[c].offer
      BY <1>2 DEF Connection
    <2> HIDE DEF r
    <2>3. conn'[c] = r
      BY <1>3, <2>1
    <2>4. Price(conn[c]) <= conn[c].budget
      BY <2>1, WithinLimit DEF At
    <2>5. read(conn[c]) \in stood'[c].assignments
      BY <1>1, <1>2, <2>1 DEF Reliant
    <2> DEFINE g == read(conn[c])
    <2>6. g.user = r.user /\ g.wallet = r.wallet /\ Price(r) <= g.budget
      BY <2>2, <2>4 DEF Price
    <2> HIDE DEF g
    <2>7. g \in stood'[c].assignments
      BY <2>5 DEF g
    <2>8. \E h \in stood'[c].assignments : /\ h.user = conn'[c].user /\ h.wallet = conn'[c].wallet
                                           /\ Price(conn'[c]) <= h.budget
      BY <2>6, <2>3, <2>7, Zenon
    <2> QED BY <2>2, <2>3, <2>8 DEF Reliant, Price
  <1> QED BY <1>4, <1>5, <1>6, <1>7, OnlyWay DEF BudgetInv, ExchangeInv

\* What is signed is allowed by what the request relies on.
LEMMA SignsAllowed ==
  ASSUME BudgetInv, StandInv, [Next]_vars, NEW p \in signed' \ signed
  PROVE \E c \in Conns :
          conn[c].id = p.id /\ \E g \in stood[c].assignments : Allows(g, p)
  <1>1. signed' = signed \/ \E c \in Conns : Sign(c)
    BY NextSigns DEF vars, proxyVars
  <1>2. PICK c \in Conns : Sign(c)
    BY <1>1
  <1>3. /\ p.id = conn[c].id /\ p.user = conn[c].user /\ p.wallet = conn[c].wallet
        /\ p.amount = Price(conn[c]) /\ conn[c].pc = "sign" /\ Exact(conn[c])
    BY <1>2 DEF Sign, At, Option1, Price, Exact
  <1>4. PICK g \in stood[c].assignments :
          /\ g.user = conn[c].user /\ g.wallet = conn[c].wallet
          /\ g.budget = Unlimited \/ Price(conn[c]) <= g.budget
    BY <1>3 DEF StandInv, Reliant
  <1> QED BY <1>3, <1>4 DEF Allows

\* A lowered budget or a withdrawn assignment reaches every request that begins
\* later: what is signed was allowed by an assignment that stood while its own
\* request was served, for any number of connections and administrators' steps.
THEOREM WithdrawalsHonoured == WatchedSpec => WithdrawnAtOnce
  <1>1. WatchedInit => BudgetInv /\ StandInv
    <2>1. Init => \A c \in Conns : conn[c].pc = "idle"
      BY DEF Init, Fresh
    <2> QED BY <2>1, InitBudget DEF WatchedInit, StandInv, Reliant
  <1>2. [WatchedNext]_watchedVars => [Next]_vars /\ (Watch \/ UNCHANGED watchedVars)
    BY DEF WatchedNext, watchedVars
  <1>3. ASSUME StandInv, UNCHANGED watchedVars PROVE StandInv'
    BY <1>3 DEF watchedVars, vars, proxyVars, StandInv, Reliant, Exact, Price
  <1>4. BudgetInv /\ StandInv /\ [WatchedNext]_watchedVars => BudgetInv' /\ StandInv'
    BY <1>2, <1>3, NextBudget, NextStands
  <1>5. BudgetInv /\ StandInv /\ [WatchedNext]_watchedVars =>
          [\A p \in signed' \ signed : \E c \in Conns :
             conn[c].id = p.id /\ \E g \in stood[c].assignments : Allows(g, p)]_watchedVars
    BY <1>2, SignsAllowed
  <1> QED BY <1>1, <1>4, <1>5, PTL DEF WatchedSpec, WithdrawnAtOnce
=============================================================================
