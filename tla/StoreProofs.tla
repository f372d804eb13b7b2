----------------------------- MODULE StoreProofs -----------------------------
(* Types of the tables, for every administrator and every size of the        *)
(* tables, and sums of the amounts of rows.                                  *)
EXTENDS Store, LeastElements

\* Put stays inside the types it is given.
LEMMA PutType ==
  ASSUME NEW f, NEW k, NEW v, NEW S, NEW T,
         DOMAIN f \subseteq S, f \in [DOMAIN f -> T], k \in S, v \in T
  PROVE /\ DOMAIN Put(f, k, v) = DOMAIN f \cup {k}
        /\ DOMAIN Put(f, k, v) \subseteq S
        /\ Put(f, k, v) \in [DOMAIN Put(f, k, v) -> T]
  BY DEF Put

\* Drop removes keys and nothing else.
LEMMA DropType ==
  ASSUME NEW f, NEW K, NEW S, NEW T, DOMAIN f \subseteq S, f \in [DOMAIN f -> T]
  PROVE /\ DOMAIN Drop(f, K) = DOMAIN f \ K
        /\ DOMAIN Drop(f, K) \subseteq S
        /\ Drop(f, K) \in [DOMAIN Drop(f, K) -> T]
  BY DEF Drop, Restrict

\* An empty table has every type.
LEMMA EmptyTable ==
  ASSUME NEW S, NEW T
  PROVE DOMAIN <<>> \subseteq S /\ <<>> \in [DOMAIN <<>> -> T]
  OBVIOUS

\* The empty tables are well typed.
LEMMA StoreInitOK == StoreInit => StoreTypeOK
  BY StoreAssumption, EmptyTable DEF StoreInit, StoreTypeOK

\* A cascade keeps the types of what it deletes from.
LEMMA CascadeType ==
  ASSUME StoreTypeOK, NEW users, NEW ws, Cascade(users, ws)
  PROVE /\ DOMAIN userWallet' \subseteq UserIds \X WalletIds
        /\ userWallet' \in [DOMAIN userWallet' -> Limits]
        /\ transactions' \subseteq Row
  <1> DEFINE K == {p \in DOMAIN userWallet : p[1] \in users \/ p[2] \in ws}
  <1>1. CASE ForeignKeys
    <2>1. userWallet' = Drop(userWallet, K) /\ transactions' \subseteq transactions
      BY <1>1 DEF Cascade
    <2>2. /\ DOMAIN userWallet \subseteq UserIds \X WalletIds
          /\ userWallet \in [DOMAIN userWallet -> Limits]
      BY DEF StoreTypeOK
    <2> HIDE DEF K
    <2>3. /\ DOMAIN Drop(userWallet, K) \subseteq UserIds \X WalletIds
          /\ Drop(userWallet, K) \in [DOMAIN Drop(userWallet, K) -> Limits]
      BY <2>2, DropType
    <2> QED BY <2>1, <2>3 DEF StoreTypeOK
  <1>2. CASE ~ ForeignKeys
    BY <1>2 DEF Cascade, StoreTypeOK
  <1> QED BY <1>1, <1>2

-----------------------------------------------------------------------------
(* Types.                                                                  *)

\* One lemma per statement: each keeps the types of the tables.
LEMMA CreateUserType ==
  ASSUME StoreTypeOK, NEW u \in UserIds, NEW name \in Usernames, CreateUser(u, name)
  PROVE StoreTypeOK'
  BY PutType DEF CreateUser, StoreTypeOK

\* DELETE FROM proxy_users.
LEMMA DeleteUserType ==
  ASSUME StoreTypeOK, NEW u \in UserIds, DeleteUser(u)
  PROVE StoreTypeOK'
  <1>1. /\ DOMAIN userWallet' \subseteq UserIds \X WalletIds
        /\ userWallet' \in [DOMAIN userWallet' -> Limits]
        /\ transactions' \subseteq Row
    BY CascadeType DEF DeleteUser
  <1> QED BY <1>1, DropType DEF DeleteUser, StoreTypeOK

\* INSERT INTO wallets.
LEMMA CreateWalletType ==
  ASSUME StoreTypeOK, NEW w \in WalletIds, NEW chain \in Chains, CreateWallet(w, chain)
  PROVE StoreTypeOK'
  <1> DEFINE row == [chain |-> chain, createdAt |-> clock]
  <1>1. row \in Wallet /\ wallets' = Put(wallets, w, row)
    BY DEF StoreTypeOK, Wallet, CreateWallet
  <1>2. DOMAIN wallets \subseteq WalletIds /\ wallets \in [DOMAIN wallets -> Wallet]
    BY DEF StoreTypeOK
  <1> HIDE DEF row
  <1>3. /\ DOMAIN wallets' \subseteq WalletIds
        /\ wallets' \in [DOMAIN wallets' -> Wallet]
    BY <1>1, <1>2, PutType
  <1> QED BY <1>3 DEF CreateWallet, StoreTypeOK

\* DELETE FROM wallets.
LEMMA DeleteWalletType ==
  ASSUME StoreTypeOK, NEW w \in WalletIds, DeleteWallet(w)
  PROVE StoreTypeOK'
  <1>1. /\ DOMAIN userWallet' \subseteq UserIds \X WalletIds
        /\ userWallet' \in [DOMAIN userWallet' -> Limits]
        /\ transactions' \subseteq Row
    BY CascadeType DEF DeleteWallet
  <1> QED BY <1>1, DropType DEF DeleteWallet, StoreTypeOK

\* INSERT INTO, or UPDATE of, user_wallet.
LEMMA SetLimitType ==
  ASSUME StoreTypeOK, NEW u \in UserIds, NEW w \in WalletIds, NEW limit \in Limits,
         SetLimit(u, w, limit)
  PROVE StoreTypeOK'
  <1> DEFINE pair == <<u, w>>
  <1>1. pair \in UserIds \X WalletIds /\ userWallet' = Put(userWallet, pair, limit)
    BY DEF SetLimit
  <1>2. /\ DOMAIN userWallet \subseteq UserIds \X WalletIds
        /\ userWallet \in [DOMAIN userWallet -> Limits]
    BY DEF StoreTypeOK
  <1> HIDE DEF pair
  <1>3. /\ DOMAIN userWallet' \subseteq UserIds \X WalletIds
        /\ userWallet' \in [DOMAIN userWallet' -> Limits]
    BY <1>1, <1>2, PutType
  <1>4. grants' \subseteq Grant
    BY DEF SetLimit, StoreTypeOK, Grant
  <1> QED BY <1>3, <1>4 DEF SetLimit, StoreTypeOK

\* DELETE FROM user_wallet.
LEMMA DeleteUserWalletType ==
  ASSUME StoreTypeOK, NEW u \in UserIds, NEW w \in WalletIds, DeleteUserWallet(u, w)
  PROVE StoreTypeOK'
  <1> DEFINE gone == {<<u, w>>}
  <1>1. userWallet' = Drop(userWallet, gone)
    BY DEF DeleteUserWallet
  <1>2. /\ DOMAIN userWallet \subseteq UserIds \X WalletIds
        /\ userWallet \in [DOMAIN userWallet -> Limits]
    BY DEF StoreTypeOK
  <1> HIDE DEF gone
  <1>3. /\ DOMAIN userWallet' \subseteq UserIds \X WalletIds
        /\ userWallet' \in [DOMAIN userWallet' -> Limits]
    BY <1>1, <1>2, DropType
  <1> QED BY <1>3 DEF DeleteUserWallet, StoreTypeOK

\* INSERT INTO transactions.
LEMMA InsertTransactionType ==
  ASSUME StoreTypeOK, NEW id \in Nat, NEW u \in UserIds, NEW w \in WalletIds,
         NEW amount \in Int, NEW status \in Statuses,
         InsertTransaction(id, u, w, amount, status)
  PROVE StoreTypeOK'
  <1>1. [id |-> id, user |-> u, wallet |-> w, amount |-> amount,
         status |-> status, createdAt |-> clock] \in Row
    BY DEF StoreTypeOK, Row
  <1> QED BY <1>1 DEF InsertTransaction, StoreTypeOK

\* The clock stays within its bound.
LEMMA TickType == StoreTypeOK /\ Tick => StoreTypeOK'
  <1> SUFFICES ASSUME StoreTypeOK, Tick PROVE StoreTypeOK'
    OBVIOUS
  <1>1. clock' \in 0..MaxClock
    <2>1. clock \in 0..MaxClock /\ clock < MaxClock /\ clock' = clock + 1 /\ MaxClock \in Nat
      BY StoreAssumption DEF StoreTypeOK, Tick
    <2> QED BY <2>1
  <1>2. transactions' \subseteq Row /\ wallets' \in [DOMAIN wallets' -> Wallet]
    BY DEF StoreTypeOK, Tick, tables
  <1> QED BY <1>1, <1>2 DEF StoreTypeOK, Tick, tables

\* All that the administrator does.
LEMMA AdminType == StoreTypeOK /\ AdminNext => StoreTypeOK'
  <1> SUFFICES ASSUME StoreTypeOK, AdminNext PROVE StoreTypeOK'
    OBVIOUS
  <1>1. ASSUME NEW u \in UserIds, NEW name \in Usernames, CreateUser(u, name)
        PROVE StoreTypeOK'
    BY <1>1, CreateUserType
  <1>2. ASSUME NEW u \in UserIds, DeleteUser(u) PROVE StoreTypeOK'
    BY <1>2, DeleteUserType
  <1>3. ASSUME NEW w \in WalletIds, NEW chain \in Chains, CreateWallet(w, chain)
        PROVE StoreTypeOK'
    BY <1>3, CreateWalletType
  <1>4. ASSUME NEW w \in WalletIds, DeleteWallet(w) PROVE StoreTypeOK'
    BY <1>4, DeleteWalletType
  <1>5. ASSUME NEW u \in UserIds, NEW w \in WalletIds, NEW limit \in Limits,
               Assign(u, w, limit) \/ UpdateMonthlyBudget(u, w, limit)
        PROVE StoreTypeOK'
    BY <1>5, SetLimitType DEF Assign, UpdateMonthlyBudget
  <1>6. ASSUME NEW u \in UserIds, NEW w \in WalletIds, DeleteUserWallet(u, w)
        PROVE StoreTypeOK'
    BY <1>6, DeleteUserWalletType
  <1> QED BY <1>1, <1>2, <1>3, <1>4, <1>5, <1>6 DEF AdminNext

-----------------------------------------------------------------------------
(* Sums of amounts.                                                        *)

First(s) == CHOOSE x \in s : TRUE

\* g sums up the amounts that f gives to the members of each subset of S, in
\* the order in which First takes them.
Sums(f, S, g) ==
  g = [s \in SUBSET S |-> IF s = {} THEN 0 ELSE f[First(s)] + g[s \ {First(s)}]]

\* The equations of a sum.
LEMMA SumsAt ==
  ASSUME NEW f, NEW S, NEW g, Sums(f, S, g)
  PROVE /\ g[{}] = 0
        /\ \A s \in SUBSET S : s # {} =>
             First(s) \in s /\ g[s] = f[First(s)] + g[s \ {First(s)}]
  BY DEF Sums, First

\* Sums of the same amounts are the same, whatever larger set they are part of.
LEMMA SumsAgree ==
  ASSUME NEW e, NEW f, NEW p, NEW q, NEW g, NEW h, Sums(e, p, g), Sums(f, q, h),
         NEW s, s \subseteq p, s \subseteq q, IsFiniteSet(s), \A x \in s : e[x] = f[x]
  PROVE g[s] = h[s]
  <1> DEFINE Bad == {t \in SUBSET s : g[t] # h[t]}
  <1>1. SUFFICES ASSUME Bad # {} PROVE FALSE
    BY <1>1
  <1>2. PICK m \in Bad : \A t \in Bad : t \subseteq m => t = m
    <2>1. Bad \subseteq SUBSET s
      OBVIOUS
    <2> HIDE DEF Bad
    <2> QED BY <1>1, <2>1, MinimalSubset
  <1>3. CASE m = {}
    BY <1>2, <1>3, SumsAt
  <1>4. CASE m # {}
    <2> DEFINE n == m \ {First(m)}
    <2>1. First(m) \in m /\ g[m] = e[First(m)] + g[n] /\ h[m] = f[First(m)] + h[n]
      BY <1>2, <1>4, SumsAt
    <2>2. g[n] = h[n]
      BY <1>2, <2>1
    <2> QED BY <1>2, <2>1, <2>2
  <1> QED BY <1>3, <1>4

\* There are sums over every finite set.
LEMMA SumsExist ==
  ASSUME NEW f, NEW S, IsFiniteSet(S)
  PROVE \E g : Sums(f, S, g)
  <1> DEFINE Bad == {t \in SUBSET S : ~ \E g : Sums(f, t, g)}
             G(t) == CHOOSE g : Sums(f, t, g)
  <1>1. SUFFICES ASSUME Bad # {} PROVE FALSE
    BY <1>1
  <1>2. PICK m \in Bad : \A t \in Bad : t \subseteq m => t = m
    <2>1. Bad \subseteq SUBSET S
      OBVIOUS
    <2> HIDE DEF Bad
    <2> QED BY <1>1, <2>1, MinimalSubset
  <1>3. ASSUME NEW t \in SUBSET m, t # m PROVE Sums(f, t, G(t))
    <2>1. t \notin Bad
      BY <1>2, <1>3
    <2>2. \E g : Sums(f, t, g)
      BY <1>2, <2>1
    <2> QED BY <2>2
  <1> DEFINE h == [s \in SUBSET m |-> IF s = {} THEN 0
                    ELSE f[First(s)] + G(s \ {First(s)})[s \ {First(s)}]]
  <1>4. ASSUME NEW s \in SUBSET m, s # {}
        PROVE h[s \ {First(s)}] = G(s \ {First(s)})[s \ {First(s)}]
    <2> DEFINE u == s \ {First(s)}
    <2>1. First(s) \in s
      BY <1>4 DEF First
    <2>2. u \in SUBSET m /\ u # m
      BY <2>1
    <2>3. Sums(f, u, G(u))
      BY <1>3, <2>2
    <2> HIDE DEF G
    <2>4. CASE u = {}
      <3>1. h[u] = 0 /\ G(u)[{}] = 0
        BY <2>2, <2>3, <2>4, SumsAt
      <3> QED BY <2>4, <3>1
    <2>5. CASE u # {}
      <3> DEFINE v == u \ {First(u)}
      <3>1. First(u) \in u
        BY <2>5 DEF First
      <3>2. v \in SUBSET m /\ v # m /\ v \subseteq u
        BY <2>2, <3>1
      <3>3. Sums(f, v, G(v))
        BY <1>3, <3>2
      <3>4. IsFiniteSet(v)
        BY <3>2, <1>2, FS_Subset
      <3>5. G(u)[v] = G(v)[v]
        <4> HIDE DEF u, v
        <4> QED BY <2>3, <3>2, <3>3, <3>4, SumsAgree
      <3>6. G(u)[u] = f[First(u)] + G(u)[v]
        <4> HIDE DEF u
        <4> QED BY <2>3, <2>5, SumsAt
      <3>7. h[u] = f[First(u)] + G(v)[v]
        BY <2>2, <2>5
      <3> QED BY <3>5, <3>6, <3>7
    <2> QED BY <2>4, <2>5
  <1>5. h = [s \in SUBSET m |-> IF s = {} THEN 0
               ELSE f[First(s)] + h[s \ {First(s)}]]
    <2> HIDE DEF h, G
    <2>1. h = [s \in SUBSET m |-> IF s = {} THEN 0
                    ELSE f[First(s)] + G(s \ {First(s)})[s \ {First(s)}]]
      BY DEF h
    <2> QED BY <2>1, <1>4
  <1>6. Sums(f, m, h)
    <2> HIDE DEF h
    <2> QED BY <1>5 DEF Sums
  <1> QED BY <1>2, <1>6

\* The sum of the amounts of a set of rows.
Total(rows)     == MapThenSumSet(AmountOf, rows)
AmountsOf(rows) == [t \in rows |-> t.amount]

\* Total is the value of such sums for all the rows.
LEMMA TotalSums ==
  ASSUME NEW rows, IsFiniteSet(rows)
  PROVE \E g : Sums(AmountsOf(rows), rows, g) /\ Total(rows) = g[rows]
  <1> DEFINE Equation(g) ==
        g = [s \in SUBSET rows |-> IF s = {} THEN 0
               ELSE LET t == CHOOSE x \in s : TRUE IN AmountOf(t) + g[s \ {t}]]
      g == CHOOSE g : Equation(g)
  <1>1. Total(rows) = g[rows]
    BY DEF Total, MapThenSumSet, MapThenFoldSet
  <1>2. ASSUME NEW h PROVE Equation(h) <=> Sums(AmountsOf(rows), rows, h)
    <2>1. \A s \in SUBSET rows : s # {} => AmountsOf(rows)[First(s)] = AmountOf(First(s))
      BY DEF First, AmountsOf, AmountOf
    <2> QED BY <2>1 DEF Sums, First
  <1> HIDE DEF Equation
  <1>3. \E h : Equation(h)
    BY <1>2, SumsExist
  <1>4. Equation(g)
    BY <1>3
  <1> HIDE DEF g
  <1> QED BY <1>1, <1>2, <1>4

\* A total takes one row off.
LEMMA TotalStep ==
  ASSUME NEW rows, IsFiniteSet(rows)
  PROVE /\ rows = {} => Total(rows) = 0
        /\ rows # {} => \E t \in rows : Total(rows) = t.amount + Total(rows \ {t})
  <1>1. PICK g : Sums(AmountsOf(rows), rows, g) /\ Total(rows) = g[rows]
    BY TotalSums
  <1>2. CASE rows = {}
    BY <1>1, <1>2, SumsAt
  <1>3. CASE rows # {}
    <2> DEFINE t    == First(rows)
               rest == rows \ {t}
    <2>1. t \in rows /\ g[rows] = AmountsOf(rows)[t] + g[rest]
      <3>1. rows \in SUBSET rows
        OBVIOUS
      <3>2. \A s \in SUBSET rows : s # {} =>
              First(s) \in s /\ g[s] = AmountsOf(rows)[First(s)] + g[s \ {First(s)}]
        BY <1>1, SumsAt
      <3> QED BY <1>3, <3>1, <3>2
    <2>2. PICK h : Sums(AmountsOf(rest), rest, h) /\ Total(rest) = h[rest]
      BY TotalSums, FS_Subset
    <2>3. IsFiniteSet(rest) /\ rest \subseteq rows
      BY FS_Subset
    <2>4. \A x \in rest : AmountsOf(rows)[x] = AmountsOf(rest)[x]
      BY DEF AmountsOf
    <2>5. AmountsOf(rows)[t] = t.amount
      BY <2>1 DEF AmountsOf
    <2> HIDE DEF t, rest
    <2>6. g[rest] = h[rest]
      BY <1>1, <2>2, <2>3, <2>4, SumsAgree
    <2> QED BY <1>1, <1>3, <2>1, <2>2, <2>5, <2>6 DEF rest
  <1> QED BY <1>2, <1>3

\* Totals of integers are integers ...
LEMMA TotalInt ==
  ASSUME NEW rows, IsFiniteSet(rows), \A t \in rows : t.amount \in Int
  PROVE Total(rows) \in Int
  <1> DEFINE Bad == {s \in SUBSET rows : Total(s) \notin Int}
  <1>1. SUFFICES ASSUME Bad # {} PROVE FALSE
    BY <1>1
  <1>2. PICK m \in Bad : \A t \in Bad : t \subseteq m => t = m
    <2>1. Bad \subseteq SUBSET rows
      OBVIOUS
    <2> HIDE DEF Bad
    <2> QED BY <1>1, <2>1, MinimalSubset
  <1>3. IsFiniteSet(m)
    BY <1>2, FS_Subset
  <1>4. m # {}
    BY <1>2, <1>3, TotalStep
  <1>5. PICK t \in m : Total(m) = t.amount + Total(m \ {t})
    BY <1>3, <1>4, TotalStep
  <1>6. m \ {t} \notin Bad /\ m \ {t} \in SUBSET rows
    BY <1>2, <1>5
  <1>7. Total(m \ {t}) \in Int
    BY <1>6
  <1>8. t.amount \in Int
    BY <1>2, <1>5
  <1> QED BY <1>2, <1>5, <1>7, <1>8

\* Whichever row is taken out, its amount is what the total loses.
LEMMA TotalWithout ==
  ASSUME NEW rows, IsFiniteSet(rows), \A t \in rows : t.amount \in Int, NEW x \in rows
  PROVE Total(rows) = x.amount + Total(rows \ {x})
  <1> DEFINE Bad == {s \in SUBSET rows : \E y \in s : Total(s) # y.amount + Total(s \ {y})}
  <1>1. SUFFICES ASSUME Bad # {} PROVE FALSE
    BY <1>1
  <1>2. PICK m \in Bad : \A t \in Bad : t \subseteq m => t = m
    <2>1. Bad \subseteq SUBSET rows
      OBVIOUS
    <2> HIDE DEF Bad
    <2> QED BY <1>1, <2>1, MinimalSubset
  <1>3. ASSUME NEW s \in SUBSET rows PROVE IsFiniteSet(s) /\ Total(s) \in Int
    BY FS_Subset, TotalInt
  <1>4. PICK y \in m : Total(m) # y.amount + Total(m \ {y})
    BY <1>2
  <1>5. PICK t \in m : Total(m) = t.amount + Total(m \ {t})
    BY <1>2, <1>3, <1>4, TotalStep
  <1> DEFINE n == m \ {y}
             o == m \ {t}
             b == (m \ {y}) \ {t}
  <1>6. t # y /\ t \in n /\ y \in o /\ b = o \ {y} /\ b = n \ {t}
    BY <1>4, <1>5
  <1>7. n \notin Bad /\ o \notin Bad /\ n \in SUBSET rows /\ o \in SUBSET rows /\ b \in SUBSET rows
    BY <1>2, <1>4, <1>5
  <1>8. Total(n) = t.amount + Total(n \ {t}) /\ Total(o) = y.amount + Total(o \ {y})
    BY <1>6, <1>7
  <1>9. t.amount \in Int /\ y.amount \in Int /\ Total(b) \in Int
    BY <1>2, <1>3, <1>7
  <1>10. Total(m) = t.amount + Total(o) /\ Total(m) # y.amount + Total(n)
    BY <1>4, <1>5
  <1>11. Total(n) = t.amount + Total(b) /\ Total(o) = y.amount + Total(b)
    BY <1>6, <1>8
  <1> HIDE DEF Bad, b, n, o
  <1> QED BY <1>9, <1>10, <1>11

\* ... and of natural numbers are natural.
LEMMA TotalNat ==
  ASSUME NEW rows, IsFiniteSet(rows), \A t \in rows : t.amount \in Nat
  PROVE Total(rows) \in Nat
  <1> DEFINE Bad == {s \in SUBSET rows : Total(s) \notin Nat}
  <1>1. SUFFICES ASSUME Bad # {} PROVE FALSE
    BY <1>1
  <1>2. PICK m \in Bad : \A t \in Bad : t \subseteq m => t = m
    <2>1. Bad \subseteq SUBSET rows
      OBVIOUS
    <2> HIDE DEF Bad
    <2> QED BY <1>1, <2>1, MinimalSubset
  <1>3. IsFiniteSet(m)
    BY <1>2, FS_Subset
  <1>4. m # {}
    BY <1>2, <1>3, TotalStep
  <1>5. PICK t \in m : Total(m) = t.amount + Total(m \ {t})
    BY <1>3, <1>4, TotalStep
  <1>6. m \ {t} \notin Bad /\ m \ {t} \in SUBSET rows
    BY <1>2, <1>5
  <1>7. Total(m \ {t}) \in Nat
    BY <1>6
  <1>8. t.amount \in Nat
    BY <1>2, <1>5
  <1> QED BY <1>2, <1>5, <1>7, <1>8

\* A total is the total of a part and the total of what is left.
LEMMA TotalSplit ==
  ASSUME NEW rows, IsFiniteSet(rows), \A t \in rows : t.amount \in Int, NEW part
  PROVE Total(rows) = Total(rows \cap part) + Total(rows \ part)
  <1> DEFINE Bad == {s \in SUBSET rows : Total(s) # Total(s \cap part) + Total(s \ part)}
  <1>1. SUFFICES ASSUME Bad # {} PROVE FALSE
    BY <1>1
  <1>2. PICK m \in Bad : \A t \in Bad : t \subseteq m => t = m
    <2>1. Bad \subseteq SUBSET rows
      OBVIOUS
    <2> HIDE DEF Bad
    <2> QED BY <1>1, <2>1, MinimalSubset
  <1>3. ASSUME NEW s \in SUBSET rows
        PROVE IsFiniteSet(s) /\ (\A t \in s : t.amount \in Int) /\ Total(s) \in Int
    BY FS_Subset, TotalInt
  <1>4. m \in SUBSET rows /\ Total(m) # Total(m \cap part) + Total(m \ part)
    BY <1>2
  <1>5. m # {}
    <2>1. SUFFICES ASSUME m = {} PROVE FALSE
      OBVIOUS
    <2>2. m \cap part = {} /\ m \ part = {} /\ Total({}) = 0
      BY <2>1, <1>3, <1>4, TotalStep
    <2> QED BY <1>4, <2>1, <2>2
  <1>6. PICK t \in m : TRUE
    BY <1>5
  <1> DEFINE n == m \ {t}
  <1>7. Total(m) = t.amount + Total(n) /\ t.amount \in Int
    BY <1>3, <1>4, TotalWithout
  <1>8. n \in SUBSET rows /\ n \notin Bad
    BY <1>2, <1>4, <1>6
  <1>9. Total(n) = Total(n \cap part) + Total(n \ part)
    BY <1>8
  <1>10. /\ m \cap part \in SUBSET rows /\ m \ part \in SUBSET rows
         /\ n \cap part \in SUBSET rows /\ n \ part \in SUBSET rows
    BY <1>4, <1>8
  <1>11. /\ Total(m \cap part) \in Int /\ Total(m \ part) \in Int
         /\ Total(n \cap part) \in Int /\ Total(n \ part) \in Int
    BY <1>3, <1>10
  <1>12. CASE t \in part
    <2>1. n \cap part = (m \cap part) \ {t} /\ n \ part = m \ part /\ t \in m \cap part
      BY <1>6, <1>12
    <2>2. Total(m \cap part) = t.amount + Total((m \cap part) \ {t})
      BY <1>3, <1>10, <2>1, TotalWithout
    <2> HIDE DEF Bad, n
    <2>3. Total(m \cap part) = t.amount + Total(n \cap part) /\ Total(n \ part) = Total(m \ part)
      BY <2>1, <2>2, Zenon
    <2> QED BY <1>4, <1>7, <1>9, <1>11, <2>3
  <1>13. CASE t \notin part
    <2>1. n \ part = (m \ part) \ {t} /\ n \cap part = m \cap part /\ t \in m \ part
      BY <1>6, <1>13
    <2>2. Total(m \ part) = t.amount + Total((m \ part) \ {t})
      BY <1>3, <1>10, <2>1, TotalWithout
    <2> HIDE DEF Bad, n
    <2>3. Total(m \ part) = t.amount + Total(n \ part) /\ Total(n \cap part) = Total(m \cap part)
      BY <2>1, <2>2, Zenon
    <2> QED BY <1>4, <1>7, <1>9, <1>11, <2>3
  <1> QED BY <1>12, <1>13

\* Where no amount is negative, fewer rows never sum up to more.
LEMMA TotalGrows ==
  ASSUME NEW rows, IsFiniteSet(rows), \A t \in rows : t.amount \in Nat,
         NEW part \in SUBSET rows
  PROVE /\ Total(rows) \in Nat /\ Total(part) \in Nat
        /\ Total(part) <= Total(rows)
  <1>1. \A t \in rows : t.amount \in Int
    OBVIOUS
  <1>2. Total(rows) = Total(rows \cap part) + Total(rows \ part)
    BY <1>1, TotalSplit
  <1>3. Total(rows \cap part) = Total(part)
    <2>1. rows \cap part = part
      OBVIOUS
    <2> QED BY <2>1, Zenon
  <1>4. IsFiniteSet(part) /\ IsFiniteSet(rows \ part)
    BY FS_Subset
  <1>5. Total(rows) \in Nat /\ Total(part) \in Nat /\ Total(rows \ part) \in Nat
    BY <1>4, TotalNat
  <1> QED BY <1>2, <1>3, <1>5

\* A row more adds its amount, unless it was there already.
LEMMA TotalAdd ==
  ASSUME NEW rows, IsFiniteSet(rows), \A t \in rows : t.amount \in Nat,
         NEW row, row.amount \in Nat
  PROVE /\ Total(rows \cup {row}) \in Nat
        /\ Total(rows \cup {row}) <= Total(rows) + row.amount
  <1>1. CASE row \in rows
    <2>1. rows \cup {row} = rows
      BY <1>1
    <2>2. Total(rows \cup {row}) = Total(rows)
      BY <2>1, Zenon
    <2> QED BY <2>2, TotalNat
  <1>2. CASE row \notin rows
    <2> DEFINE more == rows \cup {row}
    <2>1. IsFiniteSet(more) /\ (\A t \in more : t.amount \in Nat) /\ more \ {row} = rows
      BY <1>2, FS_AddElement
    <2>2. \A t \in more : t.amount \in Int
      BY <2>1
    <2>3. row \in more
      OBVIOUS
    <2> HIDE DEF more
    <2>4. Total(more) = row.amount + Total(more \ {row})
      BY <2>1, <2>2, <2>3, TotalWithout
    <2>5. Total(rows) \in Nat
      BY TotalNat
    <2>6. Total(more) = row.amount + Total(rows)
      BY <2>1, <2>4, Zenon
    <2>7. Total(more) \in Nat /\ Total(more) <= Total(rows) + row.amount
      BY <2>5, <2>6
    <2> QED BY <2>7, Zenon DEF more
  <1> QED BY <1>1, <1>2
=============================================================================
