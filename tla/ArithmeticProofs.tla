-------------------------- MODULE ArithmeticProofs --------------------------
(***************************************************************************)
(* Rounding errors of a month's payments do not add up to a unit, within   *)
(* the limit of PrecisionAssumption.                                       *)
(***************************************************************************)
EXTENDS BudgetArithmetic, LeastElements, SequenceTheorems

-----------------------------------------------------------------------------
(* Powers of two.                                                          *)

\* Their equation, for exponents up to n.
Powers(n, g) ==
  /\ g \in [0..n -> Nat]
  /\ g[0] = 1 /\ \A k \in 0..(n - 1) : g[k + 1] = 2 * g[k]

\* There are powers up to any exponent.
LEMMA PowersExist == \A n \in Nat : \E g : Powers(n, g)
  <1> DEFINE Good == {n \in Nat : \E g : Powers(n, g)}
  <1>1. 0 \in Good
    <2> DEFINE g == [k \in 0..0 |-> 1]
    <2>1. Powers(0, g)
      BY DEF Powers
    <2> QED BY <2>1
  <1>2. ASSUME NEW k \in Nat, k \in Good PROVE k + 1 \in Good
    <2> DEFINE m == k + 1
    <2>1. PICK g : Powers(k, g)
      BY <1>2
    <2>2. m \in Nat /\ m = k + 1
      OBVIOUS
    <2> HIDE DEF m
    <2> DEFINE h == [j \in 0..m |-> IF j = m THEN 2 * g[k] ELSE g[j]]
    <2>3. k \in 0..k /\ g[k] \in Nat
      BY <2>1 DEF Powers
    <2>4. h \in [0..m -> Nat]
      <3>1. \A j \in 0..m : j # m => j \in 0..k
        BY <2>2
      <3> QED BY <2>1, <2>3, <3>1 DEF Powers
    <2>5. h[0] = 1
      <3>1. 0 \in 0..m /\ 0 # m
        BY <2>2
      <3> QED BY <2>1, <3>1 DEF Powers
    <2>6. ASSUME NEW j \in 0..(m - 1) PROVE h[j + 1] = 2 * h[j]
      <3>1. j \in 0..m /\ j + 1 \in 0..m /\ j # m
        BY <2>2
      <3>2. CASE j = k
        BY <2>2, <3>1, <3>2
      <3>3. CASE j # k
        <4>1. j \in 0..(k - 1) /\ j + 1 # m
          BY <2>2, <3>3
        <4> QED BY <2>1, <3>1, <4>1 DEF Powers
      <3> QED BY <3>2, <3>3
    <2> HIDE DEF h
    <2>7. Powers(m, h)
      BY <2>4, <2>5, <2>6 DEF Powers
    <2> QED BY <2>2, <2>7 DEF m
  <1> HIDE DEF Good
  <1>3. Nat \subseteq Good
    BY <1>1, <1>2, AllNumbers
  <1> QED BY <1>3 DEF Good

\* Powers up to one exponent and up to another one agree.
LEMMA PowersAgree ==
  ASSUME NEW m \in Nat, NEW n \in Nat, NEW g, NEW h, Powers(m, g), Powers(n, h),
         NEW j \in Nat, j <= m, j <= n
  PROVE g[j] = h[j]
  <1> DEFINE Good == {i \in Nat : i <= m /\ i <= n => g[i] = h[i]}
  <1>1. 0 \in Good
    BY DEF Powers
  <1>2. ASSUME NEW k \in Nat, k \in Good PROVE k + 1 \in Good
    <2> SUFFICES ASSUME k + 1 <= m, k + 1 <= n PROVE g[k + 1] = h[k + 1]
      OBVIOUS
    <2>1. k <= m /\ k <= n /\ k \in 0..(m - 1) /\ k \in 0..(n - 1)
      OBVIOUS
    <2>2. g[k + 1] = 2 * g[k] /\ h[k + 1] = 2 * h[k]
      BY <2>1 DEF Powers
    <2> QED BY <1>2, <2>1, <2>2
  <1> HIDE DEF Good
  <1>3. Nat \subseteq Good
    BY <1>1, <1>2, AllNumbers
  <1> QED BY <1>3 DEF Good

\* The equation of Power has a solution, so that Power satisfies it.
LEMMA PowerEquation ==
  /\ Power[0] = 1
  /\ \A n \in Nat : Power[n] \in Nat /\ Power[n + 1] = 2 * Power[n]
  <1> DEFINE G(n) == CHOOSE g : Powers(n, g)
             P == [n \in Nat |-> G(n)[n]]
             Equation(p) == p = [n \in Nat |-> IF n = 0 THEN 1 ELSE 2 * p[n - 1]]
  <1>1. \A n \in Nat : Powers(n, G(n))
    BY PowersExist
  <1> HIDE DEF G
  <1>2. ASSUME NEW n \in Nat PROVE G(n)[n] \in Nat /\ G(n + 1)[n + 1] = 2 * G(n)[n]
    <2>1. Powers(n, G(n)) /\ Powers(n + 1, G(n + 1)) /\ n + 1 \in Nat
      BY <1>1
    <2>2. G(n + 1)[n] = G(n)[n]
      BY <2>1, PowersAgree
    <2>3. n \in 0..n /\ n \in 0..((n + 1) - 1)
      OBVIOUS
    <2> QED BY <2>1, <2>2, <2>3 DEF Powers
  <1>3. G(0)[0] = 1
    BY <1>1 DEF Powers
  <1>4. Equation(P)
    <2>1. ASSUME NEW n \in Nat PROVE P[n] = IF n = 0 THEN 1 ELSE 2 * P[n - 1]
      <3>1. CASE n = 0
        BY <1>3, <3>1
      <3>2. CASE n # 0
        <4> DEFINE k == n - 1
        <4>1. k \in Nat /\ n = k + 1
          BY <3>2
        <4> HIDE DEF k
        <4>2. G(k + 1)[k + 1] = 2 * G(k)[k]
          BY <1>2, <4>1
        <4>3. P[n] = G(n)[n] /\ P[k] = G(k)[k]
          BY <4>1
        <4> QED BY <3>2, <4>1, <4>2, <4>3 DEF k
      <3> QED BY <3>1, <3>2
    <2>2. P = [n \in Nat |-> P[n]]
      OBVIOUS
    <2> HIDE DEF P
    <2> QED BY <2>1, <2>2, Zenon
  <1>5. Power = CHOOSE p : Equation(p)
    BY DEF Power
  <1>6. Equation(Power)
    <2> HIDE DEF Equation, P
    <2> QED BY <1>4, <1>5
  <1>7. \A n \in Nat : Power[n] = IF n = 0 THEN 1 ELSE 2 * Power[n - 1]
    BY <1>6
  <1>8. Power[0] = 1
    BY <1>7
  <1>9. \A n \in Nat : Power[n + 1] = 2 * Power[n]
    <2> TAKE n \in Nat
    <2>1. n + 1 \in Nat /\ n + 1 # 0 /\ (n + 1) - 1 = n
      OBVIOUS
    <2> QED BY <1>7, <2>1
  <1> DEFINE Good == {n \in Nat : Power[n] \in Nat}
  <1>10. 0 \in Good
    BY <1>8
  <1>11. ASSUME NEW n \in Nat, n \in Good PROVE n + 1 \in Good
    BY <1>9, <1>11
  <1> HIDE DEF Good
  <1>12. Nat \subseteq Good
    BY <1>10, <1>11, AllNumbers
  <1> QED BY <1>8, <1>9, <1>12 DEF Good

\* A power of two is larger than its exponent.
LEMMA PowerLarge == \A n \in Nat : Power[n] > n
  <1> DEFINE Good == {n \in Nat : Power[n] > n}
  <1>1. 0 \in Good
    BY PowerEquation
  <1>2. ASSUME NEW n \in Nat, n \in Good PROVE n + 1 \in Good
    BY <1>2, PowerEquation
  <1> HIDE DEF Good
  <1>3. Nat \subseteq Good
    BY <1>1, <1>2, AllNumbers
  <1> QED BY <1>3 DEF Good

\* Exponents add up.
LEMMA PowerSum == \A m, n \in Nat : Power[m + n] = Power[m] * Power[n]
  <1> SUFFICES ASSUME NEW m \in Nat
               PROVE \A n \in Nat : Power[m + n] = Power[m] * Power[n]
    OBVIOUS
  <1> DEFINE Good == {n \in Nat : Power[m + n] = Power[m] * Power[n]}
  <1>1. 0 \in Good
    BY PowerEquation
  <1>2. ASSUME NEW k \in Nat, k \in Good PROVE k + 1 \in Good
    <2>1. m + k \in Nat /\ m + (k + 1) = (m + k) + 1 /\ Power[m + k] = Power[m] * Power[k]
      BY <1>2
    <2>2. Power[m + (k + 1)] = 2 * Power[m + k] /\ Power[k + 1] = 2 * Power[k]
      BY <2>1, PowerEquation
    <2>3. Power[m] \in Nat /\ Power[k] \in Nat
      BY PowerEquation
    <2>4. \A p, q \in Nat : 2 * (p * q) = p * (2 * q)
      OBVIOUS
    <2>5. Power[m + (k + 1)] = Power[m] * Power[k + 1]
      BY <2>1, <2>2, <2>3, <2>4
    <2> QED BY <2>5
  <1> HIDE DEF Good
  <1>3. Nat \subseteq Good
    BY <1>1, <1>2, AllNumbers
  <1> QED BY <1>3 DEF Good

-----------------------------------------------------------------------------
(* Rounding.                                                               *)

\* Rounding a quotient is off by half a unit at most.
LEMMA RoundingError ==
  ASSUME NEW a \in Nat, NEW b \in Nat \ {0}
  PROVE /\ RoundHalfEven(a, b) \in Nat
        /\ 2 * (b * RoundHalfEven(a, b)) <= 2 * a + b
        /\ 2 * a <= 2 * (b * RoundHalfEven(a, b)) + b
        /\ b = 1 => RoundHalfEven(a, b) = a
  <1> DEFINE q == a \div b
             r == a % b
  <1>1. q \in Nat /\ r \in 0..(b - 1) /\ a = b * q + r
    OBVIOUS
  <1> HIDE DEF q, r
  <1>2. b * q \in Nat /\ b * (q + 1) = b * q + b
    BY <1>1
  <1>3. RoundHalfEven(a, b) \in {q, q + 1}
    BY DEF RoundHalfEven, q, r
  <1>4. RoundHalfEven(a, b) = q => 2 * r <= b
    BY <1>1 DEF RoundHalfEven, q, r
  <1>5. RoundHalfEven(a, b) = q + 1 => 2 * r >= b
    BY <1>1 DEF RoundHalfEven, q, r
  <1>6. CASE RoundHalfEven(a, b) = q
    BY <1>1, <1>2, <1>4, <1>6
  <1>7. CASE RoundHalfEven(a, b) = q + 1
    BY <1>1, <1>2, <1>5, <1>7
  <1> QED BY <1>3, <1>6, <1>7

\* There is a spacing that leaves the quotient bits of significand.
LEMMA SpacingFits ==
  ASSUME NEW a \in Nat, NEW b \in Nat \ {0}, NEW bits \in Nat \ {0}
  PROVE \E e \in Nat : /\ Spacing(a, b, bits) = Power[e]
                       /\ e > 0 => a >= b * Power[bits + e - 1]
  <1> DEFINE Fits(e) == a < b * Power[bits + e]
             Good(e) == Fits(e) /\ (e > 0 => a >= b * Power[bits + e - 1])
             Bounds == {e \in Nat : Fits(e)}
  <1>1. Fits(a)
    <2>1. bits + a \in Nat /\ a < bits + a
      OBVIOUS
    <2>2. Power[bits + a] \in Nat /\ bits + a < Power[bits + a]
      BY <2>1, PowerEquation, PowerLarge
    <2>3. \A x \in Nat : x <= b * x
      OBVIOUS
    <2> QED BY <2>1, <2>2, <2>3
  <1>2. PICK e \in Bounds : \A f \in Bounds : e <= f
    <2>1. a \in Bounds
      BY <1>1
    <2> HIDE DEF Bounds
    <2>2. Bounds \subseteq Nat
      BY DEF Bounds
    <2> QED BY <2>1, <2>2, SmallestOf
  <1>3. e \in 0..a
    BY <1>1, <1>2
  <1>4. Good(e)
    <2>1. ASSUME e > 0 PROVE a >= b * Power[bits + e - 1]
      <3> DEFINE f == e - 1
      <3>1. f \in Nat /\ f < e /\ bits + f = bits + e - 1 /\ bits + f \in Nat
        BY <1>3, <2>1
      <3>2. ~ Fits(f)
        BY <1>2, <3>1
      <3>3. Power[bits + f] \in Nat
        BY <3>1, PowerEquation
      <3>4. b * Power[bits + f] \in Nat
        BY <3>3
      <3> QED BY <3>1, <3>2, <3>4
    <2> QED BY <1>2, <2>1
  <1> DEFINE chosen == CHOOSE f \in 0..a : Good(f)
  <1>5. chosen \in 0..a /\ Good(chosen)
    BY <1>3, <1>4
  <1>6. Spacing(a, b, bits) = Power[chosen]
    BY DEF Spacing
  <1>7. chosen \in Nat /\ (chosen > 0 => a >= b * Power[bits + chosen - 1])
    BY <1>5
  <1> HIDE DEF chosen
  <1> QED BY <1>6, <1>7

\* A float is as close to the quotient as its bits promise, where the grid is
\* fine enough for that; a whole number of steps always is.
LEMMA FloatError ==
  ASSUME NEW a \in Nat, NEW b \in Nat \ {0}, NEW bits \in Nat \ {0},
         a = 0 \/ b = 1 \/ a >= b * Power[bits - 1]
  PROVE /\ Float(a, b, bits) \in Nat
        /\ (b * Float(a, b, bits)) * Power[bits] <= a * (Power[bits] + 1)
        /\ a * (Power[bits] - 1) <= (b * Float(a, b, bits)) * Power[bits]
  <1> DEFINE half == Power[bits - 1]
             s == Spacing(a, b, bits)
             d == b * s
             r == RoundHalfEven(a, d)
  <1>1. PICK e \in Nat : s = Power[e] /\ (e > 0 => a >= b * Power[bits + e - 1])
    BY SpacingFits
  <1>2. half \in Nat /\ Power[bits] = 2 * half
    <2>1. bits - 1 \in Nat /\ bits = (bits - 1) + 1
      OBVIOUS
    <2> QED BY <2>1, PowerEquation
  <1>3. s \in Nat \ {0}
    BY <1>1, PowerEquation, PowerLarge
  <1> HIDE DEF s, half
  <1>4. d \in Nat \ {0}
    BY <1>3
  <1> HIDE DEF d
  <1>5. /\ r \in Nat
        /\ 2 * (d * r) <= 2 * a + d
        /\ 2 * a <= 2 * (d * r) + d
        /\ d = 1 => r = a
    BY <1>4, RoundingError
  <1> HIDE DEF r
  <1>6. Float(a, b, bits) = s * r
    BY DEF Float, s, r, d
  <1>7. b * Float(a, b, bits) = d * r /\ Float(a, b, bits) \in Nat
    <2>1. b * (s * r) = (b * s) * r /\ s * r \in Nat
      BY <1>3, <1>5
    <2> QED BY <1>6, <2>1 DEF d
  <1> DEFINE x == d * r
  <1>8. x \in Nat
    BY <1>4, <1>5
  <1>9. a = 0 \/ d = 1 \/ d * half <= a
    <2>1. CASE e = 0
      <3>1. d = b
        BY <1>1, <2>1, PowerEquation DEF d
      <3> QED BY <3>1 DEF half
    <2>2. CASE e # 0
      <3>1. bits + e - 1 = e + (bits - 1) /\ bits - 1 \in Nat
        BY <1>1
      <3>2. Power[bits + e - 1] = s * half
        BY <1>1, <3>1, PowerSum DEF half
      <3>3. b * (s * half) = d * half
        BY <1>2, <1>3 DEF d
      <3> QED BY <1>1, <2>2, <3>2, <3>3
    <2> QED BY <2>1, <2>2
  <1> HIDE DEF x
  <1>10. x * (2 * half) <= a * (2 * half + 1) /\ a * (2 * half - 1) <= x * (2 * half)
    <2>1. CASE d = 1
      <3>1. x = a
        BY <1>5, <2>1 DEF x
      <3>2. a * (2 * half + 1) = a * (2 * half) + a /\ a * (2 * half - 1) = a * (2 * half) - a
        BY <1>2
      <3> QED BY <1>2, <3>1, <3>2
    <2>2. CASE d * half <= a
      <3>1. 2 * x <= 2 * a + d /\ 2 * a <= 2 * x + d
        BY <1>5 DEF x
      <3>2. \A i, j \in Nat : i <= j => i * half <= j * half
        BY <1>2
      <3>3. (2 * x) * half <= (2 * a + d) * half /\ (2 * a) * half <= (2 * x + d) * half
        <4>1. 2 * x \in Nat /\ 2 * a + d \in Nat /\ 2 * a \in Nat /\ 2 * x + d \in Nat
          BY <1>4, <1>8
        <4> QED BY <3>1, <3>2, <4>1
      <3>4. /\ (2 * x) * half = x * (2 * half)
            /\ (2 * a + d) * half = a * (2 * half) + d * half
            /\ (2 * a) * half = a * (2 * half)
            /\ (2 * x + d) * half = x * (2 * half) + d * half
            /\ a * (2 * half + 1) = a * (2 * half) + a
            /\ a * (2 * half - 1) = a * (2 * half) - a
        BY <1>2, <1>4, <1>8
      <3>5. d * half \in Nat /\ x * (2 * half) \in Nat /\ a * (2 * half) \in Nat
        BY <1>2, <1>4, <1>8
      <3> QED BY <2>2, <3>3, <3>4, <3>5
    <2>3. CASE a = 0
      <3>1. 2 * x <= d
        BY <1>4, <1>5, <1>8, <2>3 DEF x
      <3>2. \A i, n \in Nat : i # 0 => n <= n * i
        OBVIOUS
      <3>3. r # 0 => d <= x
        BY <1>4, <1>5, <3>2 DEF x
      <3>4. x = 0
        BY <1>4, <1>5, <1>8, <3>1, <3>3 DEF x
      <3>5. a * (2 * half + 1) = 0 /\ a * (2 * half - 1) = 0 /\ x * (2 * half) = 0
        BY <1>2, <2>3, <3>4
      <3> QED BY <3>5
    <2> QED BY <1>9, <2>1, <2>2, <2>3
  <1> QED BY <1>2, <1>7, <1>10 DEF x
-----------------------------------------------------------------------------
(* Sums.                                                                   *)

\* Cancelling a positive factor.
LEMMA Cancel ==
  \A p, q \in Int : \A c \in Nat \ {0} : p * c <= q * c => p <= q
  <1> SUFFICES ASSUME NEW p \in Int, NEW q \in Int, NEW c \in Nat \ {0}, p > q
               PROVE p * c > q * c
    OBVIOUS
  <1>1. p * c = q * c + (p - q) * c
    OBVIOUS
  <1>2. \A i, n \in Nat \ {0} : i * n > 0
    OBVIOUS
  <1>3. p - q \in Nat \ {0}
    OBVIOUS
  <1>4. (p - q) * c > 0
    BY <1>2, <1>3
  <1>5. q * c \in Int /\ (p - q) * c \in Int
    OBVIOUS
  <1> QED BY <1>1, <1>4, <1>5

\* Both sides of an inequality times the same.
LEMMA Times ==
  \A p, q \in Int : \A c \in Nat : p <= q => p * c <= q * c
  <1> SUFFICES ASSUME NEW p \in Int, NEW q \in Int, NEW c \in Nat, p <= q
               PROVE p * c <= q * c
    OBVIOUS
  <1>1. q * c = p * c + (q - p) * c
    OBVIOUS
  <1>2. \A i, n \in Nat : i * n >= 0
    OBVIOUS
  <1>3. q - p \in Nat
    OBVIOUS
  <1>4. (q - p) * c >= 0
    BY <1>2, <1>3
  <1>5. p * c \in Int /\ (q - p) * c \in Int
    OBVIOUS
  <1> QED BY <1>1, <1>4, <1>5

\* A sum s that is off by j parts in k, rounded once more, is off by two more.
LEMMA ErrorsAdd ==
  ASSUME NEW k \in Nat \ {0}, NEW j \in Nat, j <= k, NEW s \in Nat, NEW z \in Nat, NEW r \in Nat,
         s * k <= z * (k + j), z * (k - j) <= s * k,
         r * k <= s * (k + 1), s * (k - 1) <= r * k
  PROVE r * k <= z * (k + j + 2) /\ z * (k - j - 2) <= r * k
  <1>1. r * k <= z * (k + j + 2)
    <2>1. (r * k) * k <= (s * (k + 1)) * k
      BY Times
    <2>2. (s * (k + 1)) * k = (s * k) * (k + 1)
      OBVIOUS
    <2>3. (s * k) * (k + 1) <= (z * (k + j)) * (k + 1)
      BY Times
    <2>4. (k + j) * (k + 1) <= (k + j + 2) * k
      <3>1. (k + j) * (k + 1) = (k + j) * k + k + j /\ (k + j + 2) * k = (k + j) * k + k + k
        OBVIOUS
      <3>2. (k + j) * k \in Nat
        OBVIOUS
      <3> QED BY <3>1, <3>2
    <2>5. ((k + j) * (k + 1)) * z <= ((k + j + 2) * k) * z
      <3>1. (k + j) * (k + 1) \in Int /\ (k + j + 2) * k \in Int
        OBVIOUS
      <3> QED BY <2>4, <3>1, Times
    <2>6. /\ (z * (k + j)) * (k + 1) = ((k + j) * (k + 1)) * z
          /\ ((k + j + 2) * k) * z = (z * (k + j + 2)) * k
      OBVIOUS
    <2>7. /\ (r * k) * k \in Int /\ (s * (k + 1)) * k \in Int /\ (z * (k + j)) * (k + 1) \in Int
          /\ (z * (k + j + 2)) * k \in Int /\ r * k \in Int /\ z * (k + j + 2) \in Int
      OBVIOUS
    <2>8. (r * k) * k <= (z * (k + j + 2)) * k
      BY <2>1, <2>2, <2>3, <2>5, <2>6, <2>7
    <2> QED BY <2>7, <2>8, Cancel
  <1>2. z * (k - j - 2) <= r * k
    <2>1. (s * (k - 1)) * k <= (r * k) * k
      BY Times
    <2>2. (s * (k - 1)) * k = (s * k) * (k - 1)
      OBVIOUS
    <2>3. (z * (k - j)) * (k - 1) <= (s * k) * (k - 1)
      <3>1. k - 1 \in Nat /\ z * (k - j) \in Int /\ s * k \in Int
        OBVIOUS
      <3> QED BY <3>1, Times
    <2>4. (k - j - 2) * k <= (k - j) * (k - 1)
      <3>1. (k - j) * (k - 1) = (k - j) * k - k + j /\ (k - j - 2) * k = (k - j) * k - k - k
        OBVIOUS
      <3>2. (k - j) * k \in Int
        OBVIOUS
      <3> QED BY <3>1, <3>2
    <2>5. ((k - j - 2) * k) * z <= ((k - j) * (k - 1)) * z
      <3>1. (k - j) * (k - 1) \in Int /\ (k - j - 2) * k \in Int
        OBVIOUS
      <3> QED BY <2>4, <3>1, Times
    <2>6. /\ (z * (k - j)) * (k - 1) = ((k - j) * (k - 1)) * z
          /\ ((k - j - 2) * k) * z = (z * (k - j - 2)) * k
      OBVIOUS
    <2>7. /\ (r * k) * k \in Int /\ (s * (k - 1)) * k \in Int /\ (z * (k - j)) * (k - 1) \in Int
          /\ (z * (k - j - 2)) * k \in Int /\ r * k \in Int /\ z * (k - j - 2) \in Int
      OBVIOUS
    <2>8. (z * (k - j - 2)) * k <= (r * k) * k
      BY <2>1, <2>2, <2>3, <2>5, <2>6, <2>7
    <2> QED BY <2>7, <2>8, Cancel
  <1> QED BY <1>1, <1>2

Scale == Power[Precision]

\* x stands for t units, up to j parts in Scale.
Near(x, t, j) ==
  /\ x \in Nat
  /\ (Unit * x) * Scale <= (t * Grid) * (Scale + j)
  /\ (t * Grid) * (Scale - j) <= (Unit * x) * Scale

\* The constants, as the lemmas need them.
LEMMA Constants ==
  /\ Precision \in Nat \ {0} /\ Grid \in Nat \ {0} /\ Unit \in Nat \ {0} /\ Scale \in Nat \ {0}
  /\ Grid >= Unit * Power[Precision - 1]
  <1>1. /\ Precision \in Nat \ {0} /\ Grid \in Nat /\ Unit \in Nat \ {0}
        /\ Grid >= Unit * Power[Precision - 1]
    BY ArithmeticAssumption
  <1>2. Precision - 1 \in Nat
    BY <1>1
  <1>3. /\ Scale \in Nat /\ Scale > Precision
        /\ Power[Precision - 1] \in Nat \ {0}
    BY <1>1, <1>2, PowerEquation, PowerLarge DEF Scale
  <1>4. \A i, n \in Nat \ {0} : i * n > 0 /\ i * n \in Nat
    OBVIOUS
  <1>5. Unit * Power[Precision - 1] > 0 /\ Unit * Power[Precision - 1] \in Nat
    BY <1>1, <1>3, <1>4
  <1> QED BY <1>1, <1>3, <1>5

\* An amount, read from a decimal, is off by one part.
LEMMA FromUnitsNear == ASSUME NEW k \in Nat PROVE Near(FromUnits(k), k, 1)
  <1>1. k = 0 \/ k * Grid >= Unit * Power[Precision - 1]
    <2>1. \A i \in Nat \ {0} : \A n \in Nat : n <= i * n
      OBVIOUS
    <2>2. Precision - 1 \in Nat
      BY Constants
    <2>3. Unit * Power[Precision - 1] \in Nat
      BY <2>2, Constants, PowerEquation
    <2>4. k # 0 => Grid <= k * Grid
      BY <2>1, Constants
    <2>5. k * Grid \in Nat
      BY Constants
    <2> QED BY <2>3, <2>4, <2>5, Constants
  <1>2. k * Grid \in Nat /\ (k = 0 => k * Grid = 0)
    BY Constants
  <1> QED BY <1>1, <1>2, Constants, FloatError DEF Near, FromUnits, Scale

\* A sum of approximations is off by two parts more than the worse of them.
LEMMA AddNear ==
  ASSUME NEW x, NEW y, NEW t \in Nat, NEW k \in Nat, NEW j \in Nat, 1 <= j, j <= Scale,
         Near(x, t, j), Near(y, k, 1)
  PROVE Near(Add(x, y), t + k, j + 2)
  <1> DEFINE s == x + y
             r == Add(x, y)
  <1>1. x \in Nat /\ y \in Nat /\ s \in Nat
    BY DEF Near
  <1>2. r \in Nat /\ r * Scale <= s * (Scale + 1) /\ s * (Scale - 1) <= r * Scale
    <2> HIDE DEF s
    <2>1. 1 \in Nat \ {0} /\ Precision \in Nat \ {0}
      BY Constants
    <2>2. /\ Float(s, 1, Precision) \in Nat
          /\ (1 * Float(s, 1, Precision)) * Power[Precision] <= s * (Power[Precision] + 1)
          /\ s * (Power[Precision] - 1) <= (1 * Float(s, 1, Precision)) * Power[Precision]
      BY <1>1, <2>1, FloatError
    <2>3. r = Float(s, 1, Precision)
      BY DEF Add, s
    <2> HIDE DEF r
    <2> QED BY <2>2, <2>3 DEF Scale
  <1> HIDE DEF r
  <1>3. Unit \in Nat /\ Grid \in Nat /\ Scale \in Nat \ {0}
    BY Constants
  <1>4. /\ (Unit * s) * Scale <= ((t + k) * Grid) * (Scale + j)
        /\ ((t + k) * Grid) * (Scale - j) <= (Unit * s) * Scale
    <2> DEFINE p == t * Grid
               q == k * Grid
               u == (Unit * x) * Scale
               v == (Unit * y) * Scale
    <2>1. p \in Nat /\ q \in Nat /\ u \in Nat /\ v \in Nat
      BY <1>1, <1>3
    <2>2. (t + k) * Grid = p + q /\ (Unit * s) * Scale = u + v
      BY <1>1, <1>3
    <2>3. /\ u <= p * (Scale + j) /\ p * (Scale - j) <= u
          /\ v <= q * (Scale + 1) /\ q * (Scale - 1) <= v
      BY DEF Near
    <2> HIDE DEF p, q, u, v
    <2>4. (Scale + 1) * q <= (Scale + j) * q /\ (Scale - j) * q <= (Scale - 1) * q
      <3>1. Scale + 1 \in Int /\ Scale + j \in Int /\ Scale - 1 \in Int /\ Scale - j \in Int
        BY <1>3
      <3>2. Scale + 1 <= Scale + j /\ Scale - j <= Scale - 1
        BY <1>3
      <3> QED BY <2>1, <3>1, <3>2, Times
    <2>5. /\ (p + q) * (Scale + j) = p * (Scale + j) + (Scale + j) * q
          /\ (p + q) * (Scale - j) = p * (Scale - j) + (Scale - j) * q
          /\ q * (Scale + 1) = (Scale + 1) * q /\ q * (Scale - 1) = (Scale - 1) * q
      BY <1>3, <2>1
    <2>6. /\ p * (Scale + j) \in Int /\ (Scale + j) * q \in Int /\ p * (Scale - j) \in Int
          /\ (Scale - j) * q \in Int /\ (Scale + 1) * q \in Int /\ (Scale - 1) * q \in Int
      BY <1>3, <2>1
    <2> QED BY <2>1, <2>2, <2>3, <2>4, <2>5, <2>6
  <1>5. (Unit * r) * Scale <= (Unit * s) * (Scale + 1) /\ (Unit * s) * (Scale - 1) <= (Unit * r) * Scale
    <2>1. (r * Scale) * Unit <= (s * (Scale + 1)) * Unit /\ (s * (Scale - 1)) * Unit <= (r * Scale) * Unit
      <3>1. r * Scale \in Int /\ s * (Scale + 1) \in Int /\ s * (Scale - 1) \in Int
        BY <1>1, <1>2, <1>3
      <3> HIDE DEF s
      <3> QED BY <1>2, <1>3, <3>1, Times
    <2>2. /\ (Unit * r) * Scale = (r * Scale) * Unit
          /\ (Unit * s) * (Scale + 1) = (s * (Scale + 1)) * Unit
          /\ (Unit * s) * (Scale - 1) = (s * (Scale - 1)) * Unit
      <3> HIDE DEF s
      <3> QED BY <1>1, <1>2, <1>3
    <2> QED BY <2>1, <2>2
  <1>6. Unit * s \in Nat /\ Unit * r \in Nat /\ (t + k) * Grid \in Nat
    BY <1>1, <1>2, <1>3
  <1> HIDE DEF s
  <1>7. /\ (Unit * r) * Scale <= ((t + k) * Grid) * (Scale + j + 2)
        /\ ((t + k) * Grid) * (Scale - j - 2) <= (Unit * r) * Scale
    BY <1>3, <1>4, <1>5, <1>6, ErrorsAdd
  <1>8. Scale + j + 2 = Scale + (j + 2) /\ Scale - j - 2 = Scale - (j + 2)
    BY <1>3
  <1> QED BY <1>2, <1>7, <1>8 DEF Near, r
-----------------------------------------------------------------------------
(* The two sums over a month's rows, step by step.                         *)

\* One more amount, without and with rounding.
Plus(exact, total, k) == IF exact THEN total + k ELSE Add(total, FromUnits(k))

\* The equation of FoldLeft over the first n amounts.
Folding(exact, amounts, n, g) ==
  g = [s \in SUBSET (1..n) |->
         IF s = {} THEN 0 ELSE Plus(exact, g[s \ {Max(s)}], amounts[Max(s)])]

\* There is a function that satisfies it.
LEMMA FoldingExists ==
  ASSUME NEW exact, NEW amounts
  PROVE \A n \in Nat : \E g : Folding(exact, amounts, n, g)
  <1> DEFINE Good == {n \in Nat : \E g : Folding(exact, amounts, n, g)}
  <1>1. 0 \in Good
    <2> DEFINE g == [s \in SUBSET (1..0) |-> 0]
    <2>1. g = [s \in SUBSET (1..0) |->
                 IF s = {} THEN 0 ELSE Plus(exact, g[s \ {Max(s)}], amounts[Max(s)])]
      OBVIOUS
    <2> HIDE DEF g
    <2>2. Folding(exact, amounts, 0, g)
      BY <2>1 DEF Folding
    <2> QED BY <2>2
  <1>2. ASSUME NEW k \in Nat, k \in Good PROVE k + 1 \in Good
    <2> DEFINE m == k + 1
    <2>1. PICK g : Folding(exact, amounts, k, g)
      BY <1>2
    <2>2. m \in Nat /\ m = k + 1
      OBVIOUS
    <2> HIDE DEF m
    <2> DEFINE h == [s \in SUBSET (1..m) |->
                       IF m \in s THEN Plus(exact, g[s \ {m}], amounts[m]) ELSE g[s]]
    <2>3. ASSUME NEW s \in SUBSET (1..m)
          PROVE h[s] = IF s = {} THEN 0 ELSE Plus(exact, h[s \ {Max(s)}], amounts[Max(s)])
      <3>1. CASE m \in s
        <4>1. Max(s) = m
          BY <2>2, <3>1, LargestInRange
        <4>2. s \ {m} \in SUBSET (1..m) /\ m \notin s \ {m}
          OBVIOUS
        <4>3. h[s \ {m}] = g[s \ {m}]
          BY <4>2
        <4>4. h[s] = Plus(exact, g[s \ {m}], amounts[m])
          BY <3>1
        <4> HIDE DEF h
        <4> QED BY <3>1, <4>1, <4>3, <4>4
      <3>2. CASE m \notin s
        <4>1. s \in SUBSET (1..k) /\ s \ {Max(s)} \in SUBSET (1..m) /\ m \notin s \ {Max(s)}
          <5>1. \A x \in 1..m : x # m => x \in 1..k
            BY <2>2
          <5> QED BY <3>2, <5>1
        <4>2. \A r \in SUBSET (1..m) : m \notin r => h[r] = g[r]
          OBVIOUS
        <4> HIDE DEF h
        <4>3. g[s] = IF s = {} THEN 0 ELSE Plus(exact, g[s \ {Max(s)}], amounts[Max(s)])
          BY <2>1, <4>1 DEF Folding
        <4>4. h[s] = g[s] /\ h[s \ {Max(s)}] = g[s \ {Max(s)}]
          BY <3>2, <4>1, <4>2
        <4> QED BY <4>3, <4>4
      <3> QED BY <3>1, <3>2
    <2>4. h = [s \in SUBSET (1..m) |-> h[s]]
      OBVIOUS
    <2> HIDE DEF h
    <2>5. h = [s \in SUBSET (1..m) |->
                 IF s = {} THEN 0 ELSE Plus(exact, h[s \ {Max(s)}], amounts[Max(s)])]
      BY <2>3, <2>4, Zenon
    <2>6. Folding(exact, amounts, m, h)
      BY <2>5 DEF Folding
    <2> QED BY <2>2, <2>6 DEF m
  <1> HIDE DEF Good
  <1>3. Nat \subseteq Good
    BY <1>1, <1>2, AllNumbers
  <1> QED BY <1>3 DEF Good

\* The running totals v of a sum: nothing at first, then one amount after the other.
Running(exact, amounts, v) ==
  /\ v[0] = 0
  /\ \A n \in 0..(Len(amounts) - 1) : v[n + 1] = Plus(exact, v[n], amounts[n + 1])

\* A fold is the last of its running totals.
LEMMA FoldRuns ==
  ASSUME NEW exact, NEW amounts \in Seq(Nat)
  PROVE \E v : /\ Running(exact, amounts, v)
               /\ v[Len(amounts)] = (CHOOSE g : Folding(exact, amounts, Len(amounts), g))[1..Len(amounts)]
  <1> DEFINE len == Len(amounts)
             g == CHOOSE f : Folding(exact, amounts, len, f)
             v == [n \in 0..len |-> g[1..n]]
  <1>1. len \in Nat
    OBVIOUS
  <1> HIDE DEF len
  <1>2. Folding(exact, amounts, len, g)
    BY <1>1, FoldingExists
  <1> HIDE DEF g
  <1>3. \A s \in SUBSET (1..len) :
          g[s] = IF s = {} THEN 0 ELSE Plus(exact, g[s \ {Max(s)}], amounts[Max(s)])
    BY <1>2 DEF Folding
  <1>4. \A n \in 0..len : v[n] = g[1..n]
    OBVIOUS
  <1>5. v[0] = 0
    <2>1. 1..0 = {} /\ {} \in SUBSET (1..len) /\ 0 \in 0..len
      BY <1>1
    <2>2. g[{}] = 0
      BY <1>3, <2>1
    <2>3. v[0] = g[1..0]
      BY <1>4, <2>1
    <2> HIDE DEF v
    <2> QED BY <2>1, <2>2, <2>3
  <1>6. ASSUME NEW n \in 0..(len - 1)
        PROVE v[n + 1] = Plus(exact, v[n], amounts[n + 1])
    <2>1. n \in Nat /\ n \in 0..len /\ n + 1 \in 0..len
      BY <1>1
    <2> DEFINE s == 1..(n + 1)
    <2>2. n + 1 \in s /\ s \in SUBSET (1..(n + 1)) /\ s \in SUBSET (1..len)
      BY <1>1
    <2>3. Max(s) = n + 1
      BY <2>1, <2>2, LargestInRange
    <2>4. s \ {n + 1} = 1..n
      BY <2>1, RangeWithoutLast
    <2>5. v[n + 1] = g[s] /\ v[n] = g[1..n]
      BY <1>4, <2>1
    <2> HIDE DEF s, v
    <2>6. g[s] = Plus(exact, g[s \ {Max(s)}], amounts[Max(s)])
      BY <1>3, <2>2
    <2>7. g[s \ {Max(s)}] = g[1..n]
      BY <2>3, <2>4
    <2> QED BY <2>3, <2>5, <2>6, <2>7
  <1>7. v[len] = g[1..len]
    BY <1>1
  <1> HIDE DEF v
  <1>8. Running(exact, amounts, v)
    BY <1>5, <1>6 DEF Running, len
  <1> QED BY <1>7, <1>8 DEF len, g

\* What the database holds, summed up in floating point.
Rounded(amounts) == FoldLeft(LAMBDA total, k : Add(total, FromUnits(k)), 0, amounts)

\* Both sums are such folds.
LEMMA SumsRun ==
  ASSUME NEW amounts \in Seq(Nat)
  PROVE /\ \E v : Running(TRUE, amounts, v) /\ Exact(amounts) = v[Len(amounts)]
        /\ \E v : Running(FALSE, amounts, v) /\ Rounded(amounts) = v[Len(amounts)]
  <1> DEFINE len == Len(amounts)
             Summing(g) == g = [s \in SUBSET (1..len) |->
                                  IF s = {} THEN 0 ELSE g[s \ {Max(s)}] + amounts[Max(s)]]
             Adding(g) == g = [s \in SUBSET (1..len) |->
                                 IF s = {} THEN 0
                                 ELSE Add(g[s \ {Max(s)}], FromUnits(amounts[Max(s)]))]
  <1>1. DOMAIN amounts = 1..len
    OBVIOUS
  <1>2. Exact(amounts) =
          (CHOOSE g : g = [s \in SUBSET (DOMAIN amounts) |->
             IF s = {} THEN 0 ELSE g[s \ {Max(s)}] + amounts[Max(s)]])[DOMAIN amounts]
    BY DEF Exact, FoldLeft, MapThenFoldSet
  <1>3. Rounded(amounts) =
          (CHOOSE g : g = [s \in SUBSET (DOMAIN amounts) |->
             IF s = {} THEN 0 ELSE Add(g[s \ {Max(s)}], FromUnits(amounts[Max(s)]))])[DOMAIN amounts]
    BY DEF Rounded, FoldLeft, MapThenFoldSet
  <1>4. ASSUME NEW g PROVE Summing(g) <=> Folding(TRUE, amounts, len, g)
    BY DEF Folding, Plus
  <1>5. ASSUME NEW g PROVE Adding(g) <=> Folding(FALSE, amounts, len, g)
    BY DEF Folding, Plus
  <1>6. /\ Exact(amounts) = (CHOOSE g : Summing(g))[1..len]
        /\ Rounded(amounts) = (CHOOSE g : Adding(g))[1..len]
    BY <1>1, <1>2, <1>3
  <1> HIDE DEF Summing, Adding, len
  <1>7. (CHOOSE g : Summing(g)) = CHOOSE g : Folding(TRUE, amounts, len, g)
    BY <1>4
  <1>8. (CHOOSE g : Adding(g)) = CHOOSE g : Folding(FALSE, amounts, len, g)
    BY <1>5
  <1>9. \E v : Running(TRUE, amounts, v) /\ Exact(amounts) = v[Len(amounts)]
    BY <1>6, <1>7, FoldRuns DEF len
  <1>10. \E v : Running(FALSE, amounts, v) /\ Rounded(amounts) = v[Len(amounts)]
    BY <1>6, <1>8, FoldRuns DEF len
  <1> QED BY <1>9, <1>10
\* A sum of n amounts is off by 2 n + 1 parts at most.
LEMMA SumNear ==
  ASSUME NEW amounts \in Seq(Nat), 2 * Len(amounts) <= Scale
  PROVE /\ Exact(amounts) \in Nat
        /\ Near(Rounded(amounts), Exact(amounts), 2 * Len(amounts) + 1)
  <1>1. PICK v : Running(TRUE, amounts, v) /\ Exact(amounts) = v[Len(amounts)]
    BY SumsRun
  <1>2. PICK w : Running(FALSE, amounts, w) /\ Rounded(amounts) = w[Len(amounts)]
    BY SumsRun
  <1> DEFINE len == Len(amounts)
             Good(n) == v[n] \in Nat /\ Near(w[n], v[n], 2 * n + 1)
             Always == {n \in Nat : Good(n)}
  <1>3. len \in Nat /\ 2 * len <= Scale
    OBVIOUS
  <1>4. \A n \in 1..len : amounts[n] \in Nat
    OBVIOUS
  <1> HIDE DEF len
  <1>5. Good(0)
    <2>1. v[0] = 0 /\ w[0] = 0
      BY <1>1, <1>2 DEF Running
    <2>2. Near(0, 0, 2 * 0 + 1)
      BY Constants DEF Near
    <2> QED BY <2>1, <2>2
  <1>6. ASSUME NEW n \in 0..(len - 1), Good(n) PROVE Good(n + 1)
    <2> DEFINE k == amounts[n + 1]
               j == 2 * n + 1
    <2>1. n \in Nat /\ n + 1 \in 1..len /\ j \in Nat /\ 1 <= j /\ j <= Scale /\ j + 2 = 2 * (n + 1) + 1
      BY <1>3, Constants
    <2>2. k \in Nat
      BY <1>4, <2>1
    <2>3. v[n + 1] = v[n] + k /\ w[n + 1] = Add(w[n], FromUnits(k))
      BY <1>1, <1>2 DEF Running, Plus, len
    <2>4. v[n] \in Nat /\ Near(w[n], v[n], j)
      BY <1>6
    <2>5. Near(FromUnits(k), k, 1)
      BY <2>2, FromUnitsNear
    <2> HIDE DEF k, j
    <2>6. Near(Add(w[n], FromUnits(k)), v[n] + k, j + 2)
      BY <2>1, <2>2, <2>4, <2>5, AddNear
    <2>7. v[n] + k \in Nat
      BY <2>2, <2>4
    <2> QED BY <2>1, <2>3, <2>6, <2>7
  <1> HIDE DEF Good
  <1>7. 0..len \subseteq Always
    <2>1. 0 \in Always /\ \A n \in 0..(len - 1) : n \in Always => n + 1 \in Always
      BY <1>5, <1>6
    <2> HIDE DEF Always
    <2> QED BY <1>3, <2>1, AllUpTo
  <1>8. Good(len)
    <2>1. len \in 0..len
      BY <1>3
    <2> QED BY <1>7, <2>1
  <1> QED BY <1>1, <1>2, <1>8 DEF Good, len

\* t has the elements of s, and k at place i.
Inserted(t, s, i, k) ==
  /\ t \in Seq(Nat) /\ Len(t) = Len(s) + 1
  /\ \A n \in 1..(Len(s) + 1) : t[n] = IF n < i THEN s[n] ELSE IF n = i THEN k ELSE s[n - 1]

\* InsertAt gives a sequence with one more element.
LEMMA InsertedElements ==
  \A s \in Seq(Nat) : \A i \in 1..(Len(s) + 1), k \in Nat : Inserted(InsertAt(s, i, k), s, i, k)
  <1> SUFFICES ASSUME NEW s \in Seq(Nat), NEW i \in 1..(Len(s) + 1), NEW k \in Nat
      PROVE Inserted(InsertAt(s, i, k), s, i, k)
    BY Zenon
  <1> DEFINE before == SubSeq(s, 1, i - 1)
             after == SubSeq(s, i, Len(s))
             one == <<k>>
  <1>1. Len(s) \in Nat /\ i \in Nat /\ 1 <= i /\ i <= Len(s) + 1 /\ \A n \in 1..Len(s) : s[n] \in Nat
    OBVIOUS
  <1>2. /\ before \in Seq(Nat) /\ Len(before) = i - 1
        /\ \A n \in 1..(i - 1) : before[n] = s[n]
    <2>1. \A n \in 1..(i - 1) : s[n] \in Nat
      BY <1>1
    <2>2. 1 \in Int /\ i - 1 \in Int
      BY <1>1
    <2>3. /\ SubSeq(s, 1, i - 1) \in Seq(Nat)
          /\ Len(SubSeq(s, 1, i - 1)) = IF 1 <= i - 1 THEN (i - 1) - 1 + 1 ELSE 0
          /\ \A n \in 1..((i - 1) - 1 + 1) : SubSeq(s, 1, i - 1)[n] = s[1 + n - 1]
      BY <2>1, <2>2, SubSeqProperties
    <2>4. (i - 1) - 1 + 1 = i - 1 /\ \A n \in 1..(i - 1) : 1 + n - 1 = n
      BY <1>1
    <2> HIDE DEF before
    <2> QED BY <1>1, <2>3, <2>4 DEF before
  <1>3. /\ after \in Seq(Nat) /\ Len(after) = Len(s) - i + 1
        /\ \A n \in 1..(Len(s) - i + 1) : after[n] = s[i + n - 1]
    <2>1. \A n \in i..Len(s) : s[n] \in Nat
      BY <1>1
    <2>2. /\ SubSeq(s, i, Len(s)) \in Seq(Nat)
          /\ Len(SubSeq(s, i, Len(s))) = IF i <= Len(s) THEN Len(s) - i + 1 ELSE 0
          /\ \A n \in 1..(Len(s) - i + 1) : SubSeq(s, i, Len(s))[n] = s[i + n - 1]
      BY <1>1, <2>1, SubSeqProperties
    <2> QED BY <1>1, <2>2
  <1>4. one \in Seq(Nat) /\ Len(one) = 1 /\ one[1] = k
    OBVIOUS
  <1> HIDE DEF before, after, one
  <1> DEFINE front == before \o one
  <1>5. /\ front \in Seq(Nat) /\ Len(front) = (i - 1) + 1
        /\ \A n \in 1..((i - 1) + 1) : front[n] = IF n <= i - 1 THEN before[n] ELSE one[n - (i - 1)]
    <2>1. /\ before \o one \in Seq(Nat) /\ Len(before \o one) = Len(before) + Len(one)
          /\ \A n \in 1..(Len(before) + Len(one)) :
               (before \o one)[n] = IF n <= Len(before) THEN before[n] ELSE one[n - Len(before)]
      BY <1>2, <1>4, ConcatProperties
    <2> HIDE DEF front
    <2>2. front = before \o one
      BY DEF front
    <2> QED BY <1>2, <1>4, <2>1, <2>2
  <1>6. Len(front) = i /\ \A n \in 1..i : front[n] = IF n < i THEN s[n] ELSE k
    <2>1. (i - 1) + 1 = i
      BY <1>1
    <2>2. ASSUME NEW n \in 1..i, n < i PROVE front[n] = s[n]
      <3>1. n \in 1..(i - 1) /\ n <= i - 1 /\ n \in 1..((i - 1) + 1)
        BY <1>1, <2>2
      <3> HIDE DEF front
      <3> QED BY <1>2, <1>5, <3>1
    <2>3. front[i] = k
      <3>1. i \in 1..((i - 1) + 1) /\ ~ (i <= i - 1) /\ i - (i - 1) = 1
        BY <1>1
      <3> HIDE DEF front
      <3> QED BY <1>4, <1>5, <3>1
    <2> HIDE DEF front
    <2>4. \A n \in 1..i : n < i \/ n = i
      BY <1>1
    <2> QED BY <1>5, <2>1, <2>2, <2>3, <2>4
  <1>7. InsertAt(s, i, k) = front \o after
    BY DEF InsertAt, before, after, one
  <1> HIDE DEF front
  <1> DEFINE t == front \o after
  <1>8. /\ t \in Seq(Nat) /\ Len(t) = i + (Len(s) - i + 1)
        /\ \A n \in 1..(i + (Len(s) - i + 1)) : t[n] = IF n <= i THEN front[n] ELSE after[n - i]
    <2>1. /\ front \o after \in Seq(Nat) /\ Len(front \o after) = Len(front) + Len(after)
          /\ \A n \in 1..(Len(front) + Len(after)) :
               (front \o after)[n] = IF n <= Len(front) THEN front[n] ELSE after[n - Len(front)]
      BY <1>3, <1>5, ConcatProperties
    <2> HIDE DEF t
    <2>2. t = front \o after
      BY DEF t
    <2> QED BY <1>3, <1>6, <2>1, <2>2
  <1> HIDE DEF t
  <1>9. i + (Len(s) - i + 1) = Len(s) + 1
    BY <1>1
  <1>10. ASSUME NEW n \in 1..(Len(s) + 1)
         PROVE t[n] = IF n < i THEN s[n] ELSE IF n = i THEN k ELSE s[n - 1]
    <2>1. CASE n <= i
      <3>1. n \in 1..i
        BY <1>1, <2>1
      <3>2. t[n] = front[n]
        BY <1>8, <1>9, <2>1
      <3>3. n < i \/ (n = i /\ ~ (n < i))
        BY <1>1, <2>1
      <3> QED BY <1>6, <3>1, <3>2, <3>3
    <2>2. CASE ~ (n <= i)
      <3>1. n - i \in 1..(Len(s) - i + 1) /\ i + (n - i) - 1 = n - 1 /\ ~ (n < i) /\ n # i
        BY <1>1, <2>2
      <3>2. t[n] = after[n - i]
        BY <1>8, <1>9, <2>2
      <3> QED BY <1>3, <3>1, <3>2
    <2> QED BY <2>1, <2>2
  <1>11. InsertAt(s, i, k) = t
    BY <1>7 DEF t
  <1>12. Inserted(t, s, i, k)
    BY <1>8, <1>9, <1>10 DEF Inserted
  <1> QED BY <1>11, <1>12, Zenon

\* Wherever a payment is listed, it adds its amount to the sum.
LEMMA InsertedSum ==
  ASSUME NEW s \in Seq(Nat), NEW i \in 1..(Len(s) + 1), NEW k \in Nat
  PROVE Exact(InsertAt(s, i, k)) = Exact(s) + k
  <1> DEFINE t == InsertAt(s, i, k)
             len == Len(s)
  <1> HIDE DEF t, len
  <1>1. /\ t \in Seq(Nat) /\ Len(t) = len + 1
        /\ \A n \in 1..(len + 1) : t[n] = IF n < i THEN s[n] ELSE IF n = i THEN k ELSE s[n - 1]
    <2>1. Inserted(InsertAt(s, i, k), s, i, k)
      BY InsertedElements, Zenon
    <2>2. Inserted(t, s, i, k) /\ len = Len(s)
      BY <2>1, Zenon DEF t, len
    <2> QED BY <2>2 DEF Inserted
  <1> USE DEF len
  <1>2. PICK v : Running(TRUE, s, v) /\ Exact(s) = v[len]
    BY SumsRun
  <1>3. PICK w : Running(TRUE, t, w) /\ Exact(t) = w[len + 1]
    BY <1>1, SumsRun
  <1>4. len \in Nat /\ i \in Nat /\ 1 <= i /\ i <= len + 1
    OBVIOUS
  <1>5. v[0] = 0 /\ \A n \in 0..(len - 1) : v[n + 1] = v[n] + s[n + 1]
    BY <1>2 DEF Running, Plus
  <1>6. w[0] = 0 /\ \A n \in 0..len : w[n + 1] = w[n] + t[n + 1]
    <2>1. (len + 1) - 1 = len
      BY <1>4
    <2> QED BY <1>1, <1>3, <2>1 DEF Running, Plus
  <1>7. \A n \in 1..len : s[n] \in Nat
    OBVIOUS
  <1> HIDE DEF len
  <1> DEFINE Good(n) == IF n < i THEN w[n] = v[n] /\ v[n] \in Nat
                        ELSE w[n] = v[n - 1] + k /\ v[n - 1] \in Nat
             Always == {n \in Nat : Good(n)}
  <1>8. Good(0)
    BY <1>4, <1>5, <1>6
  <1>9. ASSUME NEW n \in 0..len, Good(n) PROVE Good(n + 1)
    <2>1. n \in Nat /\ n + 1 \in 1..(len + 1) /\ (n + 1) - 1 = n /\ w[n + 1] = w[n] + t[n + 1]
      BY <1>4, <1>6
    <2>2. CASE n + 1 < i
      <3>1. n \in 0..(len - 1) /\ n < i /\ n + 1 \in 1..len
        BY <1>4, <2>2
      <3>2. t[n + 1] = s[n + 1] /\ v[n + 1] = v[n] + s[n + 1] /\ s[n + 1] \in Nat
        BY <1>1, <1>5, <1>7, <2>1, <2>2, <3>1
      <3>3. w[n] = v[n] /\ v[n] \in Nat
        BY <1>9, <3>1
      <3>4. w[n + 1] = v[n + 1] /\ v[n + 1] \in Nat
        BY <2>1, <3>2, <3>3
      <3> QED BY <2>2, <3>4
    <2>3. CASE n + 1 = i
      <3>1. n < i /\ ~ (n + 1 < i)
        BY <1>4, <2>1, <2>3
      <3>2. t[n + 1] = k
        BY <1>1, <2>1, <2>3, <3>1
      <3>3. w[n] = v[n] /\ v[n] \in Nat
        BY <1>9, <3>1
      <3> QED BY <2>1, <3>1, <3>2, <3>3
    <2>4. CASE n + 1 > i
      <3>1. ~ (n < i) /\ ~ (n + 1 < i) /\ n + 1 # i /\ n \in 1..len
        BY <1>4, <2>1, <2>4
      <3> DEFINE m == n - 1
      <3>2. m \in 0..(len - 1) /\ m + 1 = n
        BY <1>4, <3>1
      <3>3. w[n] = v[m] + k /\ v[m] \in Nat
        BY <1>9, <3>1
      <3> HIDE DEF m
      <3>4. v[n] = v[m] + s[n] /\ s[n] \in Nat
        BY <1>5, <1>7, <3>1, <3>2
      <3>5. t[n + 1] = s[n]
        BY <1>1, <2>1, <3>1
      <3>6. w[n + 1] = v[n] + k /\ v[n] \in Nat
        BY <2>1, <3>3, <3>4, <3>5
      <3> QED BY <2>1, <3>1, <3>6
    <2> QED BY <1>4, <2>1, <2>2, <2>3, <2>4
  <1> HIDE DEF Good
  <1>10. 0..(len + 1) \subseteq Always
    <2>1. (len + 1) - 1 = len /\ len + 1 \in Nat
      BY <1>4
    <2>2. 0 \in Always /\ \A n \in 0..((len + 1) - 1) : n \in Always => n + 1 \in Always
      BY <1>4, <1>8, <1>9, <2>1
    <2> HIDE DEF Always
    <2> QED BY <2>1, <2>2, AllUpTo
  <1>11. Good(len + 1)
    <2>1. len + 1 \in 0..(len + 1)
      BY <1>4
    <2> QED BY <1>10, <2>1
  <1>12. w[len + 1] = v[len] + k
    <2>1. ~ (len + 1 < i) /\ (len + 1) - 1 = len
      BY <1>4
    <2> QED BY <1>11, <2>1 DEF Good
  <1> QED BY <1>2, <1>3, <1>12 DEF t
-----------------------------------------------------------------------------
(* The comparison with a budget.                                           *)

\* Below MaxRows rows, the errors of both sides are less than a unit.
LEMMA ErrorsBelowUnit ==
  ASSUME NEW n \in Nat, n < MaxRows, NEW b \in Budgets
  PROVE /\ b \in Nat /\ 2 * n + 3 < Scale
        /\ (b + 1) * (2 * n + 3) + b < Scale
  <1> DEFINE j == 2 * n + 3
  <1>1. MaxRows \in Nat /\ b \in Nat
    BY ArithmeticAssumption
  <1>2. 2 * (MaxRows + 1) * (b + 1) <= Scale
    BY PrecisionAssumption DEF Scale
  <1>3. j \in Nat /\ j + 1 <= 2 * (MaxRows + 1)
    BY <1>1
  <1> HIDE DEF j
  <1>4. (j + 1) * (b + 1) <= 2 * (MaxRows + 1) * (b + 1)
    <2>1. j + 1 \in Int /\ 2 * (MaxRows + 1) \in Int /\ b + 1 \in Nat
      BY <1>1, <1>3
    <2> QED BY <1>3, <2>1, Times
  <1>5. (j + 1) * (b + 1) = (b + 1) * j + b + 1 /\ (b + 1) * j = b * j + j
    BY <1>1, <1>3
  <1>6. /\ b * j \in Nat /\ (b + 1) * j \in Nat /\ Scale \in Nat
        /\ 2 * (MaxRows + 1) * (b + 1) \in Int
    BY <1>1, <1>3, Constants
  <1> QED BY <1>1, <1>2, <1>4, <1>5, <1>6 DEF j

\* The comparison of server.go line 341 is right to the unit: what it lets through
\* is within the budget, and what it refuses reaches the budget.
LEMMA ComparisonRight ==
  ASSUME NEW amounts \in Seq(Nat), Len(amounts) < MaxRows, NEW k \in Nat, NEW b \in Budgets
  PROVE /\ Exact(amounts) \in Nat
        /\ Add(Rounded(amounts), FromUnits(k)) > FromUnits(b) => Exact(amounts) + k >= b
        /\ ~ (Add(Rounded(amounts), FromUnits(k)) > FromUnits(b)) => Exact(amounts) + k <= b
  <1> DEFINE len == Len(amounts)
             n == Exact(amounts) + k
             j == 2 * len + 3
             sum == Add(Rounded(amounts), FromUnits(k))
             limit == FromUnits(b)
  <1>1. len \in Nat /\ len < MaxRows
    OBVIOUS
  <1>2. b \in Nat /\ j < Scale /\ (b + 1) * j + b < Scale
    BY <1>1, ErrorsBelowUnit
  <1>3. /\ Unit \in Nat \ {0} /\ Grid \in Nat \ {0} /\ Scale \in Nat \ {0}
        /\ j \in Nat /\ 2 * len <= Scale /\ 1 <= 2 * len + 1 /\ 2 * len + 1 <= Scale
        /\ 2 * len + 1 \in Nat /\ (2 * len + 1) + 2 = j
    BY <1>1, <1>2, Constants
  <1>4. Exact(amounts) \in Nat /\ Near(Rounded(amounts), Exact(amounts), 2 * len + 1)
    BY <1>3, SumNear
  <1>5. Near(sum, n, j) /\ n \in Nat
    <2>1. Near(FromUnits(k), k, 1)
      BY FromUnitsNear
    <2> HIDE DEF len
    <2>2. Near(sum, n, (2 * len + 1) + 2)
      BY <1>3, <1>4, <2>1, AddNear
    <2> QED BY <1>3, <1>4, <2>2
  <1>6. Near(limit, b, 1)
    BY <1>2, FromUnitsNear
  <1> HIDE DEF sum, n, j, limit, len
  <1> DEFINE x == (Unit * sum) * Scale
             y == (Unit * limit) * Scale
  <1>7. sum \in Nat /\ limit \in Nat /\ x \in Nat /\ y \in Nat
    BY <1>3, <1>5, <1>6 DEF Near
  <1>8. /\ x <= (n * Grid) * (Scale + j) /\ (n * Grid) * (Scale - j) <= x
        /\ y <= (b * Grid) * (Scale + 1) /\ (b * Grid) * (Scale - 1) <= y
    BY <1>5, <1>6 DEF Near
  <1>9. (sum <= limit => x <= y) /\ (limit <= sum => y <= x)
    <2>1. (sum <= limit => sum * (Unit * Scale) <= limit * (Unit * Scale))
          /\ (limit <= sum => limit * (Unit * Scale) <= sum * (Unit * Scale))
      <3>1. Unit * Scale \in Nat
        BY <1>3
      <3> QED BY <1>7, <3>1, Times
    <2>2. x = sum * (Unit * Scale) /\ y = limit * (Unit * Scale)
      BY <1>3, <1>7
    <2> QED BY <2>1, <2>2
  <1> HIDE DEF x, y
  <1>10. ASSUME sum <= limit PROVE n <= b
    <2> SUFFICES ASSUME n >= b + 1 PROVE FALSE
      BY <1>2, <1>5
    <2>1. (b + 1) * (Grid * (Scale - j)) <= n * (Grid * (Scale - j))
      <3>1. Scale - j \in Nat
        BY <1>2, <1>3
      <3>2. Grid * (Scale - j) \in Nat
        BY <1>3, <3>1
      <3> QED BY <1>2, <1>5, <3>2, Times
    <2>2. /\ (b + 1) * (Grid * (Scale - j)) = ((b + 1) * (Scale - j)) * Grid
          /\ n * (Grid * (Scale - j)) = (n * Grid) * (Scale - j)
          /\ (b * Grid) * (Scale + 1) = (b * (Scale + 1)) * Grid
      BY <1>2, <1>3, <1>5
    <2>3. /\ (b + 1) * (Scale - j) \in Int /\ b * (Scale + 1) \in Int
          /\ ((b + 1) * (Scale - j)) * Grid \in Int /\ (b * (Scale + 1)) * Grid \in Int
          /\ (n * Grid) * (Scale - j) \in Int
      BY <1>2, <1>3, <1>5
    <2>4. ((b + 1) * (Scale - j)) * Grid <= (b * (Scale + 1)) * Grid
      BY <1>7, <1>8, <1>9, <1>10, <2>1, <2>2, <2>3
    <2>5. (b + 1) * (Scale - j) <= b * (Scale + 1)
      BY <1>3, <2>3, <2>4, Cancel
    <2>6. /\ (b + 1) * (Scale - j) = b * Scale + Scale - (b + 1) * j
          /\ b * (Scale + 1) = b * Scale + b
      BY <1>2, <1>3
    <2>7. b * Scale \in Int /\ (b + 1) * j \in Int
      BY <1>2, <1>3
    <2> QED BY <1>2, <1>3, <2>5, <2>6, <2>7
  <1>11. ASSUME sum > limit PROVE n >= b
    <2> SUFFICES ASSUME n <= b - 1 PROVE FALSE
      BY <1>2, <1>5
    <2>1. n * (Grid * (Scale + j)) <= (b - 1) * (Grid * (Scale + j))
      <3>1. Grid * (Scale + j) \in Nat /\ b - 1 \in Int
        BY <1>2, <1>3
      <3> QED BY <1>5, <3>1, Times
    <2>2. /\ (b - 1) * (Grid * (Scale + j)) = ((b - 1) * (Scale + j)) * Grid
          /\ n * (Grid * (Scale + j)) = (n * Grid) * (Scale + j)
          /\ (b * Grid) * (Scale - 1) = (b * (Scale - 1)) * Grid
      BY <1>2, <1>3, <1>5
    <2>3. /\ (b - 1) * (Scale + j) \in Int /\ b * (Scale - 1) \in Int
          /\ ((b - 1) * (Scale + j)) * Grid \in Int /\ (b * (Scale - 1)) * Grid \in Int
          /\ (n * Grid) * (Scale + j) \in Int
      BY <1>2, <1>3, <1>5
    <2>4. y <= x
      BY <1>7, <1>9, <1>11
    <2>5. (b * (Scale - 1)) * Grid <= ((b - 1) * (Scale + j)) * Grid
      BY <1>7, <1>8, <2>1, <2>2, <2>3, <2>4
    <2>6. b * (Scale - 1) <= (b - 1) * (Scale + j)
      BY <1>3, <2>3, <2>5, Cancel
    <2>7. /\ b * (Scale - 1) = b * Scale - b
          /\ (b - 1) * (Scale + j) = b * Scale - Scale + (b + 1) * j - j - j
      BY <1>2, <1>3
    <2>8. b * Scale \in Int /\ (b + 1) * j \in Int
      BY <1>2, <1>3
    <2> QED BY <1>2, <1>3, <2>6, <2>7, <2>8
  <1>12. sum > limit \/ sum <= limit
    BY <1>7
  <1> QED BY <1>4, <1>7, <1>10, <1>11, <1>12 DEF n, sum, limit

-----------------------------------------------------------------------------
(* One payment after the other.                                            *)

\* A request that was refused would still be refused: rows and budget are what
\* it was refused for.
ArithmeticInv ==
  /\ budget \in Budgets /\ rows \in Seq(Prices) /\ Len(rows) <= MaxRows
  /\ refused # 0 => refused \in Prices /\ Len(rows) < MaxRows /\ OverBudget(refused)

\* Prices are amounts.
LEMMA PricesAreAmounts == Prices \subseteq Nat \ {0} /\ Seq(Prices) \subseteq Seq(Nat)
  <1>1. Power[Precision] \in Nat
    BY Constants DEF Scale
  <1>2. Prices \subseteq Nat \ {0}
    BY <1>1, ArithmeticAssumption
  <1>3. ASSUME NEW s \in Seq(Prices) PROVE s \in Seq(Nat)
    <2>1. Len(s) \in Nat /\ s \in [1..Len(s) -> Prices]
      BY LenProperties
    <2>2. s \in [1..Len(s) -> Nat]
      BY <1>2, <2>1
    <2> QED BY <2>1, <2>2
  <1> QED BY <1>2, <1>3

\* A payment is recorded behind the comparison, and adds its amount.
LEMMA PaymentRecorded ==
  ASSUME rows \in Seq(Prices), NEW k \in Prices, Recorded(k)
  PROVE /\ rows' \in Seq(Prices) /\ Len(rows') = Len(rows) + 1
        /\ Exact(rows') = Exact(rows) + k
  <1>1. PICK i \in 1..(Len(rows) + 1) : rows' = InsertAt(rows, i, k)
    BY DEF Recorded
  <1>2. rows \in Seq(Nat) /\ k \in Nat
    BY PricesAreAmounts
  <1>3. /\ rows' \in Seq(Nat) /\ Len(rows') = Len(rows) + 1
        /\ \A n \in 1..(Len(rows) + 1) :
             rows'[n] = IF n < i THEN rows[n] ELSE IF n = i THEN k ELSE rows[n - 1]
    <2>1. Inserted(InsertAt(rows, i, k), rows, i, k)
      BY <1>2, InsertedElements, Zenon
    <2>2. Inserted(rows', rows, i, k)
      BY <1>1, <2>1, Zenon
    <2> QED BY <2>2 DEF Inserted
  <1>4. Exact(rows') = Exact(rows) + k
    BY <1>1, <1>2, InsertedSum
  <1>5. \A n \in 1..(Len(rows) + 1) : rows'[n] \in Prices
    <2> TAKE n \in 1..(Len(rows) + 1)
    <2>1. Len(rows) \in Nat /\ \A m \in 1..Len(rows) : rows[m] \in Prices
      OBVIOUS
    <2>2. (n < i => n \in 1..Len(rows)) /\ (n > i => n - 1 \in 1..Len(rows))
      BY <2>1
    <2>3. n < i \/ n = i \/ n > i
      OBVIOUS
    <2> QED BY <1>3, <2>1, <2>2, <2>3
  <1> QED BY <1>3, <1>4, <1>5

\* The consumption is a rounded sum.
LEMMA ConsumptionIsRounded == Consumption = Rounded(rows) /\ Consumption' = Rounded(rows')
  <1>1. Consumption = Rounded(rows)
    BY DEF Consumption, Rounded, FoldLeft, MapThenFoldSet
  <1>2. Consumption' = Rounded(rows')
    BY DEF Consumption, Rounded, FoldLeft, MapThenFoldSet
  <1> QED BY <1>1, <1>2

\* No payment, no refusal.
LEMMA InitArithmetic == Init => ArithmeticInv
  BY ArithmeticAssumption DEF Init, ArithmeticInv

\* A payment is refused for what the rows are, or recorded.
LEMMA PayArithmetic ==
  ASSUME ArithmeticInv, NEW k \in Prices, Pay(k)
  PROVE ArithmeticInv'
  <1>1. /\ Len(rows) < MaxRows /\ budget' = budget /\ budget \in Budgets /\ rows \in Seq(Prices)
        /\ Len(rows) \in Nat /\ MaxRows \in Nat
    BY ArithmeticAssumption DEF Pay, ArithmeticInv
  <1>2. CASE OverBudget(k)
    <2>1. refused' = k /\ rows' = rows
      BY <1>2 DEF Pay
    <2>2. OverBudget(k)'
      BY <1>1, <1>2, <2>1, ConsumptionIsRounded DEF OverBudget
    <2>3. (OverBudget(refused))'
      BY <2>1, <2>2 DEF OverBudget
    <2> QED BY <1>1, <2>1, <2>3 DEF ArithmeticInv
  <1>3. CASE ~ OverBudget(k)
    <2>1. Recorded(k) /\ refused' = 0
      BY <1>3 DEF Pay
    <2>2. rows' \in Seq(Prices) /\ Len(rows') = Len(rows) + 1
      BY <1>1, <2>1, PaymentRecorded
    <2> QED BY <1>1, <2>1, <2>2 DEF ArithmeticInv
  <1> QED BY <1>2, <1>3

\* Every step keeps the invariant.
LEMMA NextArithmetic == ArithmeticInv /\ [Next]_vars => ArithmeticInv'
  <1> SUFFICES ASSUME ArithmeticInv, [Next]_vars PROVE ArithmeticInv'
    OBVIOUS
  <1>1. ASSUME NEW k \in Prices, Pay(k) PROVE ArithmeticInv'
    BY <1>1, PayArithmetic
  <1>2. ASSUME NEW b \in Budgets, ChangeBudget(b) PROVE ArithmeticInv'
    BY <1>2 DEF ChangeBudget, ArithmeticInv
  <1>3. ASSUME NewMonth PROVE ArithmeticInv'
    BY <1>3, ArithmeticAssumption DEF NewMonth, ArithmeticInv
  <1>4. ASSUME UNCHANGED vars PROVE ArithmeticInv'
    <2>1. budget' = budget /\ rows' = rows /\ refused' = refused
      BY <1>4 DEF vars
    <2>2. OverBudget(refused)' <=> OverBudget(refused)
      BY <2>1, ConsumptionIsRounded DEF OverBudget
    <2> QED BY <2>1, <2>2 DEF ArithmeticInv
  <1> QED BY <1>1, <1>2, <1>3, <1>4 DEF Next

\* No payment is refused because a sum was rounded up, unless it would have used
\* the budget up to its last unit: whoever was refused reaches the budget.
THEOREM RefusedAtTheEdge == Spec => []RefusedOnlyAtTheEdge
  <1>1. ArithmeticInv => RefusedOnlyAtTheEdge
    <2> SUFFICES ASSUME ArithmeticInv, refused # 0 PROVE Exact(rows) + refused >= budget
      BY DEF RefusedOnlyAtTheEdge
    <2>1. /\ budget \in Budgets /\ rows \in Seq(Nat) /\ refused \in Nat /\ Len(rows) < MaxRows
          /\ Add(Rounded(rows), FromUnits(refused)) > FromUnits(budget)
      BY PricesAreAmounts, ConsumptionIsRounded DEF ArithmeticInv, OverBudget
    <2> QED BY <2>1, ComparisonRight
  <1> QED BY <1>1, InitArithmetic, NextArithmetic, PTL DEF Spec

\* No payment is let through because a sum was rounded down: what a recorded payment
\* leaves in the month's rows is within the budget it was compared with.
THEOREM AcceptedWithin == Spec => AcceptedWithinBudget
  <1>1. ArithmeticInv /\ [Next]_vars => [rows' # rows => Exact(rows') <= budget]_vars
    <2> SUFFICES ASSUME ArithmeticInv, Next, rows' # rows PROVE Exact(rows') <= budget
      BY DEF vars
    <2>1. ASSUME NEW k \in Prices, Pay(k) PROVE Exact(rows') <= budget
      <3>1. Len(rows) < MaxRows /\ Recorded(k) /\ ~ OverBudget(k)
        BY <2>1 DEF Pay
      <3>2. rows \in Seq(Prices) /\ rows \in Seq(Nat) /\ k \in Nat /\ budget \in Budgets
        BY PricesAreAmounts DEF ArithmeticInv
      <3>3. ~ (Add(Rounded(rows), FromUnits(k)) > FromUnits(budget))
        BY <3>1, ConsumptionIsRounded DEF OverBudget
      <3>4. Exact(rows) + k <= budget
        BY <3>1, <3>2, <3>3, ComparisonRight
      <3>5. Exact(rows') = Exact(rows) + k
        BY <3>1, <3>2, PaymentRecorded
      <3> QED BY <3>4, <3>5
    <2>2. ASSUME NewMonth PROVE Exact(rows') <= budget
      <3>1. rows' = <<>> /\ <<>> \in Seq(Nat) /\ Len(<<>>) = 0
        BY <2>2 DEF NewMonth
      <3>2. PICK v : Running(TRUE, <<>>, v) /\ Exact(<<>>) = v[0]
        BY <3>1, SumsRun
      <3>3. Exact(<<>>) = 0
        BY <3>2 DEF Running
      <3>4. budget \in Nat
        BY ArithmeticAssumption DEF ArithmeticInv
      <3> QED BY <3>1, <3>3, <3>4
    <2> QED BY <2>1, <2>2 DEF Next, ChangeBudget
  <1> QED BY <1>1, InitArithmetic, NextArithmetic, PTL DEF Spec, AcceptedWithinBudget
=============================================================================
