--------------------------- MODULE EndPointProofs ---------------------------
(***************************************************************************)
(* Proofs about EndPoint, for every address of every length, every number  *)
(* of values of a byte and every number of objects.                        *)
(***************************************************************************)
EXTENDS EndPoint, WellFoundedInduction, TLAPS

(***************************************************************************)
(* Induction and recursion over the naturals, for sets and functions.      *)
(***************************************************************************)
LEMMA Least ==
  ASSUME NEW T, T \subseteq Nat, T # {}
  PROVE  \E x \in T : \A y \in T : x <= y
<1> DEFINE R == OpToRel(<, Nat)
<1>1. IsWellFoundedOn(R, Nat)
  BY NatLessThanWellFounded
<1>2. \A x, y \in Nat : y < x => <<y, x>> \in R
  BY DEF OpToRel
<1> HIDE DEF R
<1>3. PICK x \in T : \A y \in T : ~(<<y, x>> \in R)
  BY <1>1, WFMin
<1>4. \A y \in T : x <= y
  <2> SUFFICES ASSUME NEW y \in T PROVE x <= y
    OBVIOUS
  <2>1. x \in Nat /\ y \in Nat
    OBVIOUS
  <2>2. ~(y < x)
    BY <1>2, <1>3, <2>1, Zenon
  <2> QED BY <2>1, <2>2
<1> QED BY <1>3, <1>4

LEMMA Induction ==
  ASSUME NEW T, 0 \in T, \A n \in Nat : n \in T => n + 1 \in T
  PROVE  Nat \subseteq T
<1> SUFFICES ASSUME Nat \ T # {} PROVE FALSE
  OBVIOUS
<1>1. PICK x \in Nat \ T : \A y \in Nat \ T : x <= y
  BY Least
<1>2. x - 1 \in Nat /\ x - 1 \in T
  BY <1>1
<1>3. x - 1 + 1 \in T
  BY <1>2
<1> QED BY <1>1, <1>3

\* A sequence of numbers is defined by its first and by how each gives the next.
LEMMA Recursion ==
  ASSUME NEW c \in Int, NEW F \in [Nat \X Int -> Int]
  PROVE  \E G \in [Nat -> Int] : G[0] = c /\ \A n \in Nat : G[n + 1] = F[<<n, G[n]>>]
<1> DEFINE Good(n) == {g \in [0..n -> Int] :
                         g[0] = c /\ \A k \in 0..n : k < n => g[k + 1] = F[<<k, g[k]>>]}
<1>1. \A n \in Nat : Good(n) # {}
  <2> DEFINE T == {n \in Nat : Good(n) # {}}
  <2>1. 0 \in T
    <3> DEFINE g == [k \in 0..0 |-> c]
    <3>1. g \in Good(0)
      OBVIOUS
    <3> QED BY <3>1
  <2>2. ASSUME NEW n \in Nat, n \in T PROVE n + 1 \in T
    <3>1. PICK g \in [0..n -> Int] :
            g[0] = c /\ \A k \in 0..n : k < n => g[k + 1] = F[<<k, g[k]>>]
      BY <2>2
    <3> DEFINE h == [k \in 0..n + 1 |-> IF k <= n THEN g[k] ELSE F[<<n, g[n]>>]]
    <3>2. F[<<n, g[n]>>] \in Int
      BY <3>1
    <3>3. h \in [0..n + 1 -> Int] /\ h[0] = c
      BY <3>1, <3>2
    <3>4. ASSUME NEW k \in 0..n + 1, k < n + 1 PROVE h[k + 1] = F[<<k, h[k]>>]
      <4>1. CASE k = n
        BY <4>1
      <4>2. CASE k < n
        BY <3>1, <4>2
      <4> QED BY <3>4, <4>1, <4>2
    <3>5. h \in Good(n + 1)
      BY <3>3, <3>4
    <3> HIDE DEF h, Good
    <3>6. Good(n + 1) # {} /\ n + 1 \in Nat
      BY <3>5
    <3> QED BY <3>6
  <2> HIDE DEF T
  <2>3. Nat \subseteq T
    BY <2>1, <2>2, Induction
  <2> QED BY <2>3 DEF T
<1>2. ASSUME NEW m \in Nat, NEW n \in Nat, NEW g \in Good(m), NEW h \in Good(n)
      PROVE  \A k \in Nat : k <= m /\ k <= n => g[k] = h[k]
  <2> DEFINE T == {k \in Nat : k <= m /\ k <= n => g[k] = h[k]}
  <2>1. 0 \in T
    OBVIOUS
  <2>2. ASSUME NEW k \in Nat, k \in T PROVE k + 1 \in T
    <3>1. SUFFICES ASSUME k + 1 <= m, k + 1 <= n PROVE g[k + 1] = h[k + 1]
      OBVIOUS
    <3>2. k \in 0..m /\ k \in 0..n /\ k < m /\ k < n /\ g[k] = h[k]
      BY <2>2, <3>1
    <3> QED BY <3>2
  <2> HIDE DEF T
  <2>3. Nat \subseteq T
    BY <2>1, <2>2, Induction
  <2> QED BY <2>3 DEF T
<1> DEFINE H == [n \in Nat |-> CHOOSE g : g \in Good(n)]
           G == [n \in Nat |-> H[n][n]]
<1>3. \A n \in Nat : H[n] \in Good(n)
  BY <1>1
<1> HIDE DEF H
<1>4. G \in [Nat -> Int]
  <2> SUFFICES ASSUME NEW n \in Nat PROVE H[n][n] \in Int
    OBVIOUS
  <2>1. H[n] \in [0..n -> Int] /\ n \in 0..n
    BY <1>3
  <2> QED BY <2>1
<1>5. G[0] = c
  <2>1. H[0] \in Good(0)
    BY <1>3
  <2> QED BY <2>1
<1>6. ASSUME NEW n \in Nat PROVE G[n + 1] = F[<<n, G[n]>>]
  <2>1. n + 1 \in Nat /\ H[n] \in Good(n) /\ H[n + 1] \in Good(n + 1)
    BY <1>3
  <2>2. H[n + 1][n + 1] = F[<<n, H[n + 1][n]>>]
    BY <2>1
  <2> HIDE DEF Good
  <2>3. H[n + 1][n] = H[n][n]
    BY <1>2, <2>1
  <2> QED BY <2>1, <2>2, <2>3
<1> HIDE DEF G
<1> QED BY <1>4, <1>5, <1>6
-----------------------------------------------------------------------------
(***************************************************************************)
(* Division.                                                               *)
(***************************************************************************)
LEMMA DivMod ==
  ASSUME NEW b \in Nat, b > 0, NEW q \in Int, NEW r \in 0..b - 1
  PROVE  (b * q + r) \div b = q /\ (b * q + r) % b = r
OBVIOUS

LEMMA Divided ==
  ASSUME NEW a \in Int, NEW b \in Nat, b > 0
  PROVE  a \div b \in Int /\ a % b \in 0..b - 1 /\ a = b * (a \div b) + (a % b)
<1>1. a \div b \in Int /\ a % b \in Int
  BY Z3
<1>2. a % b >= 0 /\ a % b < b
  BY Z3
<1>3. \A x \in Int, d \in Nat : d > 0 => x = d * (x \div d) + (x % d)
  BY Z3
<1>4. a = b * (a \div b) + (a % b)
  BY <1>3
<1>5. a % b \in 0..b - 1
  <2>1. \A x \in Int, y \in Nat : x >= 0 /\ x < y => x \in 0..y - 1
    OBVIOUS
  <2> QED BY <1>1, <1>2, <2>1, Zenon
<1> QED BY <1>1, <1>4, <1>5, Zenon

LEMMA DividedNat ==
  ASSUME NEW a \in Nat, NEW b \in Nat, b > 0
  PROVE  a \div b \in Nat
<1>1. a \div b \in Int /\ a % b \in 0..b - 1 /\ a = b * (a \div b) + (a % b)
  BY Divided
<1>2. \A q \in Int, d \in Nat : q <= -1 => d * q <= -d
  BY Z3
<1>3. ~(a \div b <= -1)
  <2> SUFFICES ASSUME a \div b <= -1 PROVE FALSE
    OBVIOUS
  <2>1. b * (a \div b) <= -b
    BY <1>1, <1>2
  <2>2. b * (a \div b) \in Int
    BY <1>1
  <2> QED BY <1>1, <2>1, <2>2
<1> QED BY <1>1, <1>3

\* Products.
LEMMA Times ==
  /\ \A x, y \in Nat : x * y \in Nat
  /\ \A x, y \in Int : x * y \in Int /\ x * y = y * x
  /\ \A x, y, z \in Int : x * (y * z) = (x * y) * z
  /\ \A x, y, z \in Int : x * (y + z) = x * y + x * z
  /\ \A x, y, z \in Int : (x + y) * z = x * z + y * z
  /\ \A x, y \in Int, z \in Nat : x <= y => x * z <= y * z
<1>1. \A x, y \in Nat : x * y \in Nat
  BY Z3
<1>2. \A x, y \in Int : x * y \in Int /\ x * y = y * x
  BY Z3
<1>3. \A x, y, z \in Int : x * (y * z) = (x * y) * z
  BY Z3
<1>4. \A x, y, z \in Int : x * (y + z) = x * y + x * z
  BY Z3
<1>5. \A x, y, z \in Int : (x + y) * z = x * z + y * z
  BY Z3
<1>6. \A x, y \in Int, z \in Nat : x <= y => x * z <= y * z
  BY Z3
<1> QED BY <1>1, <1>2, <1>3, <1>4, <1>5, <1>6
-----------------------------------------------------------------------------
(***************************************************************************)
(* The weights of the bytes of a number, and what Load adds up.            *)
(***************************************************************************)
Byte == 0..Base - 1
Bytes(n) == [1..n -> Byte]

LEMMA BaseFacts == Base \in Nat /\ Base > 1
BY EndPointAssumption

LEMMA PowerFacts ==
  /\ Power[0] = 1
  /\ \A k \in Nat : Power[k] \in Nat /\ Power[k] > 0 /\ Power[k + 1] = Base * Power[k]
<1> DEFINE F == [p \in Nat \X Int |-> Base * p[2]]
<1>1. F \in [Nat \X Int -> Int]
  BY BaseFacts, Times
<1>2. PICK G \in [Nat -> Int] : G[0] = 1 /\ \A n \in Nat : G[n + 1] = F[<<n, G[n]>>]
  <2>1. 1 \in Int
    OBVIOUS
  <2> HIDE DEF F
  <2> QED BY <1>1, <2>1, Recursion, Zenon
<1>3. \A n \in Nat : G[n + 1] = Base * G[n]
  BY <1>2
<1>4. G = [k \in Nat |-> IF k = 0 THEN 1 ELSE Base * G[k - 1]]
  <2>1. \A k \in Nat : k # 0 => k - 1 \in Nat /\ G[k] = Base * G[k - 1]
    <3> SUFFICES ASSUME NEW k \in Nat, k # 0 PROVE k - 1 \in Nat /\ G[k] = Base * G[k - 1]
      OBVIOUS
    <3>1. k - 1 \in Nat /\ (k - 1) + 1 = k
      OBVIOUS
    <3> QED BY <1>3, <3>1
  <2> QED BY <1>2, <2>1
<1>5. Power = [k \in Nat |-> IF k = 0 THEN 1 ELSE Base * Power[k - 1]]
  BY <1>4 DEF Power
<1>6. Power[0] = 1
  BY <1>5
<1>7. ASSUME NEW k \in Nat PROVE Power[k + 1] = Base * Power[k]
  <2>1. k + 1 \in Nat /\ k + 1 # 0 /\ (k + 1) - 1 = k
    OBVIOUS
  <2> QED BY <1>5, <2>1
<1> DEFINE T == {k \in Nat : Power[k] \in Nat /\ Power[k] > 0}
<1>8. 0 \in T
  BY <1>6
<1>9. ASSUME NEW k \in Nat, k \in T PROVE k + 1 \in T
  <2>1. Power[k] \in Nat /\ Power[k] > 0 /\ Power[k + 1] = Base * Power[k]
    BY <1>7, <1>9
  <2>2. \A x, y \in Nat : x > 0 /\ y > 0 => x * y \in Nat /\ x * y > 0
    BY Z3
  <2>3. Power[k + 1] \in Nat /\ Power[k + 1] > 0
    BY <2>1, <2>2, BaseFacts
  <2> QED BY <2>3
<1> HIDE DEF T
<1>10. Nat \subseteq T
  BY <1>8, <1>9, Induction
<1> QED BY <1>6, <1>7, <1>10 DEF T

\* Numbers s are the partial sums of bytes d of length n.
Adds(s, d, n) ==
  /\ s \in [0..n -> Nat] /\ s[0] = 0
  /\ \A k \in 1..n : s[k] = s[k - 1] + d[k] * Power[k - 1]

LEMMA BytesSeq ==
  ASSUME NEW n \in Nat, NEW d \in Bytes(n)
  PROVE  d \in Seq(Byte) /\ Len(d) = n
BY DEF Bytes

LEMMA SeqBytes ==
  ASSUME NEW a \in Seq(Byte)
  PROVE  Len(a) \in Nat /\ a \in Bytes(Len(a))
BY DEF Bytes

LEMMA ByteFacts ==
  ASSUME NEW b \in Byte
  PROVE  b \in Nat /\ b <= Base - 1
BY BaseFacts DEF Byte

LEMMA LoadAdds ==
  ASSUME NEW n \in Nat, NEW d \in Bytes(n)
  PROVE  \E s : Adds(s, d, n) /\ Load(d) = s[n]
<1>1. Len(d) = n
  BY BytesSeq
<1>2. \A k \in 1..n : d[k] \in Nat /\ k - 1 \in Nat /\ d[k] * Power[k - 1] \in Nat
  <2> SUFFICES ASSUME NEW k \in 1..n
               PROVE  d[k] \in Nat /\ k - 1 \in Nat /\ d[k] * Power[k - 1] \in Nat
    OBVIOUS
  <2>1. d[k] \in Byte
    BY DEF Bytes
  <2>2. d[k] \in Nat /\ k - 1 \in Nat
    BY <2>1, ByteFacts
  <2> QED BY <2>2, PowerFacts, Times
<1> DEFINE w == [k \in 1..n |-> d[k] * Power[k - 1]]
           F == [p \in Nat \X Int |-> IF p[1] < n THEN p[2] + w[p[1] + 1] ELSE 0]
<1>3. F \in [Nat \X Int -> Int]
  <2>1. ASSUME NEW p \in Nat \X Int, p[1] < n PROVE p[2] + w[p[1] + 1] \in Int
    <3>1. p[1] + 1 \in 1..n /\ p[2] \in Int
      BY <2>1
    <3>2. w[p[1] + 1] \in Nat
      BY <1>2, <3>1
    <3> QED BY <3>1, <3>2
  <2> QED BY <2>1
<1>4. PICK G \in [Nat -> Int] : G[0] = 0 /\ \A m \in Nat : G[m + 1] = F[<<m, G[m]>>]
  <2>1. 0 \in Int
    OBVIOUS
  <2> HIDE DEF F
  <2> QED BY <1>3, <2>1, Recursion, Zenon
<1> DEFINE g == [k \in 0..n |-> G[k]]
<1>5. ASSUME NEW k \in 1..n PROVE G[k] = G[k - 1] + d[k] * Power[k - 1]
  <2>1. k - 1 \in Nat /\ (k - 1) + 1 = k /\ k - 1 < n /\ G[k - 1] \in Int
    OBVIOUS
  <2>2. G[k] = F[<<k - 1, G[k - 1]>>]
    BY <1>4, <2>1
  <2> QED BY <2>1, <2>2
<1>6. g = [k \in 0..Len(d) |-> IF k = 0 THEN 0 ELSE g[k - 1] + d[k] * Power[k - 1]]
  <2>1. \A k \in 0..n : k # 0 => k \in 1..n /\ k - 1 \in 0..n
    OBVIOUS
  <2> HIDE DEF F
  <2> QED BY <1>1, <1>4, <1>5, <2>1
<1> DEFINE s == CHOOSE t : t = [k \in 0..Len(d) |->
                  IF k = 0 THEN 0 ELSE t[k - 1] + d[k] * Power[k - 1]]
<1>7. Load(d) = s[n]
  BY <1>1 DEF Load
<1>8. s = [k \in 0..Len(d) |-> IF k = 0 THEN 0 ELSE s[k - 1] + d[k] * Power[k - 1]]
  <2> HIDE DEF g
  <2> QED BY <1>6
<1> HIDE DEF s, g, F, w
<1>9. s[0] = 0 /\ \A k \in 1..n : s[k] = s[k - 1] + d[k] * Power[k - 1]
  BY <1>1, <1>8
<1>10. s \in [0..n -> Nat]
  <2> DEFINE T == {k \in Nat : k <= n => s[k] \in Nat}
  <2>1. 0 \in T
    BY <1>9
  <2>2. ASSUME NEW k \in Nat, k \in T PROVE k + 1 \in T
    <3> SUFFICES ASSUME k + 1 <= n PROVE s[k + 1] \in Nat
      OBVIOUS
    <3>1. k + 1 \in 1..n /\ (k + 1) - 1 = k /\ s[k] \in Nat
      BY <2>2
    <3>2. s[k + 1] = s[k] + d[k + 1] * Power[k] /\ d[k + 1] * Power[k] \in Nat
      BY <1>2, <1>9, <3>1
    <3> QED BY <3>1, <3>2
  <2> HIDE DEF T
  <2>3. Nat \subseteq T
    BY <2>1, <2>2, Induction
  <2>4. \A k \in 0..n : s[k] \in Nat
    BY <2>3 DEF T
  <2> QED BY <1>1, <1>8, <2>4
<1>11. Adds(s, d, n)
  BY <1>9, <1>10 DEF Adds
<1> QED BY <1>7, <1>11

LEMMA AddsStep ==
  ASSUME NEW n \in Nat, NEW d \in Bytes(n), NEW s, Adds(s, d, n), NEW k \in Nat, k < n
  PROVE  /\ s[k] \in Nat /\ s[k + 1] \in Nat /\ d[k + 1] \in Byte
         /\ s[k + 1] = s[k] + d[k + 1] * Power[k]
<1>1. k + 1 \in 1..n /\ (k + 1) - 1 = k /\ k \in 0..n /\ k + 1 \in 0..n
  OBVIOUS
<1> QED BY <1>1 DEF Adds, Bytes

LEMMA AddsBound ==
  ASSUME NEW n \in Nat, NEW d \in Bytes(n), NEW s, Adds(s, d, n)
  PROVE  \A k \in 0..n : s[k] \in Nat /\ s[k] < Power[k]
<1> DEFINE T == {k \in Nat : k <= n => s[k] \in Nat /\ s[k] < Power[k]}
<1>1. 0 \in T
  <2>1. s[0] = 0 /\ Power[0] = 1
    BY PowerFacts DEF Adds
  <2> QED BY <2>1
<1>2. ASSUME NEW k \in Nat, k \in T PROVE k + 1 \in T
  <2> SUFFICES ASSUME k + 1 <= n PROVE s[k + 1] \in Nat /\ s[k + 1] < Power[k + 1]
    OBVIOUS
  <2> DEFINE P == Power[k]
             b == d[k + 1]
  <2>1. s[k] \in Nat /\ s[k] < P /\ P \in Nat /\ Power[k + 1] = Base * P
    BY <1>2, PowerFacts
  <2>2. s[k + 1] \in Nat /\ b \in Byte /\ s[k + 1] = s[k] + b * P
    BY AddsStep
  <2>3. b \in Nat /\ b <= Base - 1 /\ Base - 1 \in Nat
    BY <2>2, ByteFacts, BaseFacts
  <2> HIDE DEF P, b
  <2>4. b * P <= (Base - 1) * P
    BY <2>1, <2>3, Times
  <2>5. (Base - 1) * P = Base * P - P
    <3>1. \A x, y \in Nat : (x - 1) * y = x * y - y
      BY Z3
    <3> QED BY <2>1, <3>1, BaseFacts
  <2>6. b * P \in Int /\ Base * P \in Int
    BY <2>1, <2>3, Times, BaseFacts
  <2> QED BY <2>1, <2>2, <2>4, <2>5, <2>6
<1> HIDE DEF T
<1>3. Nat \subseteq T
  BY <1>1, <1>2, Induction
<1> QED BY <1>3 DEF T

\* What the bytes above byte k add is a multiple of their least weight.
LEMMA AddsSplit ==
  ASSUME NEW n \in Nat, NEW d \in Bytes(n), NEW s, Adds(s, d, n), NEW k \in 0..n
  PROVE  \E h \in Nat : s[n] = s[k] + Power[k] * h
<1> DEFINE T == {j \in Nat : j <= n => \E h \in Nat : s[n] = s[n - j] + Power[n - j] * h}
<1>1. 0 \in T
  <2>1. s[n] \in Nat /\ Power[n] \in Nat
    <3>1. n \in 0..n
      OBVIOUS
    <3> QED BY <3>1, PowerFacts DEF Adds
  <2>2. \A x, y \in Nat : x = x + y * 0
    BY Z3
  <2>3. s[n] = s[n - 0] + Power[n - 0] * 0
    BY <2>1, <2>2
  <2>4. \E h \in Nat : s[n] = s[n - 0] + Power[n - 0] * h
    BY <2>3
  <2> QED BY <2>4
<1>2. ASSUME NEW j \in Nat, j \in T PROVE j + 1 \in T
  <2> SUFFICES ASSUME j + 1 <= n
               PROVE  \E h \in Nat : s[n] = s[n - (j + 1)] + Power[n - (j + 1)] * h
    OBVIOUS
  <2>1. PICK h \in Nat : s[n] = s[n - j] + Power[n - j] * h
    BY <1>2
  <2> DEFINE m == n - (j + 1)
  <2>2. m \in Nat /\ m < n /\ m + 1 = n - j
    OBVIOUS
  <2> HIDE DEF m
  <2> DEFINE P == Power[m]
             b == d[m + 1]
  <2>3. P \in Nat /\ Power[m + 1] = Base * P
    BY <2>2, PowerFacts
  <2>4. s[m] \in Nat /\ b \in Byte /\ s[m + 1] = s[m] + b * P
    BY <2>2, AddsStep
  <2>5. b \in Nat /\ Base \in Nat
    BY <2>4, ByteFacts, BaseFacts
  <2>6. s[n] = s[m] + b * P + (Base * P) * h
    BY <2>1, <2>2, <2>3, <2>4
  <2> HIDE DEF P, b
  <2>7. \A x, y, z, p \in Nat : x + y * p + (z * p) * h = x + p * (y + z * h)
    BY Z3
  <2>8. s[n] = s[m] + P * (b + Base * h)
    BY <2>3, <2>4, <2>5, <2>6, <2>7
  <2>9. b + Base * h \in Nat
    <3>1. Base * h \in Nat
      BY <2>5, Times
    <3> QED BY <2>5, <3>1
  <2> QED BY <2>8, <2>9 DEF m, P
<1> HIDE DEF T
<1>3. Nat \subseteq T
  BY <1>1, <1>2, Induction
<1>4. n - k \in Nat /\ n - k <= n /\ n - (n - k) = k
  OBVIOUS
<1> QED BY <1>3, <1>4 DEF T

LEMMA LoadRange ==
  ASSUME NEW n \in Nat, NEW d \in Bytes(n)
  PROVE  Load(d) \in Nat /\ Load(d) < Power[n]
<1>1. PICK s : Adds(s, d, n) /\ Load(d) = s[n]
  BY LoadAdds
<1>2. n \in 0..n
  OBVIOUS
<1> QED BY <1>1, <1>2, AddsBound

\* The bytes that hold the number in memory at bytes d are these.
LEMMA StoreLoad ==
  ASSUME NEW n \in Nat, NEW d \in Bytes(n)
  PROVE  Store(Load(d), n) = d
<1>1. PICK s : Adds(s, d, n) /\ Load(d) = s[n]
  BY LoadAdds
<1>2. ASSUME NEW k \in 1..n PROVE (s[n] \div Power[k - 1]) % Base = d[k]
  <2> DEFINE m == k - 1
             P == Power[m]
             b == d[k]
  <2>1. m \in Nat /\ m < n /\ m + 1 = k /\ k \in 0..n /\ m \in 0..n
    OBVIOUS
  <2>2. PICK h \in Nat : s[n] = s[k] + Power[k] * h
    BY <1>1, <2>1, AddsSplit
  <2>3. P \in Nat /\ P > 0 /\ Power[k] = Base * P
    BY <2>1, PowerFacts
  <2>4. b \in Byte /\ s[k] = s[m] + b * P
    BY <1>1, <2>1, AddsStep
  <2>5. s[m] \in Nat /\ s[m] < P
    BY <1>1, <2>1, AddsBound
  <2>6. b \in Nat /\ b <= Base - 1 /\ Base \in Nat /\ Base > 0
    BY <2>4, ByteFacts, BaseFacts
  <2>7. s[n] = s[m] + b * P + (Base * P) * h
    BY <2>2, <2>3, <2>4
  <2> HIDE DEF P, b, m
  <2>8. \A x, y, z, p \in Nat : x + y * p + (z * p) * h = p * (z * h + y) + x
    BY Z3
  <2>9. s[n] = P * (Base * h + b) + s[m]
    BY <2>3, <2>5, <2>6, <2>7, <2>8
  <2>10. Base * h + b \in Int
    <3>1. Base * h \in Nat
      BY <2>6, Times
    <3> QED BY <2>6, <3>1
  <2>11. s[n] \div P = Base * h + b
    <3>1. s[m] \in 0..P - 1
      BY <2>3, <2>5
    <3> QED BY <2>3, <2>9, <2>10, <3>1, DivMod
  <2>12. (Base * h + b) % Base = b
    <3>1. b \in 0..Base - 1 /\ h \in Int
      BY <2>6
    <3> QED BY <2>6, <3>1, DivMod
  <2> QED BY <2>11, <2>12 DEF P, b, m
<1>3. d = [k \in 1..n |-> d[k]]
  BY DEF Bytes
<1> QED BY <1>1, <1>2, <1>3 DEF Store

LEMMA StoreBytes ==
  ASSUME NEW v \in Nat, NEW n \in Nat
  PROVE  Store(v, n) \in Bytes(n)
<1> SUFFICES ASSUME NEW k \in 1..n PROVE (v \div Power[k - 1]) % Base \in Byte
  BY DEF Store, Bytes
<1>1. k - 1 \in Nat /\ Power[k - 1] \in Nat /\ Power[k - 1] > 0
  BY PowerFacts
<1>2. v \div Power[k - 1] \in Int
  BY <1>1, Divided
<1> QED BY <1>2, Divided, BaseFacts DEF Byte

\* The number that is held by the bytes of v is v, if they suffice.
LEMMA LoadStore ==
  ASSUME NEW n \in Nat, NEW v \in Nat, v < Power[n]
  PROVE  Load(Store(v, n)) = v
<1> DEFINE d == Store(v, n)
<1>1. d \in Bytes(n)
  BY StoreBytes
<1>2. \A k \in 1..n : d[k] = (v \div Power[k - 1]) % Base
  BY DEF Store
<1> HIDE DEF d
<1>3. PICK s : Adds(s, d, n) /\ Load(d) = s[n]
  BY <1>1, LoadAdds
<1> DEFINE T == {k \in Nat : k <= n => s[k] = v % Power[k]}
<1>4. 0 \in T
  <2>1. v % 1 = 0
    OBVIOUS
  <2> QED BY <1>3, <2>1, PowerFacts DEF Adds
<1>5. ASSUME NEW k \in Nat, k \in T PROVE k + 1 \in T
  <2> SUFFICES ASSUME k + 1 <= n PROVE s[k + 1] = v % Power[k + 1]
    OBVIOUS
  <2> DEFINE P == Power[k]
             q == v \div P
             r == v % P
             h == q \div Base
             b == q % Base
  <2>1. k + 1 \in 1..n /\ (k + 1) - 1 = k /\ k < n
    OBVIOUS
  <2>2. P \in Nat /\ P > 0 /\ Power[k + 1] = Base * P /\ Base \in Nat /\ Base > 0
    BY PowerFacts, BaseFacts
  <2>3. s[k] = r /\ d[k + 1] = b /\ s[k + 1] = s[k] + d[k + 1] * P
    <3>1. s[k] = v % Power[k]
      BY <1>5
    <3>2. d[k + 1] = (v \div Power[k]) % Base
      BY <1>2, <2>1
    <3>3. s[k + 1] = s[k] + d[k + 1] * Power[k]
      BY <1>1, <1>3, <2>1, AddsStep
    <3> QED BY <3>1, <3>2, <3>3
  <2> HIDE DEF P
  <2>4. q \in Int /\ r \in 0..P - 1 /\ v = P * q + r
    BY <2>2, Divided
  <2> HIDE DEF q, r
  <2>5. h \in Int /\ b \in 0..Base - 1 /\ q = Base * h + b
    BY <2>2, <2>4, Divided
  <2> HIDE DEF h, b
  <2>6. v = (Base * P) * h + (r + b * P)
    <3>1. \A x, y, z, u, t \in Int : x * (y * z + u) + t = (y * x) * z + (t + u * x)
      BY Z3
    <3>2. v = P * (Base * h + b) + r
      BY <2>4, <2>5
    <3>3. P \in Int /\ Base \in Int /\ h \in Int /\ b \in Int /\ r \in Int
      BY <2>2, <2>4, <2>5
    <3> HIDE <2>4, <2>5
    <3> QED BY <3>1, <3>2, <3>3
  <2>7. r + b * P \in 0..(Base * P) - 1
    <3>1. b \in Nat /\ b <= Base - 1 /\ r \in Nat /\ r <= P - 1
      BY <2>2, <2>4, <2>5
    <3>2. b * P <= (Base - 1) * P
      BY <2>2, <3>1, Times
    <3>3. (Base - 1) * P = Base * P - P
      <4>1. \A x, y \in Nat : (x - 1) * y = x * y - y
        BY Z3
      <4> QED BY <2>2, <4>1
    <3>4. b * P \in Nat /\ Base * P \in Nat
      BY <2>2, <3>1, Times
    <3> QED BY <2>2, <3>1, <3>2, <3>3, <3>4
  <2>8. Base * P \in Nat /\ Base * P > 0
    <3>1. \A x, y \in Nat : x > 0 /\ y > 0 => x * y \in Nat /\ x * y > 0
      BY Z3
    <3> QED BY <2>2, <3>1
  <2>9. v % (Base * P) = r + b * P
    BY <2>5, <2>6, <2>7, <2>8, DivMod
  <2> QED BY <2>2, <2>3, <2>9
<1> HIDE DEF T
<1>6. Nat \subseteq T
  BY <1>4, <1>5, Induction
<1>7. s[n] = v % Power[n]
  BY <1>6 DEF T
<1>8. v % Power[n] = v
  <2>1. Power[n] \in Nat /\ Power[n] > 0 /\ v \in 0..Power[n] - 1
    BY PowerFacts
  <2>2. v = Power[n] * 0 + v
    <3>1. \A x, y \in Nat : y = x * 0 + y
      BY Z3
    <3> QED BY <2>1, <3>1
  <2>3. (Power[n] * 0 + v) % Power[n] = v
    BY <2>1, DivMod
  <2> QED BY <2>2, <2>3
<1> QED BY <1>3, <1>7, <1>8 DEF d
-----------------------------------------------------------------------------
(***************************************************************************)
(* The order of the bytes.                                                 *)
(***************************************************************************)
LEMMA ReverseBytes ==
  ASSUME NEW n \in Nat, NEW d \in Bytes(n)
  PROVE  /\ Reverse(d) \in Bytes(n) /\ Reverse(Reverse(d)) = d
         /\ \A k \in 1..n : n + 1 - k \in 1..n /\ Reverse(d)[k] = d[n + 1 - k]
<1>1. Len(d) = n
  BY BytesSeq
<1>2. \A k \in 1..n : n + 1 - k \in 1..n /\ (n - k) + 1 = n + 1 - k
  OBVIOUS
<1>3. Reverse(d) = [k \in 1..n |-> d[n + 1 - k]]
  BY <1>1, <1>2 DEF Reverse
<1>4. Reverse(d) \in Bytes(n)
  BY <1>2, <1>3 DEF Bytes
<1>5. Len(Reverse(d)) = n
  BY <1>4, BytesSeq
<1>6. Reverse(Reverse(d)) = [k \in 1..n |-> Reverse(d)[n + 1 - k]]
  BY <1>2, <1>5 DEF Reverse
<1>7. \A k \in 1..n : n + 1 - (n + 1 - k) = k
  OBVIOUS
<1>8. Reverse(Reverse(d)) = d
  BY <1>2, <1>3, <1>6, <1>7 DEF Bytes
<1> QED BY <1>2, <1>3, <1>4, <1>8

LEMMA SwapLoad ==
  ASSUME NEW n \in Nat, NEW d \in Bytes(n)
  PROVE  Swap(Load(d), n) = Load(Reverse(d))
BY StoreLoad DEF Swap

LEMMA StoreSwap ==
  ASSUME NEW n \in Nat, NEW v \in Nat
  PROVE  Store(Swap(v, n), n) = Reverse(Store(v, n))
<1>1. Reverse(Store(v, n)) \in Bytes(n)
  BY StoreBytes, ReverseBytes
<1> QED BY <1>1, StoreLoad DEF Swap

\* The number of an address is read from its first byte to its last.
LEMMA HostOrderValue ==
  ASSUME NEW n \in Nat, NEW a \in Bytes(n)
  PROVE  /\ HostOrder(a) = Load(Reverse(a))
         /\ HostOrder(a) \in Nat /\ HostOrder(a) < Power[n]
<1>1. Len(a) = n /\ Reverse(a) \in Bytes(n)
  BY BytesSeq, ReverseBytes
<1>2. HostOrder(a) = Load(Reverse(a))
  BY <1>1, SwapLoad DEF HostOrder
<1> QED BY <1>1, <1>2, LoadRange

LEMMA HostOrderUnique ==
  ASSUME NEW n \in Nat, NEW a \in Bytes(n), NEW b \in Bytes(n),
         HostOrder(a) = HostOrder(b)
  PROVE  a = b
<1>1. Reverse(a) \in Bytes(n) /\ Reverse(b) \in Bytes(n)
      /\ Reverse(Reverse(a)) = a /\ Reverse(Reverse(b)) = b
  BY ReverseBytes
<1>2. Load(Reverse(a)) = Load(Reverse(b))
  BY HostOrderValue
<1>3. Reverse(a) = Reverse(b)
  BY <1>1, <1>2, StoreLoad
<1> QED BY <1>1, <1>3

\* Address arithmetic is that of the numbers, modulo the number of addresses.
LEMMA PlusValue ==
  ASSUME NEW n \in Nat, NEW a \in Bytes(n), NEW i \in Int
  PROVE  Plus(a, i) \in Bytes(n) /\ HostOrder(Plus(a, i)) = (HostOrder(a) + i) % Power[n]
<1> DEFINE v == (HostOrder(a) + i) % Power[n]
           d == Store(v, n)
<1>1. Len(a) = n /\ HostOrder(a) \in Nat /\ Power[n] \in Nat /\ Power[n] > 0
  BY BytesSeq, HostOrderValue, PowerFacts
<1>2. v \in 0..Power[n] - 1
  <2>1. HostOrder(a) + i \in Int
    BY <1>1
  <2> QED BY <1>1, <2>1, Divided
<1>3. v \in Nat /\ v < Power[n]
  BY <1>1, <1>2
<1>4. Plus(a, i) = Store(Swap(v, n), n)
  BY <1>1 DEF Plus
<1> HIDE DEF v
<1>5. Plus(a, i) = Reverse(d)
  BY <1>3, <1>4, StoreSwap
<1>6. d \in Bytes(n)
  BY <1>3, StoreBytes
<1>7. Load(d) = v
  BY <1>3, LoadStore
<1> HIDE DEF d
<1>8. Reverse(d) \in Bytes(n) /\ Reverse(Reverse(d)) = d
  BY <1>6, ReverseBytes
<1>9. HostOrder(Reverse(d)) = v
  BY <1>7, <1>8, HostOrderValue
<1> QED BY <1>5, <1>8, <1>9 DEF v

LEMMA AddBack ==
  ASSUME NEW n \in Nat, NEW a \in Bytes(n), NEW b \in Bytes(n)
  PROVE  Sum(Difference(a, b), b) = a
<1> DEFINE x == HostOrder(a)
           y == HostOrder(b)
           P == Power[n]
           d == Difference(a, b)
<1>1. x \in Nat /\ y \in Nat /\ x < P /\ P \in Nat /\ P > 0
  BY HostOrderValue, PowerFacts
<1>2. d \in Bytes(n) /\ HostOrder(d) = (x - y) % P
  <2>1. -y \in Int /\ x + (-y) = x - y
    BY <1>1
  <2> QED BY <2>1, PlusValue DEF Difference
<1>3. Sum(d, b) \in Bytes(n) /\ HostOrder(Sum(d, b)) = (HostOrder(d) + y) % P
  BY <1>1, <1>2, PlusValue DEF Sum
<1>4. (((x - y) % P) + y) % P = x
  <2> HIDE DEF x, y, P
  <2> DEFINE q == (x - y) \div P
             r == (x - y) % P
  <2>1. x - y \in Int
    BY <1>1
  <2>2. q \in Int /\ r \in 0..P - 1 /\ x - y = P * q + r
    BY <1>1, <2>1, Divided
  <2> HIDE DEF q, r
  <2>3. r + y = P * (-q) + x
    <3>1. \A u, w \in Int : u * (-w) = -(u * w)
      BY Z3
    <3>2. P * (-q) = -(P * q) /\ P * q \in Int
      BY <1>1, <2>2, <3>1, Times
    <3> QED BY <1>1, <2>2, <3>2
  <2>4. (P * (-q) + x) % P = x
    <3>1. -q \in Int /\ x \in 0..P - 1
      BY <1>1, <2>2
    <3> QED BY <1>1, <3>1, DivMod
  <2> QED BY <2>3, <2>4 DEF r
<1>5. HostOrder(Sum(d, b)) = HostOrder(a)
  BY <1>2, <1>3, <1>4
<1> QED BY <1>3, <1>5, HostOrderUnique

\* The highest byte that differs decides.
LEMMA AddsLess ==
  ASSUME NEW n \in Nat, NEW c \in Bytes(n), NEW e \in Bytes(n), NEW k \in 1..n,
         c[k] < e[k], \A j \in k + 1..n : c[j] = e[j]
  PROVE  Load(c) < Load(e)
<1>1. PICK s : Adds(s, c, n) /\ Load(c) = s[n]
  BY LoadAdds
<1>2. PICK t : Adds(t, e, n) /\ Load(e) = t[n]
  BY LoadAdds
<1>3. s[k] < t[k]
  <2> DEFINE m == k - 1
             P == Power[m]
  <2>1. m \in Nat /\ m < n /\ m + 1 = k /\ m \in 0..n
    OBVIOUS
  <2>2. s[k] = s[m] + c[k] * P /\ t[k] = t[m] + e[k] * P
        /\ t[m] \in Nat /\ c[k] \in Byte /\ e[k] \in Byte
    <3> HIDE DEF m
    <3>1. s[m + 1] = s[m] + c[m + 1] * Power[m] /\ c[m + 1] \in Byte
      BY <1>1, <2>1, AddsStep
    <3>2. t[m + 1] = t[m] + e[m + 1] * Power[m] /\ e[m + 1] \in Byte /\ t[m] \in Nat
      BY <1>2, <2>1, AddsStep
    <3> QED BY <2>1, <3>1, <3>2
  <2>3. s[m] \in Nat /\ s[m] < P /\ P \in Nat
    BY <1>1, <2>1, AddsBound, PowerFacts
  <2>4. c[k] \in Nat /\ e[k] \in Nat
    BY <2>2, ByteFacts
  <2> HIDE DEF m, P
  <2>5. (c[k] + 1) * P <= e[k] * P
    <3>1. c[k] + 1 \in Nat /\ c[k] + 1 <= e[k]
      BY <2>4
    <3> QED BY <2>3, <2>4, <3>1, Times
  <2>6. (c[k] + 1) * P = c[k] * P + P
    <3>1. \A x, y \in Nat : (x + 1) * y = x * y + y
      BY Z3
    <3> QED BY <2>3, <2>4, <3>1
  <2>7. c[k] * P \in Nat /\ e[k] * P \in Nat
    BY <2>3, <2>4, Times
  <2> QED BY <2>2, <2>3, <2>5, <2>6, <2>7
<1> DEFINE T == {m \in Nat : k <= m /\ m <= n => s[m] < t[m]}
<1>4. 0 \in T
  OBVIOUS
<1>5. ASSUME NEW m \in Nat, m \in T PROVE m + 1 \in T
  <2> SUFFICES ASSUME k <= m + 1, m + 1 <= n PROVE s[m + 1] < t[m + 1]
    OBVIOUS
  <2>1. CASE k = m + 1
    BY <1>3, <2>1
  <2>2. CASE k <= m
    <3>1. m < n /\ m + 1 \in k + 1..n /\ s[m] < t[m]
      BY <1>5, <2>2
    <3>2. s[m + 1] = s[m] + c[m + 1] * Power[m] /\ t[m + 1] = t[m] + e[m + 1] * Power[m]
          /\ s[m] \in Nat /\ t[m] \in Nat /\ c[m + 1] \in Byte
      BY <1>1, <1>2, <3>1, AddsStep
    <3>3. c[m + 1] = e[m + 1]
      BY <3>1
    <3>4. c[m + 1] * Power[m] \in Nat
      BY <3>2, ByteFacts, PowerFacts, Times
    <3> QED BY <3>1, <3>2, <3>3, <3>4
  <2> QED BY <2>1, <2>2
<1> HIDE DEF T
<1>6. Nat \subseteq T
  BY <1>4, <1>5, Induction
<1> QED BY <1>1, <1>2, <1>6 DEF T

LEMMA BeforeLess ==
  ASSUME NEW n \in Nat, NEW a \in Bytes(n), NEW b \in Bytes(n), Before(a, b)
  PROVE  HostOrder(a) < HostOrder(b)
<1>1. PICK k \in 1..n : a[k] < b[k] /\ \A j \in 1..k - 1 : a[j] = b[j]
  BY DEF Before, Bytes
<1> DEFINE m == n + 1 - k
           c == Reverse(a)
           e == Reverse(b)
<1>2. /\ c \in Bytes(n) /\ e \in Bytes(n)
      /\ \A j \in 1..n : c[j] = a[n + 1 - j] /\ e[j] = b[n + 1 - j]
  BY ReverseBytes
<1> HIDE DEF c, e
<1>3. m \in 1..n /\ n + 1 - m = k
  OBVIOUS
<1>4. c[m] < e[m]
  BY <1>1, <1>2, <1>3
<1>5. ASSUME NEW j \in m + 1..n PROVE c[j] = e[j]
  <2>1. j \in 1..n /\ n + 1 - j \in 1..k - 1
    OBVIOUS
  <2> QED BY <1>1, <1>2, <2>1
<1> HIDE DEF m
<1>6. Load(c) < Load(e)
  BY <1>2, <1>3, <1>4, <1>5, AddsLess
<1> QED BY <1>6, HostOrderValue DEF c, e

\* The order of the numbers is that of the bytes.
LEMMA LessIsBefore ==
  ASSUME NEW n \in Nat, NEW a \in Bytes(n), NEW b \in Bytes(n)
  PROVE  Less(a, b) = Before(a, b)
<1>1. Before(a, b) \in BOOLEAN /\ Less(a, b) \in BOOLEAN
  BY DEF Before, Less
<1>2. Before(a, b) => Less(a, b)
  BY BeforeLess DEF Less
<1>3. ASSUME Less(a, b) PROVE Before(a, b)
  <2> DEFINE T == {k \in 1..n : a[k] # b[k]}
  <2>1. HostOrder(a) < HostOrder(b) /\ HostOrder(a) \in Nat /\ HostOrder(b) \in Nat
    BY <1>3, HostOrderValue DEF Less
  <2>2. a # b
    BY <2>1
  <2>3. T # {}
    BY <2>2 DEF Bytes
  <2>4. T \subseteq Nat
    OBVIOUS
  <2> HIDE DEF T
  <2>5. PICK k \in T : \A y \in T : k <= y
    BY <2>3, <2>4, Least
  <2>6. k \in 1..n /\ a[k] # b[k]
    BY DEF T
  <2>7. \A j \in 1..k - 1 : a[j] = b[j]
    <3> SUFFICES ASSUME NEW j \in 1..k - 1, a[j] # b[j] PROVE FALSE
      OBVIOUS
    <3>1. j \in T
      BY <2>6 DEF T
    <3> QED BY <2>5, <2>6, <3>1
  <2>8. a[k] \in Nat /\ b[k] \in Nat
    BY <2>6, ByteFacts DEF Bytes
  <2>9. DOMAIN a = 1..n /\ DOMAIN b = 1..n
    BY DEF Bytes
  <2>10. CASE a[k] < b[k]
    BY <2>6, <2>7, <2>9, <2>10 DEF Before
  <2>11. CASE b[k] < a[k]
    <3>1. Before(b, a)
      BY <2>6, <2>7, <2>9, <2>11 DEF Before
    <3>2. HostOrder(b) < HostOrder(a)
      BY <3>1, BeforeLess
    <3> QED BY <2>1, <3>2
  <2> QED BY <2>6, <2>8, <2>10, <2>11
<1> QED BY <1>1, <1>2, <1>3

\* The next number or the one before: bytes c below byte m are at the limit and
\* start again, byte m moves, and those above stay.  No byte m means a wrap.
LimitOf(i) == IF i = 1 THEN Base - 1 ELSE 0

Moves(c, e, n, m, i) ==
  \A j \in 1..n : /\ j < m => c[j] = LimitOf(i) /\ e[j] = Base - 1 - LimitOf(i)
                  /\ j = m => e[j] = c[j] + i
                  /\ j > m => e[j] = c[j]

LEMMA AddsNext ==
  ASSUME NEW n \in Nat, NEW c \in Bytes(n), NEW e \in Bytes(n), NEW m \in 1..n + 1,
         NEW i \in {1, -1}, Moves(c, e, n, m, i)
  PROVE  Load(e) = (Load(c) + i) % Power[n]
<1>1. PICK s : Adds(s, c, n) /\ Load(c) = s[n]
  BY LoadAdds
<1>2. PICK t : Adds(t, e, n) /\ Load(e) = t[n]
  BY LoadAdds
<1>3. i \in Int /\ Base \in Nat
  BY BaseFacts
<1>4. \A k \in 0..n : s[k] \in Nat /\ t[k] \in Nat /\ Power[k] \in Nat /\ Power[k] > 0
  <2>1. s \in [0..n -> Nat] /\ t \in [0..n -> Nat] /\ \A k \in 0..n : k \in Nat
    BY <1>1, <1>2 DEF Adds
  <2> QED BY <2>1, PowerFacts
<1> DEFINE T == {k \in Nat : k <= n =>
                   t[k] = s[k] + i - (IF k < m THEN i * Power[k] ELSE 0)}
<1>5. 0 \in T
  <2>1. s[0] = 0 /\ t[0] = 0 /\ Power[0] = 1
    BY <1>1, <1>2, PowerFacts DEF Adds
  <2>2. i * 1 = i
    BY <1>3
  <2> QED BY <1>3, <2>1, <2>2
<1>6. ASSUME NEW k \in Nat, k \in T PROVE k + 1 \in T
  <2> SUFFICES ASSUME k + 1 <= n
               PROVE  t[k + 1] = s[k + 1] + i - (IF k + 1 < m THEN i * Power[k + 1] ELSE 0)
    OBVIOUS
  <2> DEFINE P == Power[k]
             b == c[k + 1]
             f == e[k + 1]
             u == s[k]
             w == t[k]
  <2>1. /\ s[k + 1] = u + b * P /\ t[k + 1] = w + f * P
        /\ b \in Byte /\ f \in Byte /\ u \in Nat /\ w \in Nat
    BY <1>1, <1>2, AddsStep
  <2>2. P \in Nat /\ P > 0 /\ Power[k + 1] = Base * P
    BY PowerFacts
  <2>3. b \in Nat /\ f \in Nat
    BY <2>1, ByteFacts
  <2>4. w = u + i - (IF k < m THEN i * P ELSE 0)
    BY <1>6
  <2>5. k + 1 \in 1..n
    OBVIOUS
  <2>6. /\ k + 1 < m => b = LimitOf(i) /\ f = Base - 1 - LimitOf(i)
        /\ k + 1 = m => f = b + i
        /\ k + 1 > m => f = b
    BY <2>5 DEF Moves
  <2> HIDE DEF P, b, f, u, w
  <2>7. b * P \in Int /\ f * P \in Int /\ i * P \in Int /\ Base * P \in Int
    BY <1>3, <2>2, <2>3, Times
  <2>8. CASE k + 1 < m /\ i = 1
    <3>1. b = Base - 1 /\ f = 0 /\ w = u + 1 - P
      BY <1>3, <2>2, <2>4, <2>6, <2>8 DEF LimitOf
    <3>2. b * P = Base * P - P /\ f * P = 0
      <4>1. \A x, y \in Nat : (x - 1) * y = x * y - y /\ 0 * y = 0
        BY Z3
      <4> QED BY <1>3, <2>2, <3>1, <4>1
    <3>3. i * (Base * P) = Base * P
      BY <2>7, <2>8
    <3> QED BY <2>1, <2>2, <2>7, <2>8, <3>1, <3>2, <3>3
  <2>9. CASE k + 1 < m /\ i = -1
    <3>1. b = 0 /\ f = Base - 1 /\ w = u - 1 + P
      <4>1. i * P = -P
        BY <2>2, <2>9
      <4> QED BY <1>3, <2>1, <2>2, <2>4, <2>6, <2>9, <4>1 DEF LimitOf
    <3>2. f * P = Base * P - P /\ b * P = 0
      <4>1. \A x, y \in Nat : (x - 1) * y = x * y - y /\ 0 * y = 0
        BY Z3
      <4> QED BY <1>3, <2>2, <3>1, <4>1
    <3>3. i * (Base * P) = -(Base * P)
      BY <2>7, <2>9
    <3> QED BY <2>1, <2>2, <2>7, <2>9, <3>1, <3>2, <3>3
  <2>10. CASE k + 1 = m
    <3>1. f = b + i /\ w = u + i - i * P
      BY <2>4, <2>6, <2>10
    <3>2. (b + i) * P = b * P + i * P
      BY <1>3, <2>2, <2>3, Times
    <3> QED BY <1>3, <2>1, <2>7, <2>10, <3>1, <3>2
  <2>11. CASE k + 1 > m
    <3>1. f = b /\ w = u + i
      BY <1>3, <2>1, <2>4, <2>6, <2>11
    <3> QED BY <1>3, <2>1, <2>7, <2>11, <3>1
  <2> QED BY <2>8, <2>9, <2>10, <2>11
<1> HIDE DEF T
<1>7. Nat \subseteq T
  BY <1>5, <1>6, Induction
<1> DEFINE P == Power[n]
<1>8. t[n] = s[n] + i - (IF n < m THEN i * P ELSE 0)
  BY <1>7 DEF T
<1>9. s[n] \in Nat /\ t[n] \in Nat /\ t[n] < P /\ P \in Nat /\ P > 0
  <2>1. n \in 0..n
    OBVIOUS
  <2> QED BY <1>2, <1>4, <2>1, AddsBound
<1> HIDE DEF P
<1>10. t[n] \in 0..P - 1 /\ P * i \in Int /\ P * i = i * P
  BY <1>3, <1>9, Times
<1>11. CASE n < m
  <2>1. s[n] + i = P * i + t[n]
    BY <1>3, <1>8, <1>9, <1>10, <1>11
  <2>2. (P * i + t[n]) % P = t[n]
    BY <1>3, <1>9, <1>10, DivMod
  <2> QED BY <1>1, <1>2, <2>1, <2>2 DEF P
<1>12. CASE ~(n < m)
  <2>1. P * 0 = 0
    BY <1>9
  <2>2. s[n] + i = P * 0 + t[n]
    BY <1>3, <1>8, <1>9, <1>12, <2>1
  <2>3. (P * 0 + t[n]) % P = t[n]
    BY <1>9, <1>10, DivMod
  <2> QED BY <1>1, <1>2, <2>2, <2>3 DEF P
<1> QED BY <1>11, <1>12

\* IPAddress's + 1 and - 1 are the neighbours in the dotted notation.
LEMMA PlusNeighbour ==
  ASSUME NEW n \in Nat, NEW a \in Bytes(n), NEW i \in {1, -1}
  PROVE  Plus(a, i) = Neighbour(a, i)
<1> DEFINE l == IF i = 1 THEN Base - 1 ELSE 0
           Limit(k) == /\ \A j \in k + 1..Len(a) : a[j] = l
                       /\ k > 0 => a[k] # l
           k == CHOOSE x \in 0..Len(a) : Limit(x)
           b == [j \in DOMAIN a |-> IF j < k THEN a[j]
                                    ELSE IF j = k THEN a[j] + i ELSE Base - 1 - l]
<1>1. Neighbour(a, i) = b
  BY DEF Neighbour
<1>2. Len(a) = n /\ DOMAIN a = 1..n /\ \A j \in 1..n : a[j] \in Byte
  BY BytesSeq DEF Bytes
<1>3. \E x \in 0..n : Limit(x)
  <2> DEFINE T == {y \in Nat : y < n /\ a[n - y] # l}
  <2>1. CASE T = {}
    <3>1. \A j \in 0 + 1..n : a[j] = l
      <4> SUFFICES ASSUME NEW j \in 1..n PROVE a[j] = l
        OBVIOUS
      <4>1. n - j \in Nat /\ n - j < n /\ n - (n - j) = j
        OBVIOUS
      <4> QED BY <2>1, <4>1
    <3> HIDE DEF l
    <3>2. Limit(0)
      BY <1>2, <3>1
    <3> QED BY <3>2
  <2>2. CASE T # {}
    <3>1. T \subseteq Nat
      OBVIOUS
    <3> HIDE DEF T, l
    <3>2. PICK y \in T : \A z \in T : y <= z
      BY <2>2, <3>1, Least
    <3>3. y \in Nat /\ y < n /\ a[n - y] # l
      BY DEF T
    <3> DEFINE x == n - y
    <3>4. x \in 0..n
      BY <3>3
    <3>5. ASSUME NEW j \in x + 1..n PROVE a[j] = l
      <4>1. n - j \in Nat /\ n - j < n /\ n - (n - j) = j /\ ~(y <= n - j)
        BY <3>3
      <4>2. n - j \notin T
        BY <3>2, <4>1
      <4> QED BY <4>1, <4>2 DEF T
    <3>6. Limit(x)
      BY <1>2, <3>3, <3>5
    <3> QED BY <3>4, <3>6
  <2> QED BY <2>1, <2>2
<1>4. k \in 0..n /\ (\A j \in k + 1..n : a[j] = l) /\ (k > 0 => a[k] # l)
  BY <1>2, <1>3
<1> HIDE DEF k
<1>5. Base \in Nat /\ Base > 1
  BY BaseFacts
<1>6. b \in Bytes(n)
  <2> SUFFICES ASSUME NEW j \in 1..n PROVE b[j] \in Byte
    BY <1>2 DEF Bytes
  <2>1. a[j] \in Byte
    BY <1>2
  <2>2. CASE j < k
    BY <1>2, <2>1, <2>2
  <2>3. CASE j = k
    <3>1. a[j] # l /\ b[j] = a[j] + i
      BY <1>2, <1>4, <2>3
    <3>2. a[j] \in 0..Base - 1
      BY <2>1 DEF Byte
    <3>3. CASE i = 1
      BY <1>5, <3>1, <3>2, <3>3 DEF Byte
    <3>4. CASE i = -1
      BY <1>5, <3>1, <3>2, <3>4 DEF Byte
    <3> QED BY <3>3, <3>4
  <2>4. CASE j > k
    <3>1. b[j] = Base - 1 - l
      BY <1>2, <1>4, <2>4
    <3> QED BY <1>5, <3>1 DEF Byte
  <2> QED BY <1>4, <2>2, <2>3, <2>4
<1> DEFINE c == Reverse(a)
           e == Reverse(b)
           m == n + 1 - k
<1>7. c \in Bytes(n) /\ \A j \in 1..n : n + 1 - j \in 1..n /\ c[j] = a[n + 1 - j]
  BY ReverseBytes
<1>8. e \in Bytes(n) /\ \A j \in 1..n : e[j] = b[n + 1 - j]
  <2> HIDE DEF b
  <2> QED BY <1>6, ReverseBytes
<1> HIDE DEF c, e
<1>9. m \in 1..n + 1
  BY <1>4
<1>10. ASSUME NEW j \in 1..n
       PROVE  /\ j < m => c[j] = l /\ e[j] = Base - 1 - l
              /\ j = m => e[j] = c[j] + i
              /\ j > m => e[j] = c[j]
  <2> DEFINE x == n + 1 - j
  <2>1. x \in 1..n /\ c[j] = a[x] /\ e[j] = b[x]
    BY <1>7, <1>8
  <2>2. (j < m <=> x > k) /\ (j = m <=> x = k) /\ (j > m <=> x < k)
    BY <1>4
  <2> HIDE DEF x, m, l
  <2>3. x > k => a[x] = l
    BY <1>4, <2>1
  <2>4. /\ x > k => b[x] = Base - 1 - l
        /\ x = k => b[x] = a[x] + i
        /\ x < k => b[x] = a[x]
    BY <1>2, <1>4, <2>1
  <2> QED BY <2>1, <2>2, <2>3, <2>4
<1> HIDE DEF m, b
<1>11. Load(e) = (Load(c) + i) % Power[n]
  <2>1. Moves(c, e, n, m, i)
    BY <1>10 DEF Moves, LimitOf
  <2> QED BY <1>7, <1>8, <1>9, <2>1, AddsNext
<1>12. HostOrder(b) = (HostOrder(a) + i) % Power[n]
  BY <1>6, <1>11, HostOrderValue DEF c, e
<1>13. Plus(a, i) \in Bytes(n) /\ HostOrder(Plus(a, i)) = (HostOrder(a) + i) % Power[n]
  BY PlusValue
<1> QED BY <1>1, <1>6, <1>12, <1>13, HostOrderUnique
-----------------------------------------------------------------------------
(***************************************************************************)
(* Ports: two bytes of the network.                                        *)
(***************************************************************************)
Port == 0..Base * Base - 1

LEMMA PortBytes ==
  ASSUME NEW p \in Port
  PROVE  /\ Store(Swap(p, 2), 2) = <<p \div Base, p % Base>>
         /\ Swap(Load(<<p \div Base, p % Base>>), 2) = p
<1> DEFINE hi == p \div Base
           lo == p % Base
           d == Store(p, 2)
<1>1. Base \in Nat /\ Base > 1 /\ Base * Base \in Nat
  BY BaseFacts, Times
<1>2. p \in Nat /\ p < Base * Base
  BY <1>1 DEF Port
<1>3. Power[0] = 1 /\ Power[1] = Base /\ Power[2] = Base * Base
  <2>1. Power[0] = 1 /\ Power[0 + 1] = Base * Power[0] /\ Power[1 + 1] = Base * Power[1]
    BY PowerFacts
  <2>2. Base * 1 = Base
    BY <1>1
  <2>3. Power[1] = Base
    BY <2>1, <2>2
  <2> QED BY <2>1, <2>3
<1>4. hi \in Nat /\ lo \in 0..Base - 1 /\ p = Base * hi + lo
  BY <1>1, <1>2, Divided, DividedNat
<1>5. hi \in 0..Base - 1
  <2> HIDE DEF hi, lo
  <2>1. ASSUME hi >= Base PROVE FALSE
    <3>1. Base * Base <= hi * Base
      BY <1>1, <1>4, <2>1, Times
    <3>2. hi * Base = Base * hi /\ Base * hi \in Int
      BY <1>1, <1>4, Times
    <3> QED BY <1>1, <1>2, <1>4, <3>1, <3>2
  <2> QED BY <1>1, <1>4, <2>1
<1>6. d = <<lo, hi>>
  <2>1. (p \div 1) % Base = lo
    BY <1>2
  <2>2. hi % Base = hi
    <3> HIDE DEF hi
    <3>1. Base * 0 + hi = hi
      BY <1>1, <1>4
    <3>2. (Base * 0 + hi) % Base = hi
      BY <1>1, <1>5, DivMod
    <3> QED BY <3>1, <3>2
  <2>3. d = [k \in 1..2 |-> (p \div Power[k - 1]) % Base]
    BY DEF Store
  <2>4. d[1] = lo /\ d[2] = hi /\ DOMAIN d = 1..2
    BY <1>3, <2>1, <2>2, <2>3
  <2>5. d \in Bytes(2)
    BY <1>2, StoreBytes
  <2>6. d \in Seq(Byte) /\ Len(d) = 2
    BY <2>5, BytesSeq
  <2> HIDE DEF d, lo, hi
  <2> QED BY <2>4, <2>6
<1>7. d \in Bytes(2) /\ Load(d) = p
  BY <1>2, <1>3, StoreBytes, LoadStore
<1>8. Reverse(d) = <<hi, lo>>
  <2> HIDE DEF d, lo, hi
  <2>1. Reverse(d) \in Bytes(2)
    BY <1>7, ReverseBytes
  <2>2. Reverse(d)[1] = d[2] /\ Reverse(d)[2] = d[1]
    <3>1. \A k \in 1..2 : Reverse(d)[k] = d[2 + 1 - k]
      BY <1>7, ReverseBytes
    <3> QED BY <3>1
  <2>3. Reverse(d) \in Seq(Byte) /\ Len(Reverse(d)) = 2
    BY <2>1, BytesSeq
  <2> QED BY <1>6, <2>2, <2>3
<1>9. Store(Swap(p, 2), 2) = Reverse(d)
  BY <1>2, StoreSwap
<1>10. Reverse(d) \in Bytes(2) /\ Reverse(Reverse(d)) = d
  BY <1>7, ReverseBytes
<1>11. Swap(Load(Reverse(d)), 2) = p
  BY <1>7, <1>10, SwapLoad
<1> QED BY <1>8, <1>9, <1>11
-----------------------------------------------------------------------------
(***************************************************************************)
(* C strings.                                                              *)
(***************************************************************************)
Ends(s, n) == (\A k \in 1..n : s[k] # Nul) /\ (n < Len(s) => s[n + 1] = Nul)

\* No character of s is the terminator.
Clear(s) == \A k \in 1..Len(s) : s[k] # Nul

LEMMA CStringIs ==
  ASSUME NEW s \in Seq(Chars), NEW n \in 0..Len(s), Ends(s, n)
  PROVE  CString(s) = SubSeq(s, 1, n)
<1> DEFINE c == CHOOSE m \in 0..Len(s) :
                  /\ \A k \in 1..m : s[k] # Nul
                  /\ m < Len(s) => s[m + 1] = Nul
<1>1. c \in 0..Len(s) /\ (\A k \in 1..c : s[k] # Nul) /\ (c < Len(s) => s[c + 1] = Nul)
  BY Zenon DEF Ends
<1>2. CString(s) = SubSeq(s, 1, c)
  BY DEF CString
<1> HIDE DEF c
<1>3. Len(s) \in Nat /\ n \in Nat /\ c \in Nat
  BY <1>1
<1>4. ~(c < n)
  <2> SUFFICES ASSUME c < n PROVE FALSE
    OBVIOUS
  <2>1. c + 1 \in 1..n /\ c < Len(s)
    BY <1>3
  <2> QED BY <1>1, <2>1 DEF Ends
<1>5. ~(n < c)
  <2> SUFFICES ASSUME n < c PROVE FALSE
    OBVIOUS
  <2>1. n + 1 \in 1..c /\ n < Len(s)
    BY <1>1, <1>3
  <2> QED BY <1>1, <2>1 DEF Ends
<1>6. c = n
  BY <1>3, <1>4, <1>5
<1> QED BY <1>2, <1>6

LEMMA CStringType ==
  ASSUME NEW s \in Seq(Chars)
  PROVE  CString(s) \in Seq(Chars) /\ Len(CString(s)) <= Len(s)
<1> DEFINE T == {n \in Nat : n = Len(s) \/ (n < Len(s) /\ s[n + 1] = Nul)}
<1>1. Len(s) \in Nat
  OBVIOUS
<1>2. T \subseteq Nat /\ T # {}
  BY <1>1
<1>3. PICK n \in T : \A m \in T : n <= m
  BY <1>2, Least
<1>4. n \in 0..Len(s) /\ (n < Len(s) => s[n + 1] = Nul)
  BY <1>1, <1>3
<1>5. ASSUME NEW k \in 1..n PROVE s[k] # Nul
  <2> SUFFICES ASSUME s[k] = Nul PROVE FALSE
    OBVIOUS
  <2>1. k - 1 \in Nat /\ k - 1 < Len(s) /\ (k - 1) + 1 = k /\ k - 1 < n
    BY <1>1, <1>4
  <2>2. k - 1 \in T
    BY <2>1
  <2> HIDE DEF T
  <2>3. n <= k - 1
    BY <1>3, <2>2
  <2> QED BY <1>4, <2>1, <2>3
<1> HIDE DEF T
<1>6. CString(s) = SubSeq(s, 1, n)
  BY <1>4, <1>5, CStringIs DEF Ends
<1>7. n \in Nat /\ n <= Len(s)
  BY <1>1, <1>4
<1>8. SubSeq(s, 1, n) \in Seq(Chars) /\ Len(SubSeq(s, 1, n)) = n
  BY <1>1, <1>7
<1> QED BY <1>6, <1>7, <1>8

\* A name, its terminator and what follows in memory.
LEMMA CStringTerminated ==
  ASSUME NEW p \in Seq(Chars), Clear(p), NEW g \in Seq(Chars)
  PROVE  CString(Append(p, Nul) \o g) = p
<1> DEFINE w == Append(p, Nul)
           s == w \o g
           n == Len(p)
<1>1. Nul \in Chars
  BY EndPointAssumption
<1>2. w \in Seq(Chars) /\ Len(w) = n + 1 /\ n \in Nat /\ w[n + 1] = Nul
      /\ \A k \in 1..n : w[k] = p[k]
  BY <1>1
<1> HIDE DEF w
<1>3. s \in Seq(Chars) /\ Len(s) = Len(w) + Len(g) /\ Len(g) \in Nat
      /\ \A k \in 1..Len(w) : s[k] = w[k]
  BY <1>2
<1> HIDE DEF s
<1>4. n \in 0..Len(s)
  BY <1>2, <1>3
<1>5. \A k \in 1..n : s[k] = p[k] /\ s[k] # Nul
  BY <1>2, <1>3 DEF Clear
<1>6. s[n + 1] = Nul
  BY <1>2, <1>3
<1>7. CString(s) = SubSeq(s, 1, n)
  BY <1>3, <1>4, <1>5, <1>6, CStringIs DEF Ends
<1>8. SubSeq(s, 1, n) = p
  <2>1. SubSeq(s, 1, n) = [k \in 1..n |-> s[k]]
    BY <1>2, <1>3, <1>4
  <2>2. p = [k \in 1..n |-> p[k]]
    OBVIOUS
  <2> QED BY <1>5, <2>1, <2>2
<1> QED BY <1>7, <1>8 DEF s, w

\* A name alone, and what getSockAddr makes of it.
LEMMA CStringClear ==
  ASSUME NEW p \in Seq(Chars), Clear(p)
  PROVE  CString(p) = p
<1>1. Len(p) \in 0..Len(p) /\ Ends(p, Len(p))
  BY DEF Clear, Ends
<1>2. CString(p) = SubSeq(p, 1, Len(p))
  BY <1>1, CStringIs
<1>3. SubSeq(p, 1, Len(p)) = p
  OBVIOUS
<1> QED BY <1>2, <1>3

LEMMA Terminated ==
  ASSUME NEW p \in Seq(Chars), NEW n, n = Len(p)
  PROVE  [k \in 1..n + 1 |-> IF k <= n THEN p[k] ELSE Nul] = Append(p, Nul)
<1>1. n \in Nat
  OBVIOUS
<1> DEFINE w == Append(p, Nul)
<1>2. w = [k \in 1..n + 1 |-> w[k]]
  <2>1. w \in Seq(Chars) /\ Len(w) = n + 1
    BY <1>1, EndPointAssumption
  <2> HIDE DEF w
  <2> QED BY <1>1, <2>1
<1>3. \A k \in 1..n + 1 : w[k] = IF k <= n THEN p[k] ELSE Nul
  BY <1>1
<1> HIDE DEF w
<1> QED BY <1>2, <1>3 DEF w
-----------------------------------------------------------------------------
(***************************************************************************)
(* The invariant: an object that was given an address holds it, if it is   *)
(* of IPv4 or if the ways of the user and of the peers are usual.          *)
(***************************************************************************)
Families == {"INET", "INET6", "UNIX"}

EndPoints ==
  [family : Families, address : Seq(Byte), port : Port, flowInfo : Nat,
   scopeID : Nat, name : Seq(Chars)]

Meanings ==
  [family : Families, addr : Seq(Byte), port : Port, flow : Nat, scope : Nat,
   path : Seq(Chars)]

\* A has the members of its family only.
Proper(A) ==
  /\ A.family = "INET" => A.flow = 0 /\ A.scope = 0 /\ A.path = <<>>
  /\ A.family = "INET6" => A.path = <<>>
  /\ A.family = "UNIX" => A.addr = <<>> /\ A.port = 0 /\ A.flow = 0 /\ A.scope = 0

\* What Addressed needs: no habit, and UNIX sockets bound to pathnames.
Usual ==
  /\ Habits = {}
  /\ \A A \in Addresses : A.family = "UNIX" => A.path # <<>> /\ Clear(A.path)

\* Object e stands for A.
Stands(e, A) ==
  /\ A \in Meanings /\ Proper(A) /\ e.family = A.family
  /\ A.family \in {"INET", "INET6"} => e.address = A.addr /\ e.port = A.port
  /\ A.family = "INET6" => e.flowInfo = A.flow /\ e.scopeID = A.scope
  /\ A.family = "UNIX" => e.name = A.path /\ A.path # <<>> /\ Clear(A.path)

\* IPv4 addresses have the length of the others.
Sized(e) ==
  e.family = "INET" =>
    \E A \in Addresses : A.family = "INET" /\ Len(A.addr) = Len(e.address)

Right(e, A) ==
  /\ e \in EndPoints /\ Sized(e) /\ A \in Meanings \cup {None}
  /\ A # None /\ (e.family = "INET" \/ Usual) => Stands(e, A)

Inv ==
  /\ ep \in [Objects -> EndPoints \cup {None}]
  /\ truth \in [Objects -> Meanings \cup {None}]
  /\ \A o \in Objects : (ep[o] = None /\ truth[o] = None) \/ Right(ep[o], truth[o])
  /\ Usual => Addressed
  /\ WritesFit

LEMMA AddressFacts ==
  ASSUME NEW A \in Addresses
  PROVE  A \in Meanings /\ Proper(A) /\ A # None
BY EndPointAssumption DEF Meanings, Proper, Families, Byte, Port

LEMMA BlankFacts == Blank \in EndPoints
<1>1. 0 \in Port
  <2>1. \A x \in Nat : x > 1 => x * x \in Nat /\ x * x > 1
    BY Z3
  <2> QED BY <2>1, BaseFacts DEF Port
<1> QED BY <1>1 DEF Blank, EndPoints, Families

\* set_addr of a sockaddr that has the members of A, but for the name.
LEMMA SetAddrFacts ==
  ASSUME NEW A \in Addresses, NEW x \in Seq(Chars), NEW sa, sa = [Wire(A) EXCEPT !.path = x]
  PROVE  LET e == SetAddr(sa) IN
         /\ e \in EndPoints /\ Sized(e) /\ e.family = A.family
         /\ A.family \in {"INET", "INET6"} => e.address = A.addr /\ e.port = A.port
         /\ A.family = "INET6" => e.flowInfo = A.flow /\ e.scopeID = A.scope
         /\ A.family = "UNIX" => e.name = CString(x)
<1> DEFINE e == SetAddr(sa)
<1>1. A \in Meanings /\ Proper(A)
  BY AddressFacts
<1>2. /\ sa.family = A.family /\ sa.addr = A.addr /\ sa.flow = A.flow
      /\ sa.scope = A.scope /\ sa.path = x
      /\ sa.port = <<A.port \div Base, A.port % Base>>
  BY <1>1 DEF Wire, Meanings
<1>3. Swap(Load(sa.port), 2) = A.port
  BY <1>1, <1>2, PortBytes DEF Meanings
<1>4. A.family \in Families /\ A.addr \in Seq(Byte) /\ A.port \in Port
      /\ A.flow \in Nat /\ A.scope \in Nat /\ CString(x) \in Seq(Chars)
  BY <1>1, CStringType DEF Meanings
<1>5. CASE A.family = "INET"
  <2>1. e = [Blank EXCEPT !.family = "INET", !.address = A.addr, !.port = A.port]
    BY <1>2, <1>3, <1>5 DEF SetAddr, ByFamily, SetAddrIn
  <2>2. e \in EndPoints /\ e.family = "INET" /\ e.address = A.addr /\ e.port = A.port
    BY <1>4, <2>1, BlankFacts DEF EndPoints, Families
  <2> HIDE DEF e
  <2>3. Sized(e)
    BY <1>5, <2>2 DEF Sized
  <2> QED BY <1>5, <2>2, <2>3 DEF e
<1>6. CASE A.family = "INET6"
  <2>1. e = [Blank EXCEPT !.family = "INET6", !.address = A.addr, !.port = A.port,
                          !.flowInfo = A.flow, !.scopeID = A.scope]
    BY <1>2, <1>3, <1>6 DEF SetAddr, ByFamily, SetAddrIn6
  <2>2. e \in EndPoints /\ e.family = "INET6" /\ e.address = A.addr /\ e.port = A.port
        /\ e.flowInfo = A.flow /\ e.scopeID = A.scope
    BY <1>4, <2>1, BlankFacts DEF EndPoints, Families
  <2> HIDE DEF e
  <2>3. Sized(e)
    BY <2>2 DEF Sized
  <2> QED BY <1>6, <2>2, <2>3 DEF e
<1>7. CASE A.family = "UNIX"
  <2>1. e = [Blank EXCEPT !.family = "UNIX", !.name = CString(x)]
    BY <1>2, <1>7 DEF SetAddr, ByFamily, SetAddrUn
  <2>2. e \in EndPoints /\ e.family = "UNIX" /\ e.name = CString(x)
    BY <1>4, <2>1, BlankFacts DEF EndPoints, Families
  <2> HIDE DEF e
  <2>3. Sized(e)
    BY <2>2 DEF Sized
  <2> QED BY <1>7, <2>2, <2>3 DEF e
<1> QED BY <1>4, <1>5, <1>6, <1>7 DEF Families

\* set_addr of what the kernel wrote: the address, if there was room for its name.
LEMMA SetAddrRight ==
  ASSUME NEW A \in Addresses, NEW room \in Nat, NEW sa \in Written(A, room),
         Usual /\ A.family = "UNIX" => Len(A.path) < room
  PROVE  Right(SetAddr(sa), A)
<1> DEFINE whole == Append(A.path, Nul)
           part == IF A.path = <<>> THEN <<>>
                   ELSE IF room < Len(whole) THEN SubSeq(whole, 1, room) ELSE whole
<1>1. PICK g \in Garbage : sa = [Wire(A) EXCEPT !.path = part \o g]
  BY DEF Written
<1>2. A \in Meanings /\ Proper(A) /\ A # None /\ A.path \in Seq(Chars)
  BY AddressFacts DEF Meanings
<1>3. g \in Seq(Chars) /\ Nul \in Chars
  BY EndPointAssumption
<1>4. whole \in Seq(Chars) /\ Len(whole) = Len(A.path) + 1 /\ Len(A.path) \in Nat
  BY <1>2, <1>3
<1> HIDE DEF whole
<1>5. part \in Seq(Chars)
  BY <1>4
<1>6. ASSUME Usual, A.family = "UNIX"
      PROVE  CString(part \o g) = A.path /\ A.path # <<>> /\ Clear(A.path)
  <2>1. A.path # <<>> /\ Clear(A.path) /\ ~(room < Len(whole))
    BY <1>4, <1>6 DEF Usual
  <2>2. part = whole
    BY <2>1
  <2>3. CString(whole \o g) = A.path
    BY <1>2, <1>3, <2>1, CStringTerminated DEF whole
  <2> QED BY <2>1, <2>2, <2>3
<1> HIDE DEF part
<1> DEFINE x == part \o g
           e == SetAddr(sa)
<1>7. x \in Seq(Chars)
  BY <1>3, <1>5
<1>8. /\ e \in EndPoints /\ Sized(e) /\ e.family = A.family
      /\ A.family \in {"INET", "INET6"} => e.address = A.addr /\ e.port = A.port
      /\ A.family = "INET6" => e.flowInfo = A.flow /\ e.scopeID = A.scope
      /\ A.family = "UNIX" => e.name = CString(x)
  <2> HIDE DEF x
  <2>1. sa = [Wire(A) EXCEPT !.path = x]
    BY <1>1 DEF x
  <2> QED BY <1>7, <2>1, SetAddrFacts, Zenon
<1> SUFFICES Right(e, A)
  OBVIOUS
<1> HIDE DEF e
<1>9. ASSUME A.family = "INET" \/ Usual PROVE Stands(e, A)
  BY <1>2, <1>6, <1>8, <1>9 DEF Stands
<1> QED BY <1>2, <1>8, <1>9 DEF Right

\* The kernel understands what getSockAddr gives it as the address the object
\* stands for.
LEMMA GetSockAddrRight ==
  ASSUME NEW e \in EndPoints, NEW A, Stands(e, A)
  PROVE  Heard(GetSockAddr(e)) = Wire(A)
<1> DEFINE w == <<A.port \div Base, A.port % Base>>
<1>1. A \in Meanings /\ Proper(A) /\ e.family = A.family
  BY DEF Stands
<1>2. A.port \in Port /\ A.family \in Families
  BY <1>1 DEF Meanings
<1>3. Store(Swap(A.port, 2), 2) = w
  BY <1>2, PortBytes
<1> HIDE DEF w
<1>4. Wire(A) = [family |-> A.family, addr |-> A.addr, port |-> w,
                 flow |-> A.flow, scope |-> A.scope, path |-> A.path]
  <2>1. A = [family |-> A.family, addr |-> A.addr, port |-> A.port,
             flow |-> A.flow, scope |-> A.scope, path |-> A.path]
    BY <1>1 DEF Meanings
  <2>2. Wire(A) = [A EXCEPT !.port = w]
    BY DEF Wire, w
  <2> QED BY <2>1, <2>2
<1>0. ASSUME NEW sa, sa.path = <<>>, sa = [sa EXCEPT !.path = <<>>]
      PROVE  Heard(sa) = sa
  <2>1. CString(<<>>) = <<>>
    <3>1. <<>> \in Seq(Chars) /\ Clear(<<>>)
      BY DEF Clear
    <3> QED BY <3>1, CStringClear
  <2> QED BY <1>0, <2>1 DEF Heard
<1>5. CASE A.family = "INET"
  <2>1. e.address = A.addr /\ e.port = A.port
    BY <1>5 DEF Stands
  <2>2. GetSockAddr(e) = [NoAddr EXCEPT !.family = "INET", !.port = w, !.addr = A.addr]
    BY <1>1, <1>3, <1>5, <2>1 DEF GetSockAddr, ByFamily, GetSockAddrIn
  <2>3. GetSockAddr(e) = Wire(A) /\ A.path = <<>>
    BY <1>1, <1>4, <1>5, <2>2 DEF NoAddr, Proper
  <2> QED BY <1>0, <1>4, <2>3
<1>6. CASE A.family = "INET6"
  <2>1. e.address = A.addr /\ e.port = A.port /\ e.flowInfo = A.flow /\ e.scopeID = A.scope
    BY <1>6 DEF Stands
  <2>2. GetSockAddr(e) = [NoAddr EXCEPT !.family = "INET6", !.port = w, !.addr = A.addr,
                                        !.flow = A.flow, !.scope = A.scope]
    BY <1>1, <1>3, <1>6, <2>1 DEF GetSockAddr, ByFamily, GetSockAddrIn6
  <2>3. GetSockAddr(e) = Wire(A) /\ A.path = <<>>
    BY <1>1, <1>4, <1>6, <2>2 DEF NoAddr, Proper
  <2> QED BY <1>0, <1>4, <2>3
<1>7. CASE A.family = "UNIX"
  <2> DEFINE s == Append(A.path, Nul)
             sa == GetSockAddr(e)
  <2>1. e.name = A.path /\ A.path # <<>> /\ Clear(A.path) /\ A.path \in Seq(Chars)
    BY <1>1, <1>7 DEF Stands, Meanings
  <2>2. sa = [NoAddr EXCEPT !.family = "UNIX", !.path = s]
    <3>1. CString(e.name) = e.name
      BY <2>1, CStringClear
    <3>2. GetSockAddrUn(e) =
            [NoAddr EXCEPT !.family = "UNIX",
               !.path = [k \in 1..Len(A.path) + 1 |->
                           IF k <= Len(A.path) THEN A.path[k] ELSE Nul]]
      BY <2>1, <3>1 DEF GetSockAddrUn
    <3>3. [k \in 1..Len(A.path) + 1 |-> IF k <= Len(A.path) THEN A.path[k] ELSE Nul] = s
      BY <2>1, Terminated
    <3> QED BY <1>1, <1>7, <3>2, <3>3 DEF GetSockAddr, ByFamily
  <2>3. w = <<0, 0>>
    <3>1. A.port = 0 /\ Base \in Nat /\ Base > 1
      BY <1>1, <1>7, BaseFacts DEF Proper
    <3>2. Base * 0 + 0 = 0 /\ 0 \in 0..Base - 1
      BY <3>1
    <3>3. (Base * 0 + 0) \div Base = 0 /\ (Base * 0 + 0) % Base = 0
      BY <3>1, <3>2, DivMod
    <3>4. 0 \div Base = 0 /\ 0 % Base = 0
      BY <3>2, <3>3
    <3> QED BY <3>1, <3>4 DEF w
  <2>4. s # <<>> /\ s[1] # Nul
    <3>1. Len(A.path) \in Nat /\ Len(A.path) > 0
      BY <2>1
    <3>2. s[1] = A.path[1] /\ Len(s) > 0
      BY <2>1, <3>1
    <3> QED BY <3>1, <3>2, <2>1 DEF Clear
  <2>5. CString(s) = A.path
    <3>1. CString(s \o <<>>) = A.path
      BY <2>1, CStringTerminated, <<>> \in Seq(Chars)
    <3>2. s \o <<>> = s
      <4>1. s \in Seq(Chars)
        BY <2>1, EndPointAssumption
      <4> QED BY <4>1
    <3> QED BY <3>1, <3>2
  <2> HIDE DEF s, sa
  <2>6. sa.path = s
    BY <2>2 DEF NoAddr
  <2>7. Heard(sa) = [sa EXCEPT !.path = A.path]
    BY <2>4, <2>5, <2>6 DEF Heard
  <2>8. Heard(sa) = [NoAddr EXCEPT !.family = "UNIX", !.path = A.path]
    BY <2>2, <2>7 DEF NoAddr
  <2> QED BY <1>1, <1>4, <1>7, <2>8, <2>3 DEF NoAddr, Proper, sa
<1> QED BY <1>2, <1>5, <1>6, <1>7 DEF Families

LEMMA BecomesInv ==
  ASSUME Inv, NEW o \in Objects, NEW e, NEW A, Becomes(o, e, A),
         (e = None /\ A = None) \/ Right(e, A)
  PROVE  Inv'
<1>1. e \in EndPoints \cup {None} /\ A \in Meanings \cup {None}
  BY DEF Right, Stands
<1>2. ep' = [ep EXCEPT ![o] = e] /\ truth' = [truth EXCEPT ![o] = A] /\ sent' = sent
  BY DEF Becomes
<1>3. ep \in [Objects -> EndPoints \cup {None}] /\ truth \in [Objects -> Meanings \cup {None}]
  BY DEF Inv
<1>4. ep' \in [Objects -> EndPoints \cup {None}]
  BY <1>1, <1>2, <1>3
<1>5. truth' \in [Objects -> Meanings \cup {None}]
  BY <1>1, <1>2, <1>3
<1>6. ASSUME NEW d \in Objects
      PROVE  (ep'[d] = None /\ truth'[d] = None) \/ Right(ep'[d], truth'[d])
  <2>1. CASE d = o
    <3>1. ep'[d] = e /\ truth'[d] = A
      BY <1>2, <1>3, <2>1
    <3> QED BY <3>1
  <2>2. CASE d # o
    <3>1. ep'[d] = ep[d] /\ truth'[d] = truth[d]
      BY <1>2, <1>3, <2>2
    <3> QED BY <3>1 DEF Inv
  <2> QED BY <2>1, <2>2
<1>7. (Usual => Addressed') /\ WritesFit'
  BY <1>2 DEF Inv, Addressed, WritesFit
<1>8. \A d \in Objects : ((ep[d] = None /\ truth[d] = None) \/ Right(ep[d], truth[d]))'
  BY <1>6 DEF Right, Sized, Stands, Proper
<1> QED BY <1>4, <1>5, <1>7, <1>8 DEF Inv

LEMMA RightFacts ==
  ASSUME Inv, NEW o \in Objects, ep[o] # None
  PROVE  Right(ep[o], truth[o]) /\ ep[o] \in EndPoints
BY DEF Inv, Right

LEMMA CreateInv == ASSUME Inv, NEW o \in Objects, Create(o) PROVE Inv'
<1>1. CASE Becomes(o, None, None)
  BY <1>1, BecomesInv
<1>2. CASE \E A \in Addresses : Becomes(o, [SetAddr(Wire(A)) EXCEPT !.name = <<>>], None)
  <2>1. PICK A \in Addresses : Becomes(o, [SetAddr(Wire(A)) EXCEPT !.name = <<>>], None)
    BY <1>2
  <2> DEFINE f == SetAddr(Wire(A))
             e == [f EXCEPT !.name = <<>>]
  <2>2. f \in EndPoints /\ Sized(f)
    <3>1. A \in Meanings /\ A.path \in Seq(Chars)
      BY AddressFacts DEF Meanings
    <3>2. Wire(A) = [Wire(A) EXCEPT !.path = A.path]
      BY <3>1 DEF Wire, Meanings
    <3> QED BY <3>1, <3>2, SetAddrFacts, Zenon
  <2> HIDE DEF f
  <2>3. e \in EndPoints /\ e.family = f.family /\ e.address = f.address
    <3>1. <<>> \in Seq(Chars)
      BY EndPointAssumption
    <3> QED BY <2>2, <3>1 DEF EndPoints
  <2>4. Becomes(o, e, None)
    BY <2>1, Zenon DEF f
  <2> HIDE DEF e
  <2>5. Right(e, None)
    BY <2>2, <2>3 DEF Right, Sized
  <2> QED BY <2>4, <2>5, BecomesInv
<1> QED BY <1>1, <1>2 DEF Create

LEMMA NewIPInv == ASSUME Inv, NEW o \in Objects, NewIP(o) PROVE Inv'
<1>1. PICK A \in Addresses :
        /\ A.family = "INET"
        /\ Becomes(o, [Blank EXCEPT !.family = "INET", !.address = A.addr,
                                    !.port = A.port], A)
  BY DEF NewIP
<1> DEFINE e == [Blank EXCEPT !.family = "INET", !.address = A.addr, !.port = A.port]
<1>2. A \in Meanings /\ Proper(A)
  BY AddressFacts
<1>3. A.addr \in Seq(Byte) /\ A.port \in Port
  BY <1>2 DEF Meanings
<1>4. e \in EndPoints /\ e.family = "INET" /\ e.address = A.addr /\ e.port = A.port
  BY <1>3, BlankFacts DEF EndPoints, Families
<1>5. Becomes(o, e, A)
  BY <1>1
<1> HIDE DEF e
<1>6. Right(e, A)
  BY <1>1, <1>2, <1>4 DEF Right, Sized, Stands
<1> QED BY <1>5, <1>6, BecomesInv

LEMMA NewIPv6Inv == ASSUME Inv, NEW o \in Objects, NewIPv6(o) PROVE Inv'
<1>1. PICK A \in Addresses, B \in Addresses :
        /\ A.family = "INET6" /\ B.family = "INET6"
        /\ B = A \/ "bare" \in Habits
        /\ Becomes(o, [Blank EXCEPT !.family = "INET6", !.address = A.addr,
                                    !.port = A.port, !.flowInfo = B.flow,
                                    !.scopeID = B.scope], A)
  BY DEF NewIPv6
<1> DEFINE e == [Blank EXCEPT !.family = "INET6", !.address = A.addr, !.port = A.port,
                              !.flowInfo = B.flow, !.scopeID = B.scope]
<1>2. A \in Meanings /\ Proper(A) /\ B \in Meanings
  BY AddressFacts
<1>3. A.addr \in Seq(Byte) /\ A.port \in Port /\ B.flow \in Nat /\ B.scope \in Nat
  BY <1>2 DEF Meanings
<1>4. e \in EndPoints /\ e.family = "INET6" /\ e.address = A.addr /\ e.port = A.port
      /\ e.flowInfo = B.flow /\ e.scopeID = B.scope
  BY <1>3, BlankFacts DEF EndPoints, Families
<1>5. Becomes(o, e, A)
  BY <1>1
<1>6. Usual => B = A
  BY <1>1 DEF Usual
<1> HIDE DEF e
<1>7. Right(e, A)
  BY <1>1, <1>2, <1>4, <1>6 DEF Right, Sized, Stands
<1> QED BY <1>5, <1>7, BecomesInv

LEMMA UnixRight ==
  ASSUME NEW x \in Seq(Chars), NEW A \in Addresses, A.family = "UNIX", A.path = x
  PROVE  Right([Blank EXCEPT !.name = x], A)
<1> DEFINE e == [Blank EXCEPT !.name = x]
<1>1. e \in EndPoints /\ e.family = "UNIX" /\ e.name = x
  BY BlankFacts DEF EndPoints, Blank
<1> SUFFICES Right(e, A)
  OBVIOUS
<1> HIDE DEF e
<1>2. A \in Meanings /\ Proper(A)
  BY AddressFacts
<1>3. Usual => Stands(e, A)
  BY <1>1, <1>2 DEF Usual, Stands
<1> QED BY <1>1, <1>2, <1>3 DEF Right, Sized

LEMMA NewUNIXInv == ASSUME Inv, NEW o \in Objects, NewUNIX(o) PROVE Inv'
<1>1. PICK A \in Addresses : A.family = "UNIX" /\ Becomes(o, [Blank EXCEPT !.name = A.path], A)
  BY DEF NewUNIX
<1>2. A.path \in Seq(Chars)
  BY AddressFacts DEF Meanings
<1>3. Right([Blank EXCEPT !.name = A.path], A)
  BY <1>1, <1>2, UnixRight
<1> QED BY <1>1, <1>3, BecomesInv

LEMMA GivenInv ==
  ASSUME Inv, NEW o \in Objects, NEW A \in Addresses, Given(o, A)
  PROVE  Inv'
<1>1. Len(A.path) \in Nat
  BY AddressFacts DEF Meanings
<1>2. PICK sa \in Written(A, Len(A.path) + 1) : Becomes(o, SetAddr(sa), A)
  BY DEF Given
<1>3. Right(SetAddr(sa), A)
  BY <1>1, SetAddrRight
<1> QED BY <1>2, <1>3, BecomesInv

LEMMA SetSockAddrInv == ASSUME Inv, NEW o \in Objects, SetSockAddr(o) PROVE Inv'
BY GivenInv DEF SetSockAddr

LEMMA FromSockAddrInv == ASSUME Inv, NEW o \in Objects, FromSockAddr(o) PROVE Inv'
BY GivenInv DEF FromSockAddr

LEMMA CloneInv ==
  ASSUME Inv, NEW o \in Objects, NEW d \in Objects, Clone(o, d)
  PROVE  Inv'
<1> DEFINE f == ep[o]
           g == ep[d]
           A == truth[o]
           e == Cloned(f, g)
<1>1. Right(f, A) /\ f \in EndPoints /\ g \in EndPoints /\ f.family = g.family /\ Becomes(d, e, A)
  BY RightFacts DEF Clone
<1> HIDE DEF f, g, A
<1>2. f.family \in Families /\ f.address \in Seq(Byte) /\ f.port \in Port
      /\ f.flowInfo \in Nat /\ f.scopeID \in Nat /\ f.name \in Seq(Chars)
  BY <1>1 DEF EndPoints
<1>3. CASE f.family = "INET"
  <2>1. e = [g EXCEPT !.address = f.address, !.port = f.port]
    BY <1>3 DEF Cloned, ByFamily, ClonedIn
  <2>2. e \in EndPoints /\ e.family = "INET" /\ e.address = f.address /\ e.port = f.port
    BY <1>1, <1>2, <1>3, <2>1 DEF EndPoints
  <2> HIDE DEF e
  <2>3. Right(e, A)
    BY <1>1, <1>3, <2>2 DEF Right, Sized, Stands
  <2> QED BY <1>1, <2>3, BecomesInv
<1>4. CASE f.family = "INET6"
  <2>1. e = [g EXCEPT !.address = f.address, !.port = f.port,
                      !.flowInfo = f.flowInfo, !.scopeID = f.scopeID]
    BY <1>4 DEF Cloned, ByFamily, ClonedIn6
  <2>2. e \in EndPoints /\ e.family = "INET6" /\ e.address = f.address /\ e.port = f.port
        /\ e.flowInfo = f.flowInfo /\ e.scopeID = f.scopeID
    BY <1>1, <1>2, <1>4, <2>1 DEF EndPoints
  <2> HIDE DEF e
  <2>3. Right(e, A)
    BY <1>1, <1>4, <2>2 DEF Right, Sized, Stands
  <2> QED BY <1>1, <2>3, BecomesInv
<1>5. CASE f.family = "UNIX"
  <2>1. e = [g EXCEPT !.name = f.name]
    BY <1>5 DEF Cloned, ByFamily, ClonedUn
  <2>2. e \in EndPoints /\ e.family = "UNIX" /\ e.name = f.name
    BY <1>1, <1>2, <1>5, <2>1 DEF EndPoints
  <2> HIDE DEF e
  <2>3. Right(e, A)
    BY <1>1, <1>5, <2>2 DEF Right, Sized, Stands
  <2> QED BY <1>1, <2>3, BecomesInv
<1> QED BY <1>2, <1>3, <1>4, <1>5 DEF Families

LEMMA StepInv == ASSUME Inv, NEW o \in Objects, Step(o) PROVE Inv'
<1> DEFINE f == ep[o]
           A == truth[o]
<1>1. f # None /\ f.family = "INET" /\ Right(f, A) /\ f \in EndPoints
  BY RightFacts DEF Step
<1>2. PICK i \in {1, -1} :
        Becomes(o, [f EXCEPT !.address = Plus(f.address, i)],
                IF A = None THEN None ELSE [A EXCEPT !.addr = Neighbour(A.addr, i)])
  BY DEF Step
<1> HIDE DEF f, A
<1> DEFINE n == Len(f.address)
           b == Plus(f.address, i)
           e == [f EXCEPT !.address = b]
           B == IF A = None THEN None ELSE [A EXCEPT !.addr = Neighbour(A.addr, i)]
<1>3. f.address \in Seq(Byte)
  BY <1>1 DEF EndPoints
<1>4. n \in Nat /\ f.address \in Bytes(n)
  BY <1>3, SeqBytes
<1>5. b \in Bytes(n) /\ b = Neighbour(f.address, i)
  <2>1. i \in Int
    OBVIOUS
  <2> QED BY <1>4, <2>1, PlusValue, PlusNeighbour
<1>6. b \in Seq(Byte) /\ Len(b) = n
  <2> HIDE DEF n, b
  <2> QED BY <1>4, <1>5, BytesSeq
<1>7. Becomes(o, e, B)
  BY <1>2
<1> HIDE DEF b
<1>8. e \in EndPoints /\ e.family = "INET" /\ e.address = b /\ e.port = f.port
  BY <1>1, <1>6 DEF EndPoints
<1> HIDE DEF e
<1>9. Sized(e)
  BY <1>1, <1>6, <1>8 DEF Right, Sized
<1>10. CASE A = None
  <2>1. B = None
    BY <1>10
  <2>2. Right(e, B)
    BY <1>8, <1>9, <2>1 DEF Right
  <2> QED BY <1>7, <2>2, BecomesInv
<1>11. CASE A # None
  <2>1. Stands(f, A)
    BY <1>1, <1>11 DEF Right
  <2>2. A \in Meanings /\ Proper(A) /\ A.family = "INET" /\ A.addr = f.address /\ A.port = f.port
    BY <1>1, <2>1 DEF Stands
  <2>3. B = [A EXCEPT !.addr = b]
    BY <1>5, <1>11, <2>2
  <2> HIDE DEF B
  <2>4. B \in Meanings /\ B.family = "INET" /\ B.addr = b /\ B.port = A.port
        /\ B.flow = A.flow /\ B.scope = A.scope /\ B.path = A.path
    BY <1>6, <2>2, <2>3 DEF Meanings
  <2>5. Right(e, B)
    BY <1>8, <1>9, <2>2, <2>4 DEF Right, Stands, Proper
  <2> QED BY <1>7, <2>5, BecomesInv
<1> QED BY <1>10, <1>11

LEMMA RecvFromInv == ASSUME Inv, NEW o \in Objects, RecvFrom(o) PROVE Inv'
<1> DEFINE n == Len(ep[o].name)
<1>1. PICK A \in Addresses : \E sa \in Written(A, n + 1) :
        /\ Truncated(A, ep[o]) => "cut" \in Habits
        /\ Becomes(o, SetAddr(sa), A)
  BY DEF RecvFrom
<1>2. PICK sa \in Written(A, n + 1) : Becomes(o, SetAddr(sa), A)
  BY <1>1
<1>3. n \in Nat
  <2>1. ep[o] \in EndPoints
    BY RightFacts DEF RecvFrom
  <2> QED BY <2>1 DEF EndPoints
<1>4. Len(A.path) \in Nat
  BY AddressFacts DEF Meanings
<1>5. Usual /\ A.family = "UNIX" => Len(A.path) < n + 1
  BY <1>1, <1>3, <1>4 DEF Usual, Truncated
<1> HIDE DEF n
<1>6. Right(SetAddr(sa), A)
  BY <1>3, <1>5, SetAddrRight
<1> QED BY <1>2, <1>6, BecomesInv

LEMMA SendToInv == ASSUME Inv, NEW o \in Objects, SendTo(o) PROVE Inv'
<1> DEFINE e == ep[o]
           A == truth[o]
<1>1. e \in EndPoints /\ (A # None /\ Usual => Stands(e, A))
  BY RightFacts DEF SendTo, Right
<1>2. sent' = [to |-> GetSockAddr(e), extent |-> WriteExtent(e),
               size |-> GetSockAddrSize(e), meant |-> A]
      /\ ep' = ep /\ truth' = truth
  BY DEF SendTo
<1> HIDE DEF e, A
<1>3. ASSUME Usual PROVE Addressed'
  <2>1. A # None => Heard(GetSockAddr(e)) = Wire(A)
    BY <1>1, <1>3, GetSockAddrRight
  <2>2. sent'.meant = A /\ sent'.to = GetSockAddr(e)
    BY <1>2
  <2>3. sent'.meant # None => Heard(sent'.to) = Wire(sent'.meant)
    BY <2>1, <2>2
  <2> QED BY <2>3 DEF Addressed, Heard, Wire, CString
<1>4. WriteExtent(e) <= GetSockAddrSize(e)
  <2>1. Len(e.name) \in Nat /\ e.family \in Families
    BY <1>1 DEF EndPoints
  <2> QED BY <2>1 DEF WriteExtent, GetSockAddrSize, ByFamily, SizeIn, SizeIn6, SizeUn, Families
<1>5. WritesFit'
  BY <1>2, <1>4 DEF WritesFit
<1> QED BY <1>2, <1>3, <1>5 DEF Inv

LEMMA InvNext == Inv /\ [Next]_vars => Inv'
<1>1. ASSUME Inv, Next PROVE Inv'
  BY <1>1, CreateInv, NewIPInv, NewIPv6Inv, NewUNIXInv, SetSockAddrInv, FromSockAddrInv,
     StepInv, RecvFromInv, SendToInv, CloneInv DEF Next
<1>2. ASSUME Inv, UNCHANGED vars PROVE Inv'
  BY <1>2 DEF Inv, vars, Addressed, WritesFit
<1> QED BY <1>1, <1>2

LEMMA InvInit == Init => Inv
BY DEF Init, Inv, NothingSent, Addressed, WritesFit

LEMMA InvOrder == Inv => AddressOrder
<1> SUFFICES ASSUME Inv, NEW o \in Objects, NEW d \in Objects, ep[o] # None, ep[d] # None,
                    ep[o].family = "INET", ep[d].family = "INET"
             PROVE  /\ Less(ep[o].address, ep[d].address) = Before(ep[o].address, ep[d].address)
                    /\ Sum(Difference(ep[o].address, ep[d].address), ep[d].address) = ep[o].address
  BY Zenon DEF AddressOrder
<1> DEFINE a == ep[o].address
           b == ep[d].address
<1>1. ep[o] \in EndPoints /\ ep[d] \in EndPoints /\ Sized(ep[o]) /\ Sized(ep[d])
  BY RightFacts DEF Right
<1>2. a \in Seq(Byte) /\ b \in Seq(Byte)
  BY <1>1 DEF EndPoints
<1>3. Len(a) = Len(b)
  BY <1>1, EndPointAssumption DEF Sized
<1> HIDE DEF a, b
<1>4. Len(a) \in Nat /\ a \in Bytes(Len(a)) /\ b \in Bytes(Len(a))
  BY <1>2, <1>3, SeqBytes
<1>5. Less(a, b) = Before(a, b)
  BY <1>4, LessIsBefore
<1>6. Sum(Difference(a, b), b) = a
  BY <1>4, AddBack
<1> QED BY <1>5, <1>6 DEF a, b

\* A datagram goes where it is meant to go, for addresses and ports of the three
\* families and all lengths, whether a constructor, the resolver, recvFrom, a
\* clone or arithmetic gave the EndPoint its address: byte order conversions
\* cancel, the C strings are cut at the terminator and not before or behind it,
\* clone forgets no member, and + 1 and - 1 carry and wrap.  It needs a user who
\* sets flowInfo and scopeID after IPv6EndPoint(address, port) and who receives
\* into names long enough for the sender, and UNIX peers bound to pathnames: the
\* code has no such check, and breaks the property without them.
THEOREM DatagramsAddressed ==
  ASSUME Habits = {},
         \A A \in Addresses : A.family = "UNIX" =>
           A.path # <<>> /\ \A k \in 1..Len(A.path) : A.path[k] # Nul
  PROVE  Spec => []Addressed
<1>1. Usual
  BY DEF Usual, Clear
<1>2. Inv => Addressed
  BY <1>1 DEF Inv
<1> QED BY <1>2, InvInit, InvNext, PTL DEF Spec

\* getSockAddr never writes past the array of getSockAddrSize bytes that sendTo
\* gives it, for every name, also one that recvFrom read past a terminator.
THEOREM SockAddrFits == Spec => []WritesFit
<1>1. Inv => WritesFit
  BY DEF Inv
<1> QED BY <1>1, InvInit, InvNext, PTL DEF Spec

\* IPAddress's < is the order of the dotted notation, and a - b + b is a, for
\* addresses of any length.
THEOREM AddressesOrdered == Spec => []AddressOrder
BY InvInit, InvNext, InvOrder, PTL DEF Spec
=============================================================================
