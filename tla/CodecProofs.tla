---------------------------- MODULE CodecProofs ----------------------------
(***************************************************************************)
(* Theorems about Md5 and Base64.  However a text is cut into pieces, the  *)
(* blocks of its digest are those of the text as RFC 1321 pads it, for any *)
(* sizes of block and word; and base64 gives back every text but those     *)
(* that the sign of a char spoils, and leaves its room just for some texts *)
(* with a bad ending.                                                      *)
(***************************************************************************)
EXTENDS Md5, Base64, SequenceTheorems, WellFoundedInduction, TLAPS

Bytes == 0 .. 255

-----------------------------------------------------------------------------
(* Induction for sets: every set of naturals that is not empty has a least *)
(* member.                                                                 *)

LEMMA LeastNumber ==
  ASSUME NEW S \in SUBSET Nat, S # {}
  PROVE  \E x \in S : \A y \in S : ~ (y < x)
<1> DEFINE R == OpToRel(<, Nat)
<1>1. IsWellFoundedOn(R, Nat)
  BY NatLessThanWellFounded
<1>2. \A x, y \in Nat : <<y, x>> \in R <=> y < x
  BY DEF OpToRel
<1> HIDE DEF R
<1>3. \E x \in S : \A y \in S : ~ (<<y, x>> \in R)
  BY <1>1, WFMin
<1> QED
  BY <1>2, <1>3

LEMMA SetInduction ==
  ASSUME NEW S, 0 \in S, NEW m \in Nat,
         \A n \in 0 .. m - 1 : n \in S => n + 1 \in S
  PROVE  0 .. m \subseteq S
<1> SUFFICES ASSUME (0 .. m) \ S # {} PROVE FALSE
  OBVIOUS
<1> DEFINE T == (0 .. m) \ S
<1>0. T \in SUBSET Nat /\ T # {}
  OBVIOUS
<1> HIDE DEF T
<1>1. PICK x \in T : \A y \in T : ~ (y < x)
  BY <1>0, LeastNumber
<1> USE DEF T
<1>2. x # 0 /\ x - 1 \in 0 .. m - 1 /\ x = (x - 1) + 1
  BY <1>1
<1>3. x - 1 \in S
  BY <1>1, <1>2
<1> QED
  BY <1>1, <1>2, <1>3

-----------------------------------------------------------------------------
(* Division.                                                               *)

LEMMA Divided ==
  ASSUME NEW x \in Nat, NEW d \in Nat, d > 0
  PROVE  /\ x \div d \in Nat
         /\ x % d \in 0 .. d - 1
         /\ x = d * (x \div d) + (x % d)
<1>1. x \div d \in Int /\ x % d \in 0 .. d - 1
  OBVIOUS
<1>2. x = d * (x \div d) + (x % d)
  BY Z3
<1> DEFINE q == x \div d
           r == x % d
<1>3. q >= 0
  <2> HIDE DEF q, r
  <2>1. q \in Int /\ r \in 0 .. d - 1 /\ x = d * q + r
    BY <1>1, <1>2 DEF q, r
  <2>2. ASSUME q <= -1 PROVE FALSE
    <3>1. d * q <= -d
      BY <2>1, <2>2
    <3> QED
      BY <2>1, <3>1
  <2> QED
    BY <2>1, <2>2
<1> QED
  BY <1>1, <1>2, <1>3

LEMMA Quotient ==
  ASSUME NEW d \in Nat, d > 0, NEW q \in Nat, NEW r \in 0 .. d - 1,
         NEW x, x = d * q + r
  PROVE  x \div d = q /\ x % d = r
  OBVIOUS

LEMMA QuotientOfQuotient ==
  ASSUME NEW x \in Nat, NEW a \in Nat, a > 0, NEW b \in Nat, b > 0
  PROVE  /\ (x \div a) \div b = x \div (a * b)
         /\ (x % (a * b)) \div a = (x \div a) % b
<1> DEFINE q == x \div a
           r == x % a
           s == q \div b
           u == q % b
<1>1. q \in Nat /\ r \in 0 .. a - 1 /\ x = a * q + r
  BY Divided
<1>2. s \in Nat /\ u \in 0 .. b - 1 /\ q = b * s + u
  BY <1>1, Divided
<1> HIDE DEF q, r, s, u
<1>3. a * b \in Nat /\ a * b > 0
  OBVIOUS
<1>4. a * q = (a * b) * s + a * u
  <2>1. a * q = a * (b * s) + a * u
    BY <1>2
  <2>2. a * (b * s) = (a * b) * s
    BY <1>2
  <2> QED
    BY <2>1, <2>2
<1>5. a * u + r \in 0 .. a * b - 1
  <2>1. a * u <= a * (b - 1)
    BY <1>2
  <2>2. a * (b - 1) = a * b - a
    OBVIOUS
  <2>3. a * u \in Nat
    BY <1>2
  <2> QED
    BY <1>1, <1>3, <2>1, <2>2, <2>3
<1>6. x = (a * b) * s + (a * u + r)
  <2> DEFINE au == a * u
             abs == (a * b) * s
             aq == a * q
  <2>1. au \in Nat /\ abs \in Nat /\ aq = abs + au /\ x = aq + r
    BY <1>1, <1>2, <1>4
  <2> HIDE DEF au, abs, aq
  <2>2. x = abs + (au + r)
    BY <1>1, <2>1
  <2> QED
    BY <2>2 DEF au, abs
<1>7. x \div (a * b) = s /\ x % (a * b) = a * u + r
  <2> DEFINE ab == a * b
             rest == a * u + r
  <2>1. ab \in Nat /\ ab > 0 /\ rest \in 0 .. ab - 1 /\ x = ab * s + rest
    BY <1>3, <1>5, <1>6
  <2> HIDE DEF ab, rest
  <2>2. x \div ab = s /\ x % ab = rest
    BY <1>2, <2>1, Quotient
  <2> QED
    BY <2>2 DEF ab, rest
<1>8. (a * u + r) \div a = u
  BY <1>1, <1>2, Quotient
<1> QED
  BY <1>7, <1>8 DEF q, s, u

LEMMA RestOfRest ==
  ASSUME NEW x \in Nat, NEW m \in Nat, m > 0, NEW c \in Nat, c > 0
  PROVE  (x % (m * c)) % m = x % m
<1> DEFINE s == x \div (m * c)
           v == x % (m * c)
           y == v \div m
           z == v % m
<1>1. m * c \in Nat /\ m * c > 0
  OBVIOUS
<1>2. s \in Nat /\ v \in Nat /\ x = (m * c) * s + v
  BY <1>1, Divided
<1>3. y \in Nat /\ z \in 0 .. m - 1 /\ v = m * y + z
  BY <1>2, Divided
<1> HIDE DEF s, v, y, z
<1>4. x = m * (c * s + y) + z
  <2>1. (m * c) * s = m * (c * s)
    BY <1>2
  <2>2. m * (c * s + y) = m * (c * s) + m * y
    BY <1>2, <1>3
  <2>3. m * (c * s) \in Nat /\ m * y \in Nat
    BY <1>2, <1>3
  <2> QED
    BY <1>2, <1>3, <2>1, <2>2, <2>3
<1>5. c * s + y \in Nat
  BY <1>2, <1>3
<1>6. x % m = z
  BY <1>3, <1>4, <1>5, Quotient
<1> QED
  BY <1>6 DEF v, z

LEMMA RestOfSum ==
  ASSUME NEW x \in Nat, NEW y \in Nat, NEW d \in Nat, d > 0
  PROVE  ((x % d) + y) % d = (x + y) % d
<1> DEFINE q == x \div d
           r == x % d
           s == (r + y) \div d
           u == (r + y) % d
<1>1. q \in Nat /\ r \in Nat /\ x = d * q + r
  BY Divided
<1>2. s \in Nat /\ u \in 0 .. d - 1 /\ r + y = d * s + u
  BY <1>1, Divided
<1> HIDE DEF q, r, s, u
<1>3. d * (q + s) = d * q + d * s /\ d * q \in Nat /\ d * s \in Nat
  BY <1>1, <1>2
<1>4. x + y = d * (q + s) + u
  BY <1>1, <1>2, <1>3
<1>5. (x + y) % d = u
  <2> DEFINE k == q + s
             t == x + y
  <2>1. k \in Nat /\ t = d * k + u
    BY <1>1, <1>2, <1>4
  <2> HIDE DEF k, t
  <2>2. t % d = u
    BY <1>2, <2>1, Quotient
  <2> QED
    BY <2>2 DEF t
<1> QED
  BY <1>5 DEF r, u

-----------------------------------------------------------------------------
(* Powers, the length, and the bytes of a word.                            *)

LEMMA Sizes ==
  /\ WordSize \in Nat /\ WordSize > 0
  /\ LengthSize \in Nat /\ LengthSize = WordSize + WordSize
  /\ BlockSize \in Nat /\ BlockSize > LengthSize
  BY BlockSizeAssumption DEF LengthSize

(* Power satisfies its definition.                                         *)
LEMMA PowerIs ==
  \A k \in 0 .. LengthSize : Power[k] = IF k = 0 THEN 1 ELSE 256 * Power[k - 1]
<1> DEFINE Def(g, m) == [k \in 0 .. m |-> IF k = 0 THEN 1 ELSE 256 * g[k - 1]]
           S == {m \in 0 .. LengthSize : \E g : g = Def(g, m)}
<1>1. 0 \in S
  <2> DEFINE g == [k \in 0 .. 0 |-> 1]
  <2>1. g = Def(g, 0)
    OBVIOUS
  <2> HIDE DEF g
  <2>2. \E f : f = Def(f, 0)
    BY <2>1
  <2> QED
    BY <2>2, Sizes
<1>2. ASSUME NEW m \in 0 .. LengthSize - 1, m \in S
      PROVE  m + 1 \in S
  <2>1. PICK g : g = Def(g, m)
    BY <1>2
  <2> DEFINE h == Def(g, m + 1)
  <2>2. \A k \in 0 .. m : h[k] = g[k]
    <3>1. \A k \in 0 .. m : g[k] = IF k = 0 THEN 1 ELSE 256 * g[k - 1]
      BY <2>1
    <3>2. \A k \in 0 .. m : h[k] = IF k = 0 THEN 1 ELSE 256 * g[k - 1]
      OBVIOUS
    <3> QED
      BY <3>1, <3>2
  <2>3. Def(g, m + 1) = Def(h, m + 1)
    <3> HIDE DEF h
    <3>1. \A k \in 0 .. m + 1 : k # 0 => h[k - 1] = g[k - 1]
      BY <2>2
    <3> QED
      BY <3>1
  <2>4. h = Def(h, m + 1)
    BY <2>3
  <2> HIDE DEF h
  <2>5. \E f : f = Def(f, m + 1)
    BY <2>4
  <2> QED
    BY <2>5, Sizes
<1>3. LengthSize \in S
  <2> HIDE DEF S
  <2>1. \A n \in 0 .. LengthSize - 1 : n \in S => n + 1 \in S
    BY <1>2
  <2>2. 0 .. LengthSize \subseteq S
    BY <1>1, <2>1, Sizes, SetInduction
  <2> QED
    BY <2>2, Sizes
<1>4. \E g : g = Def(g, LengthSize)
  BY <1>3
<1>5. Power = Def(Power, LengthSize)
  BY <1>4 DEF Power
<1> QED
  BY <1>5

LEMMA PowerPositive ==
  \A k \in 0 .. LengthSize : Power[k] \in Nat /\ Power[k] > 0
<1> DEFINE S == {k \in 0 .. LengthSize : Power[k] \in Nat /\ Power[k] > 0}
<1>1. 0 \in S
  BY PowerIs, Sizes
<1>2. \A n \in 0 .. LengthSize - 1 : n \in S => n + 1 \in S
  <2> TAKE n \in 0 .. LengthSize - 1
  <2>1. n + 1 \in 0 .. LengthSize /\ n + 1 # 0 /\ (n + 1) - 1 = n
    BY Sizes
  <2>2. Power[n + 1] = 256 * Power[n]
    BY <2>1, PowerIs
  <2> QED
    BY <2>1, <2>2
<1> HIDE DEF S
<1>3. 0 .. LengthSize \subseteq S
  BY <1>1, <1>2, Sizes, SetInduction
<1> QED
  BY <1>3 DEF S

LEMMA PowerOfSum ==
  ASSUME NEW a \in 0 .. LengthSize
  PROVE  \A b \in 0 .. LengthSize - a : Power[a + b] = Power[a] * Power[b]
<1> DEFINE S == {b \in 0 .. LengthSize - a : Power[a + b] = Power[a] * Power[b]}
<1>1. 0 \in S
  BY PowerIs, PowerPositive, Sizes
<1>2. \A n \in 0 .. (LengthSize - a) - 1 : n \in S => n + 1 \in S
  <2> TAKE n \in 0 .. (LengthSize - a) - 1
  <2> HAVE n \in S
  <2>1. /\ n + 1 \in 0 .. LengthSize /\ n + 1 # 0 /\ (n + 1) - 1 = n
        /\ a + (n + 1) \in 0 .. LengthSize /\ a + (n + 1) # 0
        /\ (a + (n + 1)) - 1 = a + n
        /\ n + 1 \in 0 .. LengthSize - a
    BY Sizes
  <2>2. Power[n + 1] = 256 * Power[n] /\ Power[a + (n + 1)] = 256 * Power[a + n]
    BY <2>1, PowerIs
  <2>3. Power[a + n] = Power[a] * Power[n]
    OBVIOUS
  <2>4. Power[a] \in Nat /\ Power[n] \in Nat
    BY PowerPositive, Sizes
  <2>5. 256 * (Power[a] * Power[n]) = Power[a] * (256 * Power[n])
    BY <2>4
  <2> QED
    BY <2>1, <2>2, <2>3, <2>5
<1> HIDE DEF S
<1>3. LengthSize - a \in Nat
  BY Sizes
<1>4. 0 .. LengthSize - a \subseteq S
  BY <1>1, <1>2, <1>3, SetInduction
<1> QED
  BY <1>4 DEF S

LEMMA WordLimitPositive == WordLimit \in Nat /\ WordLimit > 0
  BY PowerPositive, Sizes DEF WordLimit

(* WordLimit is a multiple of the bits of a block.                         *)
LEMMA WordLimitIs ==
  \E k \in Nat : k > 0 /\ WordLimit = 8 * (BlockSize * k)
<1> DEFINE d == 8 * BlockSize
           k == WordLimit \div d
<1>1. d \in Nat /\ d > 0 /\ WordLimit % d = 0
  BY Sizes, BlockSizeAssumption
<1> HIDE DEF d
<1>2. k \in Nat /\ WordLimit = d * k + 0
  BY <1>1, WordLimitPositive, Divided
<1> HIDE DEF k
<1>3. k > 0
  BY <1>1, <1>2, WordLimitPositive
<1>4. d * k = 8 * (BlockSize * k)
  BY <1>2, Sizes DEF d
<1> QED
  BY <1>1, <1>2, <1>3, <1>4

(* From the low word of the count it is seen how much waits.               *)
LEMMA WaitingIs ==
  ASSUME NEW n \in Nat, NEW c, c.low = (8 * n) % WordLimit
  PROVE  Waiting(c) = n % BlockSize
<1>1. PICK k \in Nat : k > 0 /\ WordLimit = 8 * (BlockSize * k)
  BY WordLimitIs
<1> DEFINE m == BlockSize * k
           x == 8 * n
<1>2. m \in Nat /\ m > 0 /\ BlockSize \in Nat /\ BlockSize > 0 /\ 8 \in Nat /\ 8 > 0
  BY <1>1, Sizes
<1>3. x \in Nat /\ x \div 8 = n
  OBVIOUS
<1>4. (n % m) % BlockSize = n % BlockSize
  BY <1>1, <1>2, RestOfRest, Zenon
<1> HIDE DEF m, x
<1>5. (x % (8 * m)) \div 8 = (x \div 8) % m
  <2>1. x \in Nat
    BY ONLY <1>3
  <2>2. m \in Nat
    BY ONLY <1>2
  <2>3. m > 0
    BY ONLY <1>2
  <2>4. 8 \in Nat /\ 8 > 0
    BY ONLY <1>2
  <2> QED
    BY ONLY <2>1, <2>2, <2>3, <2>4, QuotientOfQuotient
<1>6. Waiting(c) = ((x % (8 * m)) \div 8) % BlockSize
  BY <1>1 DEF Waiting, m, x
<1> QED
  BY <1>3, <1>4, <1>5, <1>6

(* The two words of the count go on as one number does.                    *)
LEMMA CountedRight ==
  ASSUME NEW n \in Nat, NEW len \in Nat, NEW low, NEW high,
         low = (8 * n) % WordLimit,
         high = ((8 * n) \div WordLimit) % WordLimit
  PROVE  LET l == (low + 8 * len) % WordLimit
             carry == IF l < low THEN 1 ELSE 0
         IN  /\ l = (8 * (n + len)) % WordLimit
             /\ (high + carry + (8 * len) \div WordLimit) % WordLimit
                  = ((8 * (n + len)) \div WordLimit) % WordLimit
<1> DEFINE W == WordLimit
           x == 8 * n
           y == 8 * len
           q == x \div W
           s == y \div W
           v == y % W
           l == (low + y) % W
           carry == IF l < low THEN 1 ELSE 0
<1>1. W \in Nat /\ W > 0
  BY WordLimitPositive
<1>2. x \in Nat /\ y \in Nat /\ 8 * (n + len) = x + y
  OBVIOUS
<1> HIDE DEF W, x, y
<1>3. q \in Nat /\ low \in 0 .. W - 1 /\ x = W * q + low
  BY <1>1, <1>2, Divided DEF W, x
<1>4. s \in Nat /\ v \in 0 .. W - 1 /\ y = W * s + v
  BY <1>1, <1>2, Divided
<1>5. l = (x + y) % W
  BY <1>1, <1>2, RestOfSum DEF W, x
<1>6. high = q % W
  BY DEF W, x
<1> HIDE DEF q, s, v
<1>7. carry \in {0, 1} /\ l = low + v - W * carry /\ l \in 0 .. W - 1
  <2>1. low + y = W * s + (low + v)
    <3> DEFINE t == W * s
    <3>1. t \in Nat /\ y = t + v
      BY <1>1, <1>4
    <3> HIDE DEF t
    <3>2. low + y = t + (low + v)
      BY <1>3, <1>4, <3>1
    <3> QED
      BY <3>2 DEF t
  <2>2. CASE low + v < W
    <3>1. low + v \in 0 .. W - 1 /\ low + y \in Nat
      BY <1>1, <1>2, <1>3, <1>4, <2>2
    <3>2. l = low + v
      <4> DEFINE t == low + y
                 u == low + v
      <4>1. u \in 0 .. W - 1 /\ t = W * s + u
        BY <2>1, <3>1
      <4> HIDE DEF t, u
      <4>2. t % W = u
        BY <1>1, <1>4, <4>1, Quotient
      <4> QED
        BY <4>2 DEF t, u
    <3> QED
      BY <1>1, <1>3, <1>4, <3>1, <3>2
  <2>3. CASE low + v >= W
    <3>1. low + v - W \in 0 .. W - 1
      BY <1>1, <1>3, <1>4, <2>3
    <3>2. low + y = W * (s + 1) + (low + v - W)
      <4> DEFINE t == W * s
      <4>1. W * (s + 1) = t + W /\ t \in Nat
        BY <1>1, <1>4
      <4>2. low + y = t + (low + v)
        BY <2>1
      <4> HIDE DEF t
      <4> QED
        BY <1>1, <1>3, <1>4, <4>1, <4>2
    <3>3. s + 1 \in Nat
      BY <1>4
    <3>4. l = low + v - W
      BY <1>1, <3>1, <3>2, <3>3, Quotient
    <3> QED
      BY <1>1, <1>3, <1>4, <3>1, <3>4
  <2> QED
    BY <1>1, <1>3, <1>4, <2>2, <2>3
<1>8. (x + y) \div W = q + s + carry
  <2> HIDE DEF l, carry
  <2> DEFINE a == W * q
             b == W * s
             c == W * carry
             k == q + s + carry
  <2>1. /\ a \in Nat /\ b \in Nat /\ c \in Nat /\ k \in Nat
        /\ x = a + low /\ y = b + v /\ l = low + v - c
    BY <1>1, <1>3, <1>4, <1>7
  <2>2. W * k = a + b + c
    <3>1. CASE carry = 0
      BY <1>1, <1>3, <1>4, <3>1
    <3>2. CASE carry = 1
      BY <1>1, <1>3, <1>4, <3>2
    <3> QED
      BY <1>7, <3>1, <3>2
  <2>3. x + y = (a + b + c) + l
    <3> HIDE DEF a, b, c, k
    <3> QED
      BY <1>3, <1>4, <1>7, <2>1
  <2> HIDE DEF a, b, c
  <2>4. x + y = W * k + l
    BY <2>2, <2>3
  <2> HIDE DEF k
  <2>5. (x + y) \div W = k
    <3> DEFINE t == x + y
    <3>1. t = W * k + l
      BY <2>4
    <3> HIDE DEF t
    <3>2. t \div W = k
      BY <1>1, <1>7, <2>1, <3>1, Quotient
    <3> QED
      BY <3>2 DEF t
  <2> QED
    BY <2>5 DEF k
<1>9. (high + carry + s) % W = (q + s + carry) % W
  <2> HIDE DEF l, carry
  <2>1. carry + s \in Nat
    BY <1>4, <1>7
  <2>2. ((q % W) + (carry + s)) % W = (q + (carry + s)) % W
    BY <1>1, <1>3, <2>1, RestOfSum
  <2>3. q % W \in Nat
    BY <1>1, <1>3, Divided
  <2>4. high + carry + s = (q % W) + (carry + s) /\ q + s + carry = q + (carry + s)
    BY <1>3, <1>4, <1>6, <1>7, <2>3
  <2> QED
    BY <2>2, <2>4
<1> QED
  BY <1>2, <1>5, <1>8, <1>9 DEF W, y, s

-----------------------------------------------------------------------------
(* The length at the end of the last block.                                *)

(* A byte of the low word is that of the number.                           *)
LEMMA LowByte ==
  ASSUME NEW x \in Nat, NEW i \in 1 .. WordSize
  PROVE  ((x % WordLimit) \div Power[i - 1]) % 256 = (x \div Power[i - 1]) % 256
<1> DEFINE a == Power[i - 1]
           c == Power[WordSize - i]
<1>1. /\ i - 1 \in 0 .. LengthSize /\ WordSize - i \in 0 .. LengthSize
      /\ WordSize - i + 1 \in 0 .. LengthSize /\ WordSize - i + 1 # 0
      /\ (WordSize - i + 1) - 1 = WordSize - i
      /\ WordSize - i + 1 \in 0 .. LengthSize - (i - 1)
      /\ (i - 1) + (WordSize - i + 1) = WordSize
  BY Sizes
<1>2. a \in Nat /\ a > 0 /\ c \in Nat /\ c > 0
  BY <1>1, PowerPositive
<1>3. Power[WordSize - i + 1] = 256 * c
  BY <1>1, PowerIs
<1>4. WordLimit = a * (256 * c)
  BY <1>1, <1>3, PowerOfSum DEF WordLimit
<1> HIDE DEF a, c
<1> DEFINE b == 256 * c
           y == x \div a
<1>5. b \in Nat /\ b > 0 /\ WordLimit = a * b
  BY <1>2, <1>4
<1>6. y \in Nat
  BY <1>2, Divided
<1>7. (y % b) % 256 = y % 256
  <2> HIDE DEF y
  <2>1. \A m \in Nat : m > 0 => (y % (m * c)) % m = y % m
    BY <1>2, <1>6, RestOfRest
  <2> QED
    BY <2>1
<1> HIDE DEF b
<1>8. (x % (a * b)) \div a = y % b
  BY <1>2, <1>5, QuotientOfQuotient
<1> QED
  BY <1>5, <1>7, <1>8 DEF a

LEMMA ByteOf ==
  ASSUME NEW x \in Nat, NEW k \in 0 .. LengthSize
  PROVE  (x \div Power[k]) % 256 \in Bytes
<1>1. Power[k] \in Nat /\ Power[k] > 0
  BY PowerPositive
<1>2. x \div Power[k] \in Nat
  BY <1>1, Divided
<1> QED
  BY <1>2 DEF Bytes

LEMMA LsbFirstType ==
  ASSUME NEW x \in Nat
  PROVE  LsbFirst(x) \in Seq(Bytes) /\ Len(LsbFirst(x)) = WordSize
<1>1. \A i \in 1 .. WordSize : (x \div Power[i - 1]) % 256 \in Bytes
  BY ByteOf, Sizes
<1>2. LsbFirst(x) \in [1 .. WordSize -> Bytes]
  BY <1>1 DEF LsbFirst
<1> QED
  BY <1>2, Sizes, SeqDef

(* All bytes of a number that two words hold.                              *)
LengthBytes(x) == [i \in 1 .. LengthSize |-> (x \div Power[i - 1]) % 256]

LEMMA LengthBytesType ==
  ASSUME NEW x \in Nat
  PROVE  LengthBytes(x) \in Seq(Bytes) /\ Len(LengthBytes(x)) = LengthSize
<1>1. \A i \in 1 .. LengthSize : (x \div Power[i - 1]) % 256 \in Bytes
  BY ByteOf, Sizes
<1>2. LengthBytes(x) \in [1 .. LengthSize -> Bytes]
  BY <1>1 DEF LengthBytes
<1> QED
  BY <1>2, Sizes, SeqDef

(* The two words of a number, low byte first, are its bytes: what          *)
(* overflows both is lost.                                                 *)
LEMMA WordsRight ==
  ASSUME NEW x \in Nat
  PROVE  LsbFirst(x % WordLimit) \o LsbFirst((x \div WordLimit) % WordLimit)
           = LengthBytes(x)
<1> DEFINE W == WordLimit
           lo == x % W
           hi == (x \div W) % W
           s == LsbFirst(lo)
           t == LsbFirst(hi)
<1>1. W \in Nat /\ W > 0
  BY WordLimitPositive
<1>2. lo \in Nat /\ x \div W \in Nat
  BY <1>1, Divided
<1>3. hi \in Nat
  BY <1>1, <1>2, Divided
<1>4. s \in Seq(Bytes) /\ Len(s) = WordSize /\ t \in Seq(Bytes) /\ Len(t) = WordSize
  BY <1>2, <1>3, LsbFirstType
<1>5. /\ s \o t \in Seq(Bytes)
      /\ Len(s \o t) = LengthSize
      /\ \A i \in 1 .. LengthSize :
           (s \o t)[i] = IF i <= WordSize THEN s[i] ELSE t[i - WordSize]
  <2> HIDE DEF s, t
  <2> QED
    BY <1>4, Sizes, ConcatProperties
<1>6. ASSUME NEW i \in 1 .. LengthSize
      PROVE  (s \o t)[i] = (x \div Power[i - 1]) % 256
  <2>1. CASE i <= WordSize
    <3>1. i \in 1 .. WordSize
      BY <2>1
    <3>2. s[i] = (lo \div Power[i - 1]) % 256
      BY <3>1 DEF LsbFirst
    <3> HIDE DEF s, t
    <3>3. (s \o t)[i] = s[i]
      BY <1>5, <2>1
    <3> QED
      BY <3>1, <3>2, <3>3, LowByte
  <2>2. CASE i > WordSize
    <3> DEFINE j == i - WordSize
               p == Power[j - 1]
    <3>1. /\ j \in 1 .. WordSize /\ j - 1 \in 0 .. LengthSize
          /\ j - 1 \in 0 .. LengthSize - WordSize /\ WordSize \in 0 .. LengthSize
          /\ WordSize + (j - 1) = i - 1
      BY <2>2, Sizes
    <3>2. t[j] = (hi \div p) % 256
      BY <3>1 DEF LsbFirst
    <3>3. (hi \div p) % 256 = ((x \div W) \div p) % 256
      BY <1>2, <3>1, LowByte
    <3>4. p \in Nat /\ p > 0
      BY <3>1, PowerPositive
    <3>5. (x \div W) \div p = x \div (W * p)
      BY <1>1, <3>4, QuotientOfQuotient
    <3>6. W * p = Power[i - 1]
      BY <3>1, PowerOfSum DEF WordLimit
    <3> HIDE DEF s, t
    <3>7. (s \o t)[i] = t[j]
      BY <1>5, <2>2, Sizes
    <3> QED
      BY <3>2, <3>3, <3>5, <3>6, <3>7
  <2>3. i <= WordSize \/ i > WordSize
    BY Sizes
  <2> QED
    BY <2>1, <2>2, <2>3
<1>7. LengthBytes(x) \in Seq(Bytes) /\ Len(LengthBytes(x)) = LengthSize
  BY LengthBytesType
<1>8. \A i \in 1 .. LengthSize : (s \o t)[i] = LengthBytes(x)[i]
  BY <1>6 DEF LengthBytes
<1> HIDE DEF s, t
<1>9. s \o t = LengthBytes(x)
  BY <1>5, <1>7, <1>8, SeqEqual
<1> QED
  BY <1>9 DEF s, t, lo, hi

-----------------------------------------------------------------------------
(* Copying into a block.                                                   *)

Block == [1 .. BlockSize -> Bytes]

LEMMA BlockIsSeq ==
  ASSUME NEW b \in Block
  PROVE  b \in Seq(Bytes) /\ Len(b) = BlockSize /\ SubSeq(b, 1, BlockSize) = b
<1>1. b \in Seq(Bytes) /\ Len(b) = BlockSize
  BY Sizes, SeqDef DEF Block
<1> QED
  BY <1>1, SubSeqFull

LEMMA ZeroBytesType ==
  ASSUME NEW n \in Nat
  PROVE  ZeroBytes(n) \in Seq(Bytes) /\ Len(ZeroBytes(n)) = n
<1>1. ZeroBytes(n) \in [1 .. n -> Bytes]
  BY DEF ZeroBytes, Bytes
<1> QED
  BY <1>1, SeqDef

LEMMA ZeroBytesAdd ==
  ASSUME NEW m \in Nat, NEW n \in Nat
  PROVE  ZeroBytes(m) \o ZeroBytes(n) = ZeroBytes(m + n)
<1> DEFINE s == ZeroBytes(m)
           t == ZeroBytes(n)
           u == ZeroBytes(m + n)
<1>1. /\ s \in Seq(Bytes) /\ Len(s) = m
      /\ t \in Seq(Bytes) /\ Len(t) = n
      /\ u \in Seq(Bytes) /\ Len(u) = m + n
  BY ZeroBytesType
<1>2. /\ \A i \in 1 .. m : s[i] = 0
      /\ \A i \in 1 .. n : t[i] = 0
      /\ \A i \in 1 .. m + n : u[i] = 0
  BY DEF ZeroBytes
<1> HIDE DEF s, t, u
<1>3. /\ s \o t \in Seq(Bytes) /\ Len(s \o t) = m + n
      /\ \A i \in 1 .. m + n : (s \o t)[i] = IF i <= m THEN s[i] ELSE t[i - m]
  BY <1>1, ConcatProperties
<1>4. \A i \in 1 .. m + n : (s \o t)[i] = u[i]
  BY <1>2, <1>3
<1>5. s \o t = u
  BY <1>1, <1>3, <1>4, SeqEqual
<1> QED
  BY <1>5 DEF s, t, u

LEMMA PutType ==
  ASSUME NEW in \in Block, NEW at \in Nat, NEW bytes \in Seq(Bytes)
  PROVE  Put(in, at, bytes) \in Block
<1>1. \A i \in 1 .. BlockSize : i - at \in DOMAIN bytes => bytes[i - at] \in Bytes
  OBVIOUS
<1> QED
  BY <1>1 DEF Put, Block

(* A block up to the end of what was put into it.                          *)
LEMMA PutPrefix ==
  ASSUME NEW in \in Block, NEW at \in Nat, NEW bytes \in Seq(Bytes),
         at + Len(bytes) <= BlockSize
  PROVE  SubSeq(Put(in, at, bytes), 1, at + Len(bytes)) = SubSeq(in, 1, at) \o bytes
<1> DEFINE b == Put(in, at, bytes)
           n == at + Len(bytes)
           s == SubSeq(b, 1, n)
           t == SubSeq(in, 1, at)
<1>1. b \in Block /\ Len(bytes) \in Nat /\ DOMAIN bytes = 1 .. Len(bytes)
  BY PutType
<1>2. \A i \in 1 .. n : b[i] = IF i <= at THEN in[i] ELSE bytes[i - at]
  BY <1>1, Sizes DEF Put
<1> HIDE DEF b
<1>3. \A i \in 1 .. n : b[i] \in Bytes /\ (i <= at => in[i] \in Bytes)
  BY <1>1, Sizes DEF Block
<1>4. /\ s \in Seq(Bytes) /\ Len(s) = n
      /\ \A i \in 1 .. n : s[i] = b[i]
  BY <1>1, <1>3, SubSeqProperties
<1>5. /\ t \in Seq(Bytes) /\ Len(t) = at
      /\ \A i \in 1 .. at : t[i] = in[i]
  BY <1>1, <1>3, SubSeqProperties
<1> HIDE DEF s, t
<1>6. /\ t \o bytes \in Seq(Bytes) /\ Len(t \o bytes) = n
      /\ \A i \in 1 .. n : (t \o bytes)[i] = IF i <= at THEN t[i] ELSE bytes[i - at]
  BY <1>1, <1>5, ConcatProperties
<1>7. \A i \in 1 .. n : s[i] = (t \o bytes)[i]
  <2> TAKE i \in 1 .. n
  <2>1. i <= at => i \in 1 .. at
    BY <1>1
  <2> QED
    BY <1>2, <1>4, <1>5, <1>6, <2>1
<1>8. s = t \o bytes
  BY <1>4, <1>6, <1>7, SeqEqual
<1> QED
  BY <1>8 DEF s, t, b

LEMMA PrefixType ==
  ASSUME NEW b \in Block, NEW n \in 0 .. BlockSize
  PROVE  SubSeq(b, 1, n) \in Seq(Bytes) /\ Len(SubSeq(b, 1, n)) = n
<1>1. \A i \in 1 .. n : b[i] \in Bytes
  BY Sizes DEF Block
<1> QED
  BY <1>1, Sizes, SubSeqProperties

(* What a piece is cut into: buf is what the three parts are in a row.     *)
LEMMA CutType ==
  ASSUME NEW buf \in Seq(Bytes), NEW m \in Nat, NEW n \in Nat, m <= n, n <= Len(buf)
  PROVE  SubSeq(buf, m + 1, n) \in Seq(Bytes) /\ Len(SubSeq(buf, m + 1, n)) = n - m
<1>1. \A i \in m + 1 .. n : buf[i] \in Bytes
  OBVIOUS
<1> QED
  BY <1>1, SubSeqProperties

LEMMA CutTwice ==
  ASSUME NEW buf \in Seq(Bytes), NEW m \in Nat, NEW n \in Nat, m <= n, n <= Len(buf)
  PROVE  SubSeq(buf, 1, m) \o (SubSeq(buf, m + 1, n) \o SubSeq(buf, n + 1, Len(buf))) = buf
<1> DEFINE l == Len(buf)
<1>0. /\ l \in Nat /\ n \in (m + 1) - 1 .. l /\ l \in n .. l /\ m + 1 \in 1 .. l + 1
      /\ 1 \in 1 .. l + 1 /\ m \in 1 - 1 .. l /\ l \in m .. l
  OBVIOUS
<1>1. SubSeq(buf, m + 1, n) \o SubSeq(buf, n + 1, l) = SubSeq(buf, m + 1, l)
  BY <1>0, ConcatAdjacentSubSeq, Zenon
<1>2. SubSeq(buf, 1, m) \o SubSeq(buf, m + 1, l) = SubSeq(buf, 1, l)
  BY <1>0, ConcatAdjacentSubSeq, Zenon
<1> QED
  BY <1>1, <1>2, SubSeqFull

-----------------------------------------------------------------------------
(* The invariant.                                                          *)

(* The words of the count are the length in bits, and what was digested,   *)
(* with what waits, is the text.                                           *)
Md5Inv ==
  /\ message \in Seq(Bytes) /\ fed \in Seq(Bytes)
  /\ ctx \in [low : Nat, high : Nat, in : Block]
  /\ final \in BOOLEAN
  /\ IF final THEN fed = Padded(message)
     ELSE /\ ctx.low = (8 * Len(message)) % WordLimit
          /\ ctx.high = ((8 * Len(message)) \div WordLimit) % WordLimit
          /\ fed \o SubSeq(ctx.in, 1, Len(message) % BlockSize) = message

LEMMA Md5InvInit == MD5Init => Md5Inv
<1> SUFFICES ASSUME MD5Init PROVE Md5Inv
  OBVIOUS
<1>1. ctx.low = 0 /\ ctx.high = 0 /\ ctx.in = ZeroBytes(BlockSize)
  BY DEF MD5Init
<1>2. ctx \in [low : Nat, high : Nat, in : Block] /\ ctx.in \in Block
  <2>1. ZeroBytes(BlockSize) \in Block
    BY DEF ZeroBytes, Block, Bytes
  <2> QED
    BY <2>1 DEF MD5Init
<1>3. message = <<>> /\ fed = <<>> /\ final = FALSE
  BY DEF MD5Init
<1>4. 0 = WordLimit * 0 + 0 /\ 0 = BlockSize * 0 + 0
  BY WordLimitPositive, Sizes
<1>5. 0 \div WordLimit = 0 /\ 0 % WordLimit = 0 /\ 0 % BlockSize = 0
  <2>1. \A d \in Nat : d > 0 /\ 0 = d * 0 + 0 => 0 \div d = 0 /\ 0 % d = 0
    BY Quotient
  <2> QED
    BY <1>4, <2>1, WordLimitPositive, Sizes
<1>6. Len(message) = 0 /\ 8 * 0 = 0
  BY <1>3
<1>7. fed \o SubSeq(ctx.in, 1, 0) = message
  <2>1. SubSeq(ctx.in, 1, 0) = <<>>
    BY SubSeqEmpty
  <2> QED
    BY <1>3, <2>1, ConcatEmptySeq, EmptySeq
<1> QED
  BY <1>1, <1>2, <1>3, <1>5, <1>6, <1>7, EmptySeq DEF Md5Inv

-----------------------------------------------------------------------------
(* A piece.                                                                *)

(* The count goes on.                                                      *)
LEMMA CountGoesOn ==
  ASSUME Md5Inv, ~final, NEW len \in Nat
  PROVE  LET c == Counted(ctx, len)
         IN  /\ c \in [low : Nat, high : Nat, in : Block] /\ c.in = ctx.in
             /\ c.low = (8 * (Len(message) + len)) % WordLimit
             /\ c.high = ((8 * (Len(message) + len)) \div WordLimit) % WordLimit
<1> DEFINE l == (ctx.low + 8 * len) % WordLimit
           carry == IF l < ctx.low THEN 1 ELSE 0
           h == (ctx.high + carry + (8 * len) \div WordLimit) % WordLimit
           n == Len(message)
<1>1. /\ ctx \in [low : Nat, high : Nat, in : Block] /\ n \in Nat
      /\ ctx.low = (8 * n) % WordLimit
      /\ ctx.high = ((8 * n) \div WordLimit) % WordLimit
  BY DEF Md5Inv
<1>2. Counted(ctx, len) = [ctx EXCEPT !.low = l, !.high = h]
  BY DEF Counted
<1>3. /\ l = (8 * (n + len)) % WordLimit
      /\ h = ((8 * (n + len)) \div WordLimit) % WordLimit
  BY <1>1, CountedRight
<1>4. l \in Nat /\ h \in Nat
  <2>1. 8 * (n + len) \in Nat
    BY <1>1
  <2>2. (8 * (n + len)) \div WordLimit \in Nat
    BY <2>1, WordLimitPositive, Divided
  <2> QED
    BY <1>3, <2>1, <2>2, WordLimitPositive, Divided
<1> HIDE DEF l, h
<1> QED
  BY <1>1, <1>2, <1>3, <1>4

(* How much waits after a piece that does not fill the block ...           *)
LEMMA ShortRemainder ==
  ASSUME NEW b \in Nat, b > 0, NEW q \in Nat, NEW t \in Nat, NEW l \in Nat, t + l < b,
         NEW n \in Nat, n = b * q + t
  PROVE  (n + l) % b = t + l
<1> DEFINE y == n + l
           u == t + l
           c == b * q
<1>1. c \in Nat /\ n = c + t
  OBVIOUS
<1> HIDE DEF c
<1>2. u \in 0 .. b - 1 /\ y = c + u
  BY <1>1
<1> HIDE DEF y, u
<1>3. y = b * q + u
  BY <1>2 DEF c
<1>4. y % b = u
  <2>1. u \in 0 .. b - 1
    BY ONLY <1>2
  <2> QED
    BY ONLY b \in Nat, b > 0, q \in Nat, <1>3, <2>1, Quotient
<1> QED
  BY <1>4 DEF y, u

LEMMA ShortRest ==
  ASSUME NEW n \in Nat, NEW l \in Nat, (n % BlockSize) + l < BlockSize
  PROVE  (n + l) % BlockSize = (n % BlockSize) + l
<1> DEFINE q == n \div BlockSize
           t == n % BlockSize
<1>1. BlockSize \in Nat /\ BlockSize > 0
  BY Sizes
<1>2. q \in Nat /\ t \in Nat /\ n = BlockSize * q + t
  BY <1>1, Divided
<1>3. t + l < BlockSize
  OBVIOUS
<1> HIDE DEF q, t
<1>4. (n + l) % BlockSize = t + l
  BY <1>1, <1>2, <1>3, ShortRemainder
<1> QED
  BY <1>4 DEF t

(* ... and after one that fills it, and perhaps others.                    *)
LEMMA LongRest ==
  ASSUME NEW n \in Nat, NEW l \in Nat, NEW lead,
         lead = IF n % BlockSize = 0 THEN 0 ELSE BlockSize - (n % BlockSize), l >= lead
  PROVE  LET end == lead + BlockSize * ((l - lead) \div BlockSize)
         IN  /\ lead \in Nat /\ end \in Nat /\ lead <= end /\ end <= l
             /\ l - end \in 0 .. BlockSize - 1
             /\ end > lead => end - BlockSize >= lead
             /\ l - end = (n + l) % BlockSize
<1> DEFINE B == BlockSize
           q == n \div B
           t == n % B
           d == l - lead
           u == d \div B
           r == d % B
           end == lead + B * u
<1>1. B \in Nat /\ B > 0
  BY Sizes
<1>2. /\ q \in Nat /\ t \in 0 .. B - 1 /\ n = B * q + t
      /\ (t = 0 => lead = 0) /\ (t # 0 => lead = B - t)
  BY <1>1, Divided
<1>3. lead \in Nat /\ d \in Nat
  BY <1>1, <1>2
<1>4. u \in Nat /\ r \in 0 .. B - 1 /\ d = B * u + r
  <2> HIDE DEF d
  <2> QED
    BY <1>1, <1>3, Divided
<1>5. end = lead + B * u
  OBVIOUS
<1>6. l - lead = B * u + r
  BY <1>4
<1>6a. n \in Nat /\ l \in Nat
  OBVIOUS
<1> HIDE DEF q, t, r, u, end, B
<1> DEFINE bq == B * q
           bu == B * u
           x == n + l
<1>7. /\ bq \in Nat /\ bu \in Nat /\ n = bq + t /\ l - lead = bu + r /\ end = lead + bu
      /\ u > 0 => bu >= B
      /\ u = 0 => bu = 0
  BY <1>1, <1>2, <1>4, <1>5, <1>6
<1>8. B * (q + u) = bq + bu /\ B * (q + u + 1) = bq + bu + B
  BY <1>1, <1>2, <1>4
<1> HIDE DEF bq, bu
<1>9. /\ end \in Nat /\ lead <= end /\ end <= l /\ l - end \in 0 .. B - 1 /\ l - end = r
      /\ end > lead => end - B >= lead
  BY <1>1, <1>3, <1>4, <1>6a, <1>7
<1>10. \A k \in Nat : x = B * k + r => x % B = r
  <2> HIDE DEF x
  <2> SUFFICES ASSUME NEW k \in Nat, x = B * k + r PROVE x % B = r
    OBVIOUS
  <2>1. B \in Nat
    BY ONLY <1>1
  <2>2. B > 0
    BY ONLY <1>1
  <2>3. r \in 0 .. B - 1
    BY ONLY <1>4
  <2> QED
    BY ONLY <2>1, <2>2, <2>3, k \in Nat, x = B * k + r, Quotient
<1>11. x % B = r
  <2>1. CASE t = 0
    <3> DEFINE k == q + u
    <3>1. x = bq + bu + r
      BY <1>1, <1>2, <1>3, <1>4, <1>6a, <1>7, <2>1
    <3> HIDE DEF x
    <3>2. k \in Nat /\ x = B * k + r
      BY <1>2, <1>4, <1>8, <3>1
    <3> HIDE DEF k
    <3> QED
      BY ONLY <1>10, <3>2
  <2>2. CASE t # 0
    <3> DEFINE k == q + u + 1
    <3>1. x = bq + bu + B + r
      BY <1>1, <1>2, <1>3, <1>4, <1>6a, <1>7, <2>2
    <3> HIDE DEF x
    <3>2. k \in Nat /\ x = B * k + r
      BY <1>2, <1>4, <1>8, <3>1
    <3> HIDE DEF k
    <3> QED
      BY ONLY <1>10, <3>2
  <2> QED
    BY <2>1, <2>2
<1> QED
  BY <1>3, <1>9, <1>11 DEF end, u, B

Join(s, t) == s \o t

LEMMA JoinType ==
  ASSUME NEW s \in Seq(Bytes), NEW t \in Seq(Bytes)
  PROVE  Join(s, t) \in Seq(Bytes)
  BY ConcatProperties DEF Join

(* The order in which pieces are joined does not matter.                   *)
LEMMA JoinAssociative ==
  ASSUME NEW s \in Seq(Bytes), NEW t \in Seq(Bytes), NEW u \in Seq(Bytes)
  PROVE  Join(Join(s, t), u) = Join(s, Join(t, u))
<1>1. \A S : \A x, y, z \in Seq(S) : Join(Join(x, y), z) = Join(x, Join(y, z))
  BY ConcatAssociative, Zenon DEF Join
<1> QED
  BY ONLY <1>1, s \in Seq(Bytes), t \in Seq(Bytes), u \in Seq(Bytes)

(* The text goes on: a piece that is too short to fill the block ...       *)
LEMMA ShortPiece ==
  ASSUME NEW f \in Seq(Bytes), NEW in \in Block, NEW t \in Nat,
         NEW buf \in Seq(Bytes), t + Len(buf) < BlockSize
  PROVE  f \o SubSeq(Put(in, t, buf), 1, t + Len(buf)) = (f \o SubSeq(in, 1, t)) \o buf
<1> DEFINE s == SubSeq(in, 1, t)
<1>1. t \in 0 .. BlockSize /\ t + Len(buf) <= BlockSize
  BY Sizes
<1>2. s \in Seq(Bytes)
  BY <1>1, PrefixType
<1>3. SubSeq(Put(in, t, buf), 1, t + Len(buf)) = s \o buf
  BY <1>1, PutPrefix
<1> HIDE DEF s
<1>4. Join(f, Join(s, buf)) = Join(Join(f, s), buf)
  BY <1>2, JoinAssociative
<1> QED
  BY <1>3, <1>4 DEF s, Join

(* ... and one that fills it, and perhaps others.                          *)

BlocksOf(in, t, buf, lead, end) ==
  (IF t = 0 THEN <<>> ELSE Put(in, t, SubSeq(buf, 1, lead))) \o SubSeq(buf, lead + 1, end)

(* The whole blocks of a piece and what is left of it follow each other in *)
(* the text.                                                               *)
PieceJoined(f, in, t, last, buf, lead, end) ==
  /\ BlocksOf(in, t, buf, lead, end) \in Seq(Bytes)
  /\ Join(Join(f, BlocksOf(in, t, buf, lead, end)),
          SubSeq(Put(last, 0, SubSeq(buf, end + 1, Len(buf))), 1, Len(buf) - end))
       = Join(Join(f, SubSeq(in, 1, t)), buf)

LEMMA LongPiece ==
  ASSUME NEW f \in Seq(Bytes), NEW in \in Block, NEW t \in Nat, NEW last \in Block,
         NEW buf \in Seq(Bytes), NEW lead \in Nat, NEW end \in Nat,
         lead <= end, end <= Len(buf), Len(buf) - end <= BlockSize,
         IF t = 0 THEN lead = 0 ELSE t + lead = BlockSize
  PROVE  PieceJoined(f, in, t, last, buf, lead, end)
<1> DEFINE s == SubSeq(in, 1, t)
           l == Len(buf)
           b1 == SubSeq(buf, 1, lead)
           b2 == SubSeq(buf, lead + 1, end)
           b3 == SubSeq(buf, end + 1, l)
           filled == Put(in, t, b1)
           first == IF t = 0 THEN <<>> ELSE filled
           wait == SubSeq(Put(last, 0, b3), 1, l - end)
<1>1. /\ b1 \in Seq(Bytes) /\ Len(b1) = lead
      /\ b2 \in Seq(Bytes)
      /\ b3 \in Seq(Bytes) /\ Len(b3) = l - end
  <2>1. l \in Nat /\ 0 \in Nat /\ 0 <= lead /\ lead <= l /\ 0 + 1 = 1 /\ lead - 0 = lead /\ l <= l
    OBVIOUS
  <2>2. SubSeq(buf, 0 + 1, lead) \in Seq(Bytes) /\ Len(SubSeq(buf, 0 + 1, lead)) = lead - 0
    BY <2>1, CutType, Zenon
  <2>3. b2 \in Seq(Bytes)
    BY CutType
  <2>4. b3 \in Seq(Bytes) /\ Len(b3) = l - end
    BY <2>1, CutType
  <2> QED
    BY <2>1, <2>2, <2>3, <2>4
<1>2. b1 \o (b2 \o b3) = buf
  BY <1>1, CutTwice
<1>3. t \in 0 .. BlockSize
  BY Sizes
<1>4. s \in Seq(Bytes) /\ Len(s) = t
  BY <1>3, PrefixType
<1>5. first = s \o b1
  <2>1. CASE t = 0
    <3>1. s = <<>> /\ b1 = <<>>
      BY <1>1, <1>4, <2>1, EmptySeq
    <3> QED
      BY <2>1, <3>1, ConcatEmptySeq, EmptySeq
  <2>2. CASE t # 0
    <3>1. t + Len(b1) = BlockSize /\ t + Len(b1) <= BlockSize
      BY <1>1, <2>2, Sizes
    <3> HIDE DEF b1
    <3>2. SubSeq(Put(in, t, b1), 1, t + Len(b1)) = s \o b1
      BY <1>1, <3>1, PutPrefix, Zenon
    <3>3. SubSeq(filled, 1, BlockSize) = filled
      BY <1>1, PutType, BlockIsSeq
    <3> QED
      BY <2>2, <3>1, <3>2, <3>3
  <2> QED
    BY <2>1, <2>2
<1>6. wait = b3
  <2> DEFINE none == SubSeq(last, 1, 0)
  <2> HIDE DEF b3
  <2>1. 0 \in Nat /\ Len(b3) \in Nat /\ 0 + Len(b3) = l - end /\ 0 + Len(b3) <= BlockSize
    BY <1>1
  <2>2. SubSeq(Put(last, 0, b3), 1, 0 + Len(b3)) = none \o b3
    BY <1>1, <2>1, PutPrefix, Zenon
  <2>3. none = <<>>
    BY SubSeqEmpty
  <2> QED
    BY <1>1, <2>1, <2>2, <2>3, ConcatEmptySeq
<1> HIDE DEF s, b1, b2, b3, first, wait
<1> DEFINE fb == Join(first, b2)
           bb == Join(b2, b3)
<1>7. first \in Seq(Bytes)
  BY <1>1, <1>4, <1>5, ConcatProperties
<1>8. fb \in Seq(Bytes) /\ bb \in Seq(Bytes)
  BY <1>1, <1>7, JoinType
<1> HIDE DEF fb, bb
<1>9. Join(Join(f, fb), b3) = Join(f, Join(fb, b3))
  <2>1. f \in Seq(Bytes) /\ b3 \in Seq(Bytes)
    BY <1>1
  <2> QED
    BY ONLY <1>8, <2>1, JoinAssociative
<1>10. Join(fb, b3) = Join(first, bb)
  <2>1. b2 \in Seq(Bytes) /\ b3 \in Seq(Bytes) /\ fb = Join(first, b2) /\ bb = Join(b2, b3)
    BY ONLY <1>1 DEF fb, bb
  <2> QED
    BY ONLY <1>7, <2>1, JoinAssociative
<1>11. Join(first, bb) = Join(s, buf)
  <2>1. b1 \in Seq(Bytes) /\ first = Join(s, b1) /\ buf = Join(b1, bb)
    BY ONLY <1>1, <1>2, <1>5 DEF bb, Join
  <2> QED
    BY ONLY <1>4, <1>8, <2>1, JoinAssociative
<1>12. Join(Join(f, s), buf) = Join(f, Join(s, buf))
  <2>1. f \in Seq(Bytes) /\ buf \in Seq(Bytes)
    OBVIOUS
  <2> QED
    BY ONLY <1>4, <2>1, JoinAssociative
<1>13. fb \in Seq(Bytes) /\ Join(Join(f, fb), wait) = Join(Join(f, s), buf)
  BY ONLY <1>6, <1>8, <1>9, <1>10, <1>11, <1>12
<1> QED
  BY ONLY <1>13 DEF PieceJoined, Join, BlocksOf, s, fb, first, b1, b2, b3, wait

LEMMA UpdateKeeps ==
  ASSUME Md5Inv, NEW buf \in Seq(Bytes), MD5Update(buf)
  PROVE  Md5Inv'
<1> DEFINE n == Len(message)
           l == Len(buf)
           t == Waiting(ctx)
           lead == IF t = 0 THEN 0 ELSE BlockSize - t
           end == lead + BlockSize * ((l - lead) \div BlockSize)
           filled == Put(ctx.in, t, SubSeq(buf, 1, lead))
           blocks == BlocksOf(ctx.in, t, buf, lead, end)
           rest == SubSeq(buf, end + 1, l)
           last == IF end > lead THEN SubSeq(buf, end - BlockSize + 1, end)
                   ELSE IF t = 0 THEN ctx.in ELSE filled
           short == t > 0 /\ l < lead
           c == Counted(ctx, l)
<1>1. /\ ~final /\ message' = message \o buf /\ final' = final
      /\ fed' = IF short THEN fed ELSE fed \o blocks
      /\ ctx' = [c EXCEPT !.in = IF short THEN Put(c.in, t, buf) ELSE Put(last, 0, rest)]
  BY Zenon DEF MD5Update, BlocksOf
<1>2. /\ message \in Seq(Bytes) /\ fed \in Seq(Bytes) /\ final = FALSE
      /\ ctx \in [low : Nat, high : Nat, in : Block]
      /\ ctx.low = (8 * n) % WordLimit
      /\ fed \o SubSeq(ctx.in, 1, n % BlockSize) = message
  BY <1>1 DEF Md5Inv
<1>3. n \in Nat /\ l \in Nat /\ ctx.in \in Block /\ BlockSize \in Nat /\ BlockSize > 0
  BY <1>2, Sizes
<1>4. t = n % BlockSize /\ t \in 0 .. BlockSize - 1
  <2>1. t = n % BlockSize
    BY <1>2, <1>3, WaitingIs
  <2> QED
    BY <1>3, <2>1, Divided
<1>5. /\ c \in [low : Nat, high : Nat, in : Block] /\ c.in = ctx.in
      /\ c.low = (8 * (n + l)) % WordLimit
      /\ c.high = ((8 * (n + l)) \div WordLimit) % WordLimit
  BY <1>1, <1>3, CountGoesOn
<1>6. message' \in Seq(Bytes) /\ Len(message') = n + l
  BY <1>1, <1>2, ConcatProperties
<1> DEFINE in == IF short THEN Put(c.in, t, buf) ELSE Put(last, 0, rest)
<1> SUFFICES /\ in \in Block /\ fed' \in Seq(Bytes)
             /\ fed' \o SubSeq(in, 1, (n + l) % BlockSize) = message'
  <2> HIDE DEF in, c, n, l
  <2>1. /\ ctx' \in [low : Nat, high : Nat, in : Block]
        /\ ctx'.low = c.low /\ ctx'.high = c.high /\ ctx'.in = in
    BY <1>1, <1>5 DEF in
  <2>2. Len(message') = n + l /\ final' = FALSE
    BY <1>1, <1>2, <1>6
  <2> QED
    BY <1>5, <1>6, <2>1, <2>2 DEF Md5Inv
<1>7. fed \o SubSeq(ctx.in, 1, t) = message
  BY <1>2, <1>4
<1> HIDE DEF t, c
<1>8. CASE short
  <2>1. t + l < BlockSize /\ (n % BlockSize) + l < BlockSize
    BY <1>3, <1>4, <1>8
  <2>2. (n + l) % BlockSize = t + l
    BY <1>3, <1>4, <2>1, ShortRest
  <2>3. in = Put(ctx.in, t, buf) /\ fed' = fed
    BY <1>1, <1>5, <1>8
  <2>4. fed \o SubSeq(Put(ctx.in, t, buf), 1, t + l) = message \o buf
    <3>1. /\ fed \in Seq(Bytes) /\ ctx.in \in Block
          /\ t \in Nat /\ buf \in Seq(Bytes) /\ t + Len(buf) < BlockSize
      BY <1>2, <1>3, <1>4, <2>1
    <3>2. fed \o SubSeq(Put(ctx.in, t, buf), 1, t + Len(buf))
            = (fed \o SubSeq(ctx.in, 1, t)) \o buf
      BY ONLY <3>1, ShortPiece
    <3> QED
      BY <1>7, <3>2
  <2>5. Put(ctx.in, t, buf) \in Block
    BY <1>3, <1>4, PutType
  <2> QED
    BY <1>1, <1>2, <2>2, <2>3, <2>4, <2>5
<1>9. CASE ~ short
  <2>1. l >= lead
    BY <1>3, <1>4, <1>9
  <2>2. lead = IF n % BlockSize = 0 THEN 0 ELSE BlockSize - (n % BlockSize)
    BY <1>4
  <2> HIDE DEF lead
  <2>3. /\ lead \in Nat /\ end \in Nat /\ lead <= end /\ end <= l
        /\ l - end \in 0 .. BlockSize - 1
        /\ end > lead => end - BlockSize >= lead
        /\ l - end = (n + l) % BlockSize
    BY <1>3, <2>1, <2>2, LongRest
  <2>4. IF t = 0 THEN lead = 0 ELSE t + lead = BlockSize
    BY <1>3, <1>4 DEF lead
  <2> HIDE DEF end
  <2>5. filled \in Block
    <3>1. \A i \in 1 .. lead : buf[i] \in Bytes
      BY <2>3
    <3>2. SubSeq(buf, 1, lead) \in Seq(Bytes)
      BY <2>3, <3>1, SubSeqProperties
    <3> DEFINE b == SubSeq(buf, 1, lead)
    <3>3. b \in Seq(Bytes) /\ t \in Nat
      BY <1>4, <3>2
    <3> HIDE DEF b
    <3>4. Put(ctx.in, t, b) \in Block
      BY <1>3, <3>3, PutType
    <3> QED
      BY <3>4 DEF b
  <2>6. last \in Block
    <3>1. CASE end > lead
      <4> DEFINE b == SubSeq(buf, end - BlockSize + 1, end)
      <4>1. end - BlockSize \in Nat /\ end - BlockSize <= end /\ end <= l
        BY <1>3, <2>3, <3>1
      <4>2. b \in Seq(Bytes) /\ Len(b) = end - (end - BlockSize)
        <5> DEFINE e == end - BlockSize
        <5> HIDE DEF e
        <5>1. SubSeq(buf, e + 1, end) \in Seq(Bytes) /\ Len(SubSeq(buf, e + 1, end)) = end - e
          BY <2>3, <4>1, CutType DEF e
        <5> QED
          BY <5>1 DEF e
      <4>3. Len(b) = BlockSize
        BY <1>3, <2>3, <4>2
      <4> HIDE DEF b
      <4>4. b \in Block
        BY <4>2, <4>3, LenProperties DEF Block
      <4> QED
        BY <3>1, <4>4 DEF b
    <3>2. CASE ~ (end > lead)
      BY <1>3, <2>5, <3>2
    <3> QED
      BY <3>1, <3>2
  <2>7. /\ blocks \in Seq(Bytes)
        /\ (fed \o blocks) \o SubSeq(Put(last, 0, rest), 1, l - end) = message \o buf
    <3> HIDE DEF last
    <3>1. l - end <= BlockSize
      BY <1>3, <2>3
    <3>2. /\ fed \in Seq(Bytes) /\ ctx.in \in Block
          /\ t \in Nat /\ buf \in Seq(Bytes) /\ last \in Block
          /\ lead \in Nat /\ end \in Nat /\ lead <= end /\ end <= Len(buf)
          /\ Len(buf) - end <= BlockSize
      BY <1>2, <1>3, <1>4, <2>3, <2>6, <3>1
    <3>a. PieceJoined(fed, ctx.in, t, last, buf, lead, end)
      BY ONLY <2>4, <3>2, LongPiece
    <3>3. /\ blocks \in Seq(Bytes)
          /\ Join(Join(fed, blocks), SubSeq(Put(last, 0, rest), 1, l - end))
               = Join(Join(fed, SubSeq(ctx.in, 1, t)), buf)
      BY ONLY <3>a DEF PieceJoined
    <3> HIDE DEF blocks, rest
    <3> QED
      BY <1>7, <3>3 DEF Join
  <2>8. Put(last, 0, rest) \in Block
    <3>1. rest \in Seq(Bytes)
      BY <1>3, <2>3, CutType
    <3> HIDE DEF last, rest
    <3> QED
      BY <2>6, <3>1, PutType
  <2> HIDE DEF blocks, last, rest
  <2>9. fed \o blocks \in Seq(Bytes)
    BY <1>2, <2>7, ConcatProperties
  <2>10. in = Put(last, 0, rest) /\ fed' = fed \o blocks
    BY <1>1, <1>9 DEF blocks
  <2> QED
    BY <1>1, <2>3, <2>7, <2>8, <2>9, <2>10
<1> QED
  BY <1>8, <1>9

-----------------------------------------------------------------------------
(* The end.                                                                *)

(* A number is the only one below b that makes a sum a multiple of b.      *)
LEMMA OneRemainder ==
  ASSUME NEW b \in Nat, b > 0, NEW n \in Nat, NEW y \in 0 .. b - 1, NEW z \in 0 .. b - 1,
         (n + y) % b = 0, (n + z) % b = 0
  PROVE  y = z
<1> DEFINE p == (n + y) \div b
           q == (n + z) \div b
<1>1. p \in Nat /\ n + y = b * p
  <2> DEFINE x == n + y
  <2>1. x \in Nat /\ x % b = 0
    OBVIOUS
  <2> HIDE DEF x
  <2>2. x \div b \in Nat /\ x = b * (x \div b) + 0
    BY <2>1, Divided
  <2>3. b * (x \div b) \in Nat
    BY <2>2
  <2> QED
    BY <2>2, <2>3 DEF x
<1>2. q \in Nat /\ n + z = b * q
  <2> DEFINE x == n + z
  <2>1. x \in Nat /\ x % b = 0
    OBVIOUS
  <2> HIDE DEF x
  <2>2. x \div b \in Nat /\ x = b * (x \div b) + 0
    BY <2>1, Divided
  <2>3. b * (x \div b) \in Nat
    BY <2>2
  <2> QED
    BY <2>2, <2>3 DEF x
<1> HIDE DEF p, q
<1>3. b * p - b * q < b /\ b * q - b * p < b
  BY <1>1, <1>2
<1>4. p = q
  <2>1. ASSUME p >= q + 1 PROVE FALSE
    <3>1. b * p >= b * (q + 1)
      BY <1>1, <1>2, <2>1
    <3>2. b * (q + 1) = b * q + b
      BY <1>2
    <3> QED
      BY <1>1, <1>2, <1>3, <3>1, <3>2
  <2>2. ASSUME q >= p + 1 PROVE FALSE
    <3>1. b * q >= b * (p + 1)
      BY <1>1, <1>2, <2>2
    <3>2. b * (p + 1) = b * p + b
      BY <1>1
    <3> QED
      BY <1>1, <1>2, <1>3, <3>1, <3>2
  <2> QED
    BY <1>1, <1>2, <2>1, <2>2
<1> QED
  BY <1>1, <1>2, <1>4

(* How many zeros there are.                                               *)
LEMMA ZerosAre ==
  ASSUME NEW n \in Nat, NEW count, count = n % BlockSize,
         NEW z, z = IF BlockSize - 1 - count < LengthSize
                    THEN 2 * BlockSize - 1 - count - LengthSize
                    ELSE BlockSize - 1 - count - LengthSize
  PROVE  /\ z \in 0 .. BlockSize - 1
         /\ z = CHOOSE y \in 0 .. BlockSize - 1 : (n + 1 + y + LengthSize) % BlockSize = 0
<1> DEFINE B == BlockSize
           q == n \div B
           x == n + 1 + LengthSize
<1>1. B \in Nat /\ B > 0 /\ LengthSize \in Nat /\ B > LengthSize
  BY Sizes
<1>2. q \in Nat /\ count \in 0 .. B - 1 /\ n = B * q + count
  BY <1>1, Divided
<1>3. z = IF B - 1 - count < LengthSize THEN 2 * B - 1 - count - LengthSize
          ELSE B - 1 - count - LengthSize
  OBVIOUS
<1>4. B = BlockSize
  OBVIOUS
<1> HIDE DEF B, q
<1>5. z \in 0 .. B - 1
  BY <1>1, <1>2, <1>3
<1>6. (x + z) % B = 0
  <2> DEFINE bq == B * q
  <2>1. bq \in Nat /\ n = bq + count /\ B * (q + 1) = bq + B /\ B * (q + 2) = bq + 2 * B
    BY <1>1, <1>2
  <2> HIDE DEF bq
  <2>2. x + z = bq + B \/ x + z = bq + 2 * B
    BY <1>1, <1>2, <1>3, <2>1
  <2>3. PICK k \in Nat : x + z = B * k
    BY <1>2, <2>1, <2>2
  <2> DEFINE s == x + z
  <2>4. s = B * k + 0 /\ 0 \in 0 .. B - 1
    BY <1>1, <2>3
  <2> HIDE DEF s
  <2>5. s % B = 0
    BY <1>1, <2>4, Quotient
  <2> QED
    BY <2>5 DEF s
<1>7. \A y \in 0 .. B - 1 : n + 1 + y + LengthSize = x + y
  BY <1>1
<1>8. x \in Nat
  BY <1>1
<1> HIDE DEF x
<1>9. \A y \in 0 .. B - 1 : (x + y) % B = 0 => y = z
  BY <1>1, <1>5, <1>6, <1>8, OneRemainder
<1>10. z = CHOOSE y \in 0 .. B - 1 : (n + 1 + y + LengthSize) % B = 0
  <2> DEFINE P(y) == (n + 1 + y + LengthSize) % B = 0
  <2>1. P(z)
    BY <1>5, <1>6, <1>7
  <2>2. \A y \in 0 .. B - 1 : P(y) => y = z
    BY <1>7, <1>9
  <2> HIDE DEF P
  <2>3. z = CHOOSE y \in 0 .. B - 1 : P(y)
    BY <1>5, <2>1, <2>2
  <2> QED
    BY <2>3 DEF P
<1> QED
  BY <1>4, <1>5, <1>10

PaddedBlocks(in, count, bits) ==
  LET left == BlockSize - 1 - count
      few == IF left < LengthSize THEN left ELSE left - LengthSize
      one == Put(Put(in, count, <<128>>), count + 1, ZeroBytes(few))
      another == Put(one, 0, ZeroBytes(BlockSize - LengthSize))
      start == Join(SubSeq(in, 1, count), <<128>>)
      end(b) == Put(b, BlockSize - LengthSize, bits)
  IN  /\ one \in Block /\ end(one) \in Block /\ end(another) \in Block
      /\ start \in Seq(Bytes)
      /\ left < LengthSize =>
           /\ one = Join(start, ZeroBytes(left))
           /\ end(another) = Join(ZeroBytes(BlockSize - LengthSize), bits)
      /\ ~ (left < LengthSize) =>
           end(one) = Join(Join(start, ZeroBytes(left - LengthSize)), bits)

(* The last block, or the last two, after what waits.                      *)
LEMMA PaddedRight ==
  ASSUME NEW in \in Block, NEW count \in Nat, count < BlockSize,
         NEW bits \in Seq(Bytes), Len(bits) = LengthSize
  PROVE  PaddedBlocks(in, count, bits)
<1> DEFINE B == BlockSize
           left == B - 1 - count
           few == IF left < LengthSize THEN left ELSE left - LengthSize
           first == Put(in, count, <<128>>)
           one == Put(first, count + 1, ZeroBytes(few))
           zeros == ZeroBytes(B - LengthSize)
           another == Put(one, 0, zeros)
           s == SubSeq(in, 1, count)
           start == Join(s, <<128>>)
           end(b) == Put(b, B - LengthSize, bits)
<1>1. /\ B \in Nat /\ B > 0 /\ LengthSize \in Nat /\ B > LengthSize
      /\ left \in Nat /\ few \in Nat /\ B - LengthSize \in Nat
  BY Sizes
<1>2. <<128>> \in Seq(Bytes) /\ Len(<<128>>) = 1
  <2>1. 128 \in Bytes
    BY DEF Bytes
  <2> QED
    BY <2>1
<1>3. /\ ZeroBytes(few) \in Seq(Bytes) /\ Len(ZeroBytes(few)) = few
      /\ zeros \in Seq(Bytes) /\ Len(zeros) = B - LengthSize
  BY <1>1, ZeroBytesType
<1>4. first \in Block
  BY <1>2, PutType
<1>5. one \in Block
  <2> HIDE DEF first, few
  <2> QED
    BY <1>1, <1>3, <1>4, PutType
<1>6. another \in Block
  <2> HIDE DEF one, zeros
  <2> QED
    BY <1>3, <1>5, PutType
<1>7. \A b \in Block : end(b) \in Block
  BY <1>1, PutType
<1>8. s \in Seq(Bytes)
  BY Sizes, PrefixType
<1>9. start \in Seq(Bytes)
  <2> HIDE DEF s
  <2> QED
    BY <1>2, <1>8, ConcatProperties DEF Join
<1>10. SubSeq(first, 1, count + 1) = start
  <2> DEFINE c == <<128>>
  <2>1. c \in Seq(Bytes) /\ count + Len(c) <= BlockSize /\ count + Len(c) = count + 1
        /\ first = Put(in, count, c) /\ start = Join(s, c)
    BY <1>1, <1>2
  <2> HIDE DEF c, first, start
  <2>2. SubSeq(Put(in, count, c), 1, count + Len(c)) = s \o c
    BY <2>1, PutPrefix
  <2> QED
    BY <2>1, <2>2 DEF Join
<1> HIDE DEF first, start
<1>11. SubSeq(one, 1, count + 1 + few) = Join(start, ZeroBytes(few))
  <2> DEFINE z == ZeroBytes(few)
             at == count + 1
  <2>a. few \in Nat /\ at \in Nat /\ at + few <= BlockSize
    BY <1>1
  <2> HIDE DEF few
  <2>b. z \in Seq(Bytes) /\ Len(z) = few
    BY ONLY <1>3
  <2>c. one = Put(first, at, z)
    OBVIOUS
  <2>1. /\ z \in Seq(Bytes) /\ at \in Nat /\ at + Len(z) <= BlockSize
        /\ at + Len(z) = count + 1 + few /\ one = Put(first, at, z)
    <3> HIDE DEF z, one
    <3> QED
      BY ONLY <2>a, <2>b, <2>c
  <2>2. SubSeq(first, 1, at) = start
    BY <1>10
  <2> HIDE DEF z, at, one, few
  <2>3. SubSeq(Put(first, at, z), 1, at + Len(z)) = SubSeq(first, 1, at) \o z
    BY <1>4, <2>1, PutPrefix
  <2> QED
    BY <2>1, <2>2, <2>3 DEF Join, z
<1> HIDE DEF one
(* What the end of a block looks like once the length is in it.            *)
<1>12. ASSUME NEW b \in Block
       PROVE  end(b) = Join(SubSeq(b, 1, B - LengthSize), bits)
  <2> DEFINE at == B - LengthSize
  <2>1. at \in Nat /\ at + Len(bits) <= BlockSize /\ at + Len(bits) = B
    BY <1>1
  <2> HIDE DEF at
  <2>2. SubSeq(Put(b, at, bits), 1, at + Len(bits)) = SubSeq(b, 1, at) \o bits
    BY <2>1, PutPrefix
  <2>3. Put(b, at, bits) \in Block
    BY <2>1, PutType
  <2>4. SubSeq(Put(b, at, bits), 1, B) = Put(b, at, bits)
    BY <2>3, BlockIsSeq
  <2> QED
    BY <2>1, <2>2, <2>4 DEF Join, at
<1> HIDE DEF end
<1>13. ASSUME left < LengthSize
       PROVE  one = Join(start, ZeroBytes(left)) /\ end(another) = Join(zeros, bits)
  <2>1. few = left /\ count + 1 + few = B
    BY <1>1, <1>13
  <2>2. SubSeq(one, 1, B) = one
    BY <1>5, BlockIsSeq
  <2>3. one = Join(start, ZeroBytes(left))
    BY <1>11, <2>1, <2>2
  <2>4. SubSeq(another, 1, B - LengthSize) = zeros
    <3> DEFINE none == SubSeq(one, 1, 0)
    <3>1. 0 \in Nat /\ 0 + Len(zeros) <= BlockSize /\ 0 + Len(zeros) = B - LengthSize
      BY <1>1, <1>3
    <3> HIDE DEF zeros
    <3>2. SubSeq(Put(one, 0, zeros), 1, 0 + Len(zeros)) = none \o zeros
      BY <1>3, <1>5, <3>1, PutPrefix, Zenon
    <3>3. none = <<>>
      BY SubSeqEmpty
    <3> QED
      BY <1>3, <3>1, <3>2, <3>3, ConcatEmptySeq
  <2>5. end(another) = Join(zeros, bits)
    BY <1>6, <1>12, <2>4
  <2> QED
    BY <2>3, <2>5
<1>14. ASSUME ~ (left < LengthSize)
       PROVE  end(one) = Join(Join(start, ZeroBytes(left - LengthSize)), bits)
  <2>1. few = left - LengthSize /\ count + 1 + few = B - LengthSize
    BY <1>1, <1>14
  <2>2. SubSeq(one, 1, B - LengthSize) = Join(start, ZeroBytes(left - LengthSize))
    BY <1>11, <2>1
  <2> QED
    BY <1>5, <1>12, <2>2
<1>15. /\ one \in Block /\ end(one) \in Block /\ end(another) \in Block
       /\ start \in Seq(Bytes)
  BY <1>5, <1>6, <1>7, <1>9
<1> HIDE DEF left, few, zeros, another, B
<1> QED
  BY ONLY <1>13, <1>14, <1>15
     DEF PaddedBlocks, B, left, few, first, one, zeros, another, s, start, end

LEMMA FinalKeeps ==
  ASSUME Md5Inv, MD5Final
  PROVE  Md5Inv'
<1> DEFINE n == Len(message)
           count == Waiting(ctx)
           left == BlockSize - 1 - count
           few == IF left < LengthSize THEN left ELSE left - LengthSize
           one == Put(Put(ctx.in, count, <<128>>), count + 1, ZeroBytes(few))
           another == Put(one, 0, ZeroBytes(BlockSize - LengthSize))
           bits == LsbFirst(ctx.low) \o LsbFirst(ctx.high)
           end(b) == Put(b, BlockSize - LengthSize, bits)
           waits == SubSeq(ctx.in, 1, count)
           start == Join(waits, <<128>>)
           x == 8 * n
           z == IF left < LengthSize THEN 2 * BlockSize - 1 - count - LengthSize
                ELSE left - LengthSize
<1>1. /\ ~final /\ final' = TRUE /\ message' = message
      /\ fed' = fed \o IF left < LengthSize THEN one \o end(another) ELSE end(one)
      /\ ctx' = [low |-> 0, high |-> 0, in |-> ZeroBytes(BlockSize)]
  BY DEF MD5Final
<1>2. /\ message \in Seq(Bytes) /\ fed \in Seq(Bytes) /\ ctx.in \in Block
      /\ ctx.low = x % WordLimit /\ ctx.high = (x \div WordLimit) % WordLimit
      /\ fed \o SubSeq(ctx.in, 1, n % BlockSize) = message
  BY <1>1 DEF Md5Inv
<1>3. n \in Nat /\ x \in Nat /\ BlockSize \in Nat /\ BlockSize > 0
  BY <1>2, Sizes
<1>4. count = n % BlockSize /\ count \in Nat /\ count < BlockSize
  <2>1. count = n % BlockSize
    BY <1>2, <1>3, WaitingIs
  <2> QED
    BY <1>3, <2>1, Divided
<1>5. Join(fed, waits) = message
  BY <1>2, <1>4 DEF Join
<1>6. bits = LengthBytes(x)
  <2> HIDE DEF x
  <2> QED
    BY <1>2, <1>3, WordsRight
<1>7. bits \in Seq(Bytes) /\ Len(bits) = LengthSize
  BY <1>3, <1>6, LengthBytesType
<1>8. z = CHOOSE y \in 0 .. BlockSize - 1 : (n + 1 + y + LengthSize) % BlockSize = 0
  <2> HIDE DEF count, n
  <2>1. z = IF BlockSize - 1 - count < LengthSize
            THEN 2 * BlockSize - 1 - count - LengthSize
            ELSE BlockSize - 1 - count - LengthSize
    OBVIOUS
  <2> HIDE DEF z
  <2> QED
    BY <1>3, <1>4, <2>1, ZerosAre
<1> HIDE DEF count, bits
<1>9. /\ one \in Block /\ end(one) \in Block /\ end(another) \in Block
      /\ start \in Seq(Bytes)
      /\ left < LengthSize => /\ one = Join(start, ZeroBytes(left))
                              /\ end(another) = Join(ZeroBytes(BlockSize - LengthSize), bits)
      /\ ~ (left < LengthSize) =>
           end(one) = Join(Join(start, ZeroBytes(left - LengthSize)), bits)
  <2> HIDE DEF one, end, another, start, left
  <2>1. PaddedBlocks(ctx.in, count, bits)
    BY <1>2, <1>4, <1>7, PaddedRight
  <2> QED
    BY ONLY <2>1 DEF PaddedBlocks, one, end, another, start, waits, few, left
<1>10. left \in Nat /\ z \in Nat /\ BlockSize - LengthSize \in Nat
       /\ (~ (left < LengthSize) => left - LengthSize \in Nat)
  BY <1>4, Sizes
<1> DEFINE all == IF left < LengthSize THEN one \o end(another) ELSE end(one)
<1> HIDE DEF one, another, start, end
<1>11. all = Join(Join(start, ZeroBytes(z)), bits)
  <2>1. CASE left < LengthSize
    <3> DEFINE z1 == ZeroBytes(left)
               z2 == ZeroBytes(BlockSize - LengthSize)
    <3>1. z1 \in Seq(Bytes) /\ z2 \in Seq(Bytes)
      BY <1>10, ZeroBytesType
    <3>2. Join(z1, z2) = ZeroBytes(z)
      <4>1. z = left + (BlockSize - LengthSize)
        BY <1>3, <1>4, <1>10, <2>1, Sizes
      <4> HIDE DEF z, left
      <4> QED
        BY <1>10, <4>1, ZeroBytesAdd DEF Join
    <3>3. all = Join(Join(start, z1), Join(z2, bits))
      BY <1>9, <2>1 DEF Join
    <3> HIDE DEF z1, z2, all
    <3>4. Join(start, z1) \in Seq(Bytes)
      BY <1>9, <3>1, JoinType
    <3>5. Join(Join(start, z1), Join(z2, bits)) = Join(Join(Join(start, z1), z2), bits)
      BY <1>7, <3>1, <3>4, JoinAssociative
    <3>6. Join(Join(start, z1), z2) = Join(start, Join(z1, z2))
      BY <1>9, <3>1, JoinAssociative
    <3> QED
      BY <3>2, <3>3, <3>5, <3>6
  <2>2. CASE ~ (left < LengthSize)
    BY <1>9, <2>2
  <2> QED
    BY <2>1, <2>2
<1>12. fed' = Join(Join(Join(message, <<128>>), ZeroBytes(z)), bits)
       /\ Join(Join(Join(message, <<128>>), ZeroBytes(z)), bits) \in Seq(Bytes)
  <2> DEFINE zz == ZeroBytes(z)
             o == <<128>>
             sz == Join(start, zz)
  <2>1. zz \in Seq(Bytes) /\ o \in Seq(Bytes) /\ waits \in Seq(Bytes)
    <3>1. zz \in Seq(Bytes)
      <4> HIDE DEF z
      <4> QED
        BY <1>10, ZeroBytesType
    <3>2. o \in Seq(Bytes)
      BY DEF Bytes
    <3>3. waits \in Seq(Bytes)
      BY <1>2, <1>4, Sizes, PrefixType
    <3> QED
      BY <3>1, <3>2, <3>3
  <2>2. fed' = Join(fed, all)
    BY <1>1 DEF Join
  <2>3. start = Join(waits, o)
    BY DEF start
  <2> HIDE DEF zz, o, waits, all, z
  <2>4. sz \in Seq(Bytes)
    BY <1>9, <2>1, JoinType
  <2>5. Join(fed, Join(sz, bits)) = Join(Join(fed, sz), bits)
    BY <1>2, <1>7, <2>4, JoinAssociative
  <2>6. Join(fed, sz) = Join(Join(fed, start), zz)
    BY <1>2, <1>9, <2>1, JoinAssociative
  <2>7. Join(fed, start) = Join(message, o)
    BY <1>2, <1>5, <2>1, <2>3, JoinAssociative
  <2>8. Join(message, o) \in Seq(Bytes)
    BY <1>2, <2>1, JoinType
  <2>9. Join(Join(message, o), zz) \in Seq(Bytes)
    BY <2>1, <2>8, JoinType
  <2>10. Join(Join(Join(message, o), zz), bits) \in Seq(Bytes)
    BY <1>7, <2>9, JoinType
  <2>11. fed' = Join(Join(Join(message, o), zz), bits)
    BY <1>11, <2>2, <2>5, <2>6, <2>7 DEF zz
  <2> QED
    BY <2>10, <2>11 DEF zz, o
<1>13. Padded(message) = Join(Join(Join(message, <<128>>), ZeroBytes(z)), bits)
  <2> HIDE DEF z
  <2> QED
    BY <1>6, <1>8 DEF Padded, Join, LengthBytes, ZeroBytes
<1>14. ctx' \in [low : Nat, high : Nat, in : Block]
  <2>1. ZeroBytes(BlockSize) \in Block
    BY DEF ZeroBytes, Block, Bytes
  <2> QED
    BY <1>1, <2>1
<1>15. Padded(message)' = Padded(message)
  BY <1>1 DEF Padded
<1> QED
  BY <1>1, <1>2, <1>12, <1>13, <1>14, <1>15 DEF Md5Inv

(* However a text is cut into pieces, what is digested is the text as RFC  *)
(* 1321 pads it, its length included (md5.c:42-114).                       *)
THEOREM DigestsTheText == Md5Spec => []BlocksRight
<1>1. MD5Init => Md5Inv
  BY Md5InvInit
<1>2. Md5Inv /\ [MD5Next]_md5Vars => Md5Inv'
  <2> SUFFICES ASSUME Md5Inv, [MD5Next]_md5Vars PROVE Md5Inv'
    OBVIOUS
  <2>1. ASSUME NEW buf \in Pieces, MD5Update(buf) PROVE Md5Inv'
    BY <2>1, UpdateKeeps, PiecesAssumption DEF Bytes
  <2>2. CASE MD5Final
    BY <2>2, FinalKeeps
  <2>3. CASE UNCHANGED md5Vars
    BY <2>3 DEF Md5Inv, md5Vars, Padded
  <2> QED
    BY <2>1, <2>2, <2>3 DEF MD5Next
<1>3. Md5Inv => BlocksRight
  <2> SUFFICES ASSUME Md5Inv, ~final PROVE fed \o SubSeq(ctx.in, 1, Waiting(ctx)) = message
    BY DEF Md5Inv, BlocksRight
  <2>1. Len(message) \in Nat /\ ctx.low = (8 * Len(message)) % WordLimit
    BY DEF Md5Inv
  <2>2. Waiting(ctx) = Len(message) % BlockSize
    BY <2>1, WaitingIs
  <2> QED
    BY <2>2 DEF Md5Inv
<1> QED
  BY <1>1, <1>2, <1>3, PTL DEF Md5Spec

-----------------------------------------------------------------------------
(* Base64: groups of three bytes, of four characters, one after another.   *)

(* Groups of k values of S each.                                           *)
Groups(F, S, k, g) ==
  /\ F \in Seq(Seq(S)) /\ Len(F) = g
  /\ \A i \in 1 .. g : F[i] \in Seq(S) /\ Len(F[i]) = k /\ DOMAIN F[i] = 1 .. k

(* Their first l values.                                                   *)
Spread(F, k, l) == [j \in 1 .. l |-> F[((j - 1) \div k) + 1][((j - 1) % k) + 1]]

LEMMA GroupPlace ==
  ASSUME NEW k \in {3, 4}, NEW i \in Nat, NEW j \in 1 .. k * i
  PROVE  /\ ((j - 1) \div k) + 1 \in 1 .. i
         /\ ((j - 1) % k) + 1 \in 1 .. k
         /\ j - k * ((j - 1) \div k) = ((j - 1) % k) + 1
<1>1. CASE k = 3
  BY <1>1
<1>2. CASE k = 4
  BY <1>2
<1> QED
  BY <1>1, <1>2

LEMMA LastGroup ==
  ASSUME NEW k \in {3, 4}, NEW i \in Nat \ {0}, NEW p \in 1 .. k
  PROVE  /\ k * (i - 1) \in Nat /\ k * i \in Nat /\ k * i = k * (i - 1) + k
         /\ k * (i - 1) + p \in 1 .. k * i
         /\ ((k * (i - 1) + p - 1) \div k) + 1 = i
         /\ ((k * (i - 1) + p - 1) % k) + 1 = p
<1>1. CASE k = 3
  BY <1>1
<1>2. CASE k = 4
  BY <1>2
<1> QED
  BY <1>1, <1>2

Spreads(F, S, k, i) ==
  Spread(F, k, k * i) \in Seq(S) /\ Len(Spread(F, k, k * i)) = k * i

LEMMA SpreadType ==
  ASSUME NEW S, NEW F, NEW k \in {3, 4}, NEW g \in Nat, Groups(F, S, k, g), NEW i \in 0 .. g
  PROVE  Spreads(F, S, k, i)
<1> DEFINE at(j) == ((j - 1) \div k) + 1
           in(j) == ((j - 1) % k) + 1
<1>1. k * i \in Nat
  <2>1. CASE k = 3
    BY <2>1
  <2>2. CASE k = 4
    BY <2>2
  <2> QED
    BY <2>1, <2>2
<1>2. ASSUME NEW j \in 1 .. k * i PROVE F[at(j)][in(j)] \in S
  <2>1. at(j) \in 1 .. g /\ in(j) \in 1 .. k
    <3>1. at(j) \in 1 .. i /\ in(j) \in 1 .. k
      BY GroupPlace
    <3> HIDE DEF at, in
    <3> QED
      BY <3>1
  <2> HIDE DEF at, in
  <2>2. F[at(j)] \in Seq(S) /\ in(j) \in DOMAIN F[at(j)]
    BY <2>1 DEF Groups
  <2> QED
    BY ONLY <2>2, ElementOfSeq
<1> HIDE DEF at, in
<1>3. Spread(F, k, k * i) = [j \in 1 .. k * i |-> F[at(j)][in(j)]]
  BY DEF Spread, at, in
<1> DEFINE l == k * i
<1> HIDE DEF l
<1>4. [j \in 1 .. l |-> F[at(j)][in(j)]] \in [1 .. l -> S]
  BY <1>2 DEF l
<1> QED
  BY <1>1, <1>3, <1>4 DEF l, Spreads

LEMMA SpreadFirst ==
  ASSUME NEW S, NEW F, NEW k \in {3, 4}, NEW g \in Nat, Groups(F, S, k, g), g > 0
  PROVE  Spread(F, k, k * 1) = F[1]
<1> DEFINE s == Spread(F, k, k * 1)
<1>1. k * 1 = k /\ k \in Nat /\ 1 \in 0 .. g /\ 1 \in 1 .. g
  OBVIOUS
<1>2. \A j \in 1 .. k : (j - 1) \div k = 0 /\ (j - 1) % k = j - 1
  <2>1. CASE k = 3
    BY <2>1
  <2>2. CASE k = 4
    BY <2>2
  <2> QED
    BY <2>1, <2>2
<1>3. ASSUME NEW j \in 1 .. k PROVE s[j] = F[1][j]
  <2>1. s[j] = F[((j - 1) \div k) + 1][((j - 1) % k) + 1]
    BY <1>1 DEF Spread
  <2>2. ((j - 1) \div k) + 1 = 1 /\ ((j - 1) % k) + 1 = j
    BY <1>2
  <2> QED
    BY <2>1, <2>2
<1>4. s \in Seq(S) /\ Len(s) = k
  <2>1. Spreads(F, S, k, 1)
    BY <1>1, SpreadType
  <2> QED
    BY ONLY <1>1, <2>1 DEF Spreads, s
<1>5. F[1] \in Seq(S) /\ Len(F[1]) = k
  BY <1>1 DEF Groups
<1> HIDE DEF s
<1>6. s = F[1]
  BY <1>3, <1>4, <1>5, SeqEqual
<1> QED
  BY <1>6 DEF s

LEMMA SpreadNext ==
  ASSUME NEW S, NEW F, NEW k \in {3, 4}, NEW g \in Nat, Groups(F, S, k, g), NEW i \in 2 .. g
  PROVE  Spread(F, k, k * (i - 1)) \o F[i] = Spread(F, k, k * i)
<1> DEFINE l == k * (i - 1)
           r == k * i
           s == Spread(F, k, l)
           t == Spread(F, k, r)
           f == F[i]
<1>1. i \in Nat \ {0} /\ i - 1 \in 0 .. g /\ i \in 0 .. g /\ i \in 1 .. g /\ k \in Nat
  OBVIOUS
<1>2. /\ l \in Nat /\ r \in Nat /\ r = l + k
      /\ \A p \in 1 .. k : /\ l + p \in 1 .. r
                           /\ ((l + p - 1) \div k) + 1 = i
                           /\ ((l + p - 1) % k) + 1 = p
  BY <1>1, LastGroup
<1>3. s \in Seq(S) /\ Len(s) = l
  <2>1. Spreads(F, S, k, i - 1)
    BY <1>1, SpreadType
  <2> QED
    BY ONLY <2>1 DEF Spreads, s, l
<1>4. t \in Seq(S) /\ Len(t) = r
  <2>1. Spreads(F, S, k, i)
    BY <1>1, SpreadType
  <2> QED
    BY ONLY <2>1 DEF Spreads, t, r
<1>5. f \in Seq(S) /\ Len(f) = k
  BY <1>1 DEF Groups
<1>6. \A j \in 1 .. l : s[j] = F[((j - 1) \div k) + 1][((j - 1) % k) + 1]
  BY DEF Spread
<1>7. \A j \in 1 .. r : t[j] = F[((j - 1) \div k) + 1][((j - 1) % k) + 1]
  BY DEF Spread
<1> HIDE DEF l, r, s, t
<1>8. ASSUME NEW j \in 1 .. l + k
      PROVE  t[j] = IF j <= l THEN s[j] ELSE f[j - l]
  <2>1. CASE j <= l
    <3>1. j \in 1 .. l /\ j \in 1 .. r
      BY <1>1, <1>2, <2>1
    <3> QED
      BY ONLY <1>6, <1>7, <2>1, <3>1
  <2>2. CASE ~ (j <= l)
    <3> DEFINE p == j - l
    <3>1. p \in 1 .. k /\ l + p = j
      BY <1>1, <1>2, <2>2
    <3> HIDE DEF p
    <3>2. /\ j \in 1 .. r /\ ((j - 1) \div k) + 1 = i /\ ((j - 1) % k) + 1 = p
      BY <1>2, <3>1
    <3>3. t[j] = f[p]
      BY ONLY <1>7, <3>2
    <3> QED
      BY ONLY <2>2, <3>3 DEF p
  <2> QED
    BY <2>1, <2>2
<1> HIDE DEF f
<1> DEFINE c == s \o f
<1>9. /\ c \in Seq(S) /\ Len(c) = l + k
      /\ \A j \in 1 .. l + k : c[j] = IF j <= l THEN s[j] ELSE f[j - l]
  BY <1>3, <1>5, ConcatProperties
<1> HIDE DEF c
<1>10. c = t
  <2>1. Len(c) = Len(t) /\ \A j \in 1 .. Len(c) : c[j] = t[j]
    BY ONLY <1>2, <1>4, <1>8, <1>9
  <2> QED
    BY ONLY <1>4, <1>9, <2>1, SeqEqual
<1> QED
  BY ONLY <1>10 DEF c, s, t, l, r, f

(* FlattenSeq puts groups in a row: its function has one solution.         *)
LEMMA FlattenIs ==
  ASSUME NEW S, NEW F, NEW k \in {3, 4}, NEW g \in Nat, Groups(F, S, k, g)
  PROVE  FlattenSeq(F) = Spread(F, k, k * g)
<1>1. Len(F) = g /\ F \in Seq(Seq(S))
  BY DEF Groups
<1>2. CASE g = 0
  <2>1. F = <<>>
    BY <1>1, <1>2, EmptySeq
  <2>2. k * g = 0
    BY <1>2
  <2>3. Spread(F, k, 0) = <<>>
    BY DEF Spread
  <2> QED
    BY <1>1, <1>2, <2>1, <2>2, <2>3 DEF FlattenSeq
<1>3. CASE g # 0
  <2> DEFINE Def(h) == [i \in 1 .. g |-> IF i = 1 THEN F[i] ELSE h[i - 1] \o F[i]]
             whole == [i \in 1 .. g |-> Spread(F, k, k * i)]
             flatten == CHOOSE h : h = Def(h)
  <2>1. whole = Def(whole)
    <3> SUFFICES ASSUME NEW i \in 1 .. g
                 PROVE  Spread(F, k, k * i) = IF i = 1 THEN F[i] ELSE whole[i - 1] \o F[i]
      OBVIOUS
    <3>1. CASE i = 1
      BY <1>3, <3>1, SpreadFirst
    <3>2. CASE i # 1
      <4>1. i \in 2 .. g /\ i - 1 \in 1 .. g
        BY <3>2
      <4>2. Spread(F, k, k * (i - 1)) \o F[i] = Spread(F, k, k * i)
        BY <4>1, SpreadNext
      <4>3. whole[i - 1] = Spread(F, k, k * (i - 1))
        BY <4>1
      <4> QED
        BY <3>2, <4>2, <4>3
    <3> QED
      BY <3>1, <3>2
  <2> HIDE DEF whole
  <2>2. flatten = Def(flatten)
    <3> HIDE DEF Def
    <3> QED
      BY <2>1
  <2>3. FlattenSeq(F) = flatten[g]
    BY <1>1, <1>3 DEF FlattenSeq
  <2> HIDE DEF flatten
  <2> DEFINE P == {n \in 0 .. g : n = 0 \/ flatten[n] = whole[n]}
  <2>4. 0 \in P
    OBVIOUS
  <2>5. ASSUME NEW n \in 0 .. g - 1, n \in P PROVE n + 1 \in P
    <3>1. n + 1 \in 1 .. g /\ n + 1 \in 0 .. g /\ (n + 1) - 1 = n /\ (n + 1 = 1 <=> n = 0)
      OBVIOUS
    <3>2. flatten[n + 1] = IF n = 0 THEN F[n + 1] ELSE flatten[n] \o F[n + 1]
      BY <2>2, <3>1
    <3>3. whole[n + 1] = IF n = 0 THEN F[n + 1] ELSE whole[n] \o F[n + 1]
      BY <2>1, <3>1
    <3>4. n = 0 \/ flatten[n] = whole[n]
      BY <2>5
    <3> HIDE DEF Def
    <3>5. flatten[n + 1] = whole[n + 1]
      BY ONLY <3>2, <3>3, <3>4
    <3> QED
      BY <3>1, <3>5
  <2> HIDE DEF P
  <2>6. 0 .. g \subseteq P
    BY <2>4, <2>5, SetInduction
  <2>7. g \in P /\ g \in 1 .. g
    BY <1>3, <2>6
  <2>8. flatten[g] = whole[g]
    BY <1>3, <2>7 DEF P
  <2> QED
    BY <2>3, <2>7, <2>8 DEF whole
<1> QED
  BY <1>2, <1>3

(* What there is in a row of groups.                                       *)
Row(s, F, S, k, g) ==
  /\ s \in Seq(S) /\ Len(s) = k * g
  /\ \A i \in 1 .. g : \A p \in 1 .. k : s[k * (i - 1) + p] = F[i][p]

LEMMA FlattenRow ==
  ASSUME NEW S, NEW F, NEW k \in {3, 4}, NEW g \in Nat, Groups(F, S, k, g)
  PROVE  Row(FlattenSeq(F), F, S, k, g)
<1> DEFINE s == Spread(F, k, k * g)
<1>1. s \in Seq(S) /\ Len(s) = k * g
  <2>1. Spreads(F, S, k, g)
    BY SpreadType
  <2> QED
    BY ONLY <2>1 DEF Spreads, s
<1>2. ASSUME NEW i \in 1 .. g, NEW p \in 1 .. k PROVE s[k * (i - 1) + p] = F[i][p]
  <2> DEFINE j == k * (i - 1) + p
  <2>1. /\ ((j - 1) \div k) + 1 = i
        /\ ((j - 1) % k) + 1 = p
    BY LastGroup
  <2>2. j \in 1 .. k * g
    <3>1. CASE k = 3
      BY <3>1
    <3>2. CASE k = 4
      BY <3>2
    <3> QED
      BY <3>1, <3>2
  <2>3. s[j] = F[((j - 1) \div k) + 1][((j - 1) % k) + 1]
    <3> HIDE DEF j
    <3> QED
      BY <2>2 DEF Spread
  <2> HIDE DEF j, s
  <2>4. s[j] = F[i][p]
    BY ONLY <2>1, <2>3
  <2> QED
    BY ONLY <2>4 DEF j
<1>3. FlattenSeq(F) = s
  BY FlattenIs
<1> HIDE DEF s
<1> QED
  BY ONLY <1>1, <1>2, <1>3 DEF Row

(* A group of three bytes as the encoder takes it, their signs included.   *)
Signed(b0, b1, b2) ==
  <<IF b1 >= 128 \/ b2 >= 128 THEN 255 ELSE b0, IF b2 >= 128 THEN 255 ELSE b1, b2>>

LEMMA WordIs ==
  ASSUME NEW x \in Bytes, NEW y \in Bytes, NEW z \in Bytes
  PROVE  /\ Word(x, y, z) \in Nat /\ Word(x, y, z) < 256 * 65536
         /\ Word(x, y, z) \div 65536 = Signed(x, y, z)[1]
         /\ (Word(x, y, z) \div 256) % 256 = Signed(x, y, z)[2]
         /\ Word(x, y, z) % 256 = Signed(x, y, z)[3]
<1> USE DEF Bytes
<1>1. CASE z >= 128
  BY <1>1 DEF Word, Signed
<1>2. CASE ~ (z >= 128) /\ y >= 128
  BY <1>2 DEF Word, Signed
<1>3. CASE ~ (z >= 128) /\ ~ (y >= 128)
  BY <1>3 DEF Word, Signed
<1> QED
  BY <1>1, <1>2, <1>3

(* The decoder's three bytes of four characters.                           *)
Octets(a, c, d, e) == <<a * 4 + c \div 16, (c % 16) * 16 + d \div 4, (d % 4) * 64 + e>>

(* Four characters h that say the bytes of t.                              *)
Says(h, t) ==
  /\ h \in Seq(0 .. 63) /\ Len(h) = 4 /\ DOMAIN h = 1 .. 4
  /\ \A p \in 1 .. 4 : h[p] \in 0 .. 63
  /\ Octets(h[1], h[2], h[3], h[4]) = t

LEMMA HextetsDecode ==
  ASSUME NEW w \in Nat, w < 256 * 65536
  PROVE  Says(Hextets(w), <<w \div 65536, (w \div 256) % 256, w % 256>>)
<1> DEFINE a == w \div 262144
           c == (w \div 4096) % 64
           d == (w \div 64) % 64
           e == w % 64
<1>1. Hextets(w) = <<a, c, d, e>>
  BY DEF Hextets
<1>2. /\ a \in 0 .. 63 /\ c \in 0 .. 63 /\ d \in 0 .. 63 /\ e \in 0 .. 63
      /\ w = a * 262144 + c * 4096 + d * 64 + e
  <2> DEFINE u == w \div 64
             v == u \div 64
  <2>1. u \in Nat /\ w = 64 * u + e /\ e \in 0 .. 63
    OBVIOUS
  <2>2. v \in Nat /\ u = 64 * v + d /\ d \in 0 .. 63
    OBVIOUS
  <2>3. v = w \div 4096
    OBVIOUS
  <2>4. a \in Nat /\ v = 64 * a + c /\ c \in 0 .. 63
    BY <2>3
  <2>5. a <= 63
    OBVIOUS
  <2> HIDE DEF a, c, d, e, u, v
  <2> QED
    BY ONLY <2>1, <2>2, <2>4, <2>5
<1> HIDE DEF a, c, d, e
<1> DEFINE ch == c \div 16
           cl == c % 16
           dh == d \div 4
           dl == d % 4
<1>3. /\ ch \in 0 .. 3 /\ cl \in 0 .. 15 /\ c = 16 * ch + cl
      /\ dh \in 0 .. 15 /\ dl \in 0 .. 3 /\ d = 4 * dh + dl
  BY ONLY <1>2
<1> HIDE DEF ch, cl, dh, dl
<1> DEFINE x == a * 4 + ch
           y == cl * 16 + dh
           z == dl * 64 + e
<1>4. /\ x \in 0 .. 255 /\ y \in 0 .. 255 /\ z \in 0 .. 255
      /\ w = 65536 * x + 256 * y + z
  BY ONLY <1>2, <1>3
<1> HIDE DEF x, y, z
<1>5. w \div 65536 = x /\ w \div 256 = 256 * x + y /\ w % 256 = z
  BY ONLY <1>4
<1>6. (w \div 256) % 256 = y
  BY ONLY <1>4, <1>5
<1>7. \A p \in 1 .. 4 : Hextets(w)[p] \in 0 .. 63
  BY ONLY <1>1, <1>2
<1>8. Octets(a, c, d, e) = <<x, y, z>>
  BY ONLY DEF Octets, x, y, z, ch, cl, dh, dl
<1>9. Octets(Hextets(w)[1], Hextets(w)[2], Hextets(w)[3], Hextets(w)[4]) = Octets(a, c, d, e)
  BY ONLY <1>1
<1>10. Hextets(w) \in Seq(0 .. 63) /\ Len(Hextets(w)) = 4 /\ DOMAIN Hextets(w) = 1 .. 4
  BY ONLY <1>1, <1>2
<1> QED
  BY ONLY <1>5, <1>6, <1>7, <1>8, <1>9, <1>10 DEF Says

Group(b, i) == Hextets(Word(b[3 * i - 2], b[3 * i - 1], b[3 * i]))

LEMMA GroupIs ==
  ASSUME NEW b \in Seq(Bytes), NEW i \in 1 .. (Len(b) \div 3)
  PROVE  Says(Group(b, i), Signed(b[3 * i - 2], b[3 * i - 1], b[3 * i]))
<1> DEFINE x == b[3 * i - 2]
           y == b[3 * i - 1]
           z == b[3 * i]
           w == Word(x, y, z)
<1>1. x \in Bytes /\ y \in Bytes /\ z \in Bytes
  <2>1. /\ 3 * i - 2 \in 1 .. Len(b) /\ 3 * i - 1 \in 1 .. Len(b) /\ 3 * i \in 1 .. Len(b)
    <3>1. Len(b) \in Nat
      OBVIOUS
    <3> QED
      BY <3>1
  <2> QED
    BY <2>1, ElementOfSeq
<1> HIDE DEF x, y, z
<1>2. /\ w \in Nat /\ w < 256 * 65536
      /\ w \div 65536 = Signed(x, y, z)[1]
      /\ (w \div 256) % 256 = Signed(x, y, z)[2]
      /\ w % 256 = Signed(x, y, z)[3]
  BY <1>1, WordIs
<1> HIDE DEF w
<1>3. Says(Hextets(w), <<w \div 65536, (w \div 256) % 256, w % 256>>)
  BY ONLY <1>2, HextetsDecode
<1>4. Signed(x, y, z) = <<Signed(x, y, z)[1], Signed(x, y, z)[2], Signed(x, y, z)[3]>>
  BY DEF Signed
<1>5. Signed(x, y, z) = <<w \div 65536, (w \div 256) % 256, w % 256>>
  BY ONLY <1>2, <1>4
<1>6. Says(Hextets(w), Signed(x, y, z))
  BY ONLY <1>3, <1>5
<1> QED
  BY ONLY <1>6 DEF Group, w, x, y, z

(* What the encoder makes of b.                                            *)
Encodes(b, t) ==
  LET g == Len(b) \div 3
      r == Len(b) % 3
      x == b[Len(b) - 1]
      y == b[Len(b)]
  IN  /\ t \in Seq(0 .. 64) /\ Len(t) = 4 * g + (IF r = 0 THEN 0 ELSE 4)
      /\ \A i \in 1 .. g : \A p \in 1 .. 4 : t[4 * (i - 1) + p] = Group(b, i)[p]
      /\ r = 1 => /\ t[4 * g + 1] = y \div 4 /\ t[4 * g + 2] = (y % 4) * 16
                  /\ t[4 * g + 3] = PAD /\ t[4 * g + 4] = PAD
      /\ r = 2 => /\ t[4 * g + 1] = x \div 4 /\ t[4 * g + 2] = (x % 4) * 16 + y \div 16
                  /\ t[4 * g + 3] = (y % 16) * 4 /\ t[4 * g + 4] = PAD

LEMMA EncodedIs ==
  ASSUME NEW b \in Seq(Bytes), Len(b) >= 2
  PROVE  Encodes(b, base64_encode(b))
<1> DEFINE n == Len(b)
           g == n \div 3
           r == n % 3
           x == b[n - 1]
           y == b[n]
           G == [i \in 1 .. g |-> Group(b, i)]
           flat == FlattenSeq(G)
           rest == CASE r = 0 -> <<>>
                     [] r = 1 -> <<y \div 4, (y % 4) * 16, PAD, PAD>>
                     [] r = 2 -> <<x \div 4, (x % 4) * 16 + y \div 16, (y % 16) * 4, PAD>>
           t == flat \o rest
<1>1. base64_encode(b) = t
  BY DEF base64_encode, Group
<1>2. n \in Nat /\ g \in Nat /\ r \in 0 .. 2
  <2>1. n \in Nat
    OBVIOUS
  <2> HIDE DEF n
  <2> QED
    BY <2>1
<1>3. x \in 0 .. 255 /\ y \in 0 .. 255
  <2>1. n - 1 \in 1 .. Len(b) /\ n \in 1 .. Len(b)
    OBVIOUS
  <2> QED
    BY <2>1, ElementOfSeq DEF Bytes
<1>4. Groups(G, 0 .. 63, 4, g)
  <2>1. \A i \in 1 .. g : /\ Group(b, i) \in Seq(0 .. 63) /\ Len(Group(b, i)) = 4
                          /\ DOMAIN Group(b, i) = 1 .. 4
    BY GroupIs DEF Says
  <2> HIDE DEF g
  <2>2. G \in [1 .. g -> Seq(0 .. 63)]
    BY <2>1
  <2>3. G \in Seq(Seq(0 .. 63)) /\ Len(G) = g
    BY <1>2, <2>2
  <2> QED
    BY <2>1, <2>3 DEF Groups
<1>5. Row(flat, G, 0 .. 63, 4, g)
  <2>1. 4 \in {3, 4}
    OBVIOUS
  <2> HIDE DEF G, g
  <2> QED
    BY <1>2, <1>4, <2>1, FlattenRow
<1>6. flat \in Seq(0 .. 64) /\ Len(flat) = 4 * g
  <2> HIDE DEF flat, G, g
  <2>1. flat \in Seq(0 .. 63) /\ Len(flat) = 4 * g
    BY ONLY <1>5 DEF Row
  <2>2. 0 .. 63 \subseteq 0 .. 64
    OBVIOUS
  <2> QED
    BY ONLY <2>1, <2>2, SeqMonotonic
<1>7. \A i \in 1 .. g : \A p \in 1 .. 4 : flat[4 * (i - 1) + p] = Group(b, i)[p]
  <2>1. \A i \in 1 .. g : G[i] = Group(b, i)
    OBVIOUS
  <2> HIDE DEF flat, G, g
  <2> QED
    BY ONLY <1>5, <2>1 DEF Row
<1>8. /\ rest \in Seq(0 .. 64) /\ Len(rest) = IF r = 0 THEN 0 ELSE 4
      /\ r = 1 => /\ rest[1] = y \div 4 /\ rest[2] = (y % 4) * 16
                  /\ rest[3] = PAD /\ rest[4] = PAD
      /\ r = 2 => /\ rest[1] = x \div 4 /\ rest[2] = (x % 4) * 16 + y \div 16
                  /\ rest[3] = (y % 16) * 4 /\ rest[4] = PAD
  <2> HIDE DEF x, y, r
  <2>1. CASE r = 0
    BY ONLY <2>1, EmptySeq DEF rest
  <2>2. CASE r = 1
    <3>1. rest = <<y \div 4, (y % 4) * 16, PAD, PAD>>
      BY ONLY <2>2 DEF rest
    <3>2. y \div 4 \in 0 .. 64 /\ (y % 4) * 16 \in 0 .. 64 /\ PAD \in 0 .. 64
      BY ONLY <1>3 DEF PAD
    <3> HIDE DEF rest
    <3> QED
      BY ONLY <2>2, <3>1, <3>2
  <2>3. CASE r = 2
    <3>1. rest = <<x \div 4, (x % 4) * 16 + y \div 16, (y % 16) * 4, PAD>>
      BY ONLY <2>3 DEF rest
    <3>2. /\ x \div 4 \in 0 .. 64 /\ (x % 4) * 16 + y \div 16 \in 0 .. 64
          /\ (y % 16) * 4 \in 0 .. 64 /\ PAD \in 0 .. 64
      BY ONLY <1>3 DEF PAD
    <3> HIDE DEF rest
    <3> QED
      BY ONLY <2>3, <3>1, <3>2
  <2> QED
    BY ONLY <1>2, <2>1, <2>2, <2>3
<1> HIDE DEF flat, rest, x, y, r, G
<1>9. /\ t \in Seq(0 .. 64) /\ Len(t) = Len(flat) + Len(rest)
      /\ \A j \in 1 .. Len(flat) + Len(rest) :
           t[j] = IF j <= Len(flat) THEN flat[j] ELSE rest[j - Len(flat)]
  BY <1>6, <1>8, ConcatProperties
<1> HIDE DEF t, g
<1>10. ASSUME NEW i \in 1 .. g, NEW p \in 1 .. 4 PROVE t[4 * (i - 1) + p] = Group(b, i)[p]
  <2>1. 4 * (i - 1) + p \in 1 .. 4 * g
    BY <1>2
  <2>2. 4 * (i - 1) + p <= Len(flat) /\ 4 * (i - 1) + p \in 1 .. Len(flat) + Len(rest)
    BY ONLY <1>2, <1>6, <1>8, <2>1
  <2> QED
    BY ONLY <1>7, <1>9, <2>2, i \in 1 .. g, p \in 1 .. 4
<1>11. r # 0 => \A p \in 1 .. 4 : t[4 * g + p] = rest[p]
  <2> SUFFICES ASSUME r # 0, NEW p \in 1 .. 4 PROVE t[4 * g + p] = rest[p]
    OBVIOUS
  <2> DEFINE j == 4 * g + p
  <2>1. j \in 1 .. Len(flat) + Len(rest) /\ ~ (j <= Len(flat)) /\ j - Len(flat) = p
    BY ONLY <1>2, <1>6, <1>8, r # 0, p \in 1 .. 4
  <2> HIDE DEF j
  <2>2. t[j] = rest[j - Len(flat)]
    BY ONLY <1>9, <2>1
  <2>3. t[j] = rest[p]
    BY ONLY <2>1, <2>2
  <2> QED
    BY ONLY <2>3 DEF j
<1>12. Len(t) = 4 * g + IF r = 0 THEN 0 ELSE 4
  BY ONLY <1>6, <1>8, <1>9
<1>13. Encodes(b, t)
  <2>1. t \in Seq(0 .. 64)
    BY ONLY <1>9
  <2>2. 1 \in 1 .. 4 /\ 2 \in 1 .. 4 /\ 3 \in 1 .. 4 /\ 4 \in 1 .. 4
    OBVIOUS
  <2>3. r # 0 => /\ t[4 * g + 1] = rest[1] /\ t[4 * g + 2] = rest[2]
                 /\ t[4 * g + 3] = rest[3] /\ t[4 * g + 4] = rest[4]
    BY ONLY <1>11, <2>2
  <2>4. /\ r = 1 => /\ t[4 * g + 1] = y \div 4 /\ t[4 * g + 2] = (y % 4) * 16
                    /\ t[4 * g + 3] = PAD /\ t[4 * g + 4] = PAD
        /\ r = 2 => /\ t[4 * g + 1] = x \div 4 /\ t[4 * g + 2] = (x % 4) * 16 + y \div 16
                    /\ t[4 * g + 3] = (y % 16) * 4 /\ t[4 * g + 4] = PAD
    BY ONLY <1>8, <2>3
  <2> QED
    BY ONLY <1>10, <1>12, <2>1, <2>4 DEF Encodes, g, r, x, y
<1> QED
  BY ONLY <1>1, <1>13

(* What the decoder makes of that: whole groups with their signs, and the  *)
(* bytes that remain as they are.                                          *)
SignedGroups(b) ==
  [i \in 1 .. (Len(b) \div 3) |-> Signed(b[3 * i - 2], b[3 * i - 1], b[3 * i])]

LastBytes(b) ==
  CASE Len(b) % 3 = 0 -> <<>>
    [] Len(b) % 3 = 1 -> <<b[Len(b)]>>
    [] Len(b) % 3 = 2 -> <<b[Len(b) - 1], b[Len(b)]>>

(* The decoder's bytes, by their places.                                   *)
Decodes(b, d) ==
  /\ d \in Seq(Bytes) /\ Len(d) = Len(b)
  /\ \A i \in 1 .. (Len(b) \div 3) :
       /\ d[3 * i - 2] = Signed(b[3 * i - 2], b[3 * i - 1], b[3 * i])[1]
       /\ d[3 * i - 1] = Signed(b[3 * i - 2], b[3 * i - 1], b[3 * i])[2]
       /\ d[3 * i] = b[3 * i]
  /\ \A j \in 3 * (Len(b) \div 3) + 1 .. Len(b) : d[j] = b[j]

LEMMA DecodedBytes ==
  ASSUME NEW b, b \in Seq(Bytes), Len(b) >= 2
  PROVE  Decodes(b, FlattenSeq(SignedGroups(b)) \o LastBytes(b))
<1> DEFINE n == Len(b)
           g == n \div 3
           r == n % 3
           F == SignedGroups(b)
           flat == FlattenSeq(F)
           rest == LastBytes(b)
           d == flat \o rest
<1>1. /\ n \in Nat /\ n >= 2 /\ g \in Nat /\ r \in {0, 1, 2} /\ n = 3 * g + r
  <2>1. n \in Nat /\ n >= 2
    OBVIOUS
  <2> HIDE DEF n
  <2> QED
    BY <2>1
<1>2. \A j \in 1 .. n : b[j] \in Bytes
  BY ElementOfSeq
<1>3. /\ F = [i \in 1 .. g |-> Signed(b[3 * i - 2], b[3 * i - 1], b[3 * i])]
      /\ rest = CASE r = 0 -> <<>> [] r = 1 -> <<b[n]>> [] r = 2 -> <<b[n - 1], b[n]>>
  BY DEF SignedGroups, LastBytes
<1> HIDE DEF n, g, r, F, rest
<1>4. ASSUME NEW i \in 1 .. g
      PROVE  /\ F[i] \in Seq(Bytes) /\ Len(F[i]) = 3 /\ DOMAIN F[i] = 1 .. 3
             /\ F[i][1] = Signed(b[3 * i - 2], b[3 * i - 1], b[3 * i])[1]
             /\ F[i][2] = Signed(b[3 * i - 2], b[3 * i - 1], b[3 * i])[2]
             /\ F[i][3] = b[3 * i]
  <2> DEFINE x == b[3 * i - 2]
             y == b[3 * i - 1]
             z == b[3 * i]
             u == IF y >= 128 \/ z >= 128 THEN 255 ELSE x
             v == IF z >= 128 THEN 255 ELSE y
  <2>1. x \in Bytes /\ y \in Bytes /\ z \in Bytes
    <3>1. 3 * i - 2 \in 1 .. n /\ 3 * i - 1 \in 1 .. n /\ 3 * i \in 1 .. n
      BY ONLY <1>1, i \in 1 .. g
    <3> QED
      BY ONLY <1>2, <3>1
  <2>2. F[i] = Signed(x, y, z)
    BY ONLY <1>3, i \in 1 .. g
  <2> HIDE DEF x, y, z
  <2>3. u \in Bytes /\ v \in Bytes
    BY ONLY <2>1 DEF Bytes
  <2>4. Signed(x, y, z) = <<u, v, z>>
    BY ONLY DEF Signed
  <2> HIDE DEF u, v
  <2>5. /\ <<u, v, z>> \in Seq(Bytes) /\ Len(<<u, v, z>>) = 3 /\ DOMAIN <<u, v, z>> = 1 .. 3
    BY ONLY <2>1, <2>3
  <2>6. Signed(x, y, z)[3] = z
    BY ONLY <2>4
  <2> QED
    BY ONLY <2>2, <2>4, <2>5, <2>6 DEF x, y, z
<1>5. Row(flat, F, Bytes, 3, g)
  <2>1. F \in [1 .. g -> Seq(Bytes)]
    BY ONLY <1>3, <1>4
  <2>2. F \in Seq(Seq(Bytes)) /\ Len(F) = g
    BY ONLY <1>1, <2>1
  <2>3. Groups(F, Bytes, 3, g)
    BY ONLY <1>4, <2>2 DEF Groups
  <2> HIDE DEF flat
  <2>4. 3 \in {3, 4}
    OBVIOUS
  <2> QED
    BY ONLY <1>1, <2>3, <2>4, FlattenRow DEF flat
<1> HIDE DEF flat
<1>6. flat \in Seq(Bytes) /\ Len(flat) = 3 * g
  BY ONLY <1>5 DEF Row
<1>7. \A i \in 1 .. g : \A p \in 1 .. 3 : flat[3 * (i - 1) + p] = F[i][p]
  BY ONLY <1>5 DEF Row
<1>8. /\ rest \in Seq(Bytes) /\ Len(rest) = r
      /\ \A p \in 1 .. r : rest[p] = b[3 * g + p]
  <2>1. CASE r = 0
    BY ONLY <1>3, <2>1, EmptySeq
  <2>2. CASE r = 1
    <3> DEFINE x == b[n]
    <3>1. x \in Bytes /\ x = b[3 * g + 1]
      BY ONLY <1>1, <1>2, <2>2
    <3>2. rest = <<x>>
      BY ONLY <1>3, <2>2
    <3> HIDE DEF x
    <3> QED
      BY ONLY <2>2, <3>1, <3>2
  <2>3. CASE r = 2
    <3> DEFINE x == b[n - 1]
               y == b[n]
    <3>1. x \in Bytes /\ x = b[3 * g + 1] /\ y \in Bytes /\ y = b[3 * g + 2]
      <4>1. n - 1 \in 1 .. n /\ n \in 1 .. n /\ n - 1 = 3 * g + 1 /\ n = 3 * g + 2
        BY ONLY <1>1, <2>3
      <4> QED
        BY ONLY <1>2, <4>1
    <3>2. rest = <<x, y>>
      BY ONLY <1>3, <2>3
    <3> HIDE DEF x, y
    <3> QED
      BY ONLY <2>3, <3>1, <3>2
  <2> QED
    BY ONLY <1>1, <2>1, <2>2, <2>3
<1>9. /\ d \in Seq(Bytes) /\ Len(d) = n
      /\ \A j \in 1 .. n : d[j] = IF j <= 3 * g THEN flat[j] ELSE rest[j - 3 * g]
  <2>1. /\ d \in Seq(Bytes) /\ Len(d) = Len(flat) + Len(rest)
        /\ \A j \in 1 .. Len(flat) + Len(rest) :
             d[j] = IF j <= Len(flat) THEN flat[j] ELSE rest[j - Len(flat)]
    BY ONLY <1>6, <1>8, ConcatProperties
  <2>2. Len(flat) + Len(rest) = n
    BY ONLY <1>1, <1>6, <1>8
  <2> HIDE DEF d
  <2> QED
    BY ONLY <1>6, <2>1, <2>2
<1>d. /\ Len(d) = n
      /\ \A j \in 1 .. n : d[j] = IF j <= 3 * g THEN flat[j] ELSE rest[j - 3 * g]
  BY ONLY <1>9
<1> HIDE DEF d
<1>10. ASSUME NEW i \in 1 .. g
       PROVE  /\ d[3 * i - 2] = Signed(b[3 * i - 2], b[3 * i - 1], b[3 * i])[1]
              /\ d[3 * i - 1] = Signed(b[3 * i - 2], b[3 * i - 1], b[3 * i])[2]
              /\ d[3 * i] = b[3 * i]
  <2>1. /\ 3 * (i - 1) + 1 = 3 * i - 2 /\ 3 * (i - 1) + 2 = 3 * i - 1 /\ 3 * (i - 1) + 3 = 3 * i
        /\ 3 * i - 2 \in 1 .. n /\ 3 * i - 1 \in 1 .. n /\ 3 * i \in 1 .. n
        /\ 3 * i - 2 <= 3 * g /\ 3 * i - 1 <= 3 * g /\ 3 * i <= 3 * g
    BY ONLY <1>1, i \in 1 .. g
  <2>2. d[3 * i - 2] = flat[3 * i - 2] /\ d[3 * i - 1] = flat[3 * i - 1] /\ d[3 * i] = flat[3 * i]
    BY ONLY <1>d, <2>1
  <2>3. /\ flat[3 * (i - 1) + 1] = F[i][1] /\ flat[3 * (i - 1) + 2] = F[i][2]
        /\ flat[3 * (i - 1) + 3] = F[i][3]
    <3>1. 1 \in 1 .. 3 /\ 2 \in 1 .. 3 /\ 3 \in 1 .. 3
      OBVIOUS
    <3> QED
      BY ONLY <1>7, <3>1, i \in 1 .. g
  <2>4. /\ F[i][1] = Signed(b[3 * i - 2], b[3 * i - 1], b[3 * i])[1]
        /\ F[i][2] = Signed(b[3 * i - 2], b[3 * i - 1], b[3 * i])[2]
        /\ F[i][3] = b[3 * i]
    BY ONLY <1>4, i \in 1 .. g
  <2> QED
    BY ONLY <2>1, <2>2, <2>3, <2>4
<1>11. ASSUME NEW j \in 3 * g + 1 .. n PROVE d[j] = b[j]
  <2> DEFINE p == j - 3 * g
  <2>1. j \in 1 .. n /\ ~ (j <= 3 * g) /\ p \in 1 .. r /\ 3 * g + p = j
    BY ONLY <1>1, j \in 3 * g + 1 .. n
  <2>2. d[j] = rest[p]
    BY ONLY <1>d, <2>1
  <2> HIDE DEF p
  <2>3. rest[p] = b[3 * g + p]
    BY ONLY <1>8, <2>1
  <2> QED
    BY ONLY <2>1, <2>2, <2>3
<1>12. d \in Seq(Bytes)
  BY ONLY <1>9
<1>13. Decodes(b, d)
  BY ONLY <1>d, <1>10, <1>11, <1>12 DEF Decodes, g, n
<1> QED
  BY ONLY <1>13 DEF d, flat, F, rest

LEMMA FirstOutsideIs ==
  ASSUME NEW t, NEW l \in Nat, Len(t) = l, NEW m \in 1 .. l, \A i \in 1 .. l : t[i] \in 0 .. 64,
         t[m] >= PAD, \A i \in 1 .. m - 1 : t[i] < PAD
  PROVE  FirstOutside(t) = m /\ Outside(t) # {}
<1>1. m \in Outside(t) /\ Outside(t) \subseteq 1 .. l
  <2>0. t[m] \in 0 .. 64
    OBVIOUS
  <2>1. ~Coded(t[m])
    BY ONLY <2>0, t[m] >= PAD DEF Coded, PAD
  <2> QED
    BY <2>1 DEF Outside
<1>2. ASSUME NEW j \in Outside(t) PROVE m <= j
  <2>1. j \in 1 .. l /\ ~Coded(t[j]) /\ t[j] \in 0 .. 64
    BY <1>2 DEF Outside
  <2>2. CASE j \in 1 .. m - 1
    BY ONLY <2>1, <2>2, \A i \in 1 .. m - 1 : t[i] < PAD DEF Coded, PAD
  <2>3. CASE j \notin 1 .. m - 1
    BY ONLY <2>1, <2>3, m \in 1 .. l, l \in Nat
  <2> QED
    BY <2>2, <2>3
<1>3. \A j \in Outside(t) : (\A i \in Outside(t) : j <= i) => j = m
  <2> SUFFICES ASSUME NEW j \in Outside(t), j <= m PROVE j = m
    BY <1>1
  <2>1. j \in Int /\ m \in Int /\ m <= j
    BY <1>1, <1>2
  <2> QED
    BY ONLY <2>1, j <= m
<1>4. FirstOutside(t) = m
  BY <1>1, <1>2, <1>3 DEF FirstOutside
<1> QED
  BY <1>1, <1>4

LEMMA DecodedIs ==
  ASSUME NEW b, b \in Seq(Bytes), Len(b) >= 2, NEW t, Encodes(b, t)
  PROVE  base64_decode(t) = FlattenSeq(SignedGroups(b)) \o LastBytes(b)
<1> DEFINE n == Len(b)
           g == n \div 3
           r == n % 3
           x == b[n - 1]
           y == b[n]
           l == Len(t)
           stop == Quartets(t).stop
           last == SubSeq(t, l - 3, l)
           dlen == base64_decoded_len(t)
           rest == Rest(t)
<1>1. /\ n \in Nat /\ n >= 2 /\ g \in Nat /\ r \in {0, 1, 2} /\ n = 3 * g + r
  <2>1. n \in Nat /\ n >= 2
    OBVIOUS
  <2> HIDE DEF n
  <2> QED
    BY <2>1
<1>2. x \in 0 .. 255 /\ y \in 0 .. 255
  <2>1. n - 1 \in 1 .. Len(b) /\ n \in 1 .. Len(b)
    BY <1>1
  <2> QED
    BY <2>1, ElementOfSeq DEF Bytes
<1>t. t \in Seq(0 .. 64)
  BY DEF Encodes
<1>3. /\ l = 4 * g + (IF r = 0 THEN 0 ELSE 4)
      /\ \A i \in 1 .. g : \A p \in 1 .. 4 : t[4 * (i - 1) + p] = Group(b, i)[p]
      /\ r = 1 => /\ t[4 * g + 1] = y \div 4 /\ t[4 * g + 2] = (y % 4) * 16
                  /\ t[4 * g + 3] = PAD /\ t[4 * g + 4] = PAD
      /\ r = 2 => /\ t[4 * g + 1] = x \div 4 /\ t[4 * g + 2] = (x % 4) * 16 + y \div 16
                  /\ t[4 * g + 3] = (y % 16) * 4 /\ t[4 * g + 4] = PAD
  BY DEF Encodes
<1>4. \A i \in 1 .. g : Says(Group(b, i), Signed(b[3 * i - 2], b[3 * i - 1], b[3 * i]))
  BY GroupIs
<1>5. \A i \in 1 .. l : t[i] \in 0 .. 64
  BY ONLY <1>t, ElementOfSeq
<1> HIDE DEF g, r, x, y
<1>6. /\ l \in Nat /\ l > 0 /\ l % 4 = 0
      /\ r = 0 => l = 4 * g /\ g > 0
      /\ r # 0 => l = 4 * g + 4
  <2>1. l = 4 * g + (IF r = 0 THEN 0 ELSE 4)
    BY ONLY <1>3
  <2> HIDE DEF n, l
  <2> QED
    BY ONLY <1>1, <2>1
<1> HIDE DEF n, l
<1>7. ASSUME NEW j \in 1 .. 4 * g PROVE t[j] \in 0 .. 63
  <2> DEFINE i == ((j - 1) \div 4) + 1
             p == ((j - 1) % 4) + 1
  <2>1. i \in 1 .. g /\ p \in 1 .. 4 /\ 4 * (i - 1) + p = j
    BY ONLY <1>1, j \in 1 .. 4 * g
  <2> HIDE DEF i, p
  <2>2. t[4 * (i - 1) + p] = Group(b, i)[p]
    BY ONLY <1>3, <2>1
  <2>3. Group(b, i)[p] \in 0 .. 63
    BY ONLY <1>4, <2>1 DEF Says
  <2> QED
    BY ONLY <2>1, <2>2, <2>3
(* The whole quartets end before the first PAD.                            *)
<1>8. /\ (IF Outside(t) = {} THEN l \div 4 ELSE (FirstOutside(t) - 1) \div 4) = g
      /\ stop \in {0, PAD}
  <2>1. stop = IF Outside(t) = {} THEN 0 ELSE t[FirstOutside(t)]
    BY DEF Quartets
  <2> HIDE DEF stop
  <2>2. CASE r = 0
    <3>1. Outside(t) = {}
      <4>1. 1 .. Len(t) = 1 .. 4 * g
        BY ONLY <1>6, <2>2 DEF l
      <4>2. \A j \in 1 .. 4 * g : Coded(t[j])
        BY ONLY <1>1, <1>7 DEF Coded, PAD
      <4> QED
        BY ONLY <4>1, <4>2 DEF Outside
    <3> QED
      BY ONLY <1>1, <1>6, <2>1, <2>2, <3>1
  <2>3. ASSUME NEW m \in 1 .. l, t[m] = PAD, \A j \in 1 .. m - 1 : t[j] < PAD, (m - 1) \div 4 = g
        PROVE  /\ (IF Outside(t) = {} THEN l \div 4 ELSE (FirstOutside(t) - 1) \div 4) = g
               /\ stop \in {0, PAD}
    <3>1. FirstOutside(t) = m /\ Outside(t) # {}
      BY <1>5, <1>6, <2>3, FirstOutsideIs DEF l, PAD
    <3> QED
      BY ONLY <2>1, <2>3, <3>1
  <2>4. CASE r = 1
    <3> DEFINE m == 4 * g + 3
    <3>1. m \in 1 .. l /\ (m - 1) \div 4 = g
      BY ONLY <1>1, <1>6, <2>4
    <3>2. t[4 * g + 1] < PAD /\ t[4 * g + 2] < PAD /\ t[m] = PAD
      BY ONLY <1>1, <1>2, <1>3, <2>4 DEF PAD
    <3>3. ASSUME NEW j \in 1 .. m - 1 PROVE t[j] < PAD
      <4>1. j \in 1 .. 4 * g \/ j = 4 * g + 1 \/ j = 4 * g + 2
        BY <1>1
      <4>2. j \in 1 .. 4 * g => t[j] < PAD
        BY ONLY <1>1, <1>7 DEF PAD
      <4> QED
        BY ONLY <3>2, <4>1, <4>2
    <3> HIDE DEF m
    <3> QED
      BY ONLY <2>3, <3>1, <3>2, <3>3
  <2>5. CASE r = 2
    <3> DEFINE m == 4 * g + 4
    <3>1. m \in 1 .. l /\ (m - 1) \div 4 = g
      BY ONLY <1>1, <1>6, <2>5
    <3>2. /\ t[4 * g + 1] < PAD /\ t[4 * g + 2] < PAD /\ t[4 * g + 3] < PAD
          /\ t[m] = PAD
      BY ONLY <1>1, <1>2, <1>3, <2>5 DEF PAD
    <3>3. ASSUME NEW j \in 1 .. m - 1 PROVE t[j] < PAD
      <4>1. j \in 1 .. 4 * g \/ j = 4 * g + 1 \/ j = 4 * g + 2 \/ j = 4 * g + 3
        BY <1>1
      <4>2. j \in 1 .. 4 * g => t[j] < PAD
        BY ONLY <1>1, <1>7 DEF PAD
      <4> QED
        BY ONLY <3>2, <4>1, <4>2
    <3> HIDE DEF m
    <3> QED
      BY ONLY <2>3, <3>1, <3>2, <3>3
  <2> QED
    BY ONLY <1>1, <2>2, <2>4, <2>5
<1>9. Quartets(t).bytes = FlattenSeq(SignedGroups(b))
  <2> DEFINE whole == IF Outside(t) = {} THEN Len(t) \div 4 ELSE (FirstOutside(t) - 1) \div 4
             bytes(q) == <<t[q - 3] * 4 + t[q - 2] \div 16,
                           (t[q - 2] % 16) * 16 + t[q - 1] \div 4,
                           (t[q - 1] % 4) * 64 + t[q]>>
  <2>1. Quartets(t).bytes = FlattenSeq([i \in 1 .. whole |-> bytes(4 * i)])
    BY DEF Quartets
  <2>2. whole = g
    BY ONLY <1>8 DEF l
  <2>3. ASSUME NEW i \in 1 .. g PROVE bytes(4 * i) = Signed(b[3 * i - 2], b[3 * i - 1], b[3 * i])
    <3> DEFINE h == Group(b, i)
               q == 4 * i
    <3>1. /\ 4 * (i - 1) + 1 = q - 3 /\ 4 * (i - 1) + 2 = q - 2
          /\ 4 * (i - 1) + 3 = q - 1 /\ 4 * (i - 1) + 4 = q
      BY ONLY <1>1, i \in 1 .. g
    <3>2. /\ t[4 * (i - 1) + 1] = h[1] /\ t[4 * (i - 1) + 2] = h[2]
          /\ t[4 * (i - 1) + 3] = h[3] /\ t[4 * (i - 1) + 4] = h[4]
      <4>1. 1 \in 1 .. 4 /\ 2 \in 1 .. 4 /\ 3 \in 1 .. 4 /\ 4 \in 1 .. 4
        OBVIOUS
      <4> QED
        BY ONLY <1>3, <4>1, i \in 1 .. g
    <3> HIDE DEF h, q
    <3>3. t[q - 3] = h[1] /\ t[q - 2] = h[2] /\ t[q - 1] = h[3] /\ t[q] = h[4]
      BY ONLY <3>1, <3>2
    <3>4. bytes(q) = Octets(h[1], h[2], h[3], h[4])
      BY ONLY <3>3 DEF Octets
    <3>5. Octets(h[1], h[2], h[3], h[4]) = Signed(b[3 * i - 2], b[3 * i - 1], b[3 * i])
      BY ONLY <1>4, i \in 1 .. g DEF Says, h
    <3> QED
      BY ONLY <3>4, <3>5 DEF q
  <2>4. SignedGroups(b) = [i \in 1 .. g |-> Signed(b[3 * i - 2], b[3 * i - 1], b[3 * i])]
    BY DEF SignedGroups, g, n
  <2> HIDE DEF bytes, whole
  <2>5. [i \in 1 .. whole |-> bytes(4 * i)] = SignedGroups(b)
    BY ONLY <2>2, <2>3, <2>4
  <2> QED
    BY ONLY <2>1, <2>5
(* The last quartet.                                                       *)
<1>10. dlen = n /\ dlen % 3 = r
  <2>1. CASE r = 0
    <3>1. l \in 1 .. 4 * g
      BY ONLY <1>1, <1>6, <2>1
    <3>2. t[l] < PAD
      BY ONLY <1>1, <1>7, <3>1 DEF PAD
    <3>3. dlen = 3 * (l \div 4)
      BY ONLY <1>6, <3>2 DEF dlen, base64_decoded_len, l, PAD
    <3> QED
      BY ONLY <1>1, <1>6, <2>1, <3>3
  <2>2. CASE r = 1
    <3>1. l - 1 = 4 * g + 3 /\ l - 2 = 4 * g + 2 /\ l = 4 * g + 4 /\ l \div 4 = g + 1
      BY ONLY <1>1, <1>6, <2>2
    <3>2. t[l] = PAD /\ t[l - 1] = PAD /\ t[l - 2] < PAD
      BY ONLY <1>2, <1>3, <2>2, <3>1 DEF PAD
    <3>3. dlen = 3 * (l \div 4) - 2
      BY ONLY <1>6, <3>2 DEF dlen, base64_decoded_len, l, PAD
    <3> QED
      BY ONLY <1>1, <2>2, <3>1, <3>3
  <2>3. CASE r = 2
    <3>1. l - 1 = 4 * g + 3 /\ l = 4 * g + 4 /\ l \div 4 = g + 1
      BY ONLY <1>1, <1>6, <2>3
    <3>2. t[l] = PAD /\ t[l - 1] < PAD
      BY ONLY <1>2, <1>3, <2>3, <3>1 DEF PAD
    <3>3. dlen = 3 * (l \div 4) - 1
      BY ONLY <1>6, <3>2 DEF dlen, base64_decoded_len, l, PAD
    <3> QED
      BY ONLY <1>1, <2>3, <3>1, <3>3
  <2> QED
    BY ONLY <1>1, <2>1, <2>2, <2>3
<1>11. rest = LastBytes(b)
  <2>1. LastBytes(b) = CASE r = 0 -> <<>> [] r = 1 -> <<y>> [] r = 2 -> <<x, y>>
    BY DEF LastBytes, r, x, y, n
  <2>2. r # 0 => \A p \in 1 .. 4 : last[p] = t[4 * g + p]
    <3> SUFFICES ASSUME r # 0, NEW p \in 1 .. 4 PROVE last[p] = t[4 * g + p]
      OBVIOUS
    <3>1. /\ l - 3 \in Int /\ l \in Int /\ p \in 1 .. l - (l - 3) + 1
          /\ (l - 3) + p - 1 = 4 * g + p
          /\ \A i \in l - 3 .. l : i \in 1 .. l
      BY ONLY <1>1, <1>6, r # 0, p \in 1 .. 4
    <3>2. \A i \in l - 3 .. l : t[i] \in 0 .. 64
      BY ONLY <1>5, <3>1
    <3>3. \A i \in 1 .. l - (l - 3) + 1 : SubSeq(t, l - 3, l)[i] = t[(l - 3) + i - 1]
      BY ONLY <3>1, <3>2, SubSeqProperties
    <3>4. last[p] = t[(l - 3) + p - 1]
      BY ONLY <3>1, <3>3 DEF last
    <3> QED
      BY ONLY <3>1, <3>4
  <2>3. 1 \in 1 .. 4 /\ 2 \in 1 .. 4 /\ 3 \in 1 .. 4 /\ 4 \in 1 .. 4
    OBVIOUS
  <2> HIDE DEF last
  <2>4. r # 0 => /\ last[1] = t[4 * g + 1] /\ last[2] = t[4 * g + 2]
                 /\ last[3] = t[4 * g + 3] /\ last[4] = t[4 * g + 4]
    BY ONLY <2>2, <2>3
  <2>5. rest = Remainder(last, r)
    BY ONLY <1>10 DEF rest, Rest, last, l, dlen
  <2>6. CASE r = 0
    BY ONLY <2>1, <2>5, <2>6 DEF Remainder
  <2>7. CASE r = 1
    <3>1. last[1] = y \div 4 /\ last[2] = (y % 4) * 16 /\ last[3] = PAD /\ last[4] = PAD
      BY ONLY <1>3, <2>4, <2>7
    <3>2. /\ y \div 4 < PAD /\ (y % 4) * 16 < PAD
          /\ (y \div 4) * 4 + ((y % 4) * 16) \div 16 = y
      BY ONLY <1>2 DEF PAD
    <3>3. Remainder(last, 1) = <<last[1] * 4 + last[2] \div 16>>
      <4>1. Coded(last[1]) /\ Coded(last[2])
        BY ONLY <1>2, <3>1, <3>2 DEF Coded, PAD
      <4> QED
        BY ONLY <3>1, <4>1 DEF Remainder
    <3>4. Remainder(last, 1) = <<y>>
      BY ONLY <3>1, <3>2, <3>3
    <3> QED
      BY ONLY <2>1, <2>5, <2>7, <3>4
  <2>8. CASE r = 2
    <3>1. /\ last[1] = x \div 4 /\ last[2] = (x % 4) * 16 + y \div 16
          /\ last[3] = (y % 16) * 4 /\ last[4] = PAD
      BY ONLY <1>3, <2>4, <2>8
    <3>2. /\ x \div 4 < PAD /\ (x % 4) * 16 + y \div 16 < PAD /\ (y % 16) * 4 < PAD
          /\ (x \div 4) * 4 + ((x % 4) * 16 + y \div 16) \div 16 = x
          /\ (((x % 4) * 16 + y \div 16) % 16) * 16 + ((y % 16) * 4) \div 4 = y
      BY ONLY <1>2 DEF PAD
    <3>3. Remainder(last, 2)
            = <<last[1] * 4 + last[2] \div 16, (last[2] % 16) * 16 + last[3] \div 4>>
      <4>1. Coded(last[1]) /\ Coded(last[2]) /\ Coded(last[3])
        BY ONLY <1>2, <3>1, <3>2 DEF Coded, PAD
      <4> QED
        BY ONLY <3>1, <4>1 DEF Remainder
    <3>4. Remainder(last, 2) = <<x, y>>
      BY ONLY <3>1, <3>2, <3>3
    <3> QED
      BY ONLY <2>1, <2>5, <2>8, <3>4
  <2> QED
    BY ONLY <1>1, <2>6, <2>7, <2>8
<1>12. r # 0 => LastBytes(b) # <<>>
  <2>1. LastBytes(b) = CASE r = 0 -> <<>> [] r = 1 -> <<y>> [] r = 2 -> <<x, y>>
    BY DEF LastBytes, r, x, y, n
  <2> QED
    BY ONLY <1>1, <2>1
<1>13. t # <<>>
  <2>1. Len(<<>>) = 0
    OBVIOUS
  <2> QED
    BY ONLY <1>6, <2>1 DEF l
<1>14. base64_decode(t) =
         IF t = <<>> \/ l % 4 # 0 THEN Nothing
         ELSE IF Len(Stored(t)) > dlen THEN Overrun
         ELSE IF stop \notin {0, PAD} THEN Nothing
         ELSE IF dlen % 3 # 0 /\ rest = <<>> THEN Nothing
         ELSE Stored(t)
  BY DEF base64_decode, l
<1>15. Stored(t) = FlattenSeq(SignedGroups(b)) \o LastBytes(b)
  BY ONLY <1>9, <1>11 DEF Stored, rest
<1>16. ~ (Len(Stored(t)) > dlen)
  <2>1. Len(FlattenSeq(SignedGroups(b)) \o LastBytes(b)) = n
    BY DecodedBytes DEF Decodes, n
  <2> HIDE DEF dlen
  <2> QED
    BY ONLY <1>1, <1>10, <1>15, <2>1
<1> HIDE DEF stop, dlen, rest
<1> QED
  BY ONLY <1>6, <1>8, <1>10, <1>11, <1>12, <1>13, <1>14, <1>15, <1>16

LEMMA LengthIs ==
  ASSUME NEW b, b \in Seq(Bytes), Len(b) >= 2, NEW t, Encodes(b, t)
  PROVE  Len(t) = base64_encoded_len(Len(b))
<1> DEFINE n == Len(b)
           l == Len(t)
<1>1. n \in Nat
  OBVIOUS
<1>2. l = 4 * (n \div 3) + (IF n % 3 = 0 THEN 0 ELSE 4)
  BY DEF Encodes
<1> HIDE DEF n, l
<1>3. 4 * (n \div 3) + (IF n % 3 = 0 THEN 0 ELSE 4) = ((n + 2) \div 3) * 4
  BY ONLY <1>1
<1> QED
  BY ONLY <1>2, <1>3 DEF base64_encoded_len, n, l

(* base64.c:40-191: for every text of two bytes or more the encoding has   *)
(* the length that was made room for, and decoding it gives back the text  *)
(* just where the sign of a char changes nothing: no whole group has a     *)
(* byte from 128 up, unless there are only ones before it.                 *)
THEOREM Base64RoundTrip ==
  ASSUME NEW b, b \in Seq(Bytes), Len(b) >= 2
  PROVE  /\ Len(base64_encode(b)) = base64_encoded_len(Len(b))
         /\ base64_decode(base64_encode(b)) = b <=> SignIsHarmless(b)
<1> DEFINE n == Len(b)
           g == n \div 3
           d == FlattenSeq(SignedGroups(b)) \o LastBytes(b)
<1>1. n \in Nat /\ g \in Nat /\ 3 * g <= n
  <2>1. n \in Nat
    OBVIOUS
  <2> HIDE DEF n
  <2> QED
    BY <2>1
<1>2. \A j \in 1 .. n : b[j] \in Bytes
  BY ElementOfSeq
<1>3. Encodes(b, base64_encode(b))
  BY EncodedIs
<1>4. Len(base64_encode(b)) = base64_encoded_len(Len(b))
  BY <1>3, LengthIs
<1>5. base64_decode(base64_encode(b)) = d
  BY <1>3, DecodedIs
<1>6. Decodes(b, d)
  BY DecodedBytes
<1>7. SignIsHarmless(b) <=> \A k \in 0 .. g - 1 : \A p \in 2 .. 3 :
                              b[3 * k + p] >= 128 => \A q \in 1 .. p - 1 : b[3 * k + q] = 255
  BY DEF SignIsHarmless
<1>8. /\ \A i \in 1 .. g :
           /\ d[3 * i - 2] = Signed(b[3 * i - 2], b[3 * i - 1], b[3 * i])[1]
           /\ d[3 * i - 1] = Signed(b[3 * i - 2], b[3 * i - 1], b[3 * i])[2]
           /\ d[3 * i] = b[3 * i]
      /\ \A j \in 3 * g + 1 .. n : d[j] = b[j]
  BY <1>6 DEF Decodes
<1>9. d \in Seq(Bytes) /\ Len(d) = n
  BY <1>6 DEF Decodes
<1> HIDE DEF n, g, d
(* One group.                                                              *)
<1> DEFINE Harmless(i) == /\ b[3 * i - 1] >= 128 => b[3 * i - 2] = 255
                          /\ b[3 * i] >= 128 => b[3 * i - 2] = 255 /\ b[3 * i - 1] = 255
           Kept(i) == d[3 * i - 2] = b[3 * i - 2] /\ d[3 * i - 1] = b[3 * i - 1]
                        /\ d[3 * i] = b[3 * i]
<1>10. ASSUME NEW i \in 1 .. g PROVE Kept(i) <=> Harmless(i)
  <2> DEFINE x == b[3 * i - 2]
             y == b[3 * i - 1]
             z == b[3 * i]
  <2>1. x \in Bytes /\ y \in Bytes /\ z \in Bytes
    <3>1. 3 * i - 2 \in 1 .. n /\ 3 * i - 1 \in 1 .. n /\ 3 * i \in 1 .. n
      BY ONLY <1>1, i \in 1 .. g
    <3> QED
      BY ONLY <1>2, <3>1
  <2>2. d[3 * i - 2] = Signed(x, y, z)[1] /\ d[3 * i - 1] = Signed(x, y, z)[2] /\ d[3 * i] = z
    BY ONLY <1>8, i \in 1 .. g
  <2> HIDE DEF x, y, z
  <2>3. /\ Signed(x, y, z)[1] = IF y >= 128 \/ z >= 128 THEN 255 ELSE x
        /\ Signed(x, y, z)[2] = IF z >= 128 THEN 255 ELSE y
    BY ONLY DEF Signed
  <2>4. Signed(x, y, z)[1] = x /\ Signed(x, y, z)[2] = y
          <=> (y >= 128 => x = 255) /\ (z >= 128 => x = 255 /\ y = 255)
    BY ONLY <2>1, <2>3 DEF Bytes
  <2>5. Kept(i) <=> Signed(x, y, z)[1] = x /\ Signed(x, y, z)[2] = y
    BY ONLY <2>2 DEF x, y, z
  <2> QED
    BY ONLY <2>4, <2>5 DEF x, y, z
<1>11. SignIsHarmless(b) <=> \A i \in 1 .. g : Harmless(i)
  <2>1. ASSUME NEW i \in 1 .. g
        PROVE  (\A p \in 2 .. 3 : b[3 * (i - 1) + p] >= 128 =>
                                    \A q \in 1 .. p - 1 : b[3 * (i - 1) + q] = 255)
                 <=> Harmless(i)
    <3> DEFINE k == i - 1
               A(p) == b[3 * k + p] >= 128 => \A q \in 1 .. p - 1 : b[3 * k + q] = 255
    <3>1. 3 * k + 1 = 3 * i - 2 /\ 3 * k + 2 = 3 * i - 1 /\ 3 * k + 3 = 3 * i
      BY ONLY <1>1, i \in 1 .. g
    <3> HIDE DEF k
    <3>2. 1 .. 2 - 1 = {1} /\ 1 .. 3 - 1 = {1, 2} /\ 2 .. 3 = {2, 3}
      OBVIOUS
    <3>3. A(2) <=> (b[3 * k + 2] >= 128 => b[3 * k + 1] = 255)
      BY ONLY <3>2
    <3>4. A(3) <=> (b[3 * k + 3] >= 128 => b[3 * k + 1] = 255 /\ b[3 * k + 2] = 255)
      BY ONLY <3>2
    <3> HIDE DEF A
    <3>5. (\A p \in 2 .. 3 : A(p)) <=> A(2) /\ A(3)
      BY ONLY <3>2
    <3>6. (\A p \in 2 .. 3 : A(p)) <=> Harmless(i)
      BY ONLY <3>1, <3>3, <3>4, <3>5
    <3> QED
      BY ONLY <3>6 DEF A, k
  <2> DEFINE H(k) == \A p \in 2 .. 3 : b[3 * k + p] >= 128 =>
                                         \A q \in 1 .. p - 1 : b[3 * k + q] = 255
  <2>2. SignIsHarmless(b) <=> \A k \in 0 .. g - 1 : H(k)
    BY ONLY <1>7
  <2>3. \A i \in 1 .. g : H(i - 1) <=> Harmless(i)
    BY ONLY <2>1
  <2> HIDE DEF H, Harmless
  <2>4. /\ \A k \in 0 .. g - 1 : k + 1 \in 1 .. g /\ (k + 1) - 1 = k
        /\ \A i \in 1 .. g : i - 1 \in 0 .. g - 1
    BY ONLY <1>1
  <2>5. ASSUME \A i \in 1 .. g : Harmless(i), NEW k \in 0 .. g - 1 PROVE H(k)
    <3>1. H((k + 1) - 1)
      BY ONLY <2>3, <2>4, <2>5
    <3> QED
      BY ONLY <2>4, <3>1, k \in 0 .. g - 1
  <2>6. ASSUME \A k \in 0 .. g - 1 : H(k), NEW i \in 1 .. g PROVE Harmless(i)
    BY ONLY <2>3, <2>4, <2>6
  <2> QED
    BY ONLY <2>2, <2>5, <2>6
<1>12. d = b <=> \A i \in 1 .. g : Kept(i)
  <2>1. ASSUME \A i \in 1 .. g : Kept(i) PROVE d = b
    <3>1. ASSUME NEW j \in 1 .. n PROVE d[j] = b[j]
      <4>1. CASE j \in 1 .. 3 * g
        <5> DEFINE i == ((j - 1) \div 3) + 1
        <5>1. i \in 1 .. g /\ (j = 3 * i - 2 \/ j = 3 * i - 1 \/ j = 3 * i)
          BY ONLY <1>1, <4>1
        <5> HIDE DEF i
        <5>2. Kept(i)
          BY ONLY <2>1, <5>1
        <5> QED
          BY ONLY <5>1, <5>2
      <4>2. CASE j \notin 1 .. 3 * g
        <5>1. j \in 3 * g + 1 .. n
          BY ONLY <1>1, <4>2, j \in 1 .. n
        <5> QED
          BY ONLY <1>8, <5>1
      <4> QED
        BY <4>1, <4>2
    <3>2. b \in Seq(Bytes) /\ Len(b) = n
      BY DEF n
    <3> QED
      BY ONLY <1>9, <3>1, <3>2, SeqEqual
  <2> QED
    BY ONLY <2>1
<1> HIDE DEF Harmless, Kept
<1>13. d = b <=> SignIsHarmless(b)
  BY ONLY <1>10, <1>11, <1>12
<1> QED
  BY ONLY <1>4, <1>5, <1>13

-----------------------------------------------------------------------------
(* The room of the decoder.                                                *)

LEMMA FirstOutsideLeast ==
  ASSUME NEW t, NEW l \in Nat, Len(t) = l, Outside(t) # {}
  PROVE  /\ FirstOutside(t) \in 1 .. l /\ ~Coded(t[FirstOutside(t)])
         /\ \A j \in 1 .. FirstOutside(t) - 1 : Coded(t[j])
<1> DEFINE m == FirstOutside(t)
<1>1. Outside(t) = {i \in 1 .. l : ~Coded(t[i])}
  BY DEF Outside
<1>2. Outside(t) \in SUBSET Nat /\ \A i \in Outside(t) : i \in Nat
  BY <1>1
<1>3. PICK x \in Outside(t) : \A y \in Outside(t) : ~ (y < x)
  BY <1>2, LeastNumber
<1>4. \A y \in Outside(t) : x <= y
  BY <1>2, <1>3
<1>5. m \in Outside(t) /\ \A y \in Outside(t) : m <= y
  BY <1>3, <1>4 DEF FirstOutside
<1> HIDE DEF m
<1>6. m \in 1 .. l /\ ~Coded(t[m])
  BY <1>1, <1>5
<1>7. ASSUME NEW j \in 1 .. m - 1 PROVE Coded(t[j])
  <2>1. j \in 1 .. l /\ ~ (m <= j)
    BY <1>6
  <2> QED
    BY <1>1, <1>5, <2>1
<1> QED
  BY <1>6, <1>7 DEF m

(* w whole quartets come before the first character outside the alphabet.  *)
WholeOf(t, w) ==
  /\ w \in 0 .. (Len(t) \div 4)
  /\ \A j \in 1 .. 4 * w : Coded(t[j])
  /\ w < Len(t) \div 4 => \E p \in 1 .. 4 : ~Coded(t[4 * w + p])

LEMMA QuartetsLen ==
  ASSUME NEW t, t \in Seq(Int), Len(t) % 4 = 0
  PROVE  \E w \in Nat : /\ WholeOf(t, w)
                        /\ Quartets(t).bytes \in Seq(Int) /\ Len(Quartets(t).bytes) = 3 * w
<1> DEFINE l == Len(t)
           m == FirstOutside(t)
           w == IF Outside(t) = {} THEN l \div 4 ELSE (m - 1) \div 4
<1>1. l \in Nat /\ l % 4 = 0 /\ \A j \in 1 .. l : t[j] \in Int
  BY ElementOfSeq
<1>2. Outside(t) # {} => /\ m \in 1 .. l /\ ~Coded(t[m])
                         /\ \A j \in 1 .. m - 1 : Coded(t[j])
  BY <1>1, FirstOutsideLeast
<1>3. Outside(t) = {} => \A j \in 1 .. l : Coded(t[j])
  BY DEF Outside
<1>4. Quartets(t).bytes = FlattenSeq([i \in 1 .. w |->
        <<t[4 * i - 3] * 4 + t[4 * i - 2] \div 16,
          (t[4 * i - 2] % 16) * 16 + t[4 * i - 1] \div 4,
          (t[4 * i - 1] % 4) * 64 + t[4 * i]>>])
  BY DEF Quartets
<1> HIDE DEF m
<1>5. /\ w \in 0 .. (l \div 4)
      /\ \A j \in 1 .. 4 * w : Coded(t[j])
      /\ w < l \div 4 => \E p \in 1 .. 4 : ~Coded(t[4 * w + p])
  <2> HIDE DEF l
  <2>1. CASE Outside(t) = {}
    <3>1. w = l \div 4
      BY ONLY <2>1
    <3>2. l \div 4 \in Nat /\ 4 * (l \div 4) = l
      BY ONLY <1>1
    <3> HIDE DEF w
    <3> QED
      BY ONLY <1>3, <2>1, <3>1, <3>2
  <2>2. CASE Outside(t) # {}
    <3>1. w = (m - 1) \div 4
      BY ONLY <2>2
    <3> DEFINE p == ((m - 1) % 4) + 1
    <3>2. /\ w \in 0 .. (l \div 4) /\ 4 * w <= m - 1
          /\ p \in 1 .. 4 /\ 4 * w + p = m
      BY ONLY <1>1, <1>2, <2>2, <3>1
    <3> HIDE DEF w, p
    <3>3. \A j \in 1 .. 4 * w : j \in 1 .. m - 1
      BY ONLY <1>1, <1>2, <2>2, <3>2
    <3> QED
      BY ONLY <1>2, <2>2, <3>2, <3>3
  <2> QED
    BY <2>1, <2>2
<1> HIDE DEF w
<1>6. w \in Nat /\ WholeOf(t, w)
  BY <1>1, <1>5 DEF WholeOf
<1> DEFINE F == [i \in 1 .. w |-> <<t[4 * i - 3] * 4 + t[4 * i - 2] \div 16,
                                    (t[4 * i - 2] % 16) * 16 + t[4 * i - 1] \div 4,
                                    (t[4 * i - 1] % 4) * 64 + t[4 * i]>>]
<1>7. ASSUME NEW i \in 1 .. w PROVE F[i] \in Seq(Int) /\ Len(F[i]) = 3
  <2>1. /\ 4 * i - 3 \in 1 .. l /\ 4 * i - 2 \in 1 .. l
        /\ 4 * i - 1 \in 1 .. l /\ 4 * i \in 1 .. l
    BY ONLY <1>1, <1>5, i \in 1 .. w
  <2>2. /\ t[4 * i - 3] \in Int /\ t[4 * i - 2] \in Int
        /\ t[4 * i - 1] \in Int /\ t[4 * i] \in Int
    BY ONLY <1>1, <2>1
  <2> DEFINE c1 == t[4 * i - 3]
             c2 == t[4 * i - 2]
             c3 == t[4 * i - 1]
             c4 == t[4 * i]
  <2>3. F[i] = <<c1 * 4 + c2 \div 16, (c2 % 16) * 16 + c3 \div 4, (c3 % 4) * 64 + c4>>
    BY ONLY i \in 1 .. w
  <2>4. c1 \in Int /\ c2 \in Int /\ c3 \in Int /\ c4 \in Int
    BY ONLY <2>2
  <2> HIDE DEF F, c1, c2, c3, c4
  <2>5. /\ c1 * 4 + c2 \div 16 \in Int /\ (c2 % 16) * 16 + c3 \div 4 \in Int
        /\ (c3 % 4) * 64 + c4 \in Int
    BY ONLY <2>4
  <2> QED
    BY ONLY <2>3, <2>5
<1>8. Groups(F, Int, 3, w)
  BY ONLY <1>6, <1>7 DEF Groups
<1>9. Row(FlattenSeq(F), F, Int, 3, w)
  BY ONLY <1>6, <1>8, FlattenRow
<1>10. Quartets(t).bytes = FlattenSeq(F)
  BY ONLY <1>4
<1> HIDE DEF F
<1> QED
  BY ONLY <1>6, <1>9, <1>10 DEF Row

LEMMA RestLen ==
  ASSUME NEW t, NEW k, base64_decoded_len(t) % 3 = k
  PROVE  /\ Rest(t) \in Seq(Int)
         /\ Len(Rest(t)) = 0 \/ (k = 1 /\ Len(Rest(t)) = 1) \/ (k = 2 /\ Len(Rest(t)) = 2)
<1> DEFINE q == SubSeq(t, Len(t) - 3, Len(t))
           rest == Remainder(q, k)
<1>1. Rest(t) = rest
  BY DEF Rest
<1> HIDE DEF q
<1>2. \/ rest = <<>>
      \/ /\ k = 1 /\ Coded(q[1]) /\ Coded(q[2])
         /\ rest = <<q[1] * 4 + q[2] \div 16>>
      \/ /\ k = 2 /\ Coded(q[1]) /\ Coded(q[2]) /\ Coded(q[3])
         /\ rest = <<q[1] * 4 + q[2] \div 16, (q[2] % 16) * 16 + q[3] \div 4>>
  BY ONLY DEF Remainder
<1> HIDE DEF rest
<1>3. CASE rest = <<>>
  BY ONLY <1>1, <1>3
<1>4. CASE k = 1 /\ Coded(q[1]) /\ Coded(q[2]) /\ rest = <<q[1] * 4 + q[2] \div 16>>
  <2>1. q[1] * 4 + q[2] \div 16 \in Int
    BY ONLY <1>4 DEF Coded, PAD
  <2> QED
    BY ONLY <1>1, <1>4, <2>1
<1>5. CASE /\ k = 2 /\ Coded(q[1]) /\ Coded(q[2]) /\ Coded(q[3])
           /\ rest = <<q[1] * 4 + q[2] \div 16, (q[2] % 16) * 16 + q[3] \div 4>>
  <2>1. q[1] * 4 + q[2] \div 16 \in Int /\ (q[2] % 16) * 16 + q[3] \div 4 \in Int
    <3>1. q[1] \in 0 .. 63 /\ q[2] \in 0 .. 63 /\ q[3] \in 0 .. 63
      BY ONLY <1>5 DEF Coded, PAD
    <3> DEFINE c1 == q[1]
               c2 == q[2]
               c3 == q[3]
    <3>2. c1 \in 0 .. 63 /\ c2 \in 0 .. 63 /\ c3 \in 0 .. 63
      BY ONLY <3>1
    <3> HIDE DEF c1, c2, c3
    <3>3. c1 * 4 + c2 \div 16 \in Int /\ (c2 % 16) * 16 + c3 \div 4 \in Int
      BY ONLY <3>2
    <3> QED
      BY ONLY <3>3 DEF c1, c2, c3
  <2> QED
    BY ONLY <1>1, <1>5, <2>1
<1> QED
  BY ONLY <1>2, <1>3, <1>4, <1>5

(* base64.c:96-191: the decoder stores more bytes than it has allocated    *)
(* just where the ending of the text is refused and its first quartet is   *)
(* whole, whatever characters stand elsewhere and whatever is read before  *)
(* the table of characters.                                                *)
THEOREM DecodingFits ==
  ASSUME NEW t, t \in Seq(-1 .. INVALID), Len(t) > 0, Len(t) % 4 = 0
  PROVE  Len(Stored(t)) > base64_decoded_len(t)
           <=> base64_decoded_len(t) = 0 /\ \A p \in 1 .. 4 : Coded(t[p])
<1> DEFINE l == Len(t)
           g == l \div 4
           dlen == base64_decoded_len(t)
           bytes == Quartets(t).bytes
           rest == Rest(t)
<1>1. l \in Nat /\ l > 0 /\ l % 4 = 0 /\ \A j \in 1 .. l : t[j] \in -1 .. 65
  BY ElementOfSeq DEF INVALID
<1>2. t \in Seq(Int)
  <2>1. -1 .. INVALID \subseteq Int
    BY DEF INVALID
  <2> QED
    BY <2>1, SeqMonotonic
<1>3. PICK w \in Nat : WholeOf(t, w) /\ bytes \in Seq(Int) /\ Len(bytes) = 3 * w
  BY <1>2, QuartetsLen
<1>4. \/ dlen = 0
      \/ dlen = 3 * g
      \/ dlen = 3 * g - 1 /\ t[l] = PAD
      \/ dlen = 3 * g - 2 /\ t[l] = PAD
  <2> DEFINE nudge == CASE t[l] < PAD -> 0
                        [] t[l] = PAD /\ t[l - 1] < PAD -> 1
                        [] t[l] = PAD /\ t[l - 1] = PAD /\ t[l - 2] < PAD -> 2
                        [] OTHER -> -1
  <2>1. dlen = IF nudge < 0 THEN 0 ELSE 3 * g - nudge
    BY DEF base64_decoded_len
  <2>2. nudge = -1 \/ nudge = 0 \/ ((nudge = 1 \/ nudge = 2) /\ t[l] = PAD)
    BY ONLY DEF PAD
  <2> HIDE DEF nudge
  <2>3. g \in Int
    BY ONLY <1>1
  <2> HIDE DEF g, l, dlen
  <2> QED
    BY ONLY <2>1, <2>2, <2>3
<1>5. /\ rest \in Seq(Int)
      /\ Len(rest) = 0 \/ (dlen % 3 = 1 /\ Len(rest) = 1) \/ (dlen % 3 = 2 /\ Len(rest) = 2)
  BY RestLen
<1>6. Len(Stored(t)) = 3 * w + Len(rest)
  <2>1. Stored(t) = bytes \o rest
    BY DEF Stored
  <2> HIDE DEF bytes, rest
  <2>2. Len(bytes \o rest) = Len(bytes) + Len(rest)
    BY ONLY <1>3, <1>5, ConcatProperties
  <2> QED
    BY ONLY <1>3, <2>1, <2>2
<1>7. /\ w \in 0 .. g
      /\ \A j \in 1 .. 4 * w : Coded(t[j])
      /\ w < g => \E p \in 1 .. 4 : ~Coded(t[4 * w + p])
  BY ONLY <1>3 DEF WholeOf, g, l
<1> HIDE DEF l, dlen, bytes, rest
<1>8. g \in Nat /\ g > 0 /\ l = 4 * g
  BY ONLY <1>1
<1> HIDE DEF g
<1>9. CASE dlen = 0
  <2>1. Len(rest) = 0
    BY ONLY <1>5, <1>9
  <2>2. w > 0 <=> \A p \in 1 .. 4 : Coded(t[p])
    <3>1. w > 0 => \A p \in 1 .. 4 : p \in 1 .. 4 * w
      BY ONLY <1>3, <1>7
    <3>2. w = 0 => w < g /\ \A p \in 1 .. 4 : 4 * w + p = p
      BY ONLY <1>8
    <3>3. w > 0 \/ w = 0
      BY ONLY <1>3
    <3> QED
      BY ONLY <1>7, <3>1, <3>2, <3>3
  <2>3. 3 * w + 0 > 0 <=> w > 0
    BY ONLY <1>3
  <2> QED
    BY ONLY <1>6, <1>9, <2>1, <2>2, <2>3 DEF dlen
<1>10. CASE dlen = 3 * g
  <2>1. Len(rest) = 0 /\ dlen # 0 /\ ~ (3 * w + 0 > dlen)
    BY ONLY <1>3, <1>5, <1>7, <1>8, <1>10
  <2> QED
    BY ONLY <1>6, <2>1 DEF dlen
<1>11. ASSUME t[l] = PAD PROVE w \in 0 .. g - 1
  <2>1. l \in 1 .. 4 * w => Coded(PAD)
    BY ONLY <1>7, <1>11
  <2>2. ~Coded(PAD)
    BY ONLY DEF Coded, PAD
  <2>3. w = g => l \in 1 .. 4 * w
    BY ONLY <1>8
  <2> QED
    BY ONLY <1>7, <1>8, <2>1, <2>2, <2>3
<1>12. CASE dlen = 3 * g - 1 /\ t[l] = PAD
  <2>1. dlen % 3 = 2 /\ dlen # 0
    BY ONLY <1>8, <1>12
  <2>2. w \in 0 .. g - 1
    BY <1>11, <1>12
  <2>3. ~ (3 * w + Len(rest) > dlen)
    <3>1. Len(rest) = 0 \/ Len(rest) = 2
      BY ONLY <1>5, <2>1
    <3>2. ~ (3 * w + 0 > 3 * g - 1) /\ ~ (3 * w + 2 > 3 * g - 1)
      BY ONLY <1>8, <2>2
    <3> QED
      BY ONLY <1>12, <3>1, <3>2
  <2> QED
    BY ONLY <1>6, <2>1, <2>3 DEF dlen
<1>13. CASE dlen = 3 * g - 2 /\ t[l] = PAD
  <2>1. dlen % 3 = 1 /\ dlen # 0
    BY ONLY <1>8, <1>13
  <2>2. w \in 0 .. g - 1
    BY <1>11, <1>13
  <2>3. ~ (3 * w + Len(rest) > dlen)
    <3>1. Len(rest) = 0 \/ Len(rest) = 1
      BY ONLY <1>5, <2>1
    <3>2. ~ (3 * w + 0 > 3 * g - 2) /\ ~ (3 * w + 1 > 3 * g - 2)
      BY ONLY <1>8, <2>2
    <3> QED
      BY ONLY <1>13, <3>1, <3>2
  <2> QED
    BY ONLY <1>6, <2>1, <2>3 DEF dlen
<1> QED
  BY ONLY <1>4, <1>9, <1>10, <1>12, <1>13
=============================================================================
