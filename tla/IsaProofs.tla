------------------------------- MODULE IsaProofs -------------------------------
(***************************************************************************)
(* The arithmetic of the simulator against the instruction set, for every  *)
(* width of a word: sums and quotients of numbers on one side, sets of     *)
(* bits on the other. A word is determined by its bits (SameBits), and     *)
(* the bits of a sum of distinct powers of two are the powers (OfBitsIs):  *)
(* every operation is then shown bit by bit, the signed ones by the top    *)
(* bit (SignOfWord). Powers are known by PowerAssumption alone, sums of    *)
(* the recursive SumTo by SumSteps.                                        *)
(***************************************************************************)
EXTENDS IsaReference, WellFoundedInduction, TLAPS

(***************************************************************************)
(* Division.                                                               *)
(***************************************************************************)
LEMMA DivMod ==
    ASSUME NEW a \in Int, NEW b \in Nat \ {0}
    PROVE  /\ a \div b \in Int /\ a % b \in 0 .. b - 1
           /\ a = b * (a \div b) + (a % b)
  OBVIOUS

LEMMA DivIs ==
    ASSUME NEW a \in Int, NEW b \in Nat \ {0}, NEW q \in Int, NEW r \in 0 .. b - 1, a = b * q + r
    PROVE  a \div b = q /\ a % b = r
<1> DEFINE p == a \div b
           s == a % b
<1>1. p \in Int /\ s \in 0 .. b - 1 /\ a = b * p + s
  BY DivMod
<1> HIDE DEF p, s
<1>2. ~ (p < q)
  <2> SUFFICES ASSUME p < q PROVE FALSE
    OBVIOUS
  <2>1. PICK d \in Nat : q = p + 1 + d
    BY <1>1, q - p - 1 \in Nat
  <2>2. b * q = b * p + b + b * d /\ b * d >= 0
    BY <1>1, <2>1
  <2> QED
    BY <1>1, <2>2
<1>3. ~ (q < p)
  <2> SUFFICES ASSUME q < p PROVE FALSE
    OBVIOUS
  <2>1. PICK d \in Nat : p = q + 1 + d
    BY <1>1, p - q - 1 \in Nat
  <2>2. b * p = b * q + b + b * d /\ b * d >= 0
    BY <1>1, <2>1
  <2> QED
    BY <1>1, <2>2
<1>4. p = q
  BY <1>1, <1>2, <1>3
<1> QED
  BY <1>1, <1>4 DEF p, s

LEMMA DivShift ==
    ASSUME NEW a \in Int, NEW b \in Nat \ {0}, NEW c \in Int
    PROVE  (a + b * c) \div b = (a \div b) + c /\ (a + b * c) % b = a % b
<1> DEFINE q == a \div b
           r == a % b
           n == a + b * c
<1>1. q \in Int /\ r \in 0 .. b - 1 /\ a = b * q + r
  BY DivMod
<1> HIDE DEF q, r
<1>2. n \in Int /\ n = b * (q + c) + r
  BY <1>1
<1> HIDE DEF n
<1>3. n \div b = q + c /\ n % b = r
  BY <1>1, <1>2, DivIs
<1> QED
  BY <1>3 DEF q, r, n

LEMMA DivTwice ==
    ASSUME NEW a \in Int, NEW b \in Nat \ {0}, NEW c \in Nat \ {0}
    PROVE  (a \div b) \div c = a \div (b * c)
<1> DEFINE q == a \div b
           r == a % b
           p == q \div c
           s == q % c
<1>1. q \in Int /\ r \in 0 .. b - 1 /\ a = b * q + r
  BY DivMod
<1>2. p \in Int /\ s \in 0 .. c - 1 /\ q = c * p + s
  BY <1>1, DivMod
<1>3. b * c \in Nat \ {0}
  OBVIOUS
<1> DEFINE t == b * s + r
<1> HIDE DEF q, r, p, s
<1>4. a = (b * c) * p + t
  BY <1>1, <1>2
<1>5. t \in 0 .. (b * c) - 1
  <2>1. PICK d \in Nat : c = s + 1 + d
    BY <1>2, c - s - 1 \in Nat
  <2>2. b * c = b * s + b + b * d /\ b * d >= 0
    BY <1>2, <2>1
  <2>3. b * s >= 0
    BY <1>2
  <2> QED
    BY <1>1, <1>2, <2>2, <2>3
<1> DEFINE bc == b * c
<1> HIDE DEF t, bc
<1>6. a \div bc = p
  BY <1>2, <1>3, <1>4, <1>5, DivIs DEF bc
<1> QED
  BY <1>6 DEF p, q, bc

(* A remainder of b * c keeps the quotient by b, up to c.                  *)
LEMMA ModDiv ==
    ASSUME NEW a \in Int, NEW b \in Nat \ {0}, NEW c \in Nat \ {0}
    PROVE  (a % (b * c)) \div b = (a \div b) % c
<1> DEFINE n == b * c
           p == a \div n
           s == a % n
           q == s \div b
           r == s % b
<1>1. n \in Nat \ {0}
  OBVIOUS
<1> HIDE DEF n
<1>2. p \in Int /\ s \in 0 .. n - 1 /\ a = n * p + s
  BY <1>1, DivMod
<1>3. q \in Int /\ r \in 0 .. b - 1 /\ s = b * q + r
  BY <1>1, <1>2, DivMod
<1> HIDE DEF p, s, q, r
<1>4. a = b * (c * p + q) + r
  <2>1. a = (b * c) * p + (b * q + r)
    BY <1>2, <1>3 DEF n
  <2>2. (b * c) * p = b * (c * p)
    BY <1>2
  <2>3. b * (c * p + q) = b * (c * p) + b * q
    BY <1>2, <1>3
  <2> QED
    BY <2>1, <2>2, <2>3, <1>2, <1>3
<1>5. a \div b = c * p + q
  <2> DEFINE k == c * p + q
  <2>1. k \in Int
    BY <1>2, <1>3
  <2> HIDE DEF k
  <2>2. a = b * k + r
    BY <1>4 DEF k
  <2>3. a \div b = k
    BY <1>3, <2>1, <2>2, DivIs
  <2> QED
    BY <2>3 DEF k
<1>6. q \in 0 .. c - 1
  <2>1. ~ (q < 0)
    <3> SUFFICES ASSUME q < 0 PROVE FALSE
      OBVIOUS
    <3>1. PICK d \in Nat : 0 = q + 1 + d
      BY <1>3, -1 - q \in Nat
    <3>2. b * q = - b - b * d /\ b * d >= 0
      BY <3>1, <1>3
    <3> QED
      BY <1>2, <1>3, <3>2
  <2>2. ~ (q >= c)
    <3> SUFFICES ASSUME q >= c PROVE FALSE
      OBVIOUS
    <3>1. PICK d \in Nat : q = c + d
      BY <1>3, q - c \in Nat
    <3>2. b * q = b * c + b * d /\ b * d >= 0
      BY <3>1, <1>3
    <3> QED
      BY <1>2, <1>3, <3>2 DEF n
  <2> QED
    BY <1>3, <2>1, <2>2
<1>7. (c * p + q) % c = q
  <2> DEFINE k == c * p + q
  <2>1. k \in Int
    BY <1>2, <1>3
  <2> HIDE DEF k
  <2>2. k % c = q
    BY <1>2, <1>6, <2>1, DivIs DEF k
  <2> QED
    BY <2>2 DEF k
<1> QED
  BY <1>5, <1>7 DEF n, s, q
-----------------------------------------------------------------------------
(***************************************************************************)
(* Powers of two up to the width of a word.                                *)
(***************************************************************************)
LEMMA Widths ==
    /\ WordBits \in Nat /\ WordBits >= 4 /\ ByteBits \in Nat \ {0} /\ WordBits = 4 * ByteBits
    /\ Top \in 0 .. WordBits /\ Top + 1 = WordBits
    /\ WordSpan = 2^WordBits /\ WordSpan \in Nat \ {0}
    /\ 2^Top \in Nat \ {0} /\ WordSpan = 2 * 2^Top
<1>1. /\ WordBits \in Nat /\ WordBits >= 4 /\ ByteBits \in Nat \ {0} /\ WordBits = 4 * ByteBits
      /\ Top \in 0 .. WordBits /\ Top + 1 = WordBits
  BY WidthAssumption DEF WordBits, WORD_SIZE, Top
<1>2. WordSpan = 2^WordBits
  BY DEF WordSpan, Span, WordBits
<1>3. \A m, n \in 0 .. WordBits : 2^m \in Nat \ {0} /\ 2^(m + n) = 2^m * 2^n
  BY PowerAssumption
<1>4. Top \in 0 .. WordBits /\ 1 \in 0 .. WordBits /\ WordBits \in 0 .. WordBits
  BY <1>1
<1>5. 2^WordBits \in Nat \ {0} /\ 2^Top \in Nat \ {0} /\ 2^(Top + 1) = 2^Top * 2^1
  BY <1>3, <1>4
<1>6. 2^1 = 2
  BY PowerAssumption
<1> QED
  BY <1>1, <1>2, <1>5, <1>6

LEMMA Power == ASSUME NEW n \in 0 .. WordBits PROVE n \in Nat /\ 2^n \in Nat \ {0}
  BY Widths, PowerAssumption

LEMMA PowerSum ==
    ASSUME NEW m \in 0 .. WordBits, NEW n \in 0 .. WordBits
    PROVE  2^(m + n) = 2^m * 2^n /\ 2^(m + n) \in Nat \ {0}
<1>1. 2^(m + n) = 2^m * 2^n
  BY PowerAssumption
<1>2. 2^m \in Nat \ {0} /\ 2^n \in Nat \ {0}
  BY Power
<1> QED
  BY <1>1, <1>2

LEMMA PowerSplit ==
    ASSUME NEW n \in 0 .. WordBits, NEW m \in 0 .. n
    PROVE  /\ n - m \in 0 .. WordBits /\ m \in 0 .. WordBits
           /\ 2^n = 2^m * 2^(n - m) /\ 2^m <= 2^n
<1>1. n - m \in 0 .. WordBits /\ m \in 0 .. WordBits /\ m + (n - m) = n
  BY Widths
<1>2. 2^(m + (n - m)) = 2^m * 2^(n - m)
  BY <1>1, PowerSum
<1> DEFINE k == n - m
<1>3. k \in 0 .. WordBits /\ 2^n = 2^m * 2^k
  BY <1>1, <1>2
<1> HIDE DEF k
<1>4. 2^k \in Nat \ {0} /\ 2^m \in Nat \ {0}
  BY <1>1, <1>3, Power
<1>5. 2^m <= 2^n
  BY <1>3, <1>4
<1> QED
  BY <1>1, <1>3, <1>5 DEF k

LEMMA PowerNext ==
    ASSUME NEW n \in 0 .. WordBits - 1
    PROVE  n + 1 \in 0 .. WordBits /\ n \in 0 .. WordBits /\ 2^(n + 1) = 2 * 2^n
<1>1. n + 1 \in 0 .. WordBits /\ n \in 0 .. WordBits /\ 1 \in 0 .. WordBits
  BY Widths
<1>2. 2^(n + 1) = 2^n * 2^1 /\ 2^1 = 2
  BY <1>1, PowerAssumption
<1>3. 2^n \in Nat
  BY <1>1, Power
<1> QED
  BY <1>1, <1>2, <1>3

(***************************************************************************)
(* The bits of an integer, a negative one with its sign repeated for ever. *)
(***************************************************************************)
LEMMA BitType == ASSUME NEW v \in Int, NEW n \in 0 .. WordBits
                 PROVE  Bit(v, n) \in {0, 1} /\ v \div 2^n \in Int
  BY Power DEF Bit

LEMMA ModTwo == ASSUME NEW x \in Int, NEW c \in Nat \ {0}
                PROVE  (x % (2 * c)) % 2 = x % 2
<1> DEFINE d == 2 * c
           q == x \div d
           r == x % d
<1>1. d \in Nat \ {0}
  OBVIOUS
<1> HIDE DEF d
<1>2. q \in Int /\ r \in 0 .. d - 1 /\ x = d * q + r
  BY <1>1, DivMod
<1> HIDE DEF q, r
<1>3. c * q \in Int /\ x = r + 2 * (c * q) /\ r \in Int
  BY <1>2 DEF d
<1> DEFINE k == c * q
<1> HIDE DEF k
<1>4. (r + 2 * k) % 2 = r % 2
  <2> DEFINE two == 2
  <2>1. two \in Nat \ {0} /\ k \in Int /\ r \in Int
    BY <1>3 DEF k
  <2> HIDE DEF two
  <2>2. (r + two * k) % two = r % two
    BY <2>1, DivShift
  <2> QED
    BY <2>2 DEF two
<1> QED
  BY <1>3, <1>4 DEF k, r, d

LEMMA BitOfMod ==
    ASSUME NEW v \in Int, NEW n \in 0 .. WordBits, NEW t \in 0 .. n - 1
    PROVE  Bit(v % 2^n, t) = Bit(v, t)
<1>1. t \in 0 .. n /\ t + 1 \in 0 .. n /\ t \in 0 .. WordBits - 1
  BY Widths
<1> DEFINE b == 2^t
           c == 2^(n - (t + 1))
<1>2. b \in Nat \ {0}
  BY <1>1, PowerNext, Power
<1>3. c \in Nat \ {0} /\ 2^n = (2 * b) * c
  BY <1>1, PowerSplit, PowerNext, Power
<1> DEFINE B == 2^n
<1> HIDE DEF b, c, B
<1>4. B = b * (2 * c) /\ 2 * c \in Nat \ {0}
  BY <1>2, <1>3 DEF B
<1>5. (v % B) \div b = (v \div b) % (2 * c)
  BY <1>2, <1>4, ModDiv
<1>6. v \div b \in Int
  BY <1>2, DivMod
<1>7. ((v % B) \div b) % 2 = (v \div b) % 2
  BY <1>3, <1>5, <1>6, ModTwo
<1> QED
  BY <1>7 DEF Bit, b, B

LEMMA BitBeyond ==
    ASSUME NEW n \in 0 .. WordBits, NEW t \in n .. WordBits, NEW v \in 0 .. 2^n - 1
    PROVE  Bit(v, t) = 0
<1>1. t \in 0 .. WordBits /\ n \in 0 .. t
  BY Widths
<1>2. 2^n <= 2^t /\ 2^t \in Nat \ {0} /\ 2^n \in Nat \ {0}
  BY <1>1, PowerSplit, Power
<1> DEFINE b == 2^t
<1> HIDE DEF b
<1>3. v \in Int /\ b \in Nat \ {0} /\ v \in 0 .. b - 1 /\ v = b * 0 + v
  BY <1>2 DEF b
<1>4. v \div b = 0
  BY <1>3, DivIs
<1>5. 0 % 2 = 0
  OBVIOUS
<1> QED
  BY ONLY <1>4, <1>5 DEF Bit, b

LEMMA BitBeyondSign ==
    ASSUME NEW n \in 0 .. WordBits, NEW t \in n .. WordBits, NEW v \in - 2^n .. -1
    PROVE  Bit(v, t) = 1 /\ v \div 2^t = -1
<1>1. t \in 0 .. WordBits /\ n \in 0 .. t
  BY Widths
<1>2. 2^n <= 2^t /\ 2^t \in Nat \ {0} /\ 2^n \in Nat \ {0}
  BY <1>1, PowerSplit, Power
<1> DEFINE b == 2^t
<1> HIDE DEF b
<1>3. v \in Int /\ b \in Nat \ {0} /\ v + b \in 0 .. b - 1 /\ v = b * (-1) + (v + b) /\ -1 \in Int
  BY <1>2 DEF b
<1>4. v \div b = -1
  BY <1>3, DivIs
<1>5. (-1) % 2 = 1
  <2> DEFINE m == -1
             two == 2
  <2>1. m \in Int /\ two \in Nat \ {0} /\ 1 \in 0 .. two - 1 /\ m = two * m + 1
    OBVIOUS
  <2> HIDE DEF m, two
  <2>2. m % two = 1
    BY <2>1, DivIs
  <2> QED
    BY <2>2 DEF m, two
<1> QED
  BY ONLY <1>4, <1>5 DEF Bit, b

LEMMA BitShift ==
    ASSUME NEW v \in Int, NEW s \in 0 .. WordBits, NEW t \in 0 .. WordBits
    PROVE  Bit(v \div 2^s, t) = Bit(v, s + t)
<1> DEFINE b == 2^s
           c == 2^t
<1>1. b \in Nat \ {0} /\ c \in Nat \ {0} /\ 2^(s + t) = b * c
  BY Power, PowerSum
<1> HIDE DEF b, c
<1>2. (v \div b) \div c = v \div (b * c)
  BY <1>1, DivTwice
<1> QED
  BY <1>1, <1>2 DEF Bit, b, c

LEMMA BitTimes ==
    ASSUME NEW v \in Int, NEW s \in 0 .. WordBits, NEW t \in 0 .. WordBits
    PROVE  Bit(v * 2^s, t) = IF t < s THEN 0 ELSE Bit(v, t - s)
<1>0. t \in Nat /\ s \in Nat
  BY Power
<1>1. CASE t < s
  <2>1. t + 1 \in 0 .. s /\ t \in 0 .. WordBits - 1
    BY <1>0, <1>1, Widths
  <2> DEFINE b == 2^t
             c == 2^(s - (t + 1))
  <2>2. b \in Nat \ {0} /\ c \in Nat \ {0} /\ 2^s = (2 * b) * c
    BY <2>1, PowerSplit, PowerNext, Power
  <2> DEFINE S == 2^s
             k == v * c
  <2> HIDE DEF b, c, S
  <2>3. v * S = b * (2 * k) + 0 /\ k \in Int /\ v * S \in Int
    <3>1. S = b * (2 * c)
      BY <2>2 DEF S
    <3>2. v * (b * (2 * c)) = b * (2 * (v * c))
      BY <2>2
    <3> QED
      BY <2>2, <3>1, <3>2
  <2> DEFINE a == v * S
             m == 2 * k
  <2> HIDE DEF k, a
  <2>4. a \div b = m
    <3>1. m \in Int /\ a = b * m + 0 /\ 0 \in 0 .. b - 1 /\ a \in Int
      BY <2>2, <2>3 DEF a
    <3> HIDE DEF m
    <3> QED
      BY <2>2, <3>1, DivIs
  <2>5. m % 2 = 0
    BY <2>3
  <2> QED
    BY <1>1, <2>4, <2>5 DEF Bit, b, a, S
<1>2. CASE ~ (t < s)
  <2>1. s \in 0 .. t /\ t - s \in 0 .. WordBits
    BY <1>0, <1>2, Widths
  <2> DEFINE b == 2^s
             c == 2^(t - s)
  <2>2. b \in Nat \ {0} /\ c \in Nat \ {0} /\ 2^t = b * c
    BY <2>1, PowerSplit, Power
  <2> HIDE DEF b, c
  <2>3. (v * b) \div b = v
    <3> DEFINE a == v * b
    <3>1. a \in Int /\ a = b * v + 0 /\ 0 \in 0 .. b - 1
      BY <2>2
    <3> HIDE DEF a
    <3> QED
      BY <2>2, <3>1, DivIs DEF a
  <2>4. v * b \in Int
    BY <2>2
  <2>5. ((v * b) \div b) \div c = (v * b) \div (b * c)
    BY <2>2, <2>4, DivTwice
  <2> QED
    BY <1>2, <2>2, <2>3, <2>5 DEF Bit, b, c
<1> QED
  BY <1>1, <1>2
(* Adding a multiple of 2^n leaves the bits below n.                       *)
LEMMA BitAdd ==
    ASSUME NEW v \in Int, NEW c \in Int, NEW n \in 0 .. WordBits, NEW t \in 0 .. n - 1
    PROVE  Bit(v + c * 2^n, t) = Bit(v, t)
<1> DEFINE b == 2^n
<1>1. b \in Nat \ {0} /\ c * b = b * c
  BY Power
<1>2. v + c * b \in Int /\ (v + b * c) % b = v % b
  <2> HIDE DEF b
  <2>1. (v + b * c) % b = v % b
    BY <1>1, DivShift
  <2> QED
    BY <1>1, <2>1
<1>3. Bit((v + c * b) % b, t) = Bit(v + c * b, t)
  BY <1>2, BitOfMod
<1>4. Bit(v % b, t) = Bit(v, t)
  BY BitOfMod
<1> QED
  BY <1>1, <1>2, <1>3, <1>4

(* The bits from n up are those of the multiple.                           *)
LEMMA BitAddHigh ==
    ASSUME NEW n \in 0 .. WordBits, NEW v \in 0 .. 2^n - 1, NEW c \in Int, NEW j \in 0 .. WordBits
    PROVE  Bit(v + c * 2^n, n + j) = Bit(c, j)
<1> DEFINE b == 2^n
<1>1. b \in Nat \ {0}
  BY Power
<1>2. (v + c * b) \div b = c
  <2> DEFINE a == v + c * b
  <2>1. v \in 0 .. b - 1
    OBVIOUS
  <2> HIDE DEF b
  <2>2. a \in Int /\ a = b * c + v
    BY <1>1, <2>1
  <2> HIDE DEF a
  <2>3. a \div b = c
    BY <1>1, <2>1, <2>2, DivIs
  <2> QED
    BY <2>3 DEF a
<1>3. v + c * b \in Int
  BY <1>1
<1>4. Bit((v + c * b) \div b, j) = Bit(v + c * b, n + j)
  <2> DEFINE a == v + c * b
  <2>1. a \in Int
    BY <1>3
  <2> HIDE DEF a
  <2>2. Bit(a \div 2^n, j) = Bit(a, n + j)
    BY <2>1, BitShift
  <2> QED
    BY <2>2 DEF a
<1> QED
  BY <1>2, <1>4

LEMMA Least == ASSUME NEW S, S \subseteq Nat, S # {}
               PROVE  \E x \in S : \A y \in S : x <= y
<1> DEFINE LR == {ss \in Nat \X Nat : ss[1] < ss[2]}
<1>1. IsWellFoundedOn(LR, Nat)
  BY NatLessThanWellFounded DEF OpToRel
<1> HIDE DEF LR
<1>2. PICK x \in S : \A y \in S : ~ (<<y, x>> \in LR)
  BY <1>1, WFMin
<1>3. ASSUME NEW y \in S PROVE x <= y
  <2>1. <<y, x>> \notin LR
    BY <1>2
  <2>2. x \in Nat /\ y \in Nat
    OBVIOUS
  <2>3. y < x => <<y, x>> \in LR
    BY <2>2 DEF LR
  <2> QED
    BY <2>1, <2>2, <2>3
<1> QED
  BY <1>3

(* A word is its bits.                                                     *)
LEMMA SameBits ==
    ASSUME NEW v \in Word, NEW w \in Word, \A n \in 0 .. WordBits - 1 : Bit(v, n) = Bit(w, n)
    PROVE  v = w
<1> DEFINE S == {n \in Nat : n <= WordBits /\ v \div 2^n = w \div 2^n}
<1>0. v \in 0 .. 2^WordBits - 1 /\ w \in 0 .. 2^WordBits - 1 /\ v \in Int /\ w \in Int
  BY Widths DEF Word
<1>1. WordBits \in S
  <2> DEFINE b == 2^WordBits
  <2>1. b \in Nat \ {0} /\ v = b * 0 + v /\ w = b * 0 + w /\ v \in 0 .. b - 1 /\ w \in 0 .. b - 1
    BY <1>0, Widths
  <2> HIDE DEF b
  <2>2. v \div b = 0 /\ w \div b = 0
    BY <1>0, <2>1, DivIs
  <2> QED
    BY <2>2, Widths DEF b
<1>2. PICK n \in S : \A m \in S : n <= m
  <2>1. S \subseteq Nat /\ S # {}
    BY <1>1
  <2> HIDE DEF S
  <2> QED
    BY <2>1, Least
<1>3. n = 0
  <2> SUFFICES ASSUME n # 0 PROVE FALSE
    OBVIOUS
  <2>1. n \in Nat /\ n <= WordBits /\ v \div 2^n = w \div 2^n
    OBVIOUS
  <2> DEFINE m == n - 1
  <2>2. m \in 0 .. WordBits - 1 /\ n = m + 1
    BY <2>1, Widths
  <2>3. m \in 0 .. WordBits /\ 1 \in 0 .. WordBits
    BY <2>2, Widths
  <2> DEFINE a == 2^m
             p == v \div a
             q == w \div a
  <2>4. a \in Nat \ {0} /\ 2^n = a * 2
    BY <2>2, PowerNext, Power
  <2>5. p \in Int /\ q \in Int
    BY <1>0, <2>4
  <2>6. p % 2 = q % 2
    BY <2>2 DEF Bit
  <2>7. p \div 2 = q \div 2
    <3> DEFINE two == 2
    <3> HIDE DEF a, two
    <3>1. two \in Nat \ {0}
      BY DEF two
    <3>2. (v \div a) \div two = v \div (a * two) /\ (w \div a) \div two = w \div (a * two)
      BY <1>0, <2>4, <3>1, DivTwice
    <3> QED
      BY <2>1, <2>4, <3>2 DEF two
  <2> HIDE DEF p, q
  <2>8. p = q
    BY <2>5, <2>6, <2>7
  <2>9. m \in S
    BY <2>2, <2>8, Widths DEF p, q
  <2> HIDE DEF S
  <2>10. n <= m
    BY <1>2, <2>9
  <2> QED
    BY <2>1, <2>2, <2>10
<1>4. v \div 1 = w \div 1
  BY <1>2, <1>3, PowerAssumption
<1> QED
  BY <1>0, <1>4
-----------------------------------------------------------------------------
(***************************************************************************)
(* Sums: the recursive function has the values its definition gives.       *)
(***************************************************************************)
SumOf(f, n, s) == /\ s \in [0 .. n -> Int] /\ s[0] = 0
                  /\ \A k \in 1 .. n : s[k] = s[k - 1] + f[k - 1]

LEMMA SumExists ==
    ASSUME NEW n \in Nat, NEW f
    PROVE  \E s : s = [k \in 0 .. n |-> IF k = 0 THEN 0 ELSE s[k - 1] + f[k - 1]]
<1> DEFINE Good(m, s) == s = [k \in 0 .. m |-> IF k = 0 THEN 0 ELSE s[k - 1] + f[k - 1]]
           S == {m \in Nat : ~ \E s : Good(m, s)}
<1> SUFFICES ASSUME S # {} PROVE FALSE
  OBVIOUS
<1>1. PICK m \in S : \A l \in S : m <= l
  <2>1. S \subseteq Nat
    OBVIOUS
  <2> HIDE DEF S
  <2> QED
    BY <2>1, Least
<1>2. m \in Nat /\ ~ \E s : Good(m, s)
  OBVIOUS
<1>3. m # 0
  <2>1. Good(0, [k \in 0 .. 0 |-> 0])
    OBVIOUS
  <2> HIDE DEF Good
  <2> QED
    BY <1>2, <2>1
<1>4. m - 1 \in Nat /\ ~ (m <= m - 1)
  BY <1>2, <1>3
<1>5. \E s : Good(m - 1, s)
  <2> HIDE DEF Good
  <2> QED
    BY <1>1, <1>4
<1>6. PICK s : Good(m - 1, s)
  <2> HIDE DEF Good
  <2> QED
    BY <1>5
<1> DEFINE t == [k \in 0 .. m |-> IF k = m THEN s[m - 1] + f[m - 1] ELSE s[k]]
<1>7. Good(m, t)
  <2>1. \A k \in 0 .. m - 1 : s[k] = IF k = 0 THEN 0 ELSE s[k - 1] + f[k - 1]
    BY <1>6
  <2>2. ASSUME NEW k \in 0 .. m PROVE t[k] = IF k = 0 THEN 0 ELSE t[k - 1] + f[k - 1]
    <3>1. CASE k = m
      <4>1. k # 0 /\ k - 1 \in 0 .. m /\ k - 1 # m /\ t[k] = s[k - 1] + f[k - 1]
        BY <3>1, <1>2, <1>3
      <4>2. t[k - 1] = s[k - 1]
        BY <4>1
      <4> QED
        BY <4>1, <4>2
    <3>2. CASE k # m
      <4>1. k \in 0 .. m - 1 /\ t[k] = s[k]
        BY <3>2, <1>2
      <4>2. CASE k = 0
        BY <2>1, <4>1, <4>2
      <4>3. CASE k # 0
        <5>1. k - 1 \in 0 .. m /\ k - 1 # m
          BY <4>1, <4>3, <1>2
        <5>2. t[k - 1] = s[k - 1]
          BY <5>1
        <5> QED
          BY <2>1, <4>1, <4>3, <5>2
      <4> QED
        BY <4>2, <4>3
    <3> QED
      BY <3>1, <3>2
  <2>3. t = [k \in 0 .. m |-> t[k]]
    OBVIOUS
  <2> HIDE DEF t
  <2> QED
    BY <2>2, <2>3
<1> HIDE DEF Good, t
<1> QED
  BY <1>2, <1>7

LEMMA SumSteps ==
    ASSUME NEW n \in Nat, NEW f, \A k \in 0 .. n - 1 : f[k] \in Int
    PROVE  \E s : SumOf(f, n, s) /\ SumTo(f, n) = s[n]
<1> DEFINE F(s) == [k \in 0 .. n |-> IF k = 0 THEN 0 ELSE s[k - 1] + f[k - 1]]
           s == CHOOSE x : x = F(x)
<1>1. s = F(s)
  <2>1. \E x : x = F(x)
    BY SumExists
  <2> QED
    BY <2>1
<1>2. SumTo(f, n) = s[n]
  BY DEF SumTo
<1> HIDE DEF s
<1>3. \A k \in 0 .. n : s[k] = IF k = 0 THEN 0 ELSE s[k - 1] + f[k - 1]
  BY <1>1
<1> DEFINE S == {k \in Nat : k <= n /\ s[k] \notin Int}
<1>4. S = {}
  <2> SUFFICES ASSUME S # {} PROVE FALSE
    OBVIOUS
  <2>1. PICK k \in S : \A m \in S : k <= m
    <3>1. S \subseteq Nat
      OBVIOUS
    <3> HIDE DEF S
    <3> QED
      BY <3>1, Least
  <2>2. k \in 0 .. n /\ s[k] \notin Int
    OBVIOUS
  <2>3. k # 0
    BY <1>3, <2>2
  <2>4. k - 1 \in 0 .. n - 1 /\ ~ (k <= k - 1)
    BY <2>2, <2>3
  <2>5. s[k - 1] \in Int
    BY <2>1, <2>4
  <2>6. f[k - 1] \in Int
    BY <2>4
  <2> QED
    BY <1>3, <2>2, <2>3, <2>5, <2>6
<1>5. s \in [0 .. n -> Int]
  <2>1. \A k \in 0 .. n : s[k] \in Int
    BY <1>4
  <2>2. s = [k \in 0 .. n |-> s[k]]
    BY <1>1
  <2> QED
    BY <2>1, <2>2
<1>6. SumOf(f, n, s)
  BY <1>3, <1>5 DEF SumOf
<1> QED
  BY <1>2, <1>6
(* Places of bits in digits of B bits.                                     *)
LEMMA Index ==
    ASSUME NEW B \in Nat \ {0}, NEW m \in Nat, NEW k \in 0 .. m - 1, NEW j \in 0 .. B - 1
    PROVE  k * B + j \in 0 .. m * B - 1 /\ k * B \in 0 .. m * B /\ k * B \in Nat /\ m * B \in Nat
<1>1. PICK d \in Nat : m = k + 1 + d
  BY m - k - 1 \in Nat
<1>2. m * B = k * B + B + d * B /\ d * B \in Nat /\ k * B \in Nat /\ m * B \in Nat
  BY <1>1
<1> QED
  BY <1>2

LEMMA Multiples ==
    ASSUME NEW B \in Nat \ {0}, NEW n \in Nat, n * B <= WordBits, NEW m \in 0 .. n
    PROVE  m * B \in 0 .. WordBits
<1>1. PICK d \in Nat : n = m + d
  BY n - m \in Nat
<1>2. n * B = m * B + d * B /\ d * B \in Nat /\ m * B \in Nat
  BY <1>1
<1> QED
  BY <1>2, Widths

(* A number is made of its digits: their bits are its bits.                *)
LEMMA Digits ==
    ASSUME NEW B \in Nat \ {0}, B <= WordBits, NEW n \in Nat, n * B <= WordBits, NEW f, NEW y,
           \A k \in 0 .. n - 1 : y[k] \in 0 .. 2^B - 1 /\ f[k] = y[k] * 2^(k * B)
    PROVE  /\ SumTo(f, n) \in 0 .. 2^(n * B) - 1
           /\ \A k \in 0 .. n - 1, j \in 0 .. B - 1 : Bit(SumTo(f, n), k * B + j) = Bit(y[k], j)
<1>1. \A k \in 0 .. n - 1 : f[k] \in Int
  <2> TAKE k \in 0 .. n - 1
  <2>1. k * B \in 0 .. WordBits
    <3>1. k \in 0 .. n
      OBVIOUS
    <3> QED
      BY <3>1, Multiples
  <2>2. 2^(k * B) \in Nat /\ 2^B \in Nat
    BY <2>1, Power, Widths
  <2> QED
    BY <2>2
<1>2. PICK s : SumOf(f, n, s) /\ SumTo(f, n) = s[n]
  BY <1>1, SumSteps
<1> DEFINE D(m) == /\ s[m] \in 0 .. 2^(m * B) - 1
                   /\ \A k \in 0 .. m - 1, j \in 0 .. B - 1 : Bit(s[m], k * B + j) = Bit(y[k], j)
           S == {m \in Nat : m <= n /\ ~ D(m)}
<1>3. S = {}
  <2> SUFFICES ASSUME S # {} PROVE FALSE
    OBVIOUS
  <2>1. PICK m \in S : \A l \in S : m <= l
    <3>1. S \subseteq Nat
      OBVIOUS
    <3> HIDE DEF S
    <3> QED
      BY <3>1, Least
  <2>2. m \in 0 .. n /\ ~ D(m) /\ m \in Nat
    <3> HIDE DEF D
    <3> QED
      OBVIOUS
  <2>3. m # 0
    <3>1. 0 * B = 0 /\ 2^0 = 1 /\ s[0] = 0
      BY <1>2, PowerAssumption DEF SumOf
    <3>2. 2^(0 * B) = 1
      BY <3>1
    <3>3. s[0] \in 0 .. 2^(0 * B) - 1
      BY <3>1, <3>2
    <3>4. D(0)
      BY <3>3
    <3> HIDE DEF D
    <3> QED
      BY <2>2, <3>4
  <2> DEFINE l == m - 1
  <2>4. l \in 0 .. n - 1 /\ m = l + 1 /\ l \in 0 .. n /\ l \in Nat
    BY <2>2, <2>3
  <2> HIDE DEF l
  <2>5. D(l)
    <3>1. l \notin S
      <4> HIDE DEF S
      <4> QED
        BY <2>1, <2>4
    <3> HIDE DEF D
    <3> QED
      BY <2>4, <3>1
  <2> DEFINE p == l * B
             P == 2^p
             Q == 2^B
             v == s[l]
             c == y[l]
  <2>6. s[m] = v + c * P
    <3>1. m \in 1 .. n /\ m - 1 = l
      BY <2>4
    <3>2. s[m] = s[m - 1] + f[m - 1]
      BY <1>2, <3>1 DEF SumOf
    <3> QED
      BY <2>4, <3>1, <3>2
  <2>7. p \in 0 .. WordBits /\ B \in 0 .. WordBits /\ m * B = p + B
    <3>1. p \in 0 .. WordBits
      BY <2>4, Multiples
    <3>2. m * B = p + B
      BY <2>4
    <3> QED
      BY <3>1, <3>2, Widths
  <2>8. P \in Nat \ {0} /\ Q \in Nat \ {0} /\ 2^(m * B) = P * Q
    BY <2>7, Power, PowerSum
  <2>9. v \in 0 .. P - 1 /\ c \in 0 .. Q - 1
    BY <2>4, <2>5
  <2>10. s[m] \in 0 .. 2^(m * B) - 1
    <3> HIDE DEF P, Q, v, c
    <3>1. PICK d \in Nat : Q = c + 1 + d
      BY <2>8, <2>9, Q - c - 1 \in Nat
    <3>2. P * Q = c * P + P + d * P /\ d * P \in Nat /\ c * P \in Nat
      BY <2>8, <2>9, <3>1
    <3> QED
      BY <2>6, <2>8, <2>9, <3>2
  <2>11. ASSUME NEW k \in 0 .. m - 1, NEW j \in 0 .. B - 1
         PROVE  Bit(s[m], k * B + j) = Bit(y[k], j)
    <3>1. CASE k = l
      <4>1. j \in 0 .. WordBits
        BY Widths
      <4>2. Bit(v + c * P, p + j) = Bit(c, j)
        <5>1. c \in Int /\ v \in 0 .. 2^p - 1
          BY <2>9
        <5> QED
          BY <2>7, <4>1, <5>1, BitAddHigh
      <4> QED
        BY <2>6, <3>1, <4>2
    <3>2. CASE k # l
      <4>1. k \in 0 .. l - 1
        BY <2>4, <3>2
      <4>2. k * B + j \in 0 .. p - 1
        BY <2>4, <4>1, Index
      <4>3. v \in Int /\ c \in Int
        BY <2>8, <2>9
      <4>4. Bit(v + c * P, k * B + j) = Bit(v, k * B + j)
        BY <2>7, <4>2, <4>3, BitAdd
      <4>5. Bit(v, k * B + j) = Bit(y[k], j)
        BY <2>5, <4>1
      <4> QED
        BY <2>6, <4>4, <4>5
    <3> QED
      BY <3>1, <3>2
  <2> QED
    BY <2>2, <2>10, <2>11
<1>4. D(n)
  <2>1. n \notin S
    BY <1>3
  <2> HIDE DEF D
  <2> QED
    BY <2>1
<1> QED
  BY <1>2, <1>4

LEMMA OfBitsIs ==
    ASSUME NEW bits, \A n \in 0 .. WordBits - 1 : bits[n] \in {0, 1}
    PROVE  OfBits(bits) \in Word /\ \A n \in 0 .. WordBits - 1 : Bit(OfBits(bits), n) = bits[n]
<1> DEFINE f == [n \in 0 .. WordBits - 1 |-> 2^n * bits[n]]
           N == WordBits
           B == 1
<1>1. B \in Nat \ {0} /\ B <= WordBits /\ N \in Nat /\ N * B <= WordBits /\ N * B = N
  BY Widths
<1>2. \A k \in 0 .. N - 1 : bits[k] \in 0 .. 2^B - 1 /\ f[k] = bits[k] * 2^(k * B)
  <2> TAKE k \in 0 .. N - 1
  <2>1. 2^B = 2 /\ k * B = k
    BY PowerAssumption
  <2>2. 2^k \in Nat /\ k \in 0 .. WordBits
    BY Power, Widths
  <2>3. f[k] = 2^k * bits[k] /\ bits[k] \in {0, 1}
    OBVIOUS
  <2> QED
    BY <2>1, <2>2, <2>3
<1>3. OfBits(bits) = SumTo(f, N)
  BY DEF OfBits
<1> HIDE DEF f, N, B
<1>4. /\ SumTo(f, N) \in 0 .. 2^(N * B) - 1
      /\ \A k \in 0 .. N - 1, j \in 0 .. B - 1 : Bit(SumTo(f, N), k * B + j) = Bit(bits[k], j)
  BY <1>1, <1>2, Digits
<1>5. OfBits(bits) \in Word
  BY <1>1, <1>3, <1>4, Widths DEF Word, N
<1>6. ASSUME NEW n \in 0 .. WordBits - 1 PROVE Bit(OfBits(bits), n) = bits[n]
  <2>1. n \in 0 .. N - 1 /\ 0 \in 0 .. B - 1 /\ n * B + 0 = n
    BY DEF N, B
  <2>2. Bit(OfBits(bits), n) = Bit(bits[n], 0)
    BY <1>3, <1>4, <2>1
  <2>3. bits[n] \in {0, 1} /\ 2^0 = 1
    BY PowerAssumption
  <2> QED
    BY <2>2, <2>3 DEF Bit
<1> QED
  BY <1>5, <1>6
-----------------------------------------------------------------------------
(***************************************************************************)
(* Words.                                                                  *)
(***************************************************************************)
LEMMA ToWordIs ==
    ASSUME NEW x \in Int
    PROVE  /\ ToWord(x) \in Word
           /\ \A n \in 0 .. WordBits - 1 : Bit(ToWord(x), n) = Bit(x, n)
<1>1. WordSpan \in Nat \ {0} /\ WordSpan = 2^WordBits /\ WordBits \in 0 .. WordBits
  BY Widths
<1>2. ToWord(x) \in Word
  <2> HIDE DEF WordSpan
  <2> QED
    BY <1>1, DivMod DEF ToWord, Word
<1>3. \A n \in 0 .. WordBits - 1 : Bit(x % 2^WordBits, n) = Bit(x, n)
  BY <1>1, BitOfMod
<1> QED
  BY <1>1, <1>2, <1>3 DEF ToWord

LEMMA WordIs == ASSUME NEW v \in Word PROVE v \in Int /\ v \in Nat /\ ToWord(v) = v
<1> DEFINE W == WordSpan
<1>1. W \in Nat \ {0} /\ v \in 0 .. W - 1
  BY Widths DEF Word
<1> HIDE DEF W
<1>2. v % W = v
  BY <1>1, v = W * 0 + v, DivIs
<1> QED
  BY <1>1, <1>2 DEF ToWord, W

(* What ValueOf chooses is what has those bits.                            *)
LEMMA ValueIs ==
    ASSUME NEW v \in Word, NEW s, s \subseteq 0 .. WordBits - 1,
           \A n \in 0 .. WordBits - 1 : (Bit(v, n) = 1) <=> (n \in s)
    PROVE  BitsOf(v) = s /\ ValueOf(s) = v
<1>1. BitsOf(v) = s
  BY DEF BitsOf, Bit
<1>2. ASSUME NEW w \in Word, BitsOf(w) = s PROVE w = v
  <2>1. ASSUME NEW n \in 0 .. WordBits - 1 PROVE Bit(w, n) = Bit(v, n)
    <3>1. (Bit(w, n) = 1) <=> n \in s
      BY <1>2 DEF BitsOf, Bit
    <3>2. n \in 0 .. WordBits /\ w \in Int /\ v \in Int
      BY WordIs, Widths
    <3>3. Bit(w, n) \in {0, 1} /\ Bit(v, n) \in {0, 1}
      BY <3>2, BitType
    <3> QED
      BY <3>1, <3>3
  <2> QED
    BY <2>1, SameBits
<1>3. ValueOf(s) = v
  <2>1. \E w \in Word : BitsOf(w) = s
    BY <1>1
  <2> QED
    BY <1>2, <2>1 DEF ValueOf
<1> QED
  BY <1>1, <1>3

LEMMA InBits ==
    ASSUME NEW v, NEW n
    PROVE  (n \in BitsOf(v)) <=> (n \in 0 .. WordBits - 1 /\ Bit(v, n) = 1)
  BY DEF BitsOf, Bit

LEMMA BitOfWord == ASSUME NEW v \in Word, NEW n \in 0 .. WordBits - 1
                   PROVE  n \in 0 .. WordBits /\ Bit(v, n) \in {0, 1}
<1>1. n \in 0 .. WordBits /\ v \in Int
  BY WordIs, Widths
<1> QED
  BY <1>1, BitType

(* The sign of a word is its top bit.                                      *)
LEMMA SignOfWord ==
    ASSUME NEW v \in Word
    PROVE  /\ Negative(v) <=> v >= 2^Top
           /\ Signed(v, WORD_SIZE) = IF Negative(v) THEN v - WordSpan ELSE v
           /\ Signed(v, WORD_SIZE) \in - 2^Top .. 2^Top - 1
           /\ Signed(v, WORD_SIZE) \in Int
<1> DEFINE h == 2^Top
           W == WordSpan
<1>1. h \in Nat \ {0} /\ W = 2 * h /\ v \in 0 .. W - 1 /\ v \in Int /\ Top \in 0 .. WordBits - 1
  BY Widths DEF Word
<1>2. Span(WORD_SIZE) = W /\ W % W = 0 /\ v % W = v
  BY WordIs, <1>1 DEF ToWord, WordSpan
<1>3. W \div 2 = h
  <2> HIDE DEF h, W
  <2> QED
    BY <1>1
<1>4. v \div h = IF v >= h THEN 1 ELSE 0
  <2> HIDE DEF h, W
  <2>1. CASE v >= h
    <3>1. v = h * 1 + (v - h) /\ v - h \in 0 .. h - 1
      BY <1>1, <2>1
    <3> QED
      BY <1>1, <2>1, <3>1, DivIs
  <2>2. CASE ~ (v >= h)
    <3>1. v = h * 0 + v /\ v \in 0 .. h - 1
      BY <1>1, <2>2
    <3> QED
      BY <1>1, <2>2, <3>1, DivIs
  <2> QED
    BY <2>1, <2>2
<1>5. Negative(v) <=> (v \div h) % 2 = 1
  BY <1>1 DEF Negative, BitsOf
<1>6. Negative(v) <=> v >= h
  <2> HIDE DEF h
  <2> QED
    BY <1>1, <1>4, <1>5
<1>7. Signed(v, WORD_SIZE) = IF v < h THEN v ELSE v - W
  BY <1>2, <1>3 DEF Signed
<1> HIDE DEF h, W
<1>8. Signed(v, WORD_SIZE) = IF Negative(v) THEN v - W ELSE v
  BY <1>1, <1>6, <1>7
<1>9. Signed(v, WORD_SIZE) \in - h .. h - 1 /\ Signed(v, WORD_SIZE) \in Int
  BY <1>1, <1>7
<1> QED
  BY <1>6, <1>8, <1>9 DEF h, W

LEMMA LessIs ==
    ASSUME NEW a \in Word, NEW b \in Word
    PROVE  Less(a, b) <=> Signed(a, WORD_SIZE) < Signed(b, WORD_SIZE)
<1> DEFINE W == WordSpan
<1>1. a \in 0 .. W - 1 /\ b \in 0 .. W - 1 /\ W \in Nat
  BY Widths DEF Word
<1>2. /\ Signed(a, WORD_SIZE) = IF Negative(a) THEN a - W ELSE a
      /\ Signed(b, WORD_SIZE) = IF Negative(b) THEN b - W ELSE b
  BY SignOfWord
<1> HIDE DEF W
<1>3. Negative(a) \in BOOLEAN /\ Negative(b) \in BOOLEAN
  BY DEF Negative
<1>4. CASE Negative(a) /\ Negative(b)
  BY <1>1, <1>2, <1>4 DEF Less
<1>5. CASE Negative(a) /\ ~ Negative(b)
  <2>1. Less(a, b)
    BY <1>3, <1>5 DEF Less
  <2> QED
    BY <1>1, <1>2, <1>5, <2>1
<1>6. CASE ~ Negative(a) /\ Negative(b)
  <2>1. ~ Less(a, b)
    BY <1>3, <1>6 DEF Less
  <2> QED
    BY <1>1, <1>2, <1>6, <2>1
<1>7. CASE ~ Negative(a) /\ ~ Negative(b)
  BY <1>1, <1>2, <1>3, <1>7 DEF Less
<1> QED
  BY <1>4, <1>5, <1>6, <1>7

(***************************************************************************)
(* The operations of the R section, one by one.                            *)
(***************************************************************************)
LEMMA AddIs ==
    ASSUME NEW a \in Word, NEW b \in Word
    PROVE  ToWord(a + b) = CHOOSE v \in Word : \E carry \in {0, WordSpan} : v + carry = a + b
<1> DEFINE W == WordSpan
           P(v) == \E carry \in {0, W} : v + carry = a + b
           r == (a + b) % W
<1>1. W \in Nat \ {0} /\ a \in 0 .. W - 1 /\ b \in 0 .. W - 1 /\ Word = 0 .. W - 1
  BY Widths DEF Word
<1> HIDE DEF W
<1>2. r \in 0 .. W - 1 /\ (r = a + b \/ r + W = a + b)
  <2>1. CASE a + b < W
    <3>1. a + b \in 0 .. W - 1 /\ a + b = W * 0 + (a + b) /\ a + b \in Int /\ 0 \in Int
      BY <1>1, <2>1
    <3>2. (a + b) % W = a + b
      BY <1>1, <3>1, DivIs
    <3> QED
      BY <3>1, <3>2
  <2>2. CASE ~ (a + b < W)
    <3>1. a + b - W \in 0 .. W - 1 /\ a + b = W * 1 + (a + b - W)
      BY <1>1, <2>2
    <3>2. (a + b) % W = a + b - W
      BY <1>1, <3>1, DivIs
    <3> QED
      BY <1>1, <3>1, <3>2
  <2> QED
    BY <2>1, <2>2
<1> HIDE DEF r
<1>3. P(r)
  BY <1>1, <1>2
<1>4. \A v \in 0 .. W - 1 : P(v) => v = r
  BY <1>1, <1>2
<1> HIDE DEF P
<1>5. r = CHOOSE v \in 0 .. W - 1 : P(v)
  BY <1>2, <1>3, <1>4
<1> QED
  BY <1>1, <1>5 DEF ToWord, r, P, W

LEMMA SubIs ==
    ASSUME NEW a \in Word, NEW b \in Word
    PROVE  ToWord(a - b) = CHOOSE v \in Word : \E borrow \in {0, WordSpan} : v + b = a + borrow
<1> DEFINE W == WordSpan
           P(v) == \E borrow \in {0, W} : v + b = a + borrow
           r == (a - b) % W
<1>1. W \in Nat \ {0} /\ a \in 0 .. W - 1 /\ b \in 0 .. W - 1 /\ Word = 0 .. W - 1
  BY Widths DEF Word
<1> HIDE DEF W
<1>2. r \in 0 .. W - 1 /\ (r + b = a \/ r + b = a + W)
  <2>1. CASE a >= b
    <3>1. a - b \in 0 .. W - 1 /\ a - b = W * 0 + (a - b) /\ a - b \in Int /\ 0 \in Int
      BY <1>1, <2>1
    <3>2. (a - b) % W = a - b
      BY <1>1, <3>1, DivIs
    <3> QED
      BY <1>1, <3>1, <3>2
  <2>2. CASE ~ (a >= b)
    <3>1. a - b + W \in 0 .. W - 1 /\ a - b = W * (-1) + (a - b + W) /\ a - b \in Int /\ -1 \in Int
      BY <1>1, <2>2
    <3>2. (a - b) % W = a - b + W
      BY <1>1, <3>1, DivIs
    <3> QED
      BY <1>1, <3>1, <3>2
  <2> QED
    BY <2>1, <2>2
<1> HIDE DEF r
<1>3. P(r)
  BY <1>1, <1>2
<1>4. \A v \in 0 .. W - 1 : P(v) => v = r
  BY <1>1, <1>2
<1> HIDE DEF P
<1>5. r = CHOOSE v \in 0 .. W - 1 : P(v)
  BY <1>2, <1>3, <1>4
<1> QED
  BY <1>1, <1>5 DEF ToWord, r, P, W
LEMMA Bits2 == ASSUME NEW a \in Word, NEW b \in Word, NEW n \in 0 .. WordBits - 1
               PROVE  Bit(a, n) \in {0, 1} /\ Bit(b, n) \in {0, 1}
  BY BitOfWord

LEMMA AndIs ==
    ASSUME NEW a \in Word, NEW b \in Word
    PROVE  And(a, b) \in Word /\ And(a, b) = ValueOf(BitsOf(a) \cap BitsOf(b))
<1> DEFINE bits == [n \in 0 .. WordBits - 1 |-> Bit(a, n) * Bit(b, n)]
           s == BitsOf(a) \cap BitsOf(b)
<1>1. ASSUME NEW n \in 0 .. WordBits - 1
      PROVE  bits[n] \in {0, 1} /\ (bits[n] = 1 <=> n \in s)
  <2>1. Bit(a, n) \in {0, 1} /\ Bit(b, n) \in {0, 1} /\ bits[n] = Bit(a, n) * Bit(b, n)
    BY Bits2
  <2>2. n \in s <=> Bit(a, n) = 1 /\ Bit(b, n) = 1
    BY InBits
  <2> QED
    BY <2>1, <2>2
<1>2. And(a, b) = OfBits(bits)
  BY DEF And
<1>3. s \subseteq 0 .. WordBits - 1
  BY DEF BitsOf
<1> HIDE DEF bits, s
<1>4. OfBits(bits) \in Word /\ \A n \in 0 .. WordBits - 1 : Bit(OfBits(bits), n) = bits[n]
  BY <1>1, OfBitsIs
<1>5. \A n \in 0 .. WordBits - 1 : Bit(OfBits(bits), n) = 1 <=> n \in s
  BY <1>1, <1>4
<1>6. ValueOf(s) = OfBits(bits)
  BY <1>3, <1>4, <1>5, ValueIs
<1> QED
  BY <1>2, <1>4, <1>6 DEF s

LEMMA OrIs ==
    ASSUME NEW a \in Word, NEW b \in Word
    PROVE  Or(a, b) \in Word /\ Or(a, b) = ValueOf(BitsOf(a) \cup BitsOf(b))
<1> DEFINE bits == [n \in 0 .. WordBits - 1 |-> IF Bit(a, n) + Bit(b, n) > 0 THEN 1 ELSE 0]
           s == BitsOf(a) \cup BitsOf(b)
<1>1. ASSUME NEW n \in 0 .. WordBits - 1
      PROVE  bits[n] \in {0, 1} /\ (bits[n] = 1 <=> n \in s)
  <2>1. /\ Bit(a, n) \in {0, 1} /\ Bit(b, n) \in {0, 1}
        /\ bits[n] = IF Bit(a, n) + Bit(b, n) > 0 THEN 1 ELSE 0
    BY Bits2
  <2>2. n \in s <=> Bit(a, n) = 1 \/ Bit(b, n) = 1
    BY InBits
  <2> QED
    BY <2>1, <2>2
<1>2. Or(a, b) = OfBits(bits)
  BY DEF Or
<1>3. s \subseteq 0 .. WordBits - 1
  BY DEF BitsOf
<1> HIDE DEF bits, s
<1>4. OfBits(bits) \in Word /\ \A n \in 0 .. WordBits - 1 : Bit(OfBits(bits), n) = bits[n]
  BY <1>1, OfBitsIs
<1>5. \A n \in 0 .. WordBits - 1 : Bit(OfBits(bits), n) = 1 <=> n \in s
  BY <1>1, <1>4
<1>6. ValueOf(s) = OfBits(bits)
  BY <1>3, <1>4, <1>5, ValueIs
<1> QED
  BY <1>2, <1>4, <1>6 DEF s

LEMMA XorIs ==
    ASSUME NEW a \in Word, NEW b \in Word
    PROVE  /\ Xor(a, b) \in Word
           /\ Xor(a, b) = ValueOf((BitsOf(a) \cup BitsOf(b)) \ (BitsOf(a) \cap BitsOf(b)))
<1> DEFINE bits == [n \in 0 .. WordBits - 1 |-> (Bit(a, n) + Bit(b, n)) % 2]
           s == (BitsOf(a) \cup BitsOf(b)) \ (BitsOf(a) \cap BitsOf(b))
<1>1. ASSUME NEW n \in 0 .. WordBits - 1
      PROVE  bits[n] \in {0, 1} /\ (bits[n] = 1 <=> n \in s)
  <2>1. /\ Bit(a, n) \in {0, 1} /\ Bit(b, n) \in {0, 1}
        /\ bits[n] = (Bit(a, n) + Bit(b, n)) % 2
    BY Bits2
  <2>2. n \in s <=> (Bit(a, n) = 1 \/ Bit(b, n) = 1) /\ ~ (Bit(a, n) = 1 /\ Bit(b, n) = 1)
    BY InBits
  <2> QED
    BY <2>1, <2>2
<1>2. Xor(a, b) = OfBits(bits)
  BY DEF Xor
<1>3. s \subseteq 0 .. WordBits - 1
  BY DEF BitsOf
<1> HIDE DEF bits, s
<1>4. OfBits(bits) \in Word /\ \A n \in 0 .. WordBits - 1 : Bit(OfBits(bits), n) = bits[n]
  BY <1>1, OfBitsIs
<1>5. \A n \in 0 .. WordBits - 1 : Bit(OfBits(bits), n) = 1 <=> n \in s
  BY <1>1, <1>4
<1>6. ValueOf(s) = OfBits(bits)
  BY <1>3, <1>4, <1>5, ValueIs
<1> QED
  BY <1>2, <1>4, <1>6 DEF s

LEMMA ShiftIs == ASSUME NEW b \in Word
                 PROVE  Shift(b) = b % WordBits /\ Shift(b) \in 0 .. WordBits - 1 /\ Shift(b) \in 0 .. WordBits
<1> DEFINE n == WordBits
<1>1. n \in Nat \ {0} /\ b \in Int
  BY Widths, WordIs
<1> HIDE DEF n
<1>2. b % n \in 0 .. n - 1
  BY <1>1, DivMod
<1>3. b % n \in 0 .. n
  BY <1>1, <1>2
<1> QED
  BY <1>2, <1>3 DEF Shift, n

LEMMA SllIs ==
    ASSUME NEW a \in Word, NEW s \in 0 .. WordBits - 1
    PROVE  ToWord(a * 2^s) = ValueOf({t \in 0 .. Top : t - s \in BitsOf(a)})
<1> DEFINE x == a * 2^s
           u == {t \in 0 .. Top : t - s \in BitsOf(a)}
<1>0. a \in Int /\ s \in 0 .. WordBits /\ WordBits \in Nat /\ 0 .. Top = 0 .. WordBits - 1
  BY WordIs, Widths
<1>1. x \in Int
  BY <1>0, Power
<1>2. ASSUME NEW n \in 0 .. WordBits - 1 PROVE Bit(x, n) = 1 <=> n \in u
  <2>1. n \in 0 .. WordBits
    BY <1>0
  <2>2. Bit(x, n) = IF n < s THEN 0 ELSE Bit(a, n - s)
    BY <1>0, <2>1, BitTimes
  <2>3. (n - s \in BitsOf(a)) <=> (n - s \in 0 .. WordBits - 1 /\ Bit(a, n - s) = 1)
    BY InBits
  <2>4. (n - s \in 0 .. WordBits - 1) <=> ~ (n < s)
    BY <1>0
  <2>5. n \in u <=> n - s \in BitsOf(a)
    BY <1>0
  <2> HIDE DEF x, u
  <2> QED
    BY <2>2, <2>3, <2>4, <2>5
<1>3. u \subseteq 0 .. WordBits - 1
  BY <1>0
<1> HIDE DEF x, u
<1>4. ToWord(x) \in Word /\ \A n \in 0 .. WordBits - 1 : Bit(ToWord(x), n) = Bit(x, n)
  BY <1>1, ToWordIs
<1>5. \A n \in 0 .. WordBits - 1 : Bit(ToWord(x), n) = 1 <=> n \in u
  BY <1>2, <1>4
<1>6. ValueOf(u) = ToWord(x)
  BY <1>3, <1>4, <1>5, ValueIs
<1> QED
  BY <1>6 DEF x, u

LEMMA QuotientRange ==
    ASSUME NEW b \in Nat \ {0}, NEW c \in Nat \ {0}, NEW a \in Int
    PROVE  /\ 0 <= a /\ a < b * c => a \div b \in 0 .. c - 1
           /\ - (b * c) <= a /\ a < 0 => a \div b \in - c .. -1
<1> DEFINE q == a \div b
           r == a % b
<1>1. q \in Int /\ r \in 0 .. b - 1 /\ a = b * q + r /\ b * q \in Int
  BY DivMod
<1> HIDE DEF q, r
<1>2. ASSUME q < 0 PROVE a < 0
  <2>1. PICK d \in Nat : q = - 1 - d
    BY <1>1, <1>2, - 1 - q \in Nat
  <2>2. b * q = - b - b * d /\ b * d \in Nat
    BY <2>1
  <2> QED
    BY <1>1, <2>2
<1>3. ASSUME q >= 0 PROVE a >= 0
  <2>1. b * q \in Nat
    BY <1>1, <1>3
  <2> QED
    BY <1>1, <2>1
<1>4. ASSUME q >= c PROVE a >= b * c
  <2>1. PICK d \in Nat : q = c + d
    BY <1>1, <1>4, q - c \in Nat
  <2>2. b * q = b * c + b * d /\ b * d \in Nat /\ b * c \in Nat
    BY <2>1
  <2> QED
    BY <1>1, <2>2
<1>5. ASSUME q < - c PROVE a < - (b * c)
  <2>1. PICK d \in Nat : q = - c - 1 - d
    BY <1>1, <1>5, - c - 1 - q \in Nat
  <2>2. b * q = - (b * c) - b - b * d /\ b * d \in Nat /\ b * c \in Nat
    BY <2>1
  <2> QED
    BY <1>1, <2>2
<1> DEFINE n == b * c
<1>6. n \in Nat
  OBVIOUS
<1> HIDE DEF n
<1>7. (q < 0 => a < 0) /\ (q >= 0 => a >= 0) /\ (q >= c => a >= n) /\ (q < - c => a < - n)
  BY <1>2, <1>3, <1>4, <1>5 DEF n
<1>8. 0 <= a /\ a < n => q \in 0 .. c - 1
  BY <1>1, <1>6, <1>7
<1>9. - n <= a /\ a < 0 => q \in - c .. -1
  BY <1>1, <1>6, <1>7
<1> QED
  BY <1>8, <1>9 DEF n, q

(* What is shifted in from above a word: zeros, or the sign.               *)
LEMMA ShiftedIn ==
    ASSUME NEW s \in 0 .. WordBits - 1, NEW n \in 0 .. WordBits - 1, n + s >= WordBits, NEW g \in Int
    PROVE  /\ 0 <= g /\ g < WordSpan => Bit(g \div 2^s, n) = 0
           /\ - WordSpan <= g /\ g < 0 => Bit(g \div 2^s, n) = 1
<1> DEFINE m == WordBits - s
           b == 2^s
           c == 2^m
           q == g \div b
<1>1. m \in 0 .. WordBits /\ n \in m .. WordBits /\ s \in 0 .. WordBits /\ m + s = WordBits
  BY Widths
<1>2. b \in Nat \ {0} /\ c \in Nat \ {0} /\ WordSpan = b * c
  <2>1. 2^(m + s) = 2^m * 2^s
    BY <1>1, PowerSum
  <2>2. b \in Nat \ {0} /\ c \in Nat \ {0}
    BY <1>1, Power
  <2>3. WordSpan = c * b
    BY <1>1, <2>1, Widths
  <2> HIDE DEF b, c
  <2> QED
    BY <2>2, <2>3
<1>3. /\ 0 <= g /\ g < b * c => q \in 0 .. c - 1
      /\ - (b * c) <= g /\ g < 0 => q \in - c .. -1
  <2> HIDE DEF b, c
  <2> QED
    BY <1>2, QuotientRange
<1> HIDE DEF m, q
<1>4. q \in 0 .. c - 1 => Bit(q, n) = 0
  BY <1>1, BitBeyond
<1>5. q \in - c .. -1 => Bit(q, n) = 1
  BY <1>1, BitBeyondSign
<1> QED
  BY <1>2, <1>3, <1>4, <1>5 DEF q

LEMMA SrlIs ==
    ASSUME NEW a \in Word, NEW s \in 0 .. WordBits - 1
    PROVE  a \div 2^s \in Word /\ a \div 2^s = ValueOf({t \in 0 .. Top : t + s \in BitsOf(a)})
<1> DEFINE x == a \div 2^s
           u == {t \in 0 .. Top : t + s \in BitsOf(a)}
<1>0. a \in Int /\ s \in 0 .. WordBits /\ WordBits \in Nat /\ 0 .. Top = 0 .. WordBits - 1
  BY WordIs, Widths
<1>1. x \in Word
  <2> DEFINE b == 2^s
             W == WordSpan
  <2>1. b \in Nat \ {0} /\ W \in Nat \ {0} /\ a \in 0 .. W - 1 /\ W <= b * W
    <3>1. b \in Nat \ {0} /\ W \in Nat \ {0} /\ a \in 0 .. W - 1
      BY <1>0, Power, Widths DEF Word
    <3> HIDE DEF b, W
    <3>2. PICK d \in Nat : b = 1 + d
      BY <3>1, b - 1 \in Nat
    <3>3. b * W = W + d * W /\ d * W \in Nat
      BY <3>1, <3>2
    <3> QED
      BY <3>1, <3>3
  <2> HIDE DEF b, W
  <2>2. 0 <= a /\ a < b * W
    BY <1>0, <2>1
  <2>3. a \div b \in 0 .. W - 1
    BY <1>0, <2>1, <2>2, QuotientRange
  <2> QED
    BY <2>3 DEF Word, b, W
<1>2. ASSUME NEW n \in 0 .. WordBits - 1 PROVE Bit(x, n) = 1 <=> n \in u
  <2>1. n \in 0 .. WordBits
    BY <1>0
  <2>2. Bit(x, n) = Bit(a, s + n)
    BY <1>0, <2>1, BitShift
  <2>3. (n + s \in BitsOf(a)) <=> (n + s \in 0 .. WordBits - 1 /\ Bit(a, n + s) = 1)
    BY InBits
  <2>4. n + s = s + n /\ n + s \in Nat
    BY <1>0
  <2>5. n \in u <=> n + s \in BitsOf(a)
    BY <1>0
  <2>6. ASSUME ~ (n + s \in 0 .. WordBits - 1) PROVE Bit(x, n) = 0
    <3>1. 0 <= a /\ a < WordSpan /\ n + s >= WordBits
      BY <1>0, <2>4, <2>6, Widths DEF Word
    <3> QED
      BY <1>0, <3>1, ShiftedIn
  <2> HIDE DEF x, u
  <2> QED
    BY <2>2, <2>3, <2>4, <2>5, <2>6
<1>3. u \subseteq 0 .. WordBits - 1
  BY <1>0
<1> HIDE DEF x, u
<1>4. ValueOf(u) = x
  BY <1>1, <1>2, <1>3, ValueIs
<1> QED
  BY <1>1, <1>4 DEF x, u

(* The bits of a signed number are those of the word, then its sign.       *)
LEMMA SignedBits ==
    ASSUME NEW a \in Word, NEW n \in 0 .. WordBits - 1
    PROVE  Bit(Signed(a, WORD_SIZE), n) = Bit(a, n)
<1>1. a \in Int /\ Signed(a, WORD_SIZE) = IF Negative(a) THEN a - WordSpan ELSE a
  BY WordIs, SignOfWord
<1>2. CASE Negative(a)
  <2> DEFINE c == -1
             W == 2^WordBits
  <2>1. Signed(a, WORD_SIZE) = a + c * W /\ c \in Int /\ WordBits \in 0 .. WordBits
    BY <1>1, <1>2, Widths
  <2> HIDE DEF c
  <2>2. Bit(a + c * 2^WordBits, n) = Bit(a, n)
    BY <1>1, <2>1, BitAdd
  <2> QED
    BY <2>1, <2>2
<1>3. CASE ~ Negative(a)
  BY <1>1, <1>3
<1> QED
  BY <1>2, <1>3

LEMMA SraIs ==
    ASSUME NEW a \in Word, NEW s \in 0 .. WordBits - 1
    PROVE  ToWord(Signed(a, WORD_SIZE) \div 2^s)
             = ValueOf({t \in 0 .. Top : t + s \in BitsOf(a) \/ (t + s > Top /\ Negative(a))})
<1> DEFINE g == Signed(a, WORD_SIZE)
           x == g \div 2^s
           u == {t \in 0 .. Top : t + s \in BitsOf(a) \/ (t + s > Top /\ Negative(a))}
<1>0. /\ a \in Int /\ s \in 0 .. WordBits /\ WordBits \in Nat /\ 0 .. Top = 0 .. WordBits - 1
      /\ Top = WordBits - 1
  BY WordIs, Widths
<1>1. /\ g \in Int
      /\ Negative(a) => g < 0 /\ - WordSpan <= g
      /\ ~ Negative(a) => 0 <= g /\ g < WordSpan
  BY SignOfWord, Widths DEF Word
<1>2. \A n \in 0 .. WordBits - 1 : Bit(g, n) = Bit(a, n)
  BY SignedBits
<1> HIDE DEF g
<1>3. x \in Int
  BY <1>0, <1>1, BitType
<1>4. ASSUME NEW n \in 0 .. WordBits - 1 PROVE Bit(x, n) = 1 <=> n \in u
  <2>1. n \in 0 .. WordBits
    BY <1>0
  <2>2. Bit(x, n) = Bit(g, s + n)
    BY <1>0, <1>1, <2>1, BitShift
  <2>3. (n + s \in BitsOf(a)) <=> (n + s \in 0 .. WordBits - 1 /\ Bit(a, n + s) = 1)
    BY InBits
  <2>4. n + s = s + n /\ n + s \in Nat /\ (n + s > Top <=> ~ (n + s \in 0 .. WordBits - 1))
    BY <1>0
  <2>5. n \in u <=> n + s \in BitsOf(a) \/ (n + s > Top /\ Negative(a))
    BY <1>0
  <2>6. ASSUME ~ (n + s \in 0 .. WordBits - 1)
        PROVE  Bit(x, n) = IF Negative(a) THEN 1 ELSE 0
    <3>1. n + s >= WordBits
      BY <1>0, <2>4, <2>6
    <3> QED
      BY <1>1, <3>1, ShiftedIn
  <2> HIDE DEF x, u
  <2>7. CASE n + s \in 0 .. WordBits - 1
    BY <1>2, <2>2, <2>3, <2>4, <2>5, <2>7
  <2>8. CASE ~ (n + s \in 0 .. WordBits - 1)
    BY <2>3, <2>4, <2>5, <2>6, <2>8
  <2> QED
    BY <2>7, <2>8
<1>5. u \subseteq 0 .. WordBits - 1
  BY <1>0
<1> HIDE DEF x, u
<1>6. ToWord(x) \in Word /\ \A n \in 0 .. WordBits - 1 : Bit(ToWord(x), n) = Bit(x, n)
  BY <1>3, ToWordIs
<1>7. \A n \in 0 .. WordBits - 1 : Bit(ToWord(x), n) = 1 <=> n \in u
  BY <1>4, <1>6
<1>8. ValueOf(u) = ToWord(x)
  BY <1>5, <1>6, <1>7, ValueIs
<1> QED
  BY <1>8 DEF x, u, g
Alus == {"add", "sub", "slt", "sltu", "and", "or", "xor", "sll", "srl", "sra"}

LEMMA SllBase ==
    ASSUME NEW a \in Word, NEW b \in Word
    PROVE  /\ R("sll", a, b) \in Word /\ R("sll", a, b) = IsaAlu("sll", a, b)
           /\ R("srl", a, b) \in Word /\ R("srl", a, b) = IsaAlu("srl", a, b)
           /\ R("sra", a, b) \in Word /\ R("sra", a, b) = IsaAlu("sra", a, b)
<1> DEFINE s == Shift(b)
<1>1. s = b % WordBits /\ s \in 0 .. WordBits - 1 /\ s \in 0 .. WordBits /\ a \in Int
  BY ShiftIs, WordIs
<1>2. /\ R("sll", a, b) = ToWord(a * 2^s)
      /\ R("srl", a, b) = a \div 2^s
      /\ R("sra", a, b) = ToWord(Signed(a, WORD_SIZE) \div 2^s)
  BY DEF R
<1>3. /\ IsaAlu("sll", a, b) = ValueOf({t \in 0 .. Top : t - (b % WordBits) \in BitsOf(a)})
      /\ IsaAlu("srl", a, b) = ValueOf({t \in 0 .. Top : t + (b % WordBits) \in BitsOf(a)})
      /\ IsaAlu("sra", a, b) = ValueOf({t \in 0 .. Top :
             t + (b % WordBits) \in BitsOf(a) \/ (t + (b % WordBits) > Top /\ Negative(a))})
  BY DEF IsaAlu
<1> HIDE DEF s
<1>4. ToWord(a * 2^s) = ValueOf({t \in 0 .. Top : t - s \in BitsOf(a)})
  BY <1>1, SllIs
<1>5. a \div 2^s \in Word /\ a \div 2^s = ValueOf({t \in 0 .. Top : t + s \in BitsOf(a)})
  BY <1>1, SrlIs
<1>6. ToWord(Signed(a, WORD_SIZE) \div 2^s)
        = ValueOf({t \in 0 .. Top : t + s \in BitsOf(a) \/ (t + s > Top /\ Negative(a))})
  BY <1>1, SraIs
<1>7. a * 2^s \in Int /\ Signed(a, WORD_SIZE) \div 2^s \in Int
  BY <1>1, Power, SignOfWord, BitType
<1>8. ToWord(a * 2^s) \in Word /\ ToWord(Signed(a, WORD_SIZE) \div 2^s) \in Word
  BY <1>7, ToWordIs
<1>9. R("sll", a, b) \in Word /\ R("sll", a, b) = IsaAlu("sll", a, b)
  BY <1>1, <1>2, <1>3, <1>4, <1>8
<1>10. R("srl", a, b) \in Word /\ R("srl", a, b) = IsaAlu("srl", a, b)
  BY <1>1, <1>2, <1>3, <1>5
<1>11. R("sra", a, b) \in Word /\ R("sra", a, b) = IsaAlu("sra", a, b)
  BY <1>1, <1>2, <1>3, <1>6, <1>8
<1> QED
  BY <1>9, <1>10, <1>11

(* What instr_r.h computes is what the instruction set says, for every     *)
(* operation, every two words and every width of a word.                   *)
THEOREM AluFollowsIsa ==
    ASSUME NEW name \in Alus, NEW a \in Word, NEW b \in Word
    PROVE  R(name, a, b) = IsaAlu(name, a, b) /\ R(name, a, b) \in Word
<1> DEFINE Ok(n) == R(n, a, b) = IsaAlu(n, a, b) /\ R(n, a, b) \in Word
<1>0. a \in Int /\ b \in Int /\ a + b \in Int /\ a - b \in Int
  BY WordIs
<1>1. Ok("add")
  <2>1. R("add", a, b) = ToWord(a + b)
    BY DEF R
  <2>2. IsaAlu("add", a, b) = CHOOSE v \in Word : \E carry \in {0, WordSpan} : v + carry = a + b
    BY DEF IsaAlu
  <2> QED
    <3> DEFINE c == CHOOSE v \in Word : \E carry \in {0, WordSpan} : v + carry = a + b
               r == ToWord(a + b)
    <3>1. r = c
      BY AddIs
    <3>2. r \in Word
      BY <1>0, ToWordIs
    <3>3. IsaAlu("add", a, b) = c
      BY <2>2
    <3> HIDE DEF r, c
    <3> QED
      BY <2>1, <3>1, <3>2, <3>3 DEF r
<1>2. Ok("sub")
  <2>1. R("sub", a, b) = ToWord(a - b)
    BY DEF R
  <2>2. IsaAlu("sub", a, b) = CHOOSE v \in Word : \E borrow \in {0, WordSpan} : v + b = a + borrow
    BY DEF IsaAlu
  <2> QED
    <3> DEFINE c == CHOOSE v \in Word : \E borrow \in {0, WordSpan} : v + b = a + borrow
               r == ToWord(a - b)
    <3>1. r = c
      BY SubIs
    <3>2. r \in Word
      BY <1>0, ToWordIs
    <3>3. IsaAlu("sub", a, b) = c
      BY <2>2
    <3> HIDE DEF r, c
    <3> QED
      BY <2>1, <3>1, <3>2, <3>3 DEF r
<1>3. 0 \in Word /\ 1 \in Word
  <2>1. 2^Top \in Nat \ {0} /\ WordSpan = 2 * 2^Top
    BY Widths
  <2> QED
    BY <2>1 DEF Word
<1>4. Ok("slt")
  <2>1. R("slt", a, b) = IF Signed(a, WORD_SIZE) < Signed(b, WORD_SIZE) THEN 1 ELSE 0
    BY DEF R
  <2>2. IsaAlu("slt", a, b) = IF Less(a, b) THEN 1 ELSE 0
    BY DEF IsaAlu
  <2> QED
    BY <1>3, <2>1, <2>2, LessIs
<1>5. Ok("sltu")
  <2>1. R("sltu", a, b) = IF a < b THEN 1 ELSE 0
    BY DEF R
  <2>2. IsaAlu("sltu", a, b) = IF b - a > 0 THEN 1 ELSE 0
    BY DEF IsaAlu
  <2>3. a < b <=> b - a > 0
    BY <1>0
  <2> QED
    BY <1>3, <2>1, <2>2, <2>3
<1>6. Ok("and")
  <2>1. R("and", a, b) = And(a, b) /\ IsaAlu("and", a, b) = ValueOf(BitsOf(a) \cap BitsOf(b))
    BY DEF R, IsaAlu
  <2> QED
    BY <2>1, AndIs
<1>7. Ok("or")
  <2>1. R("or", a, b) = Or(a, b) /\ IsaAlu("or", a, b) = ValueOf(BitsOf(a) \cup BitsOf(b))
    BY DEF R, IsaAlu
  <2> QED
    BY <2>1, OrIs
<1>8. Ok("xor")
  <2>1. /\ R("xor", a, b) = Xor(a, b)
        /\ IsaAlu("xor", a, b) = ValueOf((BitsOf(a) \cup BitsOf(b)) \ (BitsOf(a) \cap BitsOf(b)))
    BY DEF R, IsaAlu
  <2> QED
    BY <2>1, XorIs
<1>9. Ok("sll") /\ Ok("srl") /\ Ok("sra")
  BY SllBase
<1> HIDE DEF Ok
<1>10. Ok(name)
  BY <1>1, <1>2, <1>4, <1>5, <1>6, <1>7, <1>8, <1>9 DEF Alus
<1> QED
  BY <1>10 DEF Ok

LEMMA SignedImmediate ==
    ASSUME NEW imm \in Immediate
    PROVE  imm \in Int /\ ToWord(imm) \in Word /\ Signed(ToWord(imm), WORD_SIZE) = imm
<1> DEFINE h == 2^Top
           W == WordSpan
           w == ToWord(imm)
<1>1. h \in Nat \ {0} /\ W = 2 * h /\ imm \in - h .. h - 1 /\ imm \in Int
  <2>1. h \in Nat \ {0} /\ W = 2 * h /\ W \in Nat
    BY Widths
  <2>2. imm \in - (W \div 2) .. (W \div 2) - 1
    BY DEF Immediate
  <2> HIDE DEF h, W
  <2>3. W \div 2 = h
    BY <2>1
  <2> QED
    BY <2>1, <2>2, <2>3
<1>2. w \in Word
  BY <1>1, ToWordIs
<1>3. /\ Negative(w) <=> w >= h
      /\ Signed(w, WORD_SIZE) = IF Negative(w) THEN w - W ELSE w
  BY <1>2, SignOfWord
<1>4. w = IF imm < 0 THEN imm + W ELSE imm
  <2>1. w = imm % W
    BY DEF ToWord
  <2> HIDE DEF h, W, w
  <2>2. CASE imm < 0
    <3>1. imm + W \in 0 .. W - 1 /\ imm = W * (-1) + (imm + W) /\ -1 \in Int /\ W \in Nat \ {0}
      BY <1>1, <2>2
    <3>2. imm % W = imm + W
      BY <1>1, <3>1, DivIs
    <3> QED
      BY <2>1, <2>2, <3>2
  <2>3. CASE ~ (imm < 0)
    <3>1. imm \in 0 .. W - 1 /\ imm = W * 0 + imm /\ 0 \in Int /\ W \in Nat \ {0}
      BY <1>1, <2>3
    <3>2. imm % W = imm
      BY <1>1, <3>1, DivIs
    <3> QED
      BY <2>1, <2>3, <3>2
  <2> QED
    BY <2>2, <2>3
<1> HIDE DEF h, W, w
<1>5. Signed(w, WORD_SIZE) = imm
  BY <1>1, <1>3, <1>4
<1> QED
  BY <1>1, <1>2, <1>5 DEF w

LEMMA ImmediateFollowsIsa ==
    ASSUME NEW name \in Alus, NEW a \in Word, NEW imm \in Immediate
    PROVE  I_R(name, a, imm) = IsaAlu(name, a, imm % WordSpan) /\ I_R(name, a, imm) \in Word
<1> DEFINE b == ToWord(imm)
<1>1. b = imm % WordSpan /\ b \in Word /\ Signed(b, WORD_SIZE) = imm
  BY SignedImmediate DEF ToWord
<1>2. CASE name = "slt"
  <2>1. I_R("slt", a, imm) = IF Signed(a, WORD_SIZE) < imm THEN 1 ELSE 0
    BY DEF I_R
  <2>2. R("slt", a, b) = IF Signed(a, WORD_SIZE) < Signed(b, WORD_SIZE) THEN 1 ELSE 0
    BY DEF R
  <2> HIDE DEF b
  <2>3. R("slt", a, b) = IsaAlu("slt", a, b) /\ R("slt", a, b) \in Word
    BY <1>1, AluFollowsIsa DEF Alus
  <2> QED
    BY <1>1, <1>2, <2>1, <2>2, <2>3
<1>3. CASE name # "slt"
  <2>1. I_R(name, a, imm) = R(name, a, b)
    BY <1>3 DEF I_R
  <2> HIDE DEF b
  <2>2. R(name, a, b) = IsaAlu(name, a, b) /\ R(name, a, b) \in Word
    BY <1>1, AluFollowsIsa
  <2> QED
    BY <1>1, <2>1, <2>2
<1> QED
  BY <1>2, <1>3
-----------------------------------------------------------------------------
(***************************************************************************)
(* Loads and stores.                                                       *)
(***************************************************************************)
LEMMA Sizes ==
    ASSUME NEW n \in {1, 2, 4}
    PROVE  /\ n * ByteBits \in 0 .. WordBits /\ n * ByteBits \in Nat \ {0} /\ n * ByteBits - 1 \in 0 .. Top
           /\ Span(n) = 2^(n * ByteBits) /\ Span(n) \in Nat \ {0} /\ Span(n) <= WordSpan
           /\ ByteBits \in 0 .. WordBits /\ Span(1) = 2^ByteBits /\ Span(1) \in Nat \ {0}
<1>1. n * ByteBits \in 0 .. WordBits /\ n * ByteBits \in Nat \ {0} /\ ByteBits \in 0 .. WordBits
      /\ n * ByteBits - 1 \in 0 .. Top
  BY Widths
<1>2. Span(n) = 2^(n * ByteBits) /\ Span(1) = 2^(1 * ByteBits) /\ 1 * ByteBits = ByteBits
  BY Widths DEF Span
<1>3. WordBits \in 0 .. WordBits /\ n * ByteBits \in 0 .. WordBits
  BY <1>1, Widths
<1>4. 2^(n * ByteBits) \in Nat \ {0} /\ 2^ByteBits \in Nat \ {0}
  BY <1>1, Power
<1>5. 2^(n * ByteBits) <= 2^WordBits
  BY <1>3, PowerSplit
<1> QED
  BY <1>1, <1>2, <1>4, <1>5, Widths

(* A unit of n bytes has the bits of its bytes.                            *)
LEMMA UnitIs ==
    ASSUME NEW n \in {1, 2, 4}, NEW e, NEW at, \A i \in 0 .. n - 1 : at[Pos(e, n, i)] \in Byte
    PROVE  /\ Unit(at, e, n) \in 0 .. Span(n) - 1
           /\ \A t \in 0 .. n * ByteBits - 1 :
                 /\ t \div ByteBits \in 0 .. n - 1 /\ t % ByteBits \in 0 .. ByteBits - 1
                 /\ Bit(Unit(at, e, n), t) = Bit(at[Pos(e, n, t \div ByteBits)], t % ByteBits)
<1> DEFINE f == [i \in 0 .. n - 1 |-> at[Pos(e, n, i)] * Span(i)]
           y == [i \in 0 .. n - 1 |-> at[Pos(e, n, i)]]
           B == ByteBits
           u == Unit(at, e, n)
<1>1. B \in Nat \ {0} /\ B <= WordBits /\ n \in Nat /\ n * B <= WordBits
  BY Widths
<1>2. \A k \in 0 .. n - 1 : y[k] \in 0 .. 2^B - 1 /\ f[k] = y[k] * 2^(k * B)
  BY Sizes DEF Byte, Span
<1>3. u = SumTo(f, n)
  BY DEF Unit
<1> HIDE DEF f, B, u
<1>4. /\ SumTo(f, n) \in 0 .. 2^(n * B) - 1
      /\ \A k \in 0 .. n - 1, j \in 0 .. B - 1 : Bit(SumTo(f, n), k * B + j) = Bit(y[k], j)
  <2> HIDE DEF y
  <2> QED
    BY <1>1, <1>2, Digits
<1>5. u \in 0 .. Span(n) - 1
  BY <1>3, <1>4 DEF Span, B
<1>6. ASSUME NEW t \in 0 .. n * B - 1
      PROVE  /\ t \div B \in 0 .. n - 1 /\ t % B \in 0 .. B - 1
             /\ Bit(u, t) = Bit(at[Pos(e, n, t \div B)], t % B)
  <2> DEFINE k == t \div B
             j == t % B
  <2>1. t \in Int /\ 0 <= t /\ t < B * n /\ n \in Nat \ {0}
    BY <1>1
  <2>2. k \in 0 .. n - 1
    BY <1>1, <2>1, QuotientRange
  <2>3. j \in 0 .. B - 1 /\ t = B * k + j
    BY <1>1, <2>1, DivMod
  <2> HIDE DEF k, j
  <2>4. k * B + j = t
    BY <1>1, <2>2, <2>3
  <2>5. Bit(u, t) = Bit(y[k], j)
    BY <1>3, <1>4, <2>2, <2>3, <2>4
  <2>6. y[k] = at[Pos(e, n, k)]
    BY <2>2
  <2> QED
    BY <2>2, <2>3, <2>5, <2>6 DEF k, j
<1> QED
  BY <1>5, <1>6 DEF u, B

LEMMA TopBit ==
    ASSUME NEW h \in 0 .. Top, NEW v \in 0 .. 2 * 2^h - 1
    PROVE  Bit(v, h) = 1 <=> v >= 2^h
<1> DEFINE b == 2^h
<1>1. b \in Nat \ {0} /\ v \in 0 .. 2 * b - 1
  BY Widths, Power
<1> HIDE DEF b
<1>2. CASE v >= b
  <2>1. v \in Int /\ 1 \in Int /\ v = b * 1 + (v - b) /\ v - b \in 0 .. b - 1
    BY <1>1, <1>2
  <2>2. v \div b = 1
    BY <1>1, <2>1, DivIs
  <2>3. 1 % 2 = 1
    OBVIOUS
  <2> QED
    BY <1>2, <2>2, <2>3 DEF Bit, b
<1>3. CASE ~ (v >= b)
  <2>1. v \in Int /\ 0 \in Int /\ v = b * 0 + v /\ v \in 0 .. b - 1
    BY <1>1, <1>3
  <2>2. v \div b = 0
    BY <1>1, <2>1, DivIs
  <2>3. 0 % 2 = 0
    OBVIOUS
  <2> QED
    BY <1>3, <2>2, <2>3 DEF Bit, b
<1> QED
  BY <1>2, <1>3

(* A number of n bytes with its sign extended to a word.                   *)
LEMMA ExtendedIs ==
    ASSUME NEW n \in {1, 2}, NEW v \in 0 .. Span(n) - 1
    PROVE  /\ ToWord(Signed(v, n)) \in Word
           /\ \A t \in 0 .. WordBits - 1 :
                 Bit(ToWord(Signed(v, n)), t) = 1 <=>
                    \/ t < n * ByteBits /\ Bit(v, t) = 1
                    \/ t >= n * ByteBits - 1 /\ Bit(v, n * ByteBits - 1) = 1
<1> DEFINE N == n * ByteBits
           h == N - 1
           b == 2^h
           S == Span(n)
           g == Signed(v, n)
<1>1. N \in 0 .. WordBits /\ h \in 0 .. Top /\ N = h + 1 /\ h \in 0 .. WordBits - 1 /\ h \in 0 .. WordBits
  BY Sizes, Widths
<1>2. S = 2^N /\ 2^N = 2 * b /\ b \in Nat \ {0}
  BY <1>1, Sizes, PowerNext, Power
<1>3. v % S = v /\ S \div 2 = b /\ v \in Int /\ v \in 0 .. S - 1
  <2>1. v \in 0 .. S - 1
    OBVIOUS
  <2> HIDE DEF S, b
  <2>2. S \in Nat \ {0} /\ v \in Int /\ 0 \in Int /\ v = S * 0 + v
    BY <1>2, <2>1
  <2>3. v % S = v
    BY <2>1, <2>2, DivIs
  <2> QED
    BY <1>2, <2>1, <2>2, <2>3
<1>4. g = IF v < b THEN v ELSE v - S
  BY <1>3 DEF Signed
<1>5. Bit(v, h) = 1 <=> v >= b
  BY <1>1, <1>2, <1>3, TopBit
<1> HIDE DEF g, S
<1>6. g \in Int
  <2> HIDE DEF b
  <2> QED
    BY <1>2, <1>3, <1>4
<1>7. ToWord(g) \in Word /\ \A t \in 0 .. WordBits - 1 : Bit(ToWord(g), t) = Bit(g, t)
  BY <1>6, ToWordIs
<1>8. ASSUME NEW t \in 0 .. WordBits - 1
      PROVE  Bit(g, t) = 1 <=> (t < N /\ Bit(v, t) = 1) \/ (t >= h /\ Bit(v, h) = 1)
  <2>1. t \in 0 .. WordBits /\ WordBits \in Nat
    BY Widths
  <2>2. CASE v < b
    <3>1. g = v /\ Bit(v, h) # 1
      <4> HIDE DEF b
      <4> QED
        BY <1>2, <1>3, <1>4, <1>5, <2>2
    <3>2. CASE t < N
      BY <3>1, <3>2
    <3>3. CASE ~ (t < N)
      <4>1. t \in N .. WordBits /\ v \in 0 .. 2^N - 1
        BY <1>1, <1>2, <1>3, <2>1, <3>3
      <4>2. Bit(v, t) = 0
        BY <1>1, <4>1, BitBeyond
      <4> QED
        BY <3>1, <3>3, <4>2
    <3> QED
      BY <3>2, <3>3
  <2>3. CASE ~ (v < b)
    <3>1. g = v - S /\ Bit(v, h) = 1 /\ g \in - b .. -1
      <4> HIDE DEF b
      <4> QED
        BY <1>2, <1>3, <1>4, <1>5, <2>3
    <3>2. CASE t >= h
      <4>1. t \in h .. WordBits
        BY <1>1, <2>1, <3>2
      <4>2. Bit(g, t) = 1
        BY <1>1, <3>1, <4>1, BitBeyondSign
      <4> QED
        BY <3>1, <3>2, <4>2
    <3>3. CASE ~ (t >= h)
      <4>1. t \in 0 .. N - 1 /\ t < N
        BY <1>1, <2>1, <3>3
      <4> DEFINE c == -1
      <4>2. g = v + c * 2^N /\ c \in Int
        <5>1. 2^N \in Int
          BY <1>1, Power
        <5> QED
          BY <1>2, <1>3, <3>1, <5>1
      <4> HIDE DEF c, N
      <4>3. Bit(v + c * 2^N, t) = Bit(v, t)
        BY <1>1, <1>3, <4>1, <4>2, BitAdd
      <4> QED
        BY <3>3, <4>1, <4>2, <4>3
    <3> QED
      BY <3>2, <3>3
  <2> QED
    <3> HIDE DEF b, N, h
    <3> QED
      BY <2>2, <2>3
<1> QED
  BY <1>7, <1>8 DEF g
LEMMA LoadSizes ==
    ASSUME NEW name \in Sections.LOAD
    PROVE  /\ LoadSize[name] \in {1, 2, 4}
           /\ name \in {"lb", "lh"} => LoadSize[name] \in {1, 2}
           /\ LoadSize[name] = CASE name = "lw" -> 4 [] name \in {"lh", "lhu"} -> 2 [] OTHER -> 1
<1>1. name \in {"lb", "lh", "lw", "lbu", "lhu"}
  BY DEF Sections
<1> QED
  BY <1>1 DEF LoadSize

LEMMA ExtendType ==
    ASSUME NEW name \in Sections.LOAD, NEW v \in 0 .. Span(LoadSize[name]) - 1
    PROVE  Extend(name, v) \in Word
<1> DEFINE n == LoadSize[name]
<1>1. n \in {1, 2, 4} /\ (name \in {"lb", "lh"} => n \in {1, 2})
  BY LoadSizes
<1>2. CASE name \in {"lb", "lh"}
  <2>1. Extend(name, v) = ToWord(Signed(v, n))
    BY <1>2 DEF Extend
  <2> HIDE DEF n
  <2>2. v \in 0 .. Span(n) - 1
    BY DEF n
  <2> QED
    BY <1>1, <1>2, <2>1, <2>2, ExtendedIs
<1>3. CASE name \notin {"lb", "lh"}
  <2>1. Extend(name, v) = v
    BY <1>3 DEF Extend
  <2>2. v \in 0 .. Span(n) - 1
    OBVIOUS
  <2> HIDE DEF n
  <2>3. Span(n) \in Nat /\ Span(n) <= WordSpan /\ WordSpan \in Nat
    BY <1>1, Sizes, Widths
  <2> QED
    BY <2>1, <2>2, <2>3 DEF Word
<1> QED
  BY <1>2, <1>3

(* What instr_load.h makes of the bytes it reads is what the instruction   *)
(* set loads, for either endianness and any bytes.                         *)
THEOREM LoadFollowsIsa ==
    ASSUME NEW name \in Sections.LOAD, NEW arch, NEW addr \in Word,
           \A k \in 0 .. LoadSize[name] - 1 : arch.mem[(addr + k) % WordSpan] \in Byte
    PROVE  Extend(name, Unit([k \in 0 .. LoadSize[name] - 1 |-> arch.mem[(addr + k) % WordSpan]],
                             arch.endian, LoadSize[name]))
             = IsaLoad(name, arch, addr)
<1> DEFINE n  == LoadSize[name]
           e  == arch.endian
           at == [k \in 0 .. n - 1 |-> arch.mem[(addr + k) % WordSpan]]
           v  == Unit(at, e, n)
           N  == n * ByteBits
           hi == N - 1
           u  == UnitBits(arch, addr, n)
           x  == Extend(name, v)
           s  == IF name \in {"lb", "lh"} /\ hi \in u THEN u \cup (hi .. Top) ELSE u
<1>1. /\ n \in {1, 2, 4} /\ (name \in {"lb", "lh"} => n \in {1, 2})
      /\ IsaLoad(name, arch, addr) = ValueOf(s)
  BY LoadSizes DEF IsaLoad
<1>2. N \in 0 .. WordBits /\ hi \in 0 .. Top /\ N = hi + 1 /\ Top + 1 = WordBits /\ N \in Nat
  <2> HIDE DEF n
  <2> QED
    BY <1>1, Sizes, Widths
<1>3. \A i \in 0 .. n - 1 : Pos(e, n, i) \in 0 .. n - 1
  <2> HIDE DEF n
  <2> QED
    BY <1>1 DEF Pos
<1>4. \A k \in 0 .. n - 1 : at[k] = arch.mem[(addr + k) % WordSpan] /\ at[k] \in Byte
  OBVIOUS
<1>5. \A i \in 0 .. n - 1 : at[Pos(e, n, i)] \in Byte
  BY <1>3, <1>4
<1>6. /\ v \in 0 .. Span(n) - 1
      /\ \A t \in 0 .. N - 1 :
            /\ t \div ByteBits \in 0 .. n - 1 /\ t % ByteBits \in 0 .. ByteBits - 1
            /\ Bit(v, t) = Bit(at[Pos(e, n, t \div ByteBits)], t % ByteBits)
  <2> HIDE DEF n, at
  <2> QED
    BY <1>1, <1>5, UnitIs
<1>7. ASSUME NEW t \in 0 .. N - 1 PROVE t \in u <=> Bit(v, t) = 1
  <2> DEFINE k == t \div ByteBits
             p == Pos(e, n, k)
             a == (addr + p) % WordSpan
  <2>1. t \in u <=> (arch.mem[a] \div 2^(t % ByteBits)) % 2 = 1
    BY DEF UnitBits, Pos
  <2>2. k \in 0 .. n - 1 /\ p \in 0 .. n - 1 /\ Bit(v, t) = Bit(at[p], t % ByteBits)
    BY <1>3, <1>6
  <2>3. at[p] = arch.mem[a]
    BY <1>4, <2>2
  <2> HIDE DEF p, a, at, u, v
  <2> QED
    BY <2>1, <2>2, <2>3 DEF Bit
<1>8. u \subseteq 0 .. N - 1
  BY DEF UnitBits
<1>9. x \in Word
  <2> HIDE DEF v
  <2> QED
    BY <1>6, ExtendType
<1> HIDE DEF v, u, at
<1>10. ASSUME NEW t \in 0 .. WordBits - 1 PROVE Bit(x, t) = 1 <=> t \in s
  <2>1. CASE name \in {"lb", "lh"}
    <3>1. x = ToWord(Signed(v, n)) /\ n \in {1, 2}
      BY <1>1, <2>1 DEF Extend
    <3>2. Bit(x, t) = 1 <=> (t < N /\ Bit(v, t) = 1) \/ (t >= hi /\ Bit(v, hi) = 1)
      <4> HIDE DEF x, n
      <4> QED
        BY <1>6, <3>1, ExtendedIs
    <3>3. hi \in u <=> Bit(v, hi) = 1
      <4>1. hi \in 0 .. N - 1
        BY <1>2
      <4> QED
        BY <1>7, <4>1
    <3>4. t < N => (t \in u <=> Bit(v, t) = 1)
      <4>1. t < N => t \in 0 .. N - 1
        BY <1>2
      <4> QED
        BY <1>7, <4>1
    <3>5. ~ (t < N) => t \notin u
      BY <1>2, <1>8
    <3> HIDE DEF x, N, hi
    <3>6. t \in hi .. Top <=> t >= hi
      <4>1. hi \in Int /\ Top \in Int /\ t \in Int /\ t <= Top
        BY <1>2, Widths
      <4> QED
        BY <4>1
    <3>7. t < N /\ t >= hi => t = hi
      BY <1>2
    <3> QED
      BY <2>1, <3>2, <3>3, <3>4, <3>5, <3>6, <3>7
  <2>2. CASE name \notin {"lb", "lh"}
    <3>1. x = v
      BY <2>2 DEF Extend
    <3>2. CASE t < N
      <4>1. t \in 0 .. N - 1
        BY <1>2, <3>2
      <4> QED
        BY <1>7, <2>2, <3>1, <4>1
    <3>3. CASE ~ (t < N)
      <4>1. t \in N .. WordBits /\ v \in 0 .. 2^N - 1
        BY <1>2, <1>6, <3>3, Widths DEF Span
      <4>2. Bit(v, t) = 0
        BY <1>2, <4>1, BitBeyond
      <4>3. t \notin u
        BY <1>2, <1>8, <3>3
      <4> QED
        BY <2>2, <3>1, <4>2, <4>3
    <3> QED
      BY <3>2, <3>3
  <2> QED
    BY <2>1, <2>2
<1>11. s \subseteq 0 .. WordBits - 1
  <2> HIDE DEF N, hi
  <2>1. hi .. Top \subseteq 0 .. WordBits - 1 /\ 0 .. N - 1 \subseteq 0 .. WordBits - 1
    BY <1>2, Widths
  <2> QED
    BY <1>8, <2>1
<1> HIDE DEF x, s
<1>12. ValueOf(s) = x
  BY <1>9, <1>10, <1>11, ValueIs
<1> QED
  BY <1>1, <1>12 DEF x, v, at

LEMMA ByteOfType ==
    ASSUME NEW v \in Int, NEW e, NEW n \in {1, 2, 4}, NEW k \in 0 .. n - 1
    PROVE  ByteOf(v, e, n, k) \in Byte
<1> DEFINE p == Pos(e, n, k)
<1>1. p \in 0 .. n - 1
  BY DEF Pos
<1> HIDE DEF p
<1>2. p * ByteBits \in 0 .. WordBits
  <2>1. n \in Nat /\ n * ByteBits <= WordBits /\ ByteBits \in Nat \ {0} /\ p \in 0 .. n
    BY <1>1, Widths
  <2> QED
    BY <2>1, Multiples
<1>3. v \div Span(p) \in Int
  BY <1>2, BitType DEF Span
<1>4. Span(1) \in Nat \ {0}
  BY Sizes
<1>5. (v \div Span(p)) % Span(1) \in 0 .. Span(1) - 1
  <2> DEFINE q == v \div Span(p)
             b == Span(1)
  <2> HIDE DEF q, b
  <2>1. q % b \in 0 .. b - 1
    BY <1>3, <1>4, DivMod DEF q, b
  <2> QED
    BY <2>1 DEF q, b
<1> QED
  BY <1>5 DEF ByteOf, Byte, p

(* The bits of byte p of x, as they stand in a byte.                       *)
StoredBits(x, p) == {t \in 0 .. ByteBits - 1 : t + (p * ByteBits) \in BitsOf(x)}

(* The k-th byte of a store of the low n bytes of a word.                  *)
LEMMA StoredByte ==
    ASSUME NEW x \in Word, NEW e, NEW n \in {1, 2, 4}, NEW k \in 0 .. n - 1
    PROVE  ByteOf(x % Span(n), e, n, k)
             = ValueOf(StoredBits(x, Pos(e, n, k)))
<1> DEFINE p == Pos(e, n, k)
           B == ByteBits
           P == p * B
           v == x % Span(n)
           b == ByteOf(v, e, n, k)
           u == {t \in 0 .. B - 1 : t + P \in BitsOf(x)}
<1>1. p \in 0 .. n - 1
  BY DEF Pos
<1> HIDE DEF p
<1>2. /\ n * B \in 0 .. WordBits /\ Span(n) = 2^(n * B) /\ Span(n) \in Nat \ {0} /\ B \in Nat \ {0}
      /\ B \in 0 .. WordBits /\ Span(1) = 2^B /\ Span(1) \in Nat \ {0}
  BY Sizes, Widths
<1>3. P \in 0 .. WordBits /\ Span(p) = 2^P
  <2>1. n \in Nat /\ n * B <= WordBits /\ p \in 0 .. n
    BY <1>1, <1>2
  <2>2. P \in 0 .. WordBits
    BY <1>2, <2>1, Multiples
  <2> QED
    BY <2>2 DEF Span
<1>4. x \in Int /\ v \in Int /\ v \in Nat
  <2>1. x \in Int
    BY WordIs
  <2> DEFINE S == Span(n)
  <2> HIDE DEF S
  <2>2. x % S \in 0 .. S - 1
    BY <1>2, <2>1, DivMod DEF S
  <2> QED
    BY <1>2, <2>1, <2>2 DEF S
<1>5. b \in Byte
  <2> HIDE DEF v
  <2> QED
    BY <1>4, ByteOfType
<1>6. b = (v \div 2^P) % 2^B
  BY <1>2, <1>3 DEF ByteOf, p
<1> HIDE DEF b
<1>7. ASSUME NEW t \in 0 .. B - 1
      PROVE  Bit(b, t) = Bit(x, t + P) /\ t + P \in 0 .. WordBits - 1
  <2>1. t \in 0 .. WordBits /\ v \div 2^P \in Int
    BY <1>2, <1>3, <1>4, BitType, Widths
  <2>2. Bit(b, t) = Bit(v \div 2^P, t)
    <3> DEFINE w == v \div 2^P
    <3> HIDE DEF w
    <3>1. Bit(w % 2^B, t) = Bit(w, t)
      BY <1>2, <2>1, BitOfMod DEF w
    <3> QED
      BY <1>6, <3>1 DEF w
  <2>3. Bit(v \div 2^P, t) = Bit(v, P + t)
    <3> HIDE DEF v
    <3> QED
      BY <1>3, <1>4, <2>1, BitShift
  <2>4. P + t \in 0 .. n * B - 1
    <3>1. n \in Nat
      OBVIOUS
    <3>2. p * B + t \in 0 .. n * B - 1
      BY <1>1, <1>2, <3>1, Index
    <3> QED
      BY <3>2
  <2>5. Bit(v, P + t) = Bit(x, P + t)
    <3> DEFINE N == n * B
               m == P + t
    <3> HIDE DEF N, m
    <3>1. Bit(x % 2^N, m) = Bit(x, m)
      BY <1>2, <1>4, <2>4, BitOfMod DEF N, m
    <3> QED
      BY <1>2, <3>1 DEF N, m
  <2>6. P + t = t + P /\ P + t \in 0 .. WordBits - 1
    BY <1>2, <1>3, <2>1, <2>4, Widths
  <2> HIDE DEF v, P
  <2> QED
    BY <2>2, <2>3, <2>5, <2>6
<1>8. b \in Word
  <2>1. 1 \in {1, 2, 4} /\ Span(1) <= WordSpan
    BY Sizes
  <2> QED
    BY <1>2, <1>5, <2>1, Widths DEF Byte, Word
<1>9. ASSUME NEW t \in 0 .. WordBits - 1 PROVE Bit(b, t) = 1 <=> t \in u
  <2>1. CASE t < B
    <3>1. t \in 0 .. B - 1
      BY <1>2, <2>1, Widths
    <3>2. t + P \in BitsOf(x) <=> t + P \in 0 .. WordBits - 1 /\ Bit(x, t + P) = 1
      BY InBits
    <3> HIDE DEF P
    <3> QED
      BY <1>7, <3>1, <3>2
  <2>2. CASE ~ (t < B)
    <3>1. t \in B .. WordBits /\ b \in 0 .. 2^B - 1
      BY <1>2, <1>5, <2>2, Widths DEF Byte
    <3>2. Bit(b, t) = 0
      BY <1>2, <3>1, BitBeyond
    <3>3. t \notin u
      BY <1>2, <2>2, Widths
    <3> QED
      BY <3>2, <3>3
  <2> QED
    BY <2>1, <2>2
<1>10. u \subseteq 0 .. WordBits - 1
  BY <1>2, Widths
<1> HIDE DEF u
<1>11. ValueOf(u) = b
  BY <1>8, <1>9, <1>10, ValueIs
<1> QED
  BY <1>11 DEF u, b, v, P, p, StoredBits
=============================================================================
