---------------------------- MODULE ControlsProofs ----------------------------
(***************************************************************************)
(* For every word that the inverter may hold, every battery voltage class  *)
(* and any number of writes: the controls that share a register leave each *)
(* other's values alone (Controls).  What the argument needs of the tables *)
(* are the two assumptions of Controls, which TLC evaluates on all of them.*)
(***************************************************************************)
EXTENDS Controls, TLAPS

-----------------------------------------------------------------------------
(* Division with remainder.                                                *)
LEMMA Divided ==
    ASSUME NEW a \in Int, NEW b \in Nat \ {0}
    PROVE  /\ a = (a \div b) * b + (a % b)
           /\ a \div b \in Int /\ (a % b) \in 0 .. b - 1
OBVIOUS

LEMMA Quotient ==
    ASSUME NEW q \in Int, NEW b \in Nat \ {0}, NEW r \in 0 .. b - 1
    PROVE  (q * b + r) \div b = q /\ ((q * b + r) % b) = r
OBVIOUS

LEMMA Associative ==
    ASSUME NEW a \in Int, NEW b \in Int, NEW c \in Int
    PROVE  (a * b) * c = a * (b * c) /\ (a + b) * c = a * c + b * c
OBVIOUS

(* A multiple is a product.                                                *)
IsMultiple(x, p, q) == (x % (p * q)) = 0
Scaled(k, p, q) == k * (p * q)
LEMMA Multiple ==
    ASSUME NEW x \in Nat \ {0}, NEW p \in Nat \ {0}, NEW q \in Nat \ {0},
           IsMultiple(x, p, q)
    PROVE  \E k \in Nat \ {0} : x = Scaled(k, p, q)
<1> DEFINE b == p * q   k == x \div b
<1>1. b \in Nat \ {0} /\ (x % b) = 0
  BY DEF IsMultiple
<1> HIDE DEF b
<1>2. x = k * b + (x % b) /\ k \in Int
  BY <1>1, Divided
<1>3. k * b \in Int
  BY <1>1, <1>2
<1> HIDE DEF k
<1>4. x = k * b
  BY <1>1, <1>2, <1>3
<1>5. k >= 1
  <2> SUFFICES ASSUME k <= 0 PROVE FALSE
    BY <1>2
  <2>1. k * b <= 0
    BY <1>1, <1>2
  <2> QED BY <2>1, <1>4
<1> QED BY <1>2, <1>4, <1>5 DEF b, Scaled

(* A word with a field of weight w and s values: what is above the field,  *)
(* the field, what is below it.                                            *)
Joined(above, field, below, w, s) == (above * s + field) * w + below

LEMMA Parts ==
    ASSUME NEW a \in Int, NEW w \in Nat \ {0}, NEW s \in Nat \ {0}
    PROVE  \E above \in Int, below \in 0 .. w - 1 :
              a = Joined(above, GetBits(a, w, s), below, w, s)
<1>1. a = (a \div w) * w + (a % w) /\ a \div w \in Int /\ (a % w) \in 0 .. w - 1
  BY Divided
<1>2. /\ a \div w = ((a \div w) \div s) * s + ((a \div w) % s)
      /\ (a \div w) \div s \in Int
  BY <1>1, Divided
<1> QED BY <1>1, <1>2 DEF GetBits, Joined

LEMMA FieldOf ==
    ASSUME NEW above \in Int, NEW w \in Nat \ {0}, NEW s \in Nat \ {0},
           NEW field \in 0 .. s - 1, NEW below \in 0 .. w - 1
    PROVE  GetBits(Joined(above, field, below, w, s), w, s) = field
<1>1. above * s + field \in Int
  OBVIOUS
<1>2. ((above * s + field) * w + below) \div w = above * s + field
  BY <1>1, Quotient
<1>3. ((above * s + field) % s) = field
  BY Quotient
<1> QED BY <1>2, <1>3 DEF GetBits, Joined

LEMMA GetBitsRange ==
    ASSUME NEW a \in Int, NEW w \in Nat \ {0}, NEW s \in Nat \ {0}
    PROVE  GetBits(a, w, s) \in 0 .. s - 1
<1>1. a \div w \in Int
  BY Divided
<1>2. ((a \div w) % s) \in 0 .. s - 1
  BY <1>1, Divided
<1> QED BY <1>2 DEF GetBits

(* set_bits writes the field and keeps what is above and below.            *)
LEMMA SetBitsParts ==
    ASSUME NEW above \in Int, NEW w \in Nat \ {0}, NEW s \in Nat \ {0},
           NEW field \in 0 .. s - 1, NEW below \in 0 .. w - 1, NEW v \in 0 .. s - 1
    PROVE  SetBits(Joined(above, field, below, w, s), w, s, v)
             = Joined(above, v, below, w, s)
<1> DEFINE a == Joined(above, field, below, w, s)
<1>1. GetBits(a, w, s) = field
  BY FieldOf
<1>2. (v % s) = v
  OBVIOUS
<1>3. SetBits(a, w, s, v) = a - field * w + v * w
  BY <1>1, <1>2 DEF SetBits
<1>4. above * s \in Int
  OBVIOUS
<1>5. (above * s + field) * w = (above * s) * w + field * w
  BY <1>4, Associative
<1>6. (above * s + v) * w = (above * s) * w + v * w
  BY <1>4, Associative
<1>7. (above * s) * w \in Int /\ field * w \in Int /\ v * w \in Int
  OBVIOUS
<1> QED BY <1>3, <1>5, <1>6, <1>7 DEF Joined

(* A field reads back what was set in it.                                  *)
LEMMA FieldReadsBack ==
    ASSUME NEW a \in Int, NEW w \in Nat \ {0}, NEW s \in Nat \ {0}, NEW v \in 0 .. s - 1
    PROVE  GetBits(SetBits(a, w, s, v), w, s) = v
<1>1. PICK above \in Int, below \in 0 .. w - 1 :
          a = Joined(above, GetBits(a, w, s), below, w, s)
  BY Parts
<1>2. SetBits(a, w, s, v) = Joined(above, v, below, w, s)
  <2> DEFINE g == GetBits(a, w, s)
  <2>1. g \in 0 .. s - 1 /\ a = Joined(above, g, below, w, s)
    BY <1>1, GetBitsRange
  <2> HIDE DEF g
  <2>2. SetBits(Joined(above, g, below, w, s), w, s, v) = Joined(above, v, below, w, s)
    BY <2>1, SetBitsParts
  <2> QED BY <2>1, <2>2
<1> QED BY <1>2, FieldOf

(* The field and what is below it are less than weight times size.         *)
LEMMA JoinedFlat ==
    ASSUME NEW above \in Int, NEW w \in Nat \ {0}, NEW s \in Nat \ {0},
           NEW f \in 0 .. s - 1, NEW below \in 0 .. w - 1
    PROVE  /\ Joined(above, f, below, w, s) = above * (w * s) + (f * w + below)
           /\ f * w + below \in 0 .. w * s - 1
<1>1. (above * s + f) * w = (above * s) * w + f * w
  BY Associative
<1>2. (above * s) * w = above * (w * s)
  OBVIOUS
<1>3. f * w <= (s - 1) * w /\ f * w >= 0 /\ f * w \in Int
  OBVIOUS
<1>4. (s - 1) * w = w * s - w /\ w * s \in Int
  OBVIOUS
<1>5. f * w + below \in 0 .. w * s - 1
  BY <1>3, <1>4
<1> QED BY <1>1, <1>2, <1>5 DEF Joined

(* A field above it, whose weight is a multiple of weight and size, stays. *)
LEMMA HigherFieldStays ==
    ASSUME NEW a \in Int, NEW w \in Nat \ {0}, NEW s \in Nat \ {0}, NEW v \in 0 .. s - 1,
           NEW k \in Nat \ {0}, NEW n \in Nat \ {0}
    PROVE  GetBits(SetBits(a, w, s, v), Scaled(k, w, s), n) = GetBits(a, Scaled(k, w, s), n)
<1> DEFINE b == w * s
<1>0. b \in Nat \ {0}
  OBVIOUS
<1>1. PICK above \in Int, below \in 0 .. w - 1 :
          a = Joined(above, GetBits(a, w, s), below, w, s)
  BY Parts
<1>2. SetBits(a, w, s, v) = Joined(above, v, below, w, s)
  <2> DEFINE g == GetBits(a, w, s)
  <2>1. g \in 0 .. s - 1 /\ a = Joined(above, g, below, w, s)
    BY <1>1, GetBitsRange
  <2> HIDE DEF g
  <2>2. SetBits(Joined(above, g, below, w, s), w, s, v) = Joined(above, v, below, w, s)
    BY <2>1, SetBitsParts
  <2> QED BY <2>1, <2>2
<1>3. ASSUME NEW f \in 0 .. s - 1
      PROVE  Joined(above, f, below, w, s) \div (k * b) = above \div k
  <2>1. Joined(above, f, below, w, s) = above * b + (f * w + below)
    BY JoinedFlat
  <2>2. f * w + below \in 0 .. b - 1
    BY JoinedFlat
  <2>3. /\ above = (above \div k) * k + (above % k)
        /\ above \div k \in Int /\ (above % k) \in 0 .. k - 1
    BY Divided
  <2> DEFINE q == above \div k   r == above % k   l == f * w + below
  <2>4. above * b + l = q * (k * b) + (r * b + l)
    <3>1. above * b = (q * k) * b + r * b
      <4>1. q * k \in Int /\ r \in Int /\ above = q * k + r
        BY <2>3
      <4> HIDE DEF q, r, b
      <4> QED BY <4>1, <1>0, Associative
    <3>2. (q * k) * b = q * (k * b)
      BY <2>3, <1>0, Associative
    <3> QED BY <3>1, <3>2, <2>2, <2>3, <1>0
  <2>5. r * b + l \in 0 .. k * b - 1
    <3>1. r * b <= (k - 1) * b /\ r * b >= 0 /\ r * b \in Int
      BY <2>3, <1>0
    <3>2. (k - 1) * b = k * b - b
      BY <1>0
    <3>3. k * b \in Int /\ l \in 0 .. b - 1
      BY <1>0, <2>2
    <3> QED BY <3>1, <3>2, <3>3, <1>0
  <2>6. k * b \in Nat \ {0}
    BY <1>0
  <2> HIDE DEF b, q, r, l
  <2>7. (q * (k * b) + (r * b + l)) \div (k * b) = q
    BY <2>3, <2>5, <2>6, Quotient DEF q
  <2> QED BY <2>1, <2>4, <2>7 DEF q, l
<1>4. a \div (k * b) = SetBits(a, w, s, v) \div (k * b)
  <2>1. GetBits(a, w, s) \in 0 .. s - 1
    BY GetBitsRange
  <2>2. Joined(above, GetBits(a, w, s), below, w, s) \div (k * b) = above \div k
    BY <2>1, <1>3
  <2>3. Joined(above, v, below, w, s) \div (k * b) = above \div k
    BY <1>3
  <2> QED BY <1>1, <1>2, <2>2, <2>3
<1> QED BY <1>4 DEF GetBits, Scaled

(* A field below it, with whose weight and size its weight divides, stays. *)
LEMMA LowerFieldStays ==
    ASSUME NEW a \in Int, NEW e \in Nat \ {0}, NEW n \in Nat \ {0}, NEW k \in Nat \ {0},
           NEW s \in Nat \ {0}, NEW v \in 0 .. s - 1
    PROVE  GetBits(SetBits(a, Scaled(k, e, n), s, v), e, n) = GetBits(a, e, n)
<1> DEFINE w == k * (e * n)
<1>0. w \in Nat \ {0}
  OBVIOUS
<1>1. GetBits(a, w, s) \in 0 .. s - 1
  BY <1>0, GetBitsRange
<1>2. PICK d \in Int : SetBits(a, w, s, v) = a + d * w
  <2> DEFINE g == GetBits(a, w, s)
  <2>1. (v % s) = v
    OBVIOUS
  <2>2. SetBits(a, w, s, v) = a - g * w + v * w
    BY <2>1 DEF SetBits
  <2>3. (v - g) * w = v * w - g * w
    BY <1>0, <1>1
  <2>4. v - g \in Int /\ g * w \in Int /\ v * w \in Int
    BY <1>0, <1>1
  <2> HIDE DEF g, w
  <2>5. SetBits(a, w, s, v) = a + (v - g) * w
    BY <2>2, <2>3, <2>4
  <2> QED BY <2>4, <2>5
<1>3. PICK above \in Int, below \in 0 .. e - 1 :
          a = Joined(above, GetBits(a, e, n), below, e, n)
  BY Parts
<1>4. d * w = ((d * k) * n) * e
  BY <1>2
<1> DEFINE g == GetBits(a, e, n)
<1>5. g \in 0 .. n - 1
  BY GetBitsRange
<1>6. a + d * w = Joined(above + d * k, g, below, e, n)
  <2>1. d * k \in Int
    BY <1>2
  <2>2. (above + d * k) * n = above * n + (d * k) * n
    BY <2>1, Associative
  <2> DEFINE x == above * n + g   y == (d * k) * n
  <2>3. x \in Int /\ y \in Int
    BY <2>1, <1>5
  <2>4. (x + y) * e = x * e + y * e
    BY <2>3, Associative
  <2>5. (above + d * k) * n + g = x + y
    BY <2>2, <1>5, <2>1
  <2>6. x * e \in Int /\ y * e \in Int
    BY <2>3
  <2> HIDE DEF g, w, x, y
  <2>7. a = x * e + below /\ d * w = y * e
    BY <1>3, <1>4 DEF g, x, y, Joined
  <2>8. a + d * w = (x + y) * e + below
    BY <2>4, <2>6, <2>7
  <2> QED BY <2>5, <2>8 DEF Joined
<1>7. GetBits(Joined(above + d * k, g, below, e, n), e, n) = g
  <2>1. above + d * k \in Int
    BY <1>2
  <2> HIDE DEF g
  <2> QED BY <2>1, <1>5, FieldOf
<1> QED BY <1>2, <1>6, <1>7 DEF Scaled

LEMMA UpTo ==
    ASSUME NEW hi \in Int, NEW x \in Int
    PROVE  x \in 0 .. hi <=> x >= 0 /\ x <= hi
OBVIOUS

LEMMA UpToInt == ASSUME NEW hi \in Int, NEW x \in 0 .. hi PROVE x \in Int
OBVIOUS

LEMMA LastWord == WordValues - 1 = 65535 /\ WordValues - 1 \in Int
BY DEF WordValues

LEMMA WordRange == ASSUME NEW x \in Int PROVE x \in Word <=> x >= 0 /\ x <= 65535
<1>1. x \in 0 .. (WordValues - 1) <=> x >= 0 /\ x <= WordValues - 1
  BY LastWord, UpTo
<1> QED BY <1>1, LastWord DEF Word

LEMMA WordInt == ASSUME NEW x \in Word PROVE x \in Int
<1> DEFINE hi == WordValues - 1
<1>1. hi \in Int /\ x \in 0 .. hi
  BY LastWord DEF Word
<1> QED BY <1>1, UpToInt

(* What set_bits returns is a word if the field is within one.             *)
LEMMA SetBitsWord ==
    ASSUME NEW a \in Word, NEW w \in Nat \ {0}, NEW s \in Nat \ {0}, NEW v \in 0 .. s - 1,
           (WordValues % (w * s)) = 0
    PROVE  SetBits(a, w, s, v) \in Word
<1> DEFINE b == w * s
<1>0. b \in Nat \ {0} /\ (65536 % b) = 0
  BY DEF WordValues
<1>a. a \in Int /\ a >= 0 /\ a < 65536
  <2>1. a \in Int /\ a >= 0 /\ a <= 65535
    BY WordInt, WordRange
  <2> QED BY <2>1
<1>1. PICK n \in Int : 65536 = n * b
  <2> HIDE DEF b
  <2>1. 65536 = (65536 \div b) * b + (65536 % b) /\ 65536 \div b \in Int
    BY <1>0, Divided
  <2>2. 65536 = (65536 \div b) * b
    <3> DEFINE q == (65536 \div b) * b
    <3>1. q \in Int
      BY <2>1, <1>0
    <3> HIDE DEF q
    <3>2. 65536 = q + 0
      BY <2>1, <1>0 DEF q
    <3> QED BY <3>1, <3>2 DEF q
  <2> QED BY <2>1, <2>2
<1>2. PICK above \in Int, below \in 0 .. w - 1 :
          a = Joined(above, GetBits(a, w, s), below, w, s)
  BY <1>a, Parts
<1> DEFINE g == GetBits(a, w, s)   l == g * w + below   m == v * w + below
<1>3. g \in 0 .. s - 1
  BY <1>a, GetBitsRange
<1>4. a = above * b + l /\ l \in 0 .. b - 1
  <2> HIDE DEF g
  <2>1. a = Joined(above, g, below, w, s)
    BY <1>2 DEF g
  <2> QED BY <2>1, <1>3, JoinedFlat
<1>5. SetBits(a, w, s, v) = above * b + m /\ m \in 0 .. b - 1
  <2> HIDE DEF g
  <2>1. SetBits(Joined(above, g, below, w, s), w, s, v) = Joined(above, v, below, w, s)
    BY <1>3, SetBitsParts
  <2>2. a = Joined(above, g, below, w, s)
    BY <1>2 DEF g
  <2> QED BY <2>1, <2>2, JoinedFlat
<1> HIDE DEF b, g, l, m
<1>6. above >= 0
  <2> SUFFICES ASSUME above <= -1 PROVE FALSE
    OBVIOUS
  <2>1. above * b <= -b /\ above * b \in Int
    BY <1>0
  <2> QED BY <2>1, <1>0, <1>4, <1>a
<1>7. above <= n - 1
  <2> SUFFICES ASSUME above >= n PROVE FALSE
    BY <1>1
  <2>1. above * b >= n * b /\ above * b \in Int
    BY <1>0, <1>1
  <2> QED BY <2>1, <1>0, <1>1, <1>4, <1>a
<1>8. above * b <= (n - 1) * b /\ above * b >= 0 /\ above * b \in Int
  BY <1>0, <1>1, <1>6, <1>7
<1>9. (n - 1) * b = n * b - b
  BY <1>0, <1>1
<1>10. /\ above * b + m >= 0 /\ above * b + m <= 65535
       /\ above * b + m \in Int
  BY <1>0, <1>1, <1>5, <1>8, <1>9
<1>11. above * b + m \in Word
  <2> DEFINE z == above * b + m
  <2> HIDE DEF z
  <2>1. z \in Int /\ z >= 0 /\ z <= 65535
    BY <1>10 DEF z
  <2>2. z \in Word
    BY <2>1, WordRange
  <2> QED BY <2>2 DEF z
<1> QED BY <1>5, <1>11, Zenon

-----------------------------------------------------------------------------
(* The words on the wire and of the signed and the packed registers.       *)
LEMMA OnWireWord == ASSUME NEW x \in Int PROVE OnWire(x) \in Word
<1>1. x % 65536 \in Int /\ x % 65536 >= 0 /\ x % 65536 <= 65535
  OBVIOUS
<1> QED BY <1>1, WordRange DEF OnWire, WordValues

LEMMA OnWireKeeps == ASSUME NEW x \in Word PROVE OnWire(x) = x
<1>1. x \in Int /\ x >= 0 /\ x <= 65535
  BY WordInt, WordRange
<1>2. (x % 65536) = x
  BY <1>1
<1> QED BY <1>2 DEF OnWire, WordValues

SignedValues == {x \in Int : x >= -32768 /\ x <= 32767}
LEMMA SignedReadsBack ==
    ASSUME NEW x \in SignedValues
    PROVE  AsSigned(AsUnsigned(x)) = x
BY DEF SignedValues, AsSigned, AsUnsigned, WordValues

LEMMA MidnightReadsBack ==
    Hour(PackTime(0 \div 60, 0 % 60)) = 0 /\ Minute(PackTime(0 \div 60, 0 % 60)) = 0
<1>1. 0 \div 60 = 0 /\ (0 % 60) = 0
  OBVIOUS
<1>2. PackTime(0, 0) = 0
  BY DEF PackTime
<1> QED BY <1>1, <1>2 DEF Hour, Minute

LEMMA HalfPastTwelveReadsBack ==
    /\ Hour(PackTime(750 \div 60, 750 % 60)) = 12
    /\ Minute(PackTime(750 \div 60, 750 % 60)) = 30
<1>1. 750 \div 60 = 12 /\ (750 % 60) = 30
  OBVIOUS
<1>2. PackTime(12, 30) = 7692
  BY DEF PackTime
<1> QED BY <1>1, <1>2 DEF Hour, Minute

LEMMA LastMinuteReadsBack ==
    /\ Hour(PackTime(1439 \div 60, 1439 % 60)) = 23
    /\ Minute(PackTime(1439 \div 60, 1439 % 60)) = 59
<1>1. 1439 \div 60 = 23 /\ (1439 % 60) = 59
  OBVIOUS
<1>2. PackTime(23, 59) = 15127
  BY DEF PackTime
<1> QED BY <1>1, <1>2 DEF Hour, Minute

(* A value that is tried is a number, and fits the part it is meant for.   *)
LEMMA RescaledInt ==
    ASSUME class \in Nat, NEW x \in Int
    PROVE  Rescaled(x) \in Int
<1>1. x * class \in Int
  OBVIOUS
<1>2. (x * class) \div 48 \in Int
  BY <1>1
<1> QED BY <1>2 DEF Rescaled, ReferenceClass

LEMMA TriedFits ==
    ASSUME class \in Nat, NEW c \in Catalogue, NEW v \in Tried(c)
    PROVE  /\ v \in Int
           /\ IsField(c) => v \in 0 .. c.size - 1
           /\ c.kind = "signed" => v \in SignedValues
           /\ c.kind = "clock" => v \in {0, 750, 1439}
           /\ c.kind = "whole_choice" => v \in 0 .. c.size - 1
<1>1. c.lo \in Int /\ c.hi \in Int /\ c.options \subseteq Int
  BY TableAssumption
<1>2. MinOf(c) \in Int /\ MaxOf(c) \in Int
  BY <1>1, RescaledInt DEF MinOf, MaxOf
<1>3. CASE c.kind = "clock"
  <2>1. v \in {0, 750, 1439}
    BY <1>3 DEF Tried, MinuteOfDay
  <2> QED BY <1>3, <2>1 DEF IsField
<1>4. CASE c.kind # "clock" /\ c.options # {}
  <2>1. v \in c.options
    BY <1>4 DEF Tried
  <2>2. IsField(c) => v \in 0 .. c.size - 1
    BY <2>1, TableAssumption DEF Fits
  <2>3. c.kind = "signed" => FALSE
    BY <1>4, TableAssumption
  <2>4. c.kind = "whole_choice" => v \in 0 .. c.size - 1
    BY <2>1, TableAssumption
  <2> QED BY <1>1, <1>4, <2>1, <2>2, <2>3, <2>4
<1>5. CASE c.kind # "clock" /\ c.options = {}
  <2>1. \/ v = MinOf(c) \/ v = MaxOf(c) \/ v = (MinOf(c) + MaxOf(c)) \div 2
        \/ v \in MinOf(c) .. MaxOf(c)
    BY <1>5 DEF Tried
  <2>2. (MinOf(c) + MaxOf(c)) \div 2 \in Int
    BY <1>2
  <2>3. v \in Int
    BY <1>2, <2>1, <2>2
  <2>4. MinOf(c) <= MaxOf(c) => MinOf(c) <= v /\ v <= MaxOf(c)
    BY <1>2, <2>1
  <2>5. c.kind # "volts" => MinOf(c) = c.lo /\ MaxOf(c) = c.hi
    BY DEF MinOf, MaxOf
  <2>6. IsField(c) => v \in 0 .. c.size - 1
    <3> SUFFICES ASSUME IsField(c) PROVE v \in 0 .. c.size - 1
      OBVIOUS
    <3>1. c.lo >= 0 /\ c.hi < c.size /\ c.lo <= c.hi /\ c.size \in Nat
      BY <1>5, TableAssumption DEF Fits
    <3>2. c.kind # "volts"
      BY DEF IsField
    <3> QED BY <1>1, <2>3, <2>4, <2>5, <3>1, <3>2
  <2>7. c.kind = "signed" => v \in SignedValues
    <3> SUFFICES ASSUME c.kind = "signed" PROVE v \in SignedValues
      OBVIOUS
    <3>1. c.lo >= -32768 /\ c.hi <= 32767 /\ c.lo <= c.hi
      BY TableAssumption
    <3>2. MinOf(c) >= -32768 /\ MaxOf(c) <= 32767 /\ MinOf(c) <= v /\ v <= MaxOf(c)
      BY <2>4, <2>5, <3>1
    <3>3. v >= -32768 /\ v <= 32767
      BY <1>2, <2>3, <3>2
    <3> QED BY <2>3, <3>3 DEF SignedValues
  <2>8. c.kind # "whole_choice"
    BY <1>5, TableAssumption
  <2> QED BY <1>5, <2>3, <2>6, <2>7, <2>8
<1> QED BY <1>3, <1>4, <1>5

-----------------------------------------------------------------------------
(* What a setting composes reads back as the value it was composed of.     *)
LEMMA PackTimeInt ==
    ASSUME NEW h \in Int, NEW m \in Int
    PROVE  PackTime(h, m) \in Int
<1>1. (h % 256) \in Int /\ (m % 256) \in Int
  OBVIOUS
<1> QED BY <1>1 DEF PackTime

LEMMA FieldRange ==
    ASSUME NEW c \in Catalogue, IsField(c)
    PROVE  /\ c.weight \in Nat \ {0} /\ c.size \in Nat \ {0}
           /\ (WordValues % (c.weight * c.size)) = 0
BY TableAssumption DEF Fits

LEMMA ComposedInt ==
    ASSUME class \in Nat, NEW c \in Catalogue, NEW cur \in Word, NEW v \in Tried(c)
    PROVE  Composed(c, cur, v) \in Int
<1>1. v \in Int
  BY TriedFits
<1>2. CASE IsField(c)
  <2>1. v \in 0 .. c.size - 1
    BY <1>2, TriedFits
  <2>2. SetBits(cur, c.weight, c.size, v) \in Word
    BY <1>2, <2>1, FieldRange, SetBitsWord
  <2> QED BY <1>2, <2>2, WordInt DEF Composed
<1>3. CASE c.kind = "signed"
  <2>1. AsUnsigned(v) \in Int
    BY <1>1 DEF AsUnsigned, WordValues
  <2> QED BY <1>3, <2>1 DEF Composed, IsField
<1>4. CASE c.kind = "clock"
  <2>1. v \div 60 \in Int /\ (v % 60) \in Int
    BY <1>1
  <2> QED BY <1>4, <2>1, PackTimeInt DEF Composed, IsField
<1>5. CASE ~IsField(c) /\ c.kind # "signed" /\ c.kind # "clock"
  BY <1>1, <1>5 DEF Composed
<1> QED BY <1>2, <1>3, <1>4, <1>5

LEMMA ComposedReadsBack ==
    ASSUME class \in Nat, NEW c \in Settings, NEW cur \in Word, NEW v \in Tried(c)
    PROVE  Extracted(c, Composed(c, cur, v)) = v
<1>0. /\ c \in Catalogue /\ c.kind # "press_bit" /\ c.kind # "press_word"
      /\ cur \in Int
  BY TableAssumption, WordInt DEF Settings
<1>1. CASE IsField(c)
  <2>1. v \in 0 .. c.size - 1
    BY <1>0, <1>1, TriedFits
  <2>2. GetBits(SetBits(cur, c.weight, c.size, v), c.weight, c.size) = v
    BY <1>0, <1>1, <2>1, FieldRange, FieldReadsBack
  <2> QED BY <1>0, <1>1, <2>2 DEF Composed, Extracted, IsField
<1>2. CASE c.kind = "signed"
  <2>1. v \in SignedValues
    BY <1>0, <1>2, TriedFits
  <2>2. AsSigned(AsUnsigned(v)) = v
    BY <2>1, SignedReadsBack
  <2> QED BY <1>2, <2>2 DEF Composed, Extracted, IsField
<1>3. CASE c.kind = "clock"
  <2>1. v \in {0, 750, 1439}
    BY <1>0, <1>3, TriedFits
  <2>2. Composed(c, cur, v) = PackTime(v \div 60, v % 60)
    BY <1>3 DEF Composed, IsField
  <2>3. ASSUME NEW word
        PROVE  Extracted(c, word) = 60 * Hour(word) + Minute(word)
    BY <1>3 DEF Extracted, MinuteOfDay
  <2>4. CASE v = 0
    BY <2>2, <2>3, <2>4, MidnightReadsBack
  <2>5. CASE v = 750
    BY <2>2, <2>3, <2>5, HalfPastTwelveReadsBack
  <2>6. CASE v = 1439
    BY <2>2, <2>3, <2>6, LastMinuteReadsBack
  <2> QED BY <2>1, <2>4, <2>5, <2>6
<1>4. CASE c.kind = "whole_choice"
  <2>1. v \in 0 .. c.size - 1
    BY <1>0, <1>4, TriedFits
  <2>2. c.weight = 1 /\ c.size \in Nat \ {0}
    BY <1>0, <1>4, TableAssumption
  <2>3. v \div 1 = v /\ (v % c.size) = v
    BY <2>1, <2>2
  <2> QED BY <1>4, <2>2, <2>3 DEF Composed, Extracted, IsField, GetBits
<1>5. CASE ~IsField(c) /\ c.kind # "signed" /\ c.kind # "clock" /\ c.kind # "whole_choice"
  BY <1>5 DEF Composed, Extracted, IsField
<1> QED BY <1>1, <1>2, <1>3, <1>4, <1>5

(* The same, of weights of which one is a multiple.                        *)
LEMMA MultipleStays ==
    ASSUME NEW a \in Int, NEW w \in Nat \ {0}, NEW s \in Nat \ {0}, NEW v \in 0 .. s - 1,
           NEW e \in Nat \ {0}, NEW n \in Nat \ {0},
           IsMultiple(e, w, s) \/ IsMultiple(w, e, n)
    PROVE  GetBits(SetBits(a, w, s, v), e, n) = GetBits(a, e, n)
<1>1. CASE IsMultiple(e, w, s)
  <2>1. PICK k \in Nat \ {0} : e = Scaled(k, w, s)
    BY <1>1, Multiple
  <2>2. GetBits(SetBits(a, w, s, v), Scaled(k, w, s), n) = GetBits(a, Scaled(k, w, s), n)
    BY HigherFieldStays
  <2> QED BY <2>1, <2>2
<1>2. CASE IsMultiple(w, e, n)
  <2>1. PICK k \in Nat \ {0} : w = Scaled(k, e, n)
    BY <1>2, Multiple
  <2>2. GetBits(SetBits(a, Scaled(k, e, n), s, v), e, n) = GetBits(a, e, n)
    BY LowerFieldStays
  <2> QED BY <2>1, <2>2
<1> QED BY <1>1, <1>2

(* A write to one control of a register leaves the others' values alone.   *)
LEMMA ApartKeeps ==
    ASSUME NEW c \in Catalogue, NEW d \in Catalogue, IsField(c), IsField(d),
           Apart(c, d) \/ Apart(d, c),
           NEW a \in Int, NEW v \in 0 .. c.size - 1
    PROVE  GetBits(SetBits(a, c.weight, c.size, v), d.weight, d.size)
             = GetBits(a, d.weight, d.size)
<1>1. /\ c.weight \in Nat \ {0} /\ c.size \in Nat \ {0}
      /\ d.weight \in Nat \ {0} /\ d.size \in Nat \ {0}
  BY FieldRange
<1>2. \/ IsMultiple(d.weight, c.weight, c.size)
      \/ IsMultiple(c.weight, d.weight, d.size)
  BY DEF Apart, IsMultiple
<1> DEFINE cw == c.weight   cs == c.size   dw == d.weight   ds == d.size
<1> HIDE DEF cw, cs, dw, ds
<1>3. /\ cw \in Nat \ {0} /\ cs \in Nat \ {0} /\ dw \in Nat \ {0} /\ ds \in Nat \ {0}
      /\ v \in 0 .. cs - 1 /\ (IsMultiple(dw, cw, cs) \/ IsMultiple(cw, dw, ds))
  BY <1>1, <1>2 DEF cw, cs, dw, ds
<1>4. GetBits(SetBits(a, cw, cs, v), dw, ds) = GetBits(a, dw, ds)
  BY <1>3, MultipleStays
<1> QED BY <1>4 DEF cw, cs, dw, ds

LEMMA OthersKeep ==
    ASSUME class \in Nat, NEW c \in Catalogue, NEW d \in Settings,
           c # d, c.register = d.register, c.kind # "press_word",
           NEW cur \in Word, NEW v \in Tried(c)
    PROVE  /\ Composed(c, cur, v) \in Word
           /\ Extracted(d, Composed(c, cur, v)) = Extracted(d, cur)
<1>0. d \in Catalogue /\ d \notin Buttons
  BY DEF Settings
<1>1. IsField(c) /\ IsField(d) /\ (Apart(c, d) \/ Apart(d, c))
  BY <1>0, SharingAssumption
<1>2. v \in 0 .. c.size - 1
  BY <1>1, TriedFits
<1>3. Composed(c, cur, v) = SetBits(cur, c.weight, c.size, v)
  BY <1>1 DEF Composed
<1>4. Composed(c, cur, v) \in Word
  BY <1>1, <1>2, <1>3, FieldRange, SetBitsWord
<1>5. d.kind # "press_bit"
  BY <1>0, TableAssumption
<1>6. ASSUME NEW word
      PROVE  Extracted(d, word) = GetBits(word, d.weight, d.size)
  BY <1>1, <1>5 DEF Extracted, IsField
<1>7. GetBits(SetBits(cur, c.weight, c.size, v), d.weight, d.size)
        = GetBits(cur, d.weight, d.size)
  BY <1>0, <1>1, <1>2, WordInt, ApartKeeps
<1> QED BY <1>3, <1>4, <1>6, <1>7

-----------------------------------------------------------------------------
(***************************************************************************)
(* The inductive invariant.  What a control holds is also in the word of   *)
(* the inverter: a poll shows the entities that word, and a lost write     *)
(* changes it behind the back of the word they compose from.               *)
(***************************************************************************)
WordsOK ==
  /\ register \in Int /\ class \in VoltageClasses \cup {ReferenceClass}
  /\ first \in Word /\ held \in Word /\ cache \in Word
  /\ writes \in 0 .. MaxWrites
HeldOK ==
  /\ DOMAIN known = OnRegister(Settings, register)
  /\ \A c \in OnRegister(Settings, register) :
       \/ known[c] = {}
       \/ /\ known[c] = {Extracted(c, cache)}
          /\ Extracted(c, held) = Extracted(c, cache)
IInv == WordsOK /\ HeldOK

LEMMA ClassNat == ASSUME WordsOK PROVE class \in Nat
BY ClassAssumption DEF WordsOK, ReferenceClass

LEMMA SharedFacts ==
    ASSUME HeldOK, NEW c \in Shared
    PROVE  c \in Catalogue /\ c.register = register /\ (c \in Settings \/ c \in Buttons)
BY DEF HeldOK, Shared, OnRegister, Settings, Catalogue

(* The word of a write, for the other controls of the register.            *)
LEMMA OthersAfter ==
    ASSUME IInv, NEW c \in Shared, c.kind # "press_word", NEW v \in Tried(c),
           NEW d \in OnRegister(Settings, register), d # c
    PROVE  /\ Composed(c, cache, v) \in Word
           /\ OnWire(Composed(c, cache, v)) = Composed(c, cache, v)
           /\ Extracted(d, Composed(c, cache, v)) = Extracted(d, cache)
<1>1. c \in Catalogue /\ c.register = register
  BY SharedFacts DEF IInv
<1>2. d \in Settings /\ d.register = register
  BY DEF OnRegister
<1>3. class \in Nat /\ cache \in Word
  BY ClassNat DEF IInv, WordsOK
<1>4. /\ Composed(c, cache, v) \in Word
      /\ Extracted(d, Composed(c, cache, v)) = Extracted(d, cache)
  BY <1>1, <1>2, <1>3, OthersKeep
<1> QED BY <1>4, OnWireKeeps

LEMMA InitInvariant == Init => IInv
<1> SUFFICES ASSUME Init PROVE IInv
  OBVIOUS
<1>1. WordsOK
  BY StartAssumption, BoundAssumption DEF Init, WordsOK
<1>2. HeldOK
  BY DEF Init, HeldOK
<1> QED BY <1>1, <1>2 DEF IInv

LEMMA WordsStep == ASSUME IInv, [Next]_vars PROVE WordsOK'
<1>1. WordsOK
  BY DEF IInv
<1>2. ASSUME NEW c \in Shared, NEW v \in Tried(c), Write(c, v)
      PROVE  WordsOK'
  <2>1. Composed(c, cache, v) \in Int
    BY <1>1, ClassNat, ComposedInt, SharedFacts DEF IInv, WordsOK
  <2>2. OnWire(Composed(c, cache, v)) \in Word
    BY <2>1, OnWireWord
  <2>3. held' \in Word /\ cache' \in Word
    <3>1. CASE Confirm(c, v)
      BY <2>2, <3>1 DEF Confirm
    <3>2. CASE Mismatch(c, v)
      BY <1>1, <2>2, <3>2 DEF Mismatch, WordsOK
    <3>3. CASE Lose(c, v)
      BY <1>1, <2>2, <3>3 DEF Lose, WordsOK
    <3>4. CASE Refuse(c)
      BY <1>1, <3>4 DEF Refuse, WordsOK
    <3> QED BY <1>2, <3>1, <3>2, <3>3, <3>4 DEF Write
  <2>4. writes' \in 0 .. MaxWrites
    BY <1>1, <1>2, BoundAssumption DEF Write, WordsOK
  <2> QED BY <1>1, <1>2, <2>3, <2>4 DEF Write, WordsOK
<1>3. CASE Poll
  BY <1>1, <1>3 DEF Poll, WordsOK
<1>4. CASE UNCHANGED vars
  BY <1>1, <1>4 DEF vars, WordsOK
<1> QED BY <1>2, <1>3, <1>4 DEF Next

LEMMA HeldStep == ASSUME IInv, [Next]_vars PROVE HeldOK'
<1>1. HeldOK
  BY DEF IInv
<1> DEFINE here == OnRegister(Settings, register)
           Good(d, k, w, h) == \/ k = {}
                               \/ k = {Extracted(d, w)} /\ Extracted(d, h) = Extracted(d, w)
<1>2. ASSUME NEW c \in Shared, NEW v \in Tried(c), Write(c, v)
      PROVE  HeldOK'
  <2> DEFINE word == Composed(c, cache, v)
  <2>1. register' = register
    BY <1>2 DEF Write
  <2>2. DOMAIN known = here
    BY <1>1 DEF HeldOK
  <2>3. CASE Refuse(c)
    BY <1>1, <2>1, <2>3 DEF Refuse, HeldOK
  <2>4. ASSUME NEW value, known' = KnownAfter(c, value)
        PROVE  /\ DOMAIN known' = here
               /\ \A d \in here : known'[d] = IF d = c THEN value
                                   ELSE IF c.kind = "press_word" THEN {} ELSE known[d]
    BY <2>2, <2>4 DEF KnownAfter
  <2>5. ASSUME NEW value, known' = KnownAfter(c, value),
               NEW d \in here, d # c
        PROVE  \/ known'[d] = {}
               \/ /\ c.kind # "press_word"
                  /\ known'[d] = {Extracted(d, cache)}
                  /\ Extracted(d, held) = Extracted(d, cache)
    BY <1>1, <2>4, <2>5 DEF HeldOK
  <2>6. CASE Confirm(c, v)
    <3>1. known' = KnownAfter(c, {v}) /\ held' = word /\ cache' = word
      BY <2>6 DEF Confirm
    <3>2. ASSUME NEW d \in here
          PROVE  Good(d, known'[d], cache', held')
      <4>1. CASE d = c
        <5>1. known'[d] = {v}
          BY <2>4, <3>1, <4>1
        <5>2. Extracted(d, word) = v
          BY <4>1, ClassNat, ComposedReadsBack DEF IInv, WordsOK, OnRegister
        <5> QED BY <3>1, <5>1, <5>2
      <4>2. CASE d # c
        BY <2>5, <3>1, <4>2, OthersAfter
      <4> QED BY <4>1, <4>2
    <3>3. DOMAIN known' = here
      BY <2>4, <3>1
    <3> QED BY <2>1, <3>2, <3>3 DEF HeldOK
  <2>7. CASE Mismatch(c, v)
    <3>1. known' = KnownAfter(c, {}) /\ OnWire(word) # word /\ cache' = cache
      BY <2>7 DEF Mismatch
    <3>2. ASSUME NEW d \in here
          PROVE  Good(d, known'[d], cache', held')
      <4>1. CASE d = c
        BY <2>4, <3>1, <4>1
      <4>2. CASE d # c
        BY <2>5, <3>1, <4>2, OthersAfter
      <4> QED BY <4>1, <4>2
    <3>3. DOMAIN known' = here
      BY <2>4, <3>1
    <3> QED BY <2>1, <3>2, <3>3 DEF HeldOK
  <2>8. CASE Lose(c, v)
    <3>1. /\ known' = KnownAfter(c, {}) /\ cache' = cache
          /\ held' = held \/ held' = OnWire(word)
      BY <2>8 DEF Lose
    <3>2. ASSUME NEW d \in here
          PROVE  Good(d, known'[d], cache', held')
      <4>1. CASE d = c
        BY <2>4, <3>1, <4>1
      <4>2. CASE d # c
        BY <2>5, <3>1, <4>2, OthersAfter
      <4> QED BY <4>1, <4>2
    <3>3. DOMAIN known' = here
      BY <2>4, <3>1
    <3> QED BY <2>1, <3>2, <3>3 DEF HeldOK
  <2> QED BY <1>2, <2>3, <2>6, <2>7, <2>8 DEF Write
<1>3. CASE Poll
  <2>1. /\ cache' = held \/ cache' = cache
        /\ held' = held /\ known' = known /\ register' = register
    BY <1>3 DEF Poll
  <2> QED BY <1>1, <2>1 DEF HeldOK
<1>4. CASE UNCHANGED vars
  BY <1>1, <1>4 DEF vars, HeldOK
<1> QED BY <1>2, <1>3, <1>4 DEF Next

(* The words, and what the controls hold, in every reachable state.        *)
THEOREM HeldInvariant == Spec => []IInv
<1>1. IInv /\ [Next]_vars => IInv'
  BY WordsStep, HeldStep DEF IInv
<1> QED BY <1>1, InitInvariant, PTL DEF Spec

(* Every control reads back what was confirmed for it, whatever is written *)
(* to the controls beside it and whatever is lost.                         *)
THEOREM ControlsReadBack == Spec => []ShowsWhatItHolds
<1>1. IInv => ShowsWhatItHolds
  BY DEF IInv, HeldOK, ShowsWhatItHolds
<1> QED BY <1>1, HeldInvariant, PTL

LEMMA ExtractedInt ==
    ASSUME NEW c \in Settings, NEW word \in Word
    PROVE  Extracted(c, word) \in Int
<1>0. /\ c \in Catalogue /\ c.kind # "press_bit" /\ word \in Int
  BY TableAssumption, WordInt DEF Settings
<1>1. ASSUME NEW w \in Nat \ {0}, NEW s \in Nat \ {0}
      PROVE  GetBits(word, w, s) \in Int
  <2>1. word \div w \in Int
    BY <1>0, <1>1
  <2>2. ((word \div w) % s) \in Int
    BY <1>1, <2>1
  <2> QED BY <2>2 DEF GetBits
<1>2. CASE c.kind \in {"byte", "switch", "choice"}
  <2>1. c.weight \in Nat \ {0} /\ c.size \in Nat \ {0}
    BY <1>0, <1>2, FieldRange DEF IsField
  <2> QED BY <1>1, <1>2, <2>1 DEF Extracted
<1>3. CASE c.kind = "whole_choice"
  <2>1. c.weight \in Nat \ {0} /\ c.size \in Nat \ {0}
    BY <1>0, <1>3, TableAssumption
  <2> QED BY <1>1, <1>3, <2>1 DEF Extracted
<1>4. CASE c.kind = "signed"
  <2>1. AsSigned(word) \in Int
    BY <1>0 DEF AsSigned, WordValues
  <2> QED BY <1>4, <2>1 DEF Extracted
<1>5. CASE c.kind = "clock"
  <2>1. (word % 256) \in Int /\ word \div 256 \in Int
    BY <1>0
  <2>2. ((word \div 256) % 256) \in Int
    BY <2>1
  <2> QED BY <1>5, <2>1, <2>2 DEF Extracted, MinuteOfDay, Hour, Minute
<1>6. CASE c.kind \notin {"byte", "switch", "choice", "whole_choice", "signed", "clock"}
  BY <1>0, <1>6 DEF Extracted
<1> QED BY <1>2, <1>3, <1>4, <1>5, <1>6

(* The words of the inverter and of the cache stay words of 16 bits.       *)
THEOREM ControlsTypeOK == Spec => []TypeOK
<1>1. IInv => TypeOK
  <2> SUFFICES ASSUME IInv PROVE TypeOK
    OBVIOUS
  <2>1. ASSUME NEW c \in DOMAIN known
        PROVE  c.register = register /\ known[c] \subseteq Int
    <3>1. c \in Settings /\ c.register = register /\ cache \in Word
      BY DEF IInv, HeldOK, WordsOK, OnRegister
    <3>2. Extracted(c, cache) \in Int
      BY <3>1, ExtractedInt
    <3> QED BY <3>1, <3>2 DEF IInv, HeldOK
  <2> QED BY <2>1 DEF IInv, WordsOK, TypeOK
<1> QED BY <1>1, HeldInvariant, PTL

(* No write makes the block of settings one that every poll throws away.   *)
LEMMA PackedTimes ==
    ASSUME NEW v \in {0, 750, 1439}
    PROVE  /\ ValidTime(PackTime(v \div 60, v % 60))
           /\ PackTime(v \div 60, v % 60) \in Word
<1> DEFINE p == PackTime(v \div 60, v % 60)
<1>1. v \in Int /\ v \div 60 \in Int /\ (v % 60) \in Int
  OBVIOUS
<1>2. CASE v = 0
  <2>1. p = 0
    <3>1. 0 \div 60 = 0 /\ (0 % 60) = 0
      OBVIOUS
    <3> QED BY <1>2, <3>1 DEF PackTime
  <2>2. Hour(0) = 0 /\ Minute(0) = 0
    BY DEF Hour, Minute
  <2> QED BY <2>1, <2>2, WordRange DEF ValidTime
<1>3. CASE v = 750
  <2>1. p = 7692
    <3>1. 750 \div 60 = 12 /\ (750 % 60) = 30
      OBVIOUS
    <3> QED BY <1>3, <3>1 DEF PackTime
  <2>2. Hour(7692) = 12 /\ Minute(7692) = 30
    BY DEF Hour, Minute
  <2> QED BY <2>1, <2>2, WordRange DEF ValidTime
<1>4. CASE v = 1439
  <2>1. p = 15127
    <3>1. 1439 \div 60 = 23 /\ (1439 % 60) = 59
      OBVIOUS
    <3> QED BY <1>4, <3>1 DEF PackTime
  <2>2. Hour(15127) = 23 /\ Minute(15127) = 59
    BY DEF Hour, Minute
  <2> QED BY <2>1, <2>2, WordRange DEF ValidTime
<1> QED BY <1>2, <1>3, <1>4

(* No write leaves a register word for which a poll would throw the whole  *)
(* block of settings away (validate_data of the hold registers).           *)
THEOREM BlockReadable == Spec => []BlockStaysReadable
<1>1. Init => BlockStaysReadable
  BY DEF Init, BlockStaysReadable
<1>2. IInv /\ BlockStaysReadable /\ [Next]_vars => BlockStaysReadable'
  <2> SUFFICES ASSUME IInv, BlockStaysReadable, [Next]_vars PROVE BlockStaysReadable'
    OBVIOUS
  <2>1. ASSUME NEW c \in Shared, NEW v \in Tried(c), Write(c, v)
        PROVE  BlockStaysReadable'
    <3> DEFINE word == Composed(c, cache, v)
    <3>1. register' = register
      BY <2>1 DEF Write
    <3>2. CASE register \notin HoldTimeRegisters
      BY <3>1, <3>2 DEF BlockStaysReadable, DataSane
    <3>3. CASE register \in HoldTimeRegisters
      <4>1. c.kind = "clock" /\ c \in Catalogue
        BY <3>3, SharedFacts, ClockAssumption DEF IInv
      <4>2. v \in {0, 750, 1439}
        BY <4>1, ClassNat, TriedFits DEF IInv
      <4>3. word = PackTime(v \div 60, v % 60)
        BY <4>1 DEF Composed, IsField
      <4>4. ValidTime(word) /\ OnWire(word) = word
        BY <4>2, <4>3, PackedTimes, OnWireKeeps
      <4>5. held' = held \/ held' = word \/ held' = OnWire(word)
        BY <2>1 DEF Write, Confirm, Mismatch, Lose, Refuse
      <4> QED BY <3>1, <4>4, <4>5 DEF BlockStaysReadable, DataSane
    <3> QED BY <3>2, <3>3
  <2>2. CASE Poll
    BY <2>2 DEF Poll, BlockStaysReadable
  <2>3. CASE UNCHANGED vars
    BY <2>3 DEF vars, BlockStaysReadable
  <2> QED BY <2>1, <2>2, <2>3 DEF Next
<1> QED BY <1>1, <1>2, HeldInvariant, PTL DEF Spec

-----------------------------------------------------------------------------
(* Bits that nobody owns.  The weights and sizes of fields divide the      *)
(* number of words, so they are powers of two, and a bit outside a field   *)
(* is apart from it.                                                       *)
Divisors(m, S) == \A x, y \in Nat \ {0} : x * y = m => x \in S
BitPowers == BitWeights \cup {65536}

LEMMA Halved ==
    ASSUME NEW m \in Nat \ {0}, NEW S, Divisors(m, S), NEW n, n = 2 * m, NEW T,
           S \subseteq T, \A z \in S : 2 * z \in T
    PROVE  Divisors(n, T)
<1> SUFFICES ASSUME NEW x \in Nat \ {0}, NEW y \in Nat \ {0}, x * y = 2 * m
             PROVE  x \in T
  BY DEF Divisors
<1>1. PICK a \in Int, r \in {0, 1} : x = a * 2 + r
  <2>1. x = (x \div 2) * 2 + (x % 2) /\ x \div 2 \in Int /\ (x % 2) \in 0 .. 1
    OBVIOUS
  <2> QED BY <2>1
<1>2. CASE r = 0
  <2>1. a \in Nat \ {0} /\ x = 2 * a
    BY <1>1, <1>2
  <2>2. (2 * a) * y = 2 * (a * y) /\ a * y \in Int
    BY <2>1
  <2>3. a * y = m
    BY <2>1, <2>2
  <2> QED BY <2>1, <2>3 DEF Divisors
<1>3. CASE r = 1
  <2>1. PICK p \in Int : p = a * y
    <3>1. a * y \in Int
      BY <1>1
    <3> QED BY <3>1
  <2>2. x * y = 2 * p + y
    <3>1. (a * 2 + 1) * y = (a * 2) * y + 1 * y
      BY <1>1, Associative
    <3>2. (a * 2) * y = 2 * (a * y)
      BY <1>1
    <3> QED BY <1>1, <1>3, <2>1, <3>1, <3>2
  <2>3. PICK u \in Nat \ {0} : y = 2 * u
    <3>1. y = 2 * (m - p) /\ m - p \in Int
      BY <2>1, <2>2
    <3>2. m - p \in Nat \ {0}
      BY <3>1
    <3> QED BY <3>1, <3>2
  <2>4. x * (2 * u) = 2 * (x * u) /\ x * u \in Int
    BY <2>3
  <2>5. x * u = m
    BY <2>3, <2>4
  <2> QED BY <2>3, <2>5 DEF Divisors
<1> QED BY <1>1, <1>2, <1>3

LEMMA PowersOfTwo == Divisors(65536, BitPowers)
<1>0. Divisors(1, {1})
  <2> SUFFICES ASSUME NEW x \in Nat \ {0}, NEW y \in Nat \ {0}, x * y = 1 PROVE x = 1
    BY DEF Divisors
  <2>1. CASE x >= 2
    <3>1. x * y >= 2 * y /\ x * y \in Int
      BY <2>1
    <3> QED BY <3>1
  <2> QED BY <2>1
<1>1. Divisors(2, {1, 2})
  BY <1>0, Halved
<1>2. Divisors(4, {1, 2, 4})
  BY <1>1, Halved
<1>3. Divisors(8, {1, 2, 4, 8})
  BY <1>2, Halved
<1>4. Divisors(16, {1, 2, 4, 8, 16})
  BY <1>3, Halved
<1>5. Divisors(32, {1, 2, 4, 8, 16, 32})
  BY <1>4, Halved
<1>6. Divisors(64, {1, 2, 4, 8, 16, 32, 64})
  BY <1>5, Halved
<1>7. Divisors(128, {1, 2, 4, 8, 16, 32, 64, 128})
  BY <1>6, Halved
<1>8. Divisors(256, {1, 2, 4, 8, 16, 32, 64, 128, 256})
  BY <1>7, Halved
<1>9. Divisors(512, {1, 2, 4, 8, 16, 32, 64, 128, 256, 512})
  BY <1>8, Halved
<1>10. Divisors(1024, {1, 2, 4, 8, 16, 32, 64, 128, 256, 512, 1024})
  BY <1>9, Halved
<1>11. Divisors(2048, {1, 2, 4, 8, 16, 32, 64, 128, 256, 512, 1024, 2048})
  BY <1>10, Halved
<1>12. Divisors(4096, {1, 2, 4, 8, 16, 32, 64, 128, 256, 512, 1024, 2048, 4096})
  BY <1>11, Halved
<1>13. Divisors(8192, {1, 2, 4, 8, 16, 32, 64, 128, 256, 512, 1024, 2048, 4096, 8192})
  BY <1>12, Halved
<1>14. Divisors(16384, {1, 2, 4, 8, 16, 32, 64, 128, 256, 512, 1024, 2048, 4096, 8192,
                      16384})
  BY <1>13, Halved
<1>15. Divisors(32768, {1, 2, 4, 8, 16, 32, 64, 128, 256, 512, 1024, 2048, 4096, 8192,
                      16384, 32768})
  BY <1>14, Halved
<1>16. Divisors(65536, {1, 2, 4, 8, 16, 32, 64, 128, 256, 512, 1024, 2048, 4096, 8192,
                      16384, 32768, 65536})
  BY <1>15, Halved
<1> QED BY <1>16 DEF BitPowers, BitWeights

LEMMA PowersDivide ==
    ASSUME NEW b \in BitPowers, NEW w \in BitPowers
    PROVE  /\ b < w => (w % (b * 2)) = 0
           /\ b <= w => (w % b) = 0
<1>0. CASE b = 1
  BY <1>0 DEF BitPowers, BitWeights
<1>1. CASE b = 2
  BY <1>1 DEF BitPowers, BitWeights
<1>2. CASE b = 4
  BY <1>2 DEF BitPowers, BitWeights
<1>3. CASE b = 8
  BY <1>3 DEF BitPowers, BitWeights
<1>4. CASE b = 16
  BY <1>4 DEF BitPowers, BitWeights
<1>5. CASE b = 32
  BY <1>5 DEF BitPowers, BitWeights
<1>6. CASE b = 64
  BY <1>6 DEF BitPowers, BitWeights
<1>7. CASE b = 128
  BY <1>7 DEF BitPowers, BitWeights
<1>8. CASE b = 256
  BY <1>8 DEF BitPowers, BitWeights
<1>9. CASE b = 512
  BY <1>9 DEF BitPowers, BitWeights
<1>10. CASE b = 1024
  BY <1>10 DEF BitPowers, BitWeights
<1>11. CASE b = 2048
  BY <1>11 DEF BitPowers, BitWeights
<1>12. CASE b = 4096
  BY <1>12 DEF BitPowers, BitWeights
<1>13. CASE b = 8192
  BY <1>13 DEF BitPowers, BitWeights
<1>14. CASE b = 16384
  BY <1>14 DEF BitPowers, BitWeights
<1>15. CASE b = 32768
  BY <1>15 DEF BitPowers, BitWeights
<1>16. CASE b = 65536
  BY <1>16 DEF BitPowers, BitWeights
<1> QED BY <1>0, <1>1, <1>2, <1>3, <1>4, <1>5, <1>6, <1>7, <1>8, <1>9, <1>10, <1>11,
           <1>12, <1>13, <1>14, <1>15, <1>16 DEF BitPowers, BitWeights

LEMMA UnownedApart ==
    ASSUME NEW c \in Catalogue, IsField(c), NEW bit \in BitWeights, ~OwnsBit(c, bit)
    PROVE  IsMultiple(bit, c.weight, c.size) \/ IsMultiple(c.weight, bit, 2)
<1> DEFINE w == c.weight   s == c.size
<1>1. w \in Nat \ {0} /\ s \in Nat \ {0} /\ (65536 % (w * s)) = 0
  BY FieldRange DEF WordValues
<1>2. bit \in Nat \ {0} /\ bit \in BitPowers
  BY DEF BitWeights, BitPowers
<1>3. bit < w \/ bit >= w * s
  <2>1. bit < w \/ ~(bit < w * s)
    BY <1>1, <1>2 DEF OwnsBit
  <2>2. w * s \in Int
    BY <1>1
  <2> HIDE DEF w, s
  <2> QED BY <1>2, <2>1, <2>2
<1> HIDE DEF w, s
<1>4. PICK k \in Nat \ {0} : 65536 = k * (w * s)
  <2>1. IsMultiple(65536, w, s)
    BY <1>1 DEF IsMultiple
  <2> QED BY <1>1, <2>1, Multiple DEF Scaled
<1>p. \A x, y \in Nat \ {0} : x * y = 65536 => x \in BitPowers
  BY PowersOfTwo DEF Divisors
<1>5. w \in BitPowers /\ w * s \in BitPowers
  <2>1. PICK y \in Nat \ {0} : y = s * k
    <3>1. s * k \in Nat \ {0}
      BY <1>1, <1>4
    <3> QED BY <3>1
  <2>2. w * y = 65536
    <3>1. k * (w * s) = w * (s * k)
      BY <1>1, <1>4
    <3> QED BY <1>4, <2>1, <3>1
  <2>3. PICK x \in Nat \ {0} : x = w * s
    <3>1. w * s \in Nat \ {0}
      BY <1>1
    <3> QED BY <3>1
  <2>4. x * k = 65536
    BY <1>4, <2>3
  <2>5. w \in BitPowers
    <3>1. w \in Nat \ {0}
      BY <1>1
    <3> QED BY <3>1, <1>p, <2>2
  <2>6. x \in BitPowers
    BY <1>4, <1>p, <2>3, <2>4
  <2> QED BY <2>3, <2>5, <2>6
<1>6. CASE bit < w
  BY <1>2, <1>5, <1>6, PowersDivide DEF IsMultiple, w
<1>7. CASE bit >= w * s
  <2>1. w * s <= bit
    BY <1>1, <1>2, <1>7
  <2>2. (bit % (w * s)) = 0
    BY <1>2, <1>5, <2>1, PowersDivide
  <2> QED BY <2>2 DEF IsMultiple, w, s
<1> QED BY <1>3, <1>6, <1>7

(* A write leaves the bits that no control of its register owns.           *)
Unowned(bit) == \A c \in Shared : ~OwnsBit(c, bit)
Kept(bit, word) == GetBits(word, bit, 2) = GetBits(first, bit, 2)
UnownedInv ==
  \A bit \in BitWeights : Unowned(bit) => Kept(bit, held) /\ Kept(bit, cache)

LEMMA WriteKeepsBit ==
    ASSUME IInv, NEW c \in Shared, NEW v \in Tried(c), NEW bit \in BitWeights,
           Unowned(bit), Kept(bit, cache)
    PROVE  /\ Kept(bit, Composed(c, cache, v))
           /\ OnWire(Composed(c, cache, v)) = Composed(c, cache, v)
<1>1. c \in Catalogue /\ class \in Nat /\ cache \in Word /\ cache \in Int
  BY SharedFacts, ClassNat, WordInt DEF IInv, WordsOK
<1>2. IsField(c) /\ ~OwnsBit(c, bit)
  BY DEF Unowned, OwnsBit
<1>3. v \in 0 .. c.size - 1
  BY <1>1, <1>2, TriedFits
<1>4. Composed(c, cache, v) = SetBits(cache, c.weight, c.size, v)
  BY <1>2 DEF Composed
<1>5. Composed(c, cache, v) \in Word
  BY <1>1, <1>2, <1>3, <1>4, FieldRange, SetBitsWord
<1>6. IsMultiple(bit, c.weight, c.size) \/ IsMultiple(c.weight, bit, 2)
  BY <1>1, <1>2, UnownedApart
<1>7. c.weight \in Nat \ {0} /\ c.size \in Nat \ {0} /\ bit \in Nat \ {0} /\ 2 \in Nat \ {0}
  BY <1>1, <1>2, FieldRange DEF BitWeights
<1>8. GetBits(SetBits(cache, c.weight, c.size, v), bit, 2) = GetBits(cache, bit, 2)
  BY <1>1, <1>3, <1>6, <1>7, MultipleStays
<1> QED BY <1>4, <1>5, <1>8, OnWireKeeps DEF Kept

LEMMA UnownedStep == ASSUME IInv, UnownedInv, [Next]_vars PROVE UnownedInv'
<1>0. register' = register /\ first' = first /\ DOMAIN known' = DOMAIN known
  <2>1. \A c, value : DOMAIN KnownAfter(c, value) = DOMAIN known
    BY DEF KnownAfter
  <2>2. ASSUME NEW c \in Shared, NEW v \in Tried(c), Write(c, v)
        PROVE  register' = register /\ first' = first /\ DOMAIN known' = DOMAIN known
    BY <2>1, <2>2 DEF Write, Confirm, Mismatch, Lose, Refuse
  <2>3. CASE Poll
    BY <2>3 DEF Poll
  <2>4. CASE UNCHANGED vars
    BY <2>4 DEF vars
  <2> QED BY <2>2, <2>3, <2>4 DEF Next
<1> SUFFICES ASSUME NEW bit \in BitWeights, Unowned(bit)'
             PROVE  (Kept(bit, held) /\ Kept(bit, cache))'
  BY DEF UnownedInv
<1>1. Shared' = Shared
  BY <1>0 DEF Shared
<1>2. Unowned(bit) /\ Kept(bit, held) /\ Kept(bit, cache)
  BY <1>1 DEF Unowned, UnownedInv
<1>4. ASSUME NEW c \in Shared, NEW v \in Tried(c), Write(c, v)
      PROVE  (Kept(bit, held) /\ Kept(bit, cache))'
  <2>1. /\ held' \in {held, Composed(c, cache, v)}
        /\ cache' \in {cache, Composed(c, cache, v)}
    BY <1>2, <1>4, WriteKeepsBit DEF Write, Confirm, Mismatch, Lose, Refuse
  <2>2. Kept(bit, Composed(c, cache, v))
    BY <1>2, WriteKeepsBit
  <2> QED BY <1>0, <1>2, <2>1, <2>2 DEF Kept
<1>5. CASE Poll
  BY <1>0, <1>2, <1>5 DEF Poll, Kept
<1>6. CASE UNCHANGED vars
  BY <1>2, <1>6 DEF vars, Kept
<1> QED BY <1>4, <1>5, <1>6 DEF Next

(* Flags of a register that no control owns survive every write to the     *)
(* controls beside them.                                                   *)
THEOREM UnownedSurvives == Spec => []UnownedKept
<1>1. Init => UnownedInv
  BY DEF Init, UnownedInv, Kept
<1>2. IInv /\ UnownedInv /\ [Next]_vars => UnownedInv'
  BY UnownedStep
<1>3. UnownedInv /\ TypeOK => UnownedKept
  BY DEF UnownedInv, Unowned, Kept, UnownedKept
<1> QED BY <1>1, <1>2, <1>3, HeldInvariant, ControlsTypeOK, PTL DEF Spec

-----------------------------------------------------------------------------
(* What the user chose is displayed.  A control holds nothing, what the    *)
(* first poll found, or a value that was chosen on it; a time that was     *)
(* chosen is one in the word of the inverter and in the cached one.        *)
ChosenOK(d) ==
  \/ known[d] = {} \/ known[d] = {Extracted(d, first)}
  \/ /\ \E v \in Tried(d) : known[d] = {v}
     /\ d.kind = "clock" => ValidTime(held) /\ ValidTime(cache)
ChosenInv == \A d \in OnRegister(Settings, register) : ChosenOK(d)

(* A clock has its register alone, but for buttons that replace the word.  *)
LEMMA ClockAlone ==
    ASSUME IInv, NEW c \in Shared, NEW d \in OnRegister(Settings, register), d # c,
           d.kind = "clock"
    PROVE  c.kind = "press_word"
<1>1. c \in Catalogue /\ c.register = register
  BY SharedFacts DEF IInv
<1>2. d \in Catalogue /\ d \notin Buttons /\ d.register = register
  BY DEF OnRegister, Settings
<1> QED BY <1>1, <1>2, SharingAssumption DEF IsField

LEMMA ChosenStep == ASSUME IInv, ChosenInv, [Next]_vars PROVE ChosenInv'
<1>0. register' = register /\ first' = first /\ class' = class
  BY DEF Next, Write, Poll, vars
<1>k. DOMAIN known = OnRegister(Settings, register)
  BY DEF IInv, HeldOK
<1> SUFFICES ASSUME NEW d \in OnRegister(Settings, register) PROVE ChosenOK(d)'
  BY <1>0 DEF ChosenInv
<1>1. ChosenOK(d) /\ d \in Settings /\ class \in Nat /\ cache \in Word
  BY ClassNat DEF ChosenInv, OnRegister, IInv, WordsOK
<1>2. Tried(d)' = Tried(d)
  BY <1>0 DEF Tried, MinOf, MaxOf, Rescaled
<1>3. ASSUME NEW c \in Shared, NEW v \in Tried(c), Write(c, v)
      PROVE  ChosenOK(d)'
  <2>1. CASE Refuse(c)
    BY <1>0, <1>1, <1>2, <2>1 DEF Refuse, ChosenOK
  <2>2. ASSUME NEW value, known' = KnownAfter(c, value), d # c
        PROVE  known'[d] = {} \/ (known'[d] = known[d] /\ c.kind # "press_word")
    BY <1>k, <2>2 DEF KnownAfter
  <2>3. ASSUME NEW value, known' = KnownAfter(c, value), d # c
        PROVE  ChosenOK(d)'
    <3>1. known'[d] = {} \/ (known'[d] = known[d] /\ d.kind # "clock")
      BY <2>2, <2>3, ClockAlone
    <3> QED BY <1>0, <1>1, <1>2, <3>1 DEF ChosenOK
  <2>4. CASE d = c /\ Confirm(c, v)
    <3>1. known'[d] = {v} /\ held' = Composed(c, cache, v) /\ cache' = Composed(c, cache, v)
      BY <1>k, <2>4 DEF Confirm, KnownAfter
    <3>2. d.kind = "clock" => ValidTime(Composed(c, cache, v))
      <4> SUFFICES ASSUME d.kind = "clock" PROVE ValidTime(Composed(c, cache, v))
        OBVIOUS
      <4>1. v \in {0, 750, 1439}
        BY <1>1, <2>4, TriedFits DEF Settings
      <4>2. Composed(c, cache, v) = PackTime(v \div 60, v % 60)
        BY <2>4 DEF Composed, IsField
      <4> QED BY <4>1, <4>2, PackedTimes
    <3>3. v \in Tried(d)'
      BY <1>2, <2>4
    <3> QED BY <3>1, <3>2, <3>3 DEF ChosenOK
  <2>5. CASE d = c /\ (Mismatch(c, v) \/ Lose(c, v))
    <3>1. known'[d] = {}
      BY <1>k, <2>5 DEF Mismatch, Lose, KnownAfter
    <3> QED BY <3>1 DEF ChosenOK
  <2>6. CASE d # c /\ (Confirm(c, v) \/ Mismatch(c, v) \/ Lose(c, v))
    BY <2>3, <2>6 DEF Confirm, Mismatch, Lose
  <2> QED BY <1>3, <2>1, <2>4, <2>5, <2>6 DEF Write
<1>4. CASE Poll
  BY <1>0, <1>1, <1>2, <1>4 DEF Poll, ChosenOK
<1>5. CASE UNCHANGED vars
  BY <1>0, <1>1, <1>2, <1>5 DEF vars, ChosenOK
<1> QED BY <1>3, <1>4, <1>5 DEF Next

(* A value that was chosen is displayed when it is what the word holds.    *)
LEMMA ChosenDisplayed ==
    ASSUME class \in Nat, NEW d \in Settings, NEW word, Extracted(d, word) \in Tried(d),
           d.kind = "clock" => ValidTime(word)
    PROVE  \/ Displayed(d, word) = {Extracted(d, word)}
           \/ Unimplemented(d, word)
<1>1. d \in Catalogue
  BY DEF Settings
<1>2. d.kind \in {"choice", "whole_choice"} => Extracted(d, word) \in d.options
  BY <1>1, TableAssumption DEF Tried
<1> QED BY <1>2 DEF Displayed

(* A value the user chose on a control is displayed as long as the control *)
(* is known to hold it, except under the sentinel of an unimplemented one. *)
THEOREM ChosenDisplays == Spec => []ChosenIsShown
<1>1. Init => ChosenInv
  BY DEF Init, ChosenInv, ChosenOK
<1>2. IInv /\ ChosenInv /\ [Next]_vars => ChosenInv'
  BY ChosenStep
<1>3. IInv /\ ChosenInv => ChosenIsShown
  <2> SUFFICES ASSUME IInv, ChosenInv, NEW d \in DOMAIN known
               PROVE  \/ known[d] = {} \/ known[d] = {Extracted(d, first)}
                      \/ Displayed(d, cache) = known[d] \/ Unimplemented(d, cache)
    BY DEF ChosenIsShown
  <2>1. /\ d \in OnRegister(Settings, register) /\ d \in Settings /\ class \in Nat
        /\ known[d] = {} \/ known[d] = {Extracted(d, cache)}
    BY ClassNat DEF IInv, HeldOK, OnRegister
  <2>2. ChosenOK(d)
    BY <2>1 DEF ChosenInv
  <2>3. CASE \E v \in Tried(d) : known[d] = {v}
    <3>1. Extracted(d, cache) \in Tried(d) /\ known[d] = {Extracted(d, cache)}
      BY <2>1, <2>3
    <3>2. CASE d.kind = "clock" => ValidTime(cache)
      BY <2>1, <3>1, <3>2, ChosenDisplayed
    <3> QED BY <2>2, <3>2 DEF ChosenOK
  <2> QED BY <2>2, <2>3 DEF ChosenOK
<1> QED BY <1>1, <1>2, <1>3, HeldInvariant, PTL DEF Spec

=============================================================================
