----------------------------- MODULE CodecProofs -----------------------------
(***************************************************************************)
(* Proofs about the byte formats around Matter TLV, for every base of at   *)
(* least 2: labels, transcripts, and the packets AES-CCM seals.            *)
(***************************************************************************)
EXTENDS TlvProofs, Credentials, Onboarding, Ccm, SequenceTheorems

-----------------------------------------------------------------------------
(* Digits that make a number *)

LEMMA DivideSum ==
    ASSUME NEW c \in Nat \ {0}, NEW q \in Int, NEW d \in 0 .. c - 1
    PROVE  (d + c * q) \div c = q /\ (d + c * q) % c = d
<1> DEFINE x == d + c * q
<1>1. x \in Int /\ c * q \in Int /\ c * q <= x /\ x < c * q + c
  OBVIOUS
<1> HIDE DEF x
<1>2. x \div c = q
  BY <1>1
<1>3. x = c * (x \div c) + (x % c) /\ x % c \in Int
  BY <1>1
<1>4. x % c = x - c * q
  BY <1>1, <1>2, <1>3
<1>5. x - c * q = d
  <2> DEFINE y == c * q
  <2>1. y \in Int
    OBVIOUS
  <2> HIDE DEF y
  <2> QED BY <2>1 DEF x, y
<1> QED BY <1>2, <1>4, <1>5 DEF x

(* Digits are the digits of a number they have room for *)
LEMMA DigitsOfSome ==
    ASSUME NEW base \in Nat \ {0}, NEW s \in Seq(0 .. base - 1)
    PROVE  \E v \in 0 .. Powers(base)[Len(s)] - 1 : s = DigitsOf(v, base, Len(s))
<1> DEFINE power == Powers(base)
<1>p. /\ power[0] = 1 /\ \A k \in Nat : power[k + 1] = base * power[k]
      /\ \A k \in Nat : power[k] \in Nat \ {0}
  BY PowersFacts
<1> DEFINE D(v, n) == [i \in 1 .. n |-> (v \div power[i - 1]) % base]
           Made(t, n) == \E v \in 0 .. power[n] - 1 : \A i \in 1 .. n : t[i] = (v \div power[i - 1]) % base
           S == {n \in Nat : \A t \in [1 .. n -> 0 .. base - 1] : Made(t, n)}
<1>d. \A v, n : DigitsOf(v, base, n) = D(v, n)
  BY DEF DigitsOf
<1> HIDE DEF power
<1>1. 0 \in S
  <2> SUFFICES ASSUME NEW t PROVE Made(t, 0)
    OBVIOUS
  <2>1. 0 \in 0 .. power[0] - 1
    BY <1>p
  <2>2. \A i \in 1 .. 0 : t[i] = (0 \div power[i - 1]) % base
    OBVIOUS
  <2> QED BY <2>1, <2>2
<1>2. ASSUME NEW n \in S PROVE n + 1 \in S
  <2> SUFFICES ASSUME NEW t \in [1 .. n + 1 -> 0 .. base - 1] PROVE Made(t, n + 1)
    OBVIOUS
  <2> DEFINE u == [i \in 1 .. n |-> t[i + 1]]
  <2>1. u \in [1 .. n -> 0 .. base - 1] /\ t[1] \in 0 .. base - 1 /\ n \in Nat
    OBVIOUS
  <2>2. Made(u, n)
    BY <2>1
  <2>3. PICK w \in 0 .. power[n] - 1 : \A i \in 1 .. n : u[i] = (w \div power[i - 1]) % base
    BY <2>2
  <2> DEFINE v == t[1] + base * w
  <2>4. power[n] \in Nat \ {0} /\ power[n + 1] = base * power[n] /\ w \in Int
    <3>1. power[n] \in Nat \ {0} /\ power[n + 1] = base * power[n]
      <4> HIDE DEF S, Made
      <4> QED BY <1>p, <2>1
    <3> DEFINE m == power[n]
    <3>2. m \in Nat /\ w \in 0 .. m - 1
      BY <3>1
    <3> HIDE DEF m
    <3>3. w \in Int
      BY <3>2
    <3> QED BY <3>1, <3>3
  <2>5. v \in 0 .. power[n + 1] - 1
    <3> DEFINE d == t[1]
               m == power[n]
    <3>1. d \in 0 .. base - 1 /\ m \in Nat \ {0} /\ w \in 0 .. m - 1
      BY <2>1, <2>4
    <3> HIDE DEF d, m
    <3>2. 0 <= base * w /\ base * w <= base * (m - 1) /\ base * (m - 1) = base * m - base
      BY <3>1
    <3>3. base * w \in Int /\ base * m \in Int
      BY <3>1
    <3> DEFINE x == base * w
               y == base * m
    <3>4. d + x \in 0 .. y - 1
      <4> HIDE DEF x, y
      <4>1. 0 <= x /\ x <= y - base /\ x \in Int /\ y \in Int
        BY <3>2, <3>3 DEF x, y
      <4> QED BY <4>1, <3>1
    <3> QED BY <3>4, <2>4 DEF d, m
  <2>6. v \div base = w /\ v % base = t[1]
    <3> DEFINE d == t[1]
    <3>1. d \in 0 .. base - 1
      BY <2>1
    <3> HIDE DEF d
    <3> QED BY <3>1, <2>4, DivideSum DEF d
  <2>v. v \in Int
    BY <2>1, <2>4
  <2>7. ASSUME NEW i \in 1 .. n + 1 PROVE t[i] = (v \div power[i - 1]) % base
    <3> HIDE DEF v
    <3>1. CASE i = 1
      <4>1. power[i - 1] = 1 /\ v \div 1 = v
        BY <3>1, <1>p, <2>v
      <4> QED BY <4>1, <3>1, <2>6
    <3>2. CASE i # 1
      <4> DEFINE j == i - 1
      <4>1. j \in 1 .. n /\ i = j + 1 /\ j - 1 \in Nat /\ j = (j - 1) + 1
        BY <3>2, <2>1
      <4> HIDE DEF j
      <4>2. t[i] = u[j]
        BY <4>1
      <4>3. u[j] = (w \div power[j - 1]) % base
        BY <4>1, <2>3
      <4>4. power[j] = base * power[j - 1] /\ power[j - 1] \in Nat \ {0}
        BY <4>1, <1>p
      <4>5. (v \div base) \div power[j - 1] = v \div (base * power[j - 1])
        BY <2>v, <4>4, DivideTwice
      <4>6. i - 1 = j
        BY <4>1
      <4> QED BY <4>2, <4>3, <4>4, <4>5, <4>6, <2>6
    <3> QED BY <3>1, <3>2
  <2> HIDE DEF v, u
  <2> QED BY <2>5, <2>7
<1>3. S = Nat
  <2> HIDE DEF S
  <2>1. S \subseteq Nat
    BY DEF S
  <2> QED BY <1>1, <1>2, <2>1, Induction
<1> DEFINE n == Len(s)
<1>4. n \in Nat /\ s \in [1 .. n -> 0 .. base - 1]
  OBVIOUS
<1> HIDE DEF n
<1>5. PICK v \in 0 .. power[n] - 1 : \A i \in 1 .. n : s[i] = (v \div power[i - 1]) % base
  BY <1>3, <1>4
<1>6. s = D(v, n)
  BY <1>4, <1>5
<1> HIDE DEF D
<1> QED BY <1>5, <1>6, <1>d DEF n, power

(* The number they make *)
LEMMA ValueOfDigits ==
    ASSUME NEW base \in Nat \ {0}, NEW s \in Seq(0 .. base - 1)
    PROVE  /\ ValueOf(s, base) \in 0 .. Powers(base)[Len(s)] - 1
           /\ DigitsOf(ValueOf(s, base), base, Len(s)) = s
<1>1. PICK v \in 0 .. Powers(base)[Len(s)] - 1 : s = DigitsOf(v, base, Len(s))
  BY DigitsOfSome
<1> DEFINE n == Len(s)
           p == Powers(base)[n]
<1>2. n \in Nat /\ p \in Nat \ {0} /\ v \in Int
  <2>1. n \in Nat
    OBVIOUS
  <2>2. p \in Nat \ {0}
    BY <2>1, PowersFacts
  <2> QED BY <2>1, <2>2
<1>3. ValueOf(DigitsOf(v, base, n), base) = v % p
  BY <1>2, DigitsMakeNumber
<1>4. v % p = v
  <2> HIDE DEF p
  <2>1. v \in Nat /\ v < p
    BY <1>1, <1>2 DEF p
  <2> QED BY <1>2, <2>1, SmallRemainder
<1> QED BY <1>1, <1>3, <1>4

-----------------------------------------------------------------------------
(* Bits of a number *)

LEMMA DigitsType ==
    ASSUME NEW base \in Nat \ {0}, NEW n \in Nat, NEW v \in Int
    PROVE  DigitsOf(v, base, n) \in Seq(0 .. base - 1) /\ Len(DigitsOf(v, base, n)) = n
<1>1. ASSUME NEW i \in 1 .. n PROVE (v \div Powers(base)[i - 1]) % base \in 0 .. base - 1
  <2> DEFINE x == Powers(base)[i - 1]
  <2>1. x \in Nat \ {0}
    BY PowersFacts
  <2> HIDE DEF x
  <2>2. v \div x \in Int
    BY <2>1
  <2> QED BY <2>2 DEF x
<1> QED BY <1>1 DEF DigitsOf

LEMMA PowersOfTwo ==
    LET P == Powers(2) IN
      /\ P[0] = 1 /\ P[1] = 2 /\ P[2] = 4 /\ P[3] = 8 /\ P[4] = 16 /\ P[5] = 32
      /\ P[6] = 64 /\ P[7] = 128 /\ P[8] = 256 /\ P[9] = 512 /\ P[10] = 1024
      /\ P[11] = 2048 /\ P[12] = 4096 /\ P[13] = 8192 /\ P[14] = 16384 /\ P[15] = 32768
      /\ P[16] = 65536 /\ P[17] = 131072 /\ P[18] = 262144 /\ P[19] = 524288
      /\ P[20] = 1048576 /\ P[21] = 2097152 /\ P[22] = 4194304 /\ P[23] = 8388608
      /\ P[24] = 16777216 /\ P[27] = 134217728
<1> DEFINE P == Powers(2)
<1>z. P[0] = 1
  BY PowersFacts
<1>a. \A n \in Nat \ {0} : P[n] = 2 * P[n - 1]
  <2> SUFFICES ASSUME NEW n \in Nat \ {0} PROVE P[n] = 2 * P[n - 1]
    OBVIOUS
  <2>1. n - 1 \in Nat /\ n = (n - 1) + 1
    OBVIOUS
  <2>2. P[(n - 1) + 1] = 2 * P[n - 1]
    BY <2>1, PowersFacts
  <2> QED BY <2>1, <2>2
<1> HIDE DEF P
<1>1. P[1] = 2
  BY <1>a, <1>z
<1>2. P[2] = 4
  BY <1>a, <1>1
<1>3. P[3] = 8
  BY <1>a, <1>2
<1>4. P[4] = 16
  BY <1>a, <1>3
<1>5. P[5] = 32
  BY <1>a, <1>4
<1>6. P[6] = 64
  BY <1>a, <1>5
<1>7. P[7] = 128
  BY <1>a, <1>6
<1>8. P[8] = 256
  BY <1>a, <1>7
<1>9. P[9] = 512
  BY <1>a, <1>8
<1>10. P[10] = 1024
  BY <1>a, <1>9
<1>11. P[11] = 2048
  BY <1>a, <1>10
<1>12. P[12] = 4096
  BY <1>a, <1>11
<1>13. P[13] = 8192
  BY <1>a, <1>12
<1>14. P[14] = 16384
  BY <1>a, <1>13
<1>15. P[15] = 32768
  BY <1>a, <1>14
<1>16. P[16] = 65536
  BY <1>a, <1>15
<1>17. P[17] = 131072
  BY <1>a, <1>16
<1>18. P[18] = 262144
  BY <1>a, <1>17
<1>19. P[19] = 524288
  BY <1>a, <1>18
<1>20. P[20] = 1048576
  BY <1>a, <1>19
<1>21. P[21] = 2097152
  BY <1>a, <1>20
<1>22. P[22] = 4194304
  BY <1>a, <1>21
<1>23. P[23] = 8388608
  BY <1>a, <1>22
<1>24. P[24] = 16777216
  BY <1>a, <1>23
<1>25. P[25] = 33554432
  BY <1>a, <1>24
<1>26. P[26] = 67108864
  BY <1>a, <1>25
<1>27. P[27] = 134217728
  BY <1>a, <1>26
<1> QED BY <1>z, <1>1, <1>2, <1>3, <1>4, <1>5, <1>6, <1>7, <1>8, <1>9, <1>10, <1>11, <1>12, <1>13, <1>14, <1>15, <1>16, <1>17, <1>18, <1>19, <1>20, <1>21, <1>22, <1>23, <1>24, <1>27 DEF P

LEMMA OtherPowers ==
    /\ Powers(256)[0] = 1 /\ Powers(256)[1] = 256 /\ Powers(256)[2] = 65536
    /\ Powers(38)[4] = 2085136 /\ Powers(38)[5] = 79235168
    /\ Powers(10)[1] = 10 /\ Powers(10)[4] = 10000 /\ Powers(10)[5] = 100000
<1>a. ASSUME NEW base \in Nat \ {0}
      PROVE  /\ Powers(base)[0] = 1 /\ Powers(base)[1] = base * Powers(base)[0]
             /\ Powers(base)[2] = base * Powers(base)[1] /\ Powers(base)[3] = base * Powers(base)[2]
             /\ Powers(base)[4] = base * Powers(base)[3] /\ Powers(base)[5] = base * Powers(base)[4]
  <2> DEFINE P == Powers(base)
  <2>1. P[0] = 1 /\ \A n \in Nat : P[n + 1] = base * P[n]
    BY PowersFacts
  <2>2. 0 + 1 = 1 /\ 1 + 1 = 2 /\ 2 + 1 = 3 /\ 3 + 1 = 4 /\ 4 + 1 = 5
    OBVIOUS
  <2> HIDE DEF P
  <2>3. P[0 + 1] = base * P[0] /\ P[1 + 1] = base * P[1] /\ P[2 + 1] = base * P[2]
        /\ P[3 + 1] = base * P[3] /\ P[4 + 1] = base * P[4]
    BY <2>1
  <2> QED BY <2>1, <2>2, <2>3 DEF P
<1>1. Powers(256)[0] = 1 /\ Powers(256)[1] = 256 /\ Powers(256)[2] = 65536
  <2>1. 256 \in Nat \ {0}
    OBVIOUS
  <2> QED BY <2>1, <1>a
<1>2. Powers(38)[4] = 2085136 /\ Powers(38)[5] = 79235168
  <2>1. 38 \in Nat \ {0}
    OBVIOUS
  <2> QED BY <2>1, <1>a
<1>3. Powers(10)[1] = 10 /\ Powers(10)[4] = 10000 /\ Powers(10)[5] = 100000
  <2>1. 10 \in Nat \ {0}
    OBVIOUS
  <2> QED BY <2>1, <1>a
<1> QED BY <1>1, <1>2, <1>3

(* Multiples of twice b do not show in the bit b *)
LEMMA LowBits ==
    ASSUME NEW b \in Nat \ {0}, NEW k \in Int, NEW y \in Int
    PROVE  ((y + b * (2 * k)) \div b) % 2 = (y \div b) % 2
<1> DEFINE r == y % b
           z == y \div b
           m == 2 * k
           x == r + b * (z + m)
<1>1. r \in 0 .. b - 1 /\ z \in Int /\ y = b * z + r /\ m \in Int
  OBVIOUS
<1> HIDE DEF r, z
<1>2. y + b * m = x
  <2> HIDE DEF m
  <2>1. b * (z + m) = b * z + b * m /\ b * z \in Int /\ b * m \in Int
    BY <1>1
  <2> DEFINE p == b * z
             q == b * m
             o == b * (z + m)
  <2>2. o = p + q /\ p \in Int /\ q \in Int /\ y = p + r /\ r \in Int
    BY <1>1, <2>1
  <2> HIDE DEF p, q, o
  <2>3. y + q = r + o
    BY <2>2
  <2> QED BY <2>3 DEF q, o
<1>3. x \div b = z + m
  <2>1. z + m \in Int
    BY <1>1
  <2> QED BY <1>1, <2>1, DivideSum
<1>4. (z + m) % 2 = z % 2
  BY <1>1
<1> HIDE DEF x, m
<1> QED BY <1>2, <1>3, <1>4 DEF z, m

(* The bits of a number's bytes are the bits of the number *)
LEMMA BitOfByte ==
    ASSUME NEW v \in Nat, NEW r \in 0 .. 2, NEW t \in 0 .. 7
    PROVE  (((v \div Powers(256)[r]) % 256) \div Powers(2)[t]) % 2 = (v \div Powers(2)[8 * r + t]) % 2
<1> DEFINE a == Powers(256)[r]
           b == Powers(2)[t]
           x == v \div a
<1>1. a \in {1, 256, 65536} /\ b \in {1, 2, 4, 8, 16, 32, 64, 128}
  <2>1. r = 0 \/ r = 1 \/ r = 2
    OBVIOUS
  <2>2. t = 0 \/ t = 1 \/ t = 2 \/ t = 3 \/ t = 4 \/ t = 5 \/ t = 6 \/ t = 7
    OBVIOUS
  <2> QED BY <2>1, <2>2, PowersOfTwo, OtherPowers
<1>2. a * b = Powers(2)[8 * r + t]
  <2> DEFINE P == Powers(2)
  <2>1. CASE r = 0
    <3>1. a = 1 /\ 8 * r + t = t
      BY <2>1, OtherPowers
    <3> QED BY <3>1, <1>1
  <2>2. CASE r = 1
    <3>1. a = 256 /\ 8 * r + t = 8 + t
      BY <2>2, OtherPowers
    <3>2. t = 0 \/ t = 1 \/ t = 2 \/ t = 3 \/ t = 4 \/ t = 5 \/ t = 6 \/ t = 7
      OBVIOUS
    <3> QED BY <3>1, <3>2, PowersOfTwo
  <2>3. CASE r = 2
    <3>1. a = 65536 /\ 8 * r + t = 16 + t
      BY <2>3, OtherPowers
    <3>2. t = 0 \/ t = 1 \/ t = 2 \/ t = 3 \/ t = 4 \/ t = 5 \/ t = 6 \/ t = 7
      OBVIOUS
    <3> QED BY <3>1, <3>2, PowersOfTwo
  <2>4. r = 0 \/ r = 1 \/ r = 2
    OBVIOUS
  <2> QED BY <2>1, <2>2, <2>3, <2>4
<1> HIDE DEF a, b
<1>3. x \div b = v \div (a * b) /\ x \in Int
  <2>1. v \in Int /\ a \in Nat \ {0} /\ b \in Nat \ {0}
    BY <1>1
  <2>2. (v \div a) \div b = v \div (a * b)
    BY <2>1, DivideTwice
  <2>3. v \div a \in Int
    BY <2>1
  <2> QED BY <2>2, <2>3
<1> HIDE DEF x
<1>4. ((x % 256) \div b) % 2 = (x \div b) % 2
  <2> DEFINE q == x \div 256
             y == x % 256
  <2>a. q \in Int /\ y \in 0 .. 255 /\ x = 256 * q + y
    BY <1>3
  <2> HIDE DEF q, y
  <2>1. CASE b = 1
    <3>1. x = y + 1 * (2 * (128 * q)) /\ 128 * q \in Int /\ 1 \in Nat \ {0}
      BY <2>a
    <3> QED BY <2>1, <2>a, <3>1, LowBits
  <2>2. CASE b = 2
    <3>1. x = y + 2 * (2 * (64 * q)) /\ 64 * q \in Int /\ 2 \in Nat \ {0}
      BY <2>a
    <3> QED BY <2>2, <2>a, <3>1, LowBits
  <2>3. CASE b = 4
    <3>1. x = y + 4 * (2 * (32 * q)) /\ 32 * q \in Int /\ 4 \in Nat \ {0}
      BY <2>a
    <3> QED BY <2>3, <2>a, <3>1, LowBits
  <2>4. CASE b = 8
    <3>1. x = y + 8 * (2 * (16 * q)) /\ 16 * q \in Int /\ 8 \in Nat \ {0}
      BY <2>a
    <3> QED BY <2>4, <2>a, <3>1, LowBits
  <2>5. CASE b = 16
    <3>1. x = y + 16 * (2 * (8 * q)) /\ 8 * q \in Int /\ 16 \in Nat \ {0}
      BY <2>a
    <3> QED BY <2>5, <2>a, <3>1, LowBits
  <2>6. CASE b = 32
    <3>1. x = y + 32 * (2 * (4 * q)) /\ 4 * q \in Int /\ 32 \in Nat \ {0}
      BY <2>a
    <3> QED BY <2>6, <2>a, <3>1, LowBits
  <2>7. CASE b = 64
    <3>1. x = y + 64 * (2 * (2 * q)) /\ 2 * q \in Int /\ 64 \in Nat \ {0}
      BY <2>a
    <3> QED BY <2>7, <2>a, <3>1, LowBits
  <2>8. CASE b = 128
    <3>1. x = y + 128 * (2 * (q)) /\ q \in Int /\ 128 \in Nat \ {0}
      BY <2>a
    <3> QED BY <2>8, <2>a, <3>1, LowBits
  <2> QED BY <1>1, <2>1, <2>2, <2>3, <2>4, <2>5, <2>6, <2>7, <2>8 DEF y
<1> QED BY <1>2, <1>3, <1>4 DEF a, b, x

-----------------------------------------------------------------------------
(* The QR code *)

BitString(s, n) == s \in Seq(0 .. 1) /\ Len(s) = n

LEMMA BitElement ==
    ASSUME NEW s, NEW n, BitString(s, n), NEW i \in 1 .. n
    PROVE  s[i] \in 0 .. 1
<1>1. s \in Seq(0 .. 1) /\ i \in 1 .. Len(s)
  BY DEF BitString
<1> QED BY <1>1, ElementOfSeq

(* n characters that stand for v *)
CharactersOf(c, n, v) == c \in Seq(Nat) /\ Len(c) = n /\ ValueOf(c, 38) = v

(* v has the bits of s from position q on *)
NumberOf(v, s, q, n) == v \in Nat /\ \A i \in 1 .. n : (v \div Powers(2)[i - 1]) % 2 = s[q + i]

(* Characters that have room for the bits make the bits' number *)
LEMMA CharactersMakeBits ==
    ASSUME NEW n \in Nat, NEW m \in Nat, NEW bits, BitString(bits, m), Powers(2)[m] <= Powers(38)[n]
    PROVE  /\ CharactersOf(Characters(bits, n), n, ValueOf(bits, 2))
           /\ NumberOf(ValueOf(bits, 2), bits, 0, m)
<1> DEFINE v == ValueOf(bits, 2)
           p == Powers(2)[m]
           q == Powers(38)[n]
<1>1. 2 \in Nat \ {0} /\ 38 \in Nat \ {0} /\ 0 .. 1 = 0 .. 2 - 1
  OBVIOUS
<1>b. bits \in Seq(0 .. 2 - 1) /\ Len(bits) = m
  BY <1>1 DEF BitString
<1>2. p \in Nat \ {0} /\ q \in Nat \ {0}
  BY <1>1, PowersFacts
<1>3. v \in 0 .. p - 1 /\ DigitsOf(v, 2, m) = bits
  BY <1>1, <1>b, ValueOfDigits
<1> HIDE DEF v, p
<1>4. v \in Nat /\ v < p
  BY <1>2, <1>3
<1>v. v \in Int
  BY <1>4
<1>5. DigitsOf(v, 38, n) \in Seq(0 .. 38 - 1) /\ Len(DigitsOf(v, 38, n)) = n
  BY <1>1, <1>v, DigitsType
<1>6. ValueOf(DigitsOf(v, 38, n), 38) = v
  <2>1. ValueOf(DigitsOf(v, 38, n), 38) = v % q
    BY <1>1, <1>v, DigitsMakeNumber
  <2> HIDE DEF q
  <2>2. v < q
    BY <1>2, <1>4 DEF p, q
  <2>3. v % q = v
    BY <1>2, <1>4, <2>2, SmallRemainder
  <2> QED BY <2>1, <2>3
<1>7. ASSUME NEW i \in 1 .. m PROVE (v \div Powers(2)[i - 1]) % 2 = bits[0 + i]
  <2>1. DigitsOf(v, 2, m)[i] = (v \div Powers(2)[i - 1]) % 2
    BY DEF DigitsOf
  <2> QED BY <2>1, <1>3
<1>8. DigitsOf(v, 38, n) \in Seq(Nat)
  <2>1. 0 .. 38 - 1 \subseteq Nat
    OBVIOUS
  <2> QED BY <1>5, <2>1, SeqMonotonic
<1>9. CharactersOf(DigitsOf(v, 38, n), n, v)
  BY <1>5, <1>6, <1>8 DEF CharactersOf
<1>10. NumberOf(v, bits, 0, m)
  BY <1>4, <1>7 DEF NumberOf
<1> QED BY <1>9, <1>10 DEF Characters, v

(* The j-th 24 bits, and how many characters they make *)
Slice(bits, j) == SubSeq(bits, 24 * j - 23, IF j < 4 THEN 24 * j ELSE 88)
Share(j) == IF j < 4 THEN 24 ELSE 16
Room(j) == IF j < 4 THEN 5 ELSE 4
Chunk(bits, j) == Characters(Slice(bits, j), Room(j))
Text(bits) ==
    Characters(SubSeq(bits, 1, 24), 5) \o Characters(SubSeq(bits, 25, 48), 5)
    \o Characters(SubSeq(bits, 49, 72), 5) \o Characters(SubSeq(bits, 73, 88), 4)

LEMMA SliceBits ==
    ASSUME NEW bits, BitString(bits, 88), NEW j \in 1 .. 4
    PROVE  /\ BitString(Slice(bits, j), Share(j))
           /\ \A i \in 1 .. Share(j) : Slice(bits, j)[i] = bits[24 * j - 24 + i]
<1> DEFINE a == 24 * j - 23
           b == IF j < 4 THEN 24 * j ELSE 88
           n == Share(j)
           t == SubSeq(bits, a, b)
<1>1. a \in 1 .. 88 /\ b \in 1 .. 88 /\ a <= b /\ b - a + 1 = n /\ n \in Nat /\ a - 1 = 24 * j - 24
  BY DEF Share
<1>2. a \in Int /\ b \in Int /\ \A i \in a .. b : bits[i] \in 0 .. 1
  <2> HIDE DEF a, b
  <2>1. \A i \in 1 .. 88 : bits[i] \in 0 .. 1
    BY BitElement
  <2> QED BY <1>1, <2>1
<1> HIDE DEF a, b, n
<1>3. /\ t \in Seq(0 .. 1) /\ Len(t) = IF a <= b THEN b - a + 1 ELSE 0
      /\ \A i \in 1 .. b - a + 1 : t[i] = bits[a + i - 1]
  BY <1>2, SubSeqProperties
<1> HIDE DEF t
<1>4. BitString(t, n)
  BY <1>1, <1>3 DEF BitString
<1>5. ASSUME NEW i \in 1 .. n PROVE t[i] = bits[24 * j - 24 + i]
  <2>1. a + i - 1 = 24 * j - 24 + i
    BY <1>1, <1>2
  <2> QED BY <1>1, <1>3, <2>1
<1> QED BY <1>4, <1>5 DEF Slice, a, b, t, n

LEMMA SliceCharacters ==
    ASSUME NEW bits, BitString(bits, 88), NEW j \in 1 .. 4
    PROVE  /\ CharactersOf(Chunk(bits, j), Room(j), ValueOf(Slice(bits, j), 2))
           /\ NumberOf(ValueOf(Slice(bits, j), 2), bits, 24 * j - 24, Share(j))
<1> DEFINE s == Slice(bits, j)
           n == Room(j)
           m == Share(j)
           v == ValueOf(s, 2)
<1>1. /\ BitString(s, m)
      /\ \A i \in 1 .. m : s[i] = bits[24 * j - 24 + i]
  BY SliceBits
<1>2. n \in Nat /\ m \in Nat
  BY DEF Room, Share
<1>3. Powers(2)[m] <= Powers(38)[n]
  <2>0. Powers(2)[24] = 16777216 /\ Powers(38)[5] = 79235168 /\ Powers(2)[16] = 65536 /\ Powers(38)[4] = 2085136
    BY PowersOfTwo, OtherPowers
  <2>1. CASE j < 4
    <3>1. m = 24 /\ n = 5
      BY <2>1 DEF Room, Share
    <3> HIDE DEF m, n
    <3> QED BY <3>1, <2>0
  <2>2. CASE ~(j < 4)
    <3>1. m = 16 /\ n = 4
      BY <2>2 DEF Room, Share
    <3> HIDE DEF m, n
    <3> QED BY <3>1, <2>0
  <2> QED BY <2>1, <2>2
<1> HIDE DEF s, n, m
<1>4. CharactersOf(Characters(s, n), n, ValueOf(s, 2)) /\ NumberOf(ValueOf(s, 2), s, 0, m)
  BY <1>1, <1>2, <1>3, CharactersMakeBits
<1>5. NumberOf(v, bits, 24 * j - 24, m)
  <2> HIDE DEF v
  <2>1. v \in Nat /\ \A i \in 1 .. m : (v \div Powers(2)[i - 1]) % 2 = s[0 + i]
    BY <1>4 DEF NumberOf, v
  <2>2. \A i \in 1 .. m : 0 + i = i
    BY <1>2
  <2> QED BY <1>1, <2>1, <2>2 DEF NumberOf
<1> QED BY <1>4, <1>5 DEF s, n, m, v, Chunk

(* n characters *)
Word(s, n) == s \in Seq(Nat) /\ Len(s) = n

LEMMA JoinedWords ==
    ASSUME NEW e, NEW f, NEW n \in Nat, NEW m \in Nat, Word(e, n), Word(f, m)
    PROVE  Word(e \o f, n + m)
<1>1. e \in Seq(Nat) /\ f \in Seq(Nat) /\ Len(e) = n /\ Len(f) = m
  BY DEF Word
<1>2. e \o f \in Seq(Nat) /\ Len(e \o f) = Len(e) + Len(f)
  BY <1>1, ConcatLength
<1> QED BY <1>1, <1>2 DEF Word

LEMMA SplitWords ==
    ASSUME NEW b, NEW e, NEW f, NEW n \in Nat, NEW m \in Nat, NEW l \in Nat,
           Word(b, l), Word(e, n), Word(f, m), At(b, 1, e \o f)
    PROVE  At(b, 1, e) /\ At(b, n + 1, f)
<1>1. b \in Seq(Nat) /\ e \in Seq(Int) /\ f \in Seq(Int) /\ Len(e) = n
  BY DEF Word
<1>2. At(b, 1, e) /\ At(b, 1 + Len(e), f)
  BY <1>1, AtSplit
<1>3. 1 + Len(e) = n + 1
  BY <1>1
<1> QED BY <1>2, <1>3

LEMMA WordAt ==
    ASSUME NEW b, NEW e, NEW n \in Nat, NEW l \in Nat, NEW p \in Nat \ {0},
           Word(b, l), Word(e, n), At(b, p, e)
    PROVE  Bytes(b, p, n) = e
<1>1. b \in Seq(Nat) /\ e \in Seq(Int) /\ Len(e) = n
  BY DEF Word
<1>2. Bytes(b, p, Len(e)) = e
  BY <1>1, AtIsBytes
<1> QED BY <1>1, <1>2

(* The pieces the decoder takes are those the text was made of *)
LEMMA TextPieces ==
    ASSUME NEW bits, BitString(bits, 88)
    PROVE  Len(Text(bits)) = 19 /\ \A j \in 1 .. 4 : Piece(Text(bits), j) = Chunk(bits, j)
<1> DEFINE c1 == Chunk(bits, 1)
           c2 == Chunk(bits, 2)
           c3 == Chunk(bits, 3)
           c4 == Chunk(bits, 4)
           d2 == c1 \o c2
           d3 == d2 \o c3
           t == d3 \o c4
<1>0. Room(1) = 5 /\ Room(2) = 5 /\ Room(3) = 5 /\ Room(4) = 4 /\ 1 \in 1 .. 4 /\ 2 \in 1 .. 4 /\ 3 \in 1 .. 4 /\ 4 \in 1 .. 4
  BY DEF Room
<1>1. Text(bits) = t
  <2>1. /\ Slice(bits, 1) = SubSeq(bits, 1, 24) /\ Slice(bits, 2) = SubSeq(bits, 25, 48)
        /\ Slice(bits, 3) = SubSeq(bits, 49, 72) /\ Slice(bits, 4) = SubSeq(bits, 73, 88)
    BY DEF Slice
  <2> QED BY <2>1, <1>0 DEF Text, Chunk
<1>2. Word(c1, 5) /\ Word(c2, 5) /\ Word(c3, 5) /\ Word(c4, 4)
  <2>1. \A j \in 1 .. 4 : Word(Chunk(bits, j), Room(j))
    BY SliceCharacters DEF CharactersOf, Word
  <2> QED BY <1>0, <2>1
<1> HIDE DEF c1, c2, c3, c4
<1>6. Word(d2, 10)
  <2>1. Word(d2, 5 + 5)
    BY <1>2, JoinedWords
  <2> QED BY <2>1
<1> HIDE DEF d2
<1>7. Word(d3, 15)
  <2>1. Word(d3, 10 + 5)
    BY <1>2, <1>6, JoinedWords
  <2> QED BY <2>1
<1> HIDE DEF d3
<1>8. Word(t, 19)
  <2>1. Word(t, 15 + 4)
    BY <1>2, <1>7, JoinedWords
  <2> QED BY <2>1
<1>a. At(t, 1, d3 \o c4)
  BY <1>8 DEF At, Word
<1> HIDE DEF t
<1>b. At(t, 1, d2 \o c3) /\ At(t, 15 + 1, c4)
  <2>1. At(t, 1, d3) /\ At(t, 15 + 1, c4)
    BY <1>2, <1>7, <1>8, <1>a, SplitWords
  <2> QED BY <2>1 DEF d3
<1>c. At(t, 1, c1 \o c2) /\ At(t, 10 + 1, c3)
  <2>1. At(t, 1, d2) /\ At(t, 10 + 1, c3)
    BY <1>2, <1>6, <1>8, <1>b, SplitWords
  <2> QED BY <2>1 DEF d2
<1>d. At(t, 1, c1) /\ At(t, 5 + 1, c2)
  BY <1>2, <1>8, <1>c, SplitWords
<1>e. At(t, 6, c2) /\ At(t, 11, c3) /\ At(t, 16, c4)
  <2>1. 5 + 1 = 6 /\ 10 + 1 = 11 /\ 15 + 1 = 16
    OBVIOUS
  <2> QED BY <2>1, <1>b, <1>c, <1>d
<1>n. {1, 6, 11, 16} \subseteq Nat \ {0} /\ {4, 5, 19} \subseteq Nat
  OBVIOUS
<1>f. Bytes(t, 1, 5) = c1
  BY <1>2, <1>8, <1>d, <1>n, WordAt
<1>g. Bytes(t, 6, 5) = c2
  BY <1>2, <1>8, <1>e, <1>n, WordAt
<1>h. Bytes(t, 11, 5) = c3
  BY <1>2, <1>8, <1>e, <1>n, WordAt
<1>j. Bytes(t, 16, 4) = c4
  BY <1>2, <1>8, <1>e, <1>n, WordAt
<1>9. Piece(t, 1) = c1 /\ Piece(t, 2) = c2 /\ Piece(t, 3) = c3 /\ Piece(t, 4) = c4
  <2>1. /\ Piece(t, 1) = SubSeq(t, 1, 5) /\ Piece(t, 2) = SubSeq(t, 6, 10)
        /\ Piece(t, 3) = SubSeq(t, 11, 15) /\ Piece(t, 4) = SubSeq(t, 16, 19)
    BY <1>8 DEF Piece, Word
  <2>2. /\ Bytes(t, 1, 5) = SubSeq(t, 1, 5) /\ Bytes(t, 6, 5) = SubSeq(t, 6, 10)
        /\ Bytes(t, 11, 5) = SubSeq(t, 11, 15) /\ Bytes(t, 16, 4) = SubSeq(t, 16, 19)
    BY DEF Bytes
  <2> QED BY <2>1, <2>2, <1>f, <1>g, <1>h, <1>j
<1>10. ASSUME NEW j \in 1 .. 4 PROVE Piece(t, j) = Chunk(bits, j)
  <2>1. j = 1 \/ j = 2 \/ j = 3 \/ j = 4
    OBVIOUS
  <2> QED BY <2>1, <1>9 DEF c1, c2, c3, c4
<1> QED BY <1>1, <1>8, <1>10 DEF Word

(* Every bit of the payload is found at its position *)
LEMMA TextBits ==
    ASSUME NEW bits, BitString(bits, 88), NEW q \in 0 .. 87
    PROVE  BitAt(b38_decode(Text(bits)), q) = bits[q + 1]
<1> DEFINE in == Text(bits)
           j == q \div 24 + 1
           r == (q % 24) \div 8
           t == q % 8
           k == q \div 8 + 1
           v == ValueOf(Slice(bits, j), 2)
           w == 8 * r + t
<1>1. /\ j \in 1 .. 4 /\ r \in 0 .. 2 /\ t \in 0 .. 7 /\ k \in 1 .. 12
      /\ (k + 2) \div 3 = j /\ (k - 1) % 3 = r /\ w = q % 24 /\ 24 * j - 24 + (w + 1) = q + 1
      /\ w + 1 \in 1 .. Share(j) /\ (w + 1) - 1 = w
  BY DEF Share
<1> HIDE DEF j, r, t, k
<1>2. Len(in) = 19 /\ Piece(in, j) = Chunk(bits, j)
  BY <1>1, TextPieces
<1> HIDE DEF in
<1>3. CharactersOf(Chunk(bits, j), Room(j), v) /\ NumberOf(v, bits, 24 * j - 24, Share(j))
  BY <1>1, SliceCharacters
<1> HIDE DEF v
<1>4. ValueOf(Piece(in, j), 38) = v /\ v \in Nat
  BY <1>2, <1>3 DEF CharactersOf, NumberOf
<1>5. (v \div Powers(2)[w]) % 2 = bits[q + 1]
  <2> HIDE DEF w
  <2>1. (v \div Powers(2)[(w + 1) - 1]) % 2 = bits[24 * j - 24 + (w + 1)]
    BY <1>1, <1>3 DEF NumberOf
  <2> QED BY <2>1, <1>1
<1>6. b38_decode(in)[k] = (v \div Powers(256)[r]) % 256
  <2>1. b38_decode(in)[k] = DigitsOf(ValueOf(Piece(in, (k + 2) \div 3), 38), 256, 3)[((k - 1) % 3) + 1]
    <3>1. 3 * ((Len(in) + 4) \div 5) = 12
      BY <1>2
    <3> QED BY <3>1, <1>1 DEF b38_decode
  <2>2. b38_decode(in)[k] = DigitsOf(v, 256, 3)[r + 1]
    BY <2>1, <1>1, <1>4
  <2>3. ASSUME NEW i \in 0 .. 2 PROVE DigitsOf(v, 256, 3)[i + 1] = (v \div Powers(256)[i]) % 256
    <3>1. i + 1 \in 1 .. 3 /\ i + 1 - 1 = i
      OBVIOUS
    <3> DEFINE m == i + 1
    <3> HIDE DEF m
    <3>2. DigitsOf(v, 256, 3)[m] = (v \div Powers(256)[m - 1]) % 256
      BY <3>1 DEF DigitsOf, m
    <3> QED BY <3>1, <3>2 DEF m
  <2> QED BY <2>2, <2>3, <1>1
<1>7. BitAt(b38_decode(in), q) = (((v \div Powers(256)[r]) % 256) \div Powers(2)[t]) % 2
  BY <1>6 DEF BitAt, k, t
<1>8. (((v \div Powers(256)[r]) % 256) \div Powers(2)[t]) % 2 = (v \div Powers(2)[8 * r + t]) % 2
  <2>1. v \in Nat /\ r \in 0 .. 2 /\ t \in 0 .. 7
    BY <1>1, <1>4
  <2> QED BY <2>1, BitOfByte
<1> QED BY <1>5, <1>7, <1>8 DEF in

(* A number that stands in the payload is read back *)
LEMMA FieldRead ==
    ASSUME NEW bits, BitString(bits, 88), NEW o \in Nat, NEW n \in Nat, o + n <= 88,
           NEW v \in Nat, v < Powers(2)[n], At(bits, o + 1, DigitsOf(v, 2, n))
    PROVE  get_number(b38_decode(Text(bits)), o, n) = v
<1> DEFINE d == DigitsOf(v, 2, n)
           bb == b38_decode(Text(bits))
           s == [i \in 1 .. n |-> BitAt(bb, o + i - 1)]
<1>1. 2 \in Nat \ {0} /\ v \in Int
  OBVIOUS
<1>2. d = [i \in 1 .. n |-> d[i]] /\ Len(d) = n
  BY DEF DigitsOf
<1>3. ASSUME NEW i \in 1 .. n PROVE BitAt(bb, o + i - 1) = d[i]
  <2> DEFINE q == o + i - 1
  <2>1. q \in 0 .. 87 /\ q + 1 = o + 1 + i - 1
    OBVIOUS
  <2> HIDE DEF q, d
  <2>2. BitAt(bb, q) = bits[q + 1]
    BY <2>1, TextBits
  <2>3. bits[o + 1 + i - 1] = d[i]
    BY <1>2 DEF At, d
  <2> QED BY <2>1, <2>2, <2>3 DEF q
<1>4. s = d
  <2> HIDE DEF d, bb
  <2> QED BY <1>2, <1>3
<1>5. ValueOf(d, 2) = v
  <2>1. ValueOf(d, 2) = v % Powers(2)[n]
    BY <1>1, DigitsMakeNumber
  <2> DEFINE p == Powers(2)[n]
  <2>2. p \in Nat \ {0} /\ v < p
    BY <1>1, PowersFacts
  <2> HIDE DEF p
  <2>3. v % p = v
    BY <2>2, SmallRemainder
  <2> QED BY <2>1, <2>3 DEF p
<1> QED BY <1>4, <1>5 DEF get_number

LEMMA JoinedBits ==
    ASSUME NEW e, NEW f, NEW n \in Nat, NEW m \in Nat, BitString(e, n), BitString(f, m)
    PROVE  BitString(e \o f, n + m)
<1>1. e \in Seq(0 .. 1) /\ f \in Seq(0 .. 1) /\ Len(e) = n /\ Len(f) = m
  BY DEF BitString
<1>2. e \o f \in Seq(0 .. 1) /\ Len(e \o f) = Len(e) + Len(f)
  BY <1>1, ConcatLength
<1> QED BY <1>1, <1>2 DEF BitString

LEMMA SplitBits ==
    ASSUME NEW b, NEW e, NEW f, NEW n \in Nat, NEW m \in Nat, NEW l \in Nat,
           BitString(b, l), BitString(e, n), BitString(f, m), At(b, 1, e \o f)
    PROVE  At(b, 1, e) /\ At(b, n + 1, f)
<1>1. b \in Seq(Nat) /\ e \in Seq(Int) /\ f \in Seq(Int) /\ Len(e) = n
  <2>1. 0 .. 1 \subseteq Nat /\ 0 .. 1 \subseteq Int
    OBVIOUS
  <2>2. b \in Seq(0 .. 1) /\ e \in Seq(0 .. 1) /\ f \in Seq(0 .. 1) /\ Len(e) = n
    BY DEF BitString
  <2> QED BY <2>1, <2>2, SeqMonotonic
<1>2. At(b, 1, e) /\ At(b, 1 + Len(e), f)
  BY <1>1, AtSplit
<1>3. 1 + Len(e) = n + 1
  BY <1>1
<1> QED BY <1>2, <1>3

LEMMA FieldBits ==
    ASSUME NEW v \in Nat, NEW n \in Nat
    PROVE  BitString(DigitsOf(v, 2, n), n)
<1>1. 2 \in Nat \ {0} /\ v \in Int /\ 0 .. 2 - 1 = 0 .. 1
  OBVIOUS
<1>2. DigitsOf(v, 2, n) \in Seq(0 .. 2 - 1) /\ Len(DigitsOf(v, 2, n)) = n
  BY <1>1, DigitsType
<1> QED BY <1>1, <1>2 DEF BitString

(* Where the fields stand *)
LEMMA PayloadFields ==
    ASSUME NEW p \in Payloads
    PROVE  /\ BitString(PayloadBits(p), 88)
           /\ At(PayloadBits(p), 1, DigitsOf(p.version, 2, 3))
           /\ At(PayloadBits(p), 4, DigitsOf(p.vendor, 2, 16))
           /\ At(PayloadBits(p), 20, DigitsOf(p.product, 2, 16))
           /\ At(PayloadBits(p), 46, DigitsOf(p.discriminator, 2, 12))
           /\ At(PayloadBits(p), 58, DigitsOf(p.passcode, 2, 27))
<1> DEFINE f1 == DigitsOf(p.version, 2, 3)
           f2 == DigitsOf(p.vendor, 2, 16)
           f3 == DigitsOf(p.product, 2, 16)
           f4 == DigitsOf(p.flow, 2, 2)
           f5 == DigitsOf(p.discovery, 2, 8)
           f6 == DigitsOf(p.discriminator, 2, 12)
           f7 == DigitsOf(p.passcode, 2, 27)
           f8 == DigitsOf(0, 2, 4)
           g2 == f1 \o f2
           g3 == g2 \o f3
           g4 == g3 \o f4
           g5 == g4 \o f5
           g6 == g5 \o f6
           g7 == g6 \o f7
           b == g7 \o f8
<1>1. PayloadBits(p) = b
  BY DEF PayloadBits
<1>2. /\ p.version \in Nat /\ p.vendor \in Nat /\ p.product \in Nat /\ p.flow \in Nat
      /\ p.discovery \in Nat /\ p.discriminator \in Nat /\ p.passcode \in Nat
  BY PayloadAssumption DEF Fits
<1>3. /\ BitString(f1, 3) /\ BitString(f2, 16) /\ BitString(f3, 16) /\ BitString(f4, 2)
      /\ BitString(f5, 8) /\ BitString(f6, 12) /\ BitString(f7, 27) /\ BitString(f8, 4)
  BY <1>2, FieldBits
<1> HIDE DEF f1, f2, f3, f4, f5, f6, f7, f8
<1>4. BitString(g2, 19)
  <2>1. BitString(g2, 3 + 16)
    BY <1>3, JoinedBits
  <2> QED BY <2>1
<1> HIDE DEF g2
<1>5. BitString(g3, 35)
  <2>1. BitString(g3, 19 + 16)
    BY <1>3, <1>4, JoinedBits
  <2> QED BY <2>1
<1> HIDE DEF g3
<1>6. BitString(g4, 37)
  <2>1. BitString(g4, 35 + 2)
    BY <1>3, <1>5, JoinedBits
  <2> QED BY <2>1
<1> HIDE DEF g4
<1>7. BitString(g5, 45)
  <2>1. BitString(g5, 37 + 8)
    BY <1>3, <1>6, JoinedBits
  <2> QED BY <2>1
<1> HIDE DEF g5
<1>8. BitString(g6, 57)
  <2>1. BitString(g6, 45 + 12)
    BY <1>3, <1>7, JoinedBits
  <2> QED BY <2>1
<1> HIDE DEF g6
<1>9. BitString(g7, 84)
  <2>1. BitString(g7, 57 + 27)
    BY <1>3, <1>8, JoinedBits
  <2> QED BY <2>1
<1> HIDE DEF g7
<1>10. BitString(b, 88)
  <2>1. BitString(b, 84 + 4)
    BY <1>3, <1>9, JoinedBits
  <2> QED BY <2>1
<1>11. At(b, 1, g7 \o f8)
  BY <1>10 DEF At, BitString
<1> HIDE DEF b
<1>12. At(b, 1, g6 \o f7)
  <2>1. At(b, 1, g7)
    BY <1>3, <1>9, <1>10, <1>11, SplitBits
  <2> QED BY <2>1 DEF g7
<1>13. At(b, 57 + 1, f7) /\ At(b, 1, g5 \o f6)
  <2>1. At(b, 1, g6) /\ At(b, 57 + 1, f7)
    BY <1>3, <1>8, <1>10, <1>12, SplitBits
  <2> QED BY <2>1 DEF g6
<1>14. At(b, 45 + 1, f6) /\ At(b, 1, g4 \o f5)
  <2>1. At(b, 1, g5) /\ At(b, 45 + 1, f6)
    BY <1>3, <1>7, <1>10, <1>13, SplitBits
  <2> QED BY <2>1 DEF g5
<1>15. At(b, 1, g3 \o f4)
  <2>1. At(b, 1, g4)
    BY <1>3, <1>6, <1>10, <1>14, SplitBits
  <2> QED BY <2>1 DEF g4
<1>16. At(b, 1, g2 \o f3)
  <2>1. At(b, 1, g3)
    BY <1>3, <1>5, <1>10, <1>15, SplitBits
  <2> QED BY <2>1 DEF g3
<1>17. At(b, 19 + 1, f3) /\ At(b, 1, f1 \o f2)
  <2>1. At(b, 1, g2) /\ At(b, 19 + 1, f3)
    BY <1>3, <1>4, <1>10, <1>16, SplitBits
  <2> QED BY <2>1 DEF g2
<1>18. At(b, 3 + 1, f2) /\ At(b, 1, f1)
  BY <1>3, <1>10, <1>17, SplitBits
<1>19. 3 + 1 = 4 /\ 19 + 1 = 20 /\ 45 + 1 = 46 /\ 57 + 1 = 58
  OBVIOUS
<1> QED BY <1>1, <1>10, <1>13, <1>14, <1>17, <1>18, <1>19 DEF f1, f2, f3, f6, f7

(* The QR code of a payload is decoded to the payload *)
LEMMA QrDecoded ==
    ASSUME NEW p \in Payloads
    PROVE  DecodeQrText(QrText(p)) =
            [Version |-> p.version, Vendor |-> p.vendor, Product |-> p.product,
             Discriminator |-> p.discriminator, Passcode |-> p.passcode]
<1> DEFINE bits == PayloadBits(p)
           bb == b38_decode(Text(bits))
<1>1. /\ Fits(p.version, 3) /\ Fits(p.vendor, 16) /\ Fits(p.product, 16)
      /\ Fits(p.discriminator, 12) /\ Fits(p.passcode, 27)
  BY PayloadAssumption
<1>2. /\ BitString(bits, 88)
      /\ At(bits, 1, DigitsOf(p.version, 2, 3)) /\ At(bits, 4, DigitsOf(p.vendor, 2, 16))
      /\ At(bits, 20, DigitsOf(p.product, 2, 16)) /\ At(bits, 46, DigitsOf(p.discriminator, 2, 12))
      /\ At(bits, 58, DigitsOf(p.passcode, 2, 27))
  BY PayloadFields
<1>3. QrText(p) = Text(bits)
  BY DEF QrText, Text
<1> HIDE DEF bits
<1>5. get_number(bb, 0, 3) = p.version
  <2>1. At(bits, 0 + 1, DigitsOf(p.version, 2, 3)) /\ 0 + 3 <= 88
    BY <1>2
  <2>2. p.version \in Nat /\ p.version < Powers(2)[3]
    BY <1>1 DEF Fits
  <2> QED BY <1>2, <2>1, <2>2, FieldRead
<1>6. get_number(bb, 3, 16) = p.vendor
  <2>1. At(bits, 3 + 1, DigitsOf(p.vendor, 2, 16)) /\ 3 + 16 <= 88
    BY <1>2
  <2>2. p.vendor \in Nat /\ p.vendor < Powers(2)[16]
    BY <1>1 DEF Fits
  <2> QED BY <1>2, <2>1, <2>2, FieldRead
<1>7. get_number(bb, 19, 16) = p.product
  <2>1. At(bits, 19 + 1, DigitsOf(p.product, 2, 16)) /\ 19 + 16 <= 88
    BY <1>2
  <2>2. p.product \in Nat /\ p.product < Powers(2)[16]
    BY <1>1 DEF Fits
  <2> QED BY <1>2, <2>1, <2>2, FieldRead
<1>8. get_number(bb, 45, 12) = p.discriminator
  <2>1. At(bits, 45 + 1, DigitsOf(p.discriminator, 2, 12)) /\ 45 + 12 <= 88
    BY <1>2
  <2>2. p.discriminator \in Nat /\ p.discriminator < Powers(2)[12]
    BY <1>1 DEF Fits
  <2> QED BY <1>2, <2>1, <2>2, FieldRead
<1>9. get_number(bb, 57, 27) = p.passcode
  <2>1. At(bits, 57 + 1, DigitsOf(p.passcode, 2, 27)) /\ 57 + 27 <= 88
    BY <1>2
  <2>2. p.passcode \in Nat /\ p.passcode < Powers(2)[27]
    BY <1>1 DEF Fits
  <2> QED BY <1>2, <2>1, <2>2, FieldRead
<1> QED BY <1>3, <1>5, <1>6, <1>7, <1>8, <1>9 DEF DecodeQrText

LEMMA LabelInvariant == OnboardingSpec => [](label \subseteq Payloads)
<1>1. label = {} => label \subseteq Payloads
  OBVIOUS
<1>2. label \subseteq Payloads /\ [ReadLabel]_label => (label \subseteq Payloads)'
  BY DEF ReadLabel
<1> QED BY <1>1, <1>2, PTL DEF OnboardingSpec

(* Whatever a label says: the QR code is read back, at every limit and     *)
(* across every byte and character boundary.                               *)
THEOREM QrTheorem == OnboardingSpec => []QrRoundTrip
<1>1. label \subseteq Payloads => QrRoundTrip
  BY QrDecoded DEF QrRoundTrip
<1> QED BY <1>1, LabelInvariant, PTL

-----------------------------------------------------------------------------
(* The manual code *)

DigitString(s, n) == s \in Seq(0 .. 9) /\ Len(s) = n

LEMMA DigitElement ==
    ASSUME NEW s, NEW n, DigitString(s, n), NEW i \in 1 .. n
    PROVE  s[i] \in 0 .. 9
<1>1. s \in Seq(0 .. 9) /\ i \in 1 .. Len(s)
  BY DEF DigitString
<1> QED BY <1>1, ElementOfSeq

LEMMA DecimalDigits ==
    ASSUME NEW v \in Nat, NEW n \in Nat
    PROVE  DigitString(Decimal(v, n), n) /\ Reverse(Decimal(v, n)) = DigitsOf(v, 10, n)
<1> DEFINE d == DigitsOf(v, 10, n)
           r == Reverse(d)
<1>1. 10 \in Nat \ {0} /\ v \in Int /\ 0 .. 10 - 1 = 0 .. 9
  OBVIOUS
<1>2. d \in Seq(0 .. 10 - 1) /\ Len(d) = n
  BY <1>1, DigitsType
<1>3. d \in Seq(0 .. 9)
  BY <1>1, <1>2
<1> HIDE DEF d
<1>4. r = [i \in 1 .. n |-> d[(n - i) + 1]]
  BY <1>2 DEF Reverse
<1>5. \A i \in 1 .. n : d[i] \in 0 .. 9
  BY <1>2, <1>3
<1>6. r \in Seq(0 .. 9) /\ Len(r) = n
  <2>1. \A i \in 1 .. n : (n - i) + 1 \in 1 .. n
    OBVIOUS
  <2>2. \A i \in 1 .. n : d[(n - i) + 1] \in 0 .. 9
    BY <1>5, <2>1
  <2> QED BY <1>4, <2>2
<1>7. Reverse(r) = d
  <2>1. Reverse(r) = [i \in 1 .. n |-> r[(n - i) + 1]]
    BY <1>6 DEF Reverse
  <2>2. ASSUME NEW i \in 1 .. n PROVE r[(n - i) + 1] = d[i]
    <3>1. (n - i) + 1 \in 1 .. n /\ (n - ((n - i) + 1)) + 1 = i
      OBVIOUS
    <3> HIDE DEF r
    <3> QED BY <3>1, <1>4
  <2>3. d = [i \in 1 .. n |-> d[i]]
    BY <1>2, <1>3
  <2> HIDE DEF r
  <2> QED BY <2>1, <2>2, <2>3
<1>8. DigitString(r, n)
  BY <1>6 DEF DigitString
<1> QED BY <1>7, <1>8 DEF Decimal, d

(* strconv.Atoi reads a group of digits as it was printed *)
LEMMA GroupRead ==
    ASSUME NEW s, NEW l \in Nat, DigitString(s, l), NEW first \in Nat \ {0}, NEW n \in Nat, NEW v \in Nat,
           v < Powers(10)[n], At(s, first, Decimal(v, n))
    PROVE  Group(s, first, first + n - 1) = v
<1> DEFINE d == Decimal(v, n)
<1>1. DigitString(d, n) /\ Reverse(d) = DigitsOf(v, 10, n)
  BY DecimalDigits
<1> HIDE DEF d
<1>2. s \in Seq(Nat) /\ d \in Seq(Int) /\ Len(d) = n
  <2>1. 0 .. 9 \subseteq Nat /\ 0 .. 9 \subseteq Int
    OBVIOUS
  <2>2. s \in Seq(0 .. 9) /\ d \in Seq(0 .. 9) /\ Len(d) = n
    BY <1>1 DEF DigitString
  <2> QED BY <2>1, <2>2, SeqMonotonic
<1>3. SubSeq(s, first, first + n - 1) = d
  <2>1. At(s, first, d)
    BY DEF d
  <2>2. Bytes(s, first, Len(d)) = d
    BY <1>2, <2>1, AtIsBytes
  <2> QED BY <1>2, <2>2 DEF Bytes
<1>4. 10 \in Nat \ {0} /\ v \in Int
  OBVIOUS
<1>5. ValueOf(DigitsOf(v, 10, n), 10) = v % Powers(10)[n]
  BY <1>4, DigitsMakeNumber
<1> DEFINE p == Powers(10)[n]
<1>6. p \in Nat \ {0} /\ v < p
  BY <1>4, PowersFacts
<1> HIDE DEF p
<1>7. v % p = v
  BY <1>6, SmallRemainder
<1> QED BY <1>1, <1>3, <1>5, <1>7 DEF Group, p

(* What is left of a code without its dashes, from position i on *)
LEMMA NormalizedIs ==
    ASSUME NEW in \in Seq(Int), NEW w,
           w = [i \in 1 .. Len(in) + 1 |->
                  IF i > Len(in) THEN <<>>
                  ELSE (IF in[i] = Dash THEN <<>> ELSE <<in[i]>>) \o w[i + 1]]
    PROVE  Normalized(in) = w[1]
<1> DEFINE n == Len(in)
           H(i) == IF in[i] = Dash THEN <<>> ELSE <<in[i]>>
           Eq(f) == f = [i \in 1 .. n + 1 |-> IF i > n THEN <<>> ELSE H(i) \o f[i + 1]]
<1>1. n \in Nat
  OBVIOUS
<1>w. Eq(w)
  OBVIOUS
<1>2. Normalized(in) = (CHOOSE f : Eq(f))[1]
  BY Zenon DEF Normalized
<1> HIDE DEF n, H
<1>3. ASSUME NEW f, Eq(f)
      PROVE  f[n + 1] = <<>> /\ \A i \in 1 .. n : f[i] = H(i) \o f[i + 1]
  <2>1. f[n + 1] = <<>>
    BY <1>1, <1>3
  <2>2. ASSUME NEW i \in 1 .. n PROVE f[i] = H(i) \o f[i + 1]
    <3>1. i \in 1 .. n + 1 /\ ~(i > n)
      BY <1>1
    <3> QED BY <3>1, <1>3
  <2> QED BY <2>1, <2>2
<1> HIDE DEF Eq
<1>4. ASSUME NEW f, Eq(f) PROVE f[1] = w[1]
  <2> DEFINE Same(k) == k <= n => f[n + 1 - k] = w[n + 1 - k]
             T == {k \in Nat : Same(k)}
  <2>a. f[n + 1] = w[n + 1]
    BY <1>w, <1>3, <1>4
  <2>b. \A i \in 1 .. n : f[i] = H(i) \o f[i + 1] /\ w[i] = H(i) \o w[i + 1]
    BY <1>w, <1>3, <1>4
  <2>1. 0 \in T
    <3>1. n + 1 - 0 = n + 1
      BY <1>1
    <3> QED BY <2>a, <3>1
  <2>2. ASSUME NEW k \in T PROVE k + 1 \in T
    <3>1. k \in Nat /\ Same(k)
      OBVIOUS
    <3>2. ASSUME k + 1 <= n PROVE f[n + 1 - (k + 1)] = w[n + 1 - (k + 1)]
      <4> DEFINE i == n + 1 - (k + 1)
      <4>1. i \in 1 .. n /\ i + 1 = n + 1 - k /\ k <= n
        BY <1>1, <3>1, <3>2
      <4> HIDE DEF i
      <4>2. f[i + 1] = w[i + 1]
        BY <3>1, <4>1
      <4>3. f[i] = w[i]
        BY <2>b, <4>1, <4>2
      <4> QED BY <4>3 DEF i
    <3> QED BY <3>1, <3>2
  <2>3. T = Nat
    <3>1. T \subseteq Nat
      OBVIOUS
    <3> HIDE DEF T
    <3> QED BY <2>1, <2>2, <3>1, Induction
  <2>4. Same(n)
    BY <1>1, <2>3
  <2>5. n <= n /\ n + 1 - n = 1
    BY <1>1
  <2> QED BY <2>4, <2>5
<1> QED BY <1>w, <1>2, <1>4

LEMMA ConcatOfInts ==
    ASSUME NEW e \in Seq(Int), NEW f \in Seq(Int)
    PROVE  /\ \A i \in 1 .. Len(e) : (e \o f)[i] = e[i]
           /\ \A i \in Len(e) + 1 .. Len(e) + Len(f) : (e \o f)[i] = f[i - Len(e)]
BY ConcatElement

LEMMA TailOf ==
    ASSUME NEW s, NEW n \in Nat, DigitString(s, n), NEW k \in 1 .. n
    PROVE  <<s[k]>> \o SubSeq(s, k + 1, n) = SubSeq(s, k, n)
<1>1. \A i \in 1 .. n : s[i] \in Int
  <2>1. \A i \in 1 .. n : s[i] \in 0 .. 9
    BY DigitElement
  <2> QED BY <2>1
<1> DEFINE x == SubSeq(s, k, n)
           y == SubSeq(s, k + 1, n)
           h == <<s[k]>>
           m == n - k
<1>2. m \in Nat /\ \A i \in k .. n : s[i] \in Int
  BY <1>1
<1>3. x \in Seq(Int) /\ Len(x) = m + 1 /\ \A i \in 1 .. m + 1 : x[i] = s[k + i - 1]
  <2>1. k \in Int /\ n \in Int
    OBVIOUS
  <2>2. /\ x \in Seq(Int) /\ Len(x) = IF k <= n THEN n - k + 1 ELSE 0
        /\ \A i \in 1 .. n - k + 1 : x[i] = s[k + i - 1]
    BY <1>2, <2>1, SubSeqProperties
  <2> QED BY <2>2
<1>4. y \in Seq(Int) /\ Len(y) = m /\ \A i \in 1 .. m : y[i] = s[k + i]
  <2>1. k + 1 \in Int /\ n \in Int /\ \A i \in k + 1 .. n : s[i] \in Int
    BY <1>1
  <2> DEFINE l == k + 1
  <2>2. /\ y \in Seq(Int) /\ Len(y) = IF l <= n THEN n - l + 1 ELSE 0
        /\ \A i \in 1 .. n - l + 1 : y[i] = s[l + i - 1]
    <3> HIDE DEF l
    <3> QED BY <2>1, SubSeqProperties DEF l
  <2>3. n - l + 1 = m /\ \A i \in 1 .. m : l + i - 1 = k + i
    OBVIOUS
  <2>4. (IF l <= n THEN n - l + 1 ELSE 0) = m
    OBVIOUS
  <2> HIDE DEF y, m, l
  <2> QED BY <2>2, <2>3, <2>4
<1>5. h \in Seq(Int) /\ Len(h) = 1 /\ h[1] = s[k]
  BY <1>1
<1> DEFINE z == h \o y
<1> HIDE DEF x, y, h
<1>6. /\ z \in Seq(Int) /\ Len(z) = 1 + m
      /\ \A i \in 1 .. 1 : z[i] = h[i]
      /\ \A i \in 1 + 1 .. 1 + m : z[i] = y[i - 1]
  <2>1. z \in Seq(Int) /\ Len(z) = Len(h) + Len(y)
    BY <1>4, <1>5, ConcatLength
  <2>2. /\ \A i \in 1 .. Len(h) : z[i] = h[i]
        /\ \A i \in Len(h) + 1 .. Len(h) + Len(y) : z[i] = y[i - Len(h)]
    BY <1>4, <1>5, ConcatOfInts
  <2> HIDE DEF z, m
  <2> QED BY <2>1, <2>2, <1>4, <1>5
<1> HIDE DEF z, m
<1>7. ASSUME NEW i \in 1 .. m + 1 PROVE z[i] = x[i]
  <2>1. CASE i = 1
    <3>1. z[1] = s[k] /\ x[1] = s[k + 1 - 1] /\ k + 1 - 1 = k
      BY <1>2, <1>3, <1>5, <1>6
    <3> QED BY <2>1, <3>1
  <2>2. CASE i # 1
    <3>1. i - 1 \in 1 .. m /\ i \in 1 + 1 .. 1 + m /\ k + (i - 1) = k + i - 1
      BY <1>2, <2>2
    <3> QED BY <3>1, <1>3, <1>4, <1>6
  <2> QED BY <2>1, <2>2
<1>8. z = [i \in 1 .. m + 1 |-> z[i]] /\ x = [i \in 1 .. m + 1 |-> x[i]]
  BY <1>2, <1>3, <1>6
<1>9. z = x
  BY <1>7, <1>8
<1> QED BY <1>9 DEF z, x, y, h

IntString(s, n) == s \in Seq(Int) /\ Len(s) = n

(* z is l long, n of it are e's and the rest f's *)
Joins(z, e, n, f, l) ==
    IntString(z, l) /\ (\A i \in 1 .. n : z[i] = e[i]) /\ \A i \in n + 1 .. l : z[i] = f[i - n]

LEMMA JoinedInts ==
    ASSUME NEW e, NEW f, NEW n \in Nat, NEW m \in Nat, IntString(e, n), IntString(f, m)
    PROVE  Joins(e \o f, e, n, f, n + m)
<1>1. e \in Seq(Int) /\ f \in Seq(Int) /\ Len(e) = n /\ Len(f) = m
  BY DEF IntString
<1>2. e \o f \in Seq(Int) /\ Len(e \o f) = Len(e) + Len(f)
  BY <1>1, ConcatLength
<1>3. /\ \A i \in 1 .. Len(e) : (e \o f)[i] = e[i]
      /\ \A i \in Len(e) + 1 .. Len(e) + Len(f) : (e \o f)[i] = f[i - Len(e)]
  BY <1>1, ConcatOfInts
<1> DEFINE z == e \o f
<1> HIDE DEF z
<1> QED BY <1>1, <1>2, <1>3 DEF IntString, Joins, z

LEMMA PartOf ==
    ASSUME NEW s, NEW n \in Nat, DigitString(s, n), NEW a \in 1 .. n, NEW b \in a .. n
    PROVE  IntString(SubSeq(s, a, b), b - a + 1) /\ \A i \in 1 .. b - a + 1 : SubSeq(s, a, b)[i] = s[a + i - 1]
<1>1. a \in Int /\ b \in Int /\ \A i \in a .. b : s[i] \in Int
  <2>1. \A i \in 1 .. n : s[i] \in 0 .. 9
    BY DigitElement
  <2> QED BY <2>1
<1>2. /\ SubSeq(s, a, b) \in Seq(Int) /\ Len(SubSeq(s, a, b)) = IF a <= b THEN b - a + 1 ELSE 0
      /\ \A i \in 1 .. b - a + 1 : SubSeq(s, a, b)[i] = s[a + i - 1]
  BY <1>1, SubSeqProperties
<1>3. a <= b
  OBVIOUS
<1> DEFINE t == SubSeq(s, a, b)
<1> HIDE DEF t
<1> QED BY <1>2, <1>3 DEF IntString, t

(* n digits as a manual code *)
Dashed(s, n) == SubSeq(s, 1, 4) \o <<Dash>> \o SubSeq(s, 5, 7) \o <<Dash>> \o SubSeq(s, 8, n)

(* Where the digits and the dashes of a code stand *)
LEMMA CodeElements ==
    ASSUME NEW s, NEW n \in Nat, n > 8, DigitString(s, n)
    PROVE  /\ IntString(Dashed(s, n), n + 2)
           /\ \A i \in 1 .. n + 2 :
                Dashed(s, n)[i] = IF i = 5 \/ i = 9 THEN Dash
                        ELSE s[IF i < 5 THEN i ELSE IF i < 9 THEN i - 1 ELSE i - 2]
<1> DEFINE x1 == SubSeq(s, 1, 4)
           x2 == SubSeq(s, 5, 7)
           x3 == SubSeq(s, 8, n)
           d == <<Dash>>
           y2 == x1 \o d
           y3 == y2 \o x2
           y4 == y3 \o d
           y5 == y4 \o x3
           m == n - 7
<1>0. Dashed(s, n) = y5
  BY DEF Dashed
<1>m. m \in Nat /\ n = m + 7
  OBVIOUS
<1>1. IntString(x1, 4) /\ \A i \in 1 .. 4 : x1[i] = s[i]
  <2>1. 1 \in 1 .. n /\ 4 \in 1 .. n
    OBVIOUS
  <2>2. IntString(x1, 4 - 1 + 1) /\ \A i \in 1 .. 4 - 1 + 1 : x1[i] = s[1 + i - 1]
    BY <2>1, PartOf
  <2> HIDE DEF x1
  <2> QED BY <2>2
<1>2. IntString(x2, 3) /\ \A i \in 1 .. 3 : x2[i] = s[i + 4]
  <2>1. 5 \in 1 .. n /\ 7 \in 5 .. n
    OBVIOUS
  <2>2. IntString(x2, 7 - 5 + 1) /\ \A i \in 1 .. 7 - 5 + 1 : x2[i] = s[5 + i - 1]
    BY <2>1, PartOf
  <2> HIDE DEF x2
  <2> QED BY <2>2
<1>3. IntString(x3, m) /\ \A i \in 1 .. m : x3[i] = s[i + 7]
  <2>1. 8 \in 1 .. n /\ n \in 8 .. n
    OBVIOUS
  <2>2. IntString(x3, n - 8 + 1) /\ \A i \in 1 .. n - 8 + 1 : x3[i] = s[8 + i - 1]
    BY <2>1, PartOf
  <2>3. n - 8 + 1 = m
    OBVIOUS
  <2> HIDE DEF x3, m
  <2>4. ASSUME NEW i \in 1 .. m PROVE x3[i] = s[i + 7]
    <3>1. 8 + i - 1 = i + 7
      OBVIOUS
    <3> QED BY <2>2, <2>3, <3>1
  <2> QED BY <2>2, <2>3, <2>4
<1>4. IntString(d, 1) /\ d[1] = Dash
  BY DEF IntString, Dash
<1> HIDE DEF x1, x2, x3, d, m
<1>5. IntString(y2, 5) /\ (\A i \in 1 .. 4 : y2[i] = x1[i]) /\ y2[5] = Dash
  <2>1. Joins(y2, x1, 4, d, 4 + 1)
    BY <1>1, <1>4, JoinedInts
  <2> HIDE DEF y2
  <2> QED BY <2>1, <1>4 DEF Joins
<1> HIDE DEF y2
<1>6. IntString(y3, 8) /\ (\A i \in 1 .. 5 : y3[i] = y2[i]) /\ \A i \in 6 .. 8 : y3[i] = x2[i - 5]
  <2>1. Joins(y3, y2, 5, x2, 5 + 3)
    BY <1>2, <1>5, JoinedInts
  <2> HIDE DEF y3
  <2> QED BY <2>1 DEF Joins
<1> HIDE DEF y3
<1>7. IntString(y4, 9) /\ (\A i \in 1 .. 8 : y4[i] = y3[i]) /\ y4[9] = Dash
  <2>1. Joins(y4, y3, 8, d, 8 + 1)
    BY <1>4, <1>6, JoinedInts
  <2> HIDE DEF y4
  <2> QED BY <2>1, <1>4 DEF Joins
<1> HIDE DEF y4
<1>8. IntString(y5, n + 2) /\ (\A i \in 1 .. 9 : y5[i] = y4[i]) /\ \A i \in 10 .. n + 2 : y5[i] = x3[i - 9]
  <2>1. Joins(y5, y4, 9, x3, 9 + m)
    BY <1>3, <1>7, <1>m, JoinedInts
  <2>2. 9 + m = n + 2 /\ 9 + 1 = 10
    BY <1>m
  <2> HIDE DEF y5
  <2> QED BY <2>1, <2>2 DEF Joins
<1> HIDE DEF y5
<1>9. ASSUME NEW i \in 1 .. n + 2
      PROVE  y5[i] = IF i = 5 \/ i = 9 THEN Dash
                     ELSE s[IF i < 5 THEN i ELSE IF i < 9 THEN i - 1 ELSE i - 2]
  <2>1. CASE i \in 1 .. 4
    <3>1. y5[i] = y4[i] /\ y4[i] = y3[i] /\ y3[i] = y2[i] /\ y2[i] = x1[i] /\ x1[i] = s[i]
      BY <2>1, <1>1, <1>5, <1>6, <1>7, <1>8
    <3> QED BY <2>1, <3>1
  <2>2. CASE i = 5
    <3>1. y5[5] = y4[5] /\ y4[5] = y3[5] /\ y3[5] = y2[5] /\ y2[5] = Dash
      BY <1>5, <1>6, <1>7, <1>8
    <3> QED BY <2>2, <3>1
  <2>3. CASE i \in 6 .. 8
    <3>1. y5[i] = y4[i] /\ y4[i] = y3[i] /\ y3[i] = x2[i - 5]
      BY <2>3, <1>6, <1>7, <1>8
    <3>2. i - 5 \in 1 .. 3 /\ (i - 5) + 4 = i - 1
      BY <2>3
    <3>3. x2[i - 5] = s[(i - 5) + 4]
      BY <1>2, <3>2
    <3> QED BY <2>3, <3>1, <3>2, <3>3
  <2>4. CASE i = 9
    <3>1. y5[9] = y4[9] /\ y4[9] = Dash
      BY <1>7, <1>8
    <3> QED BY <2>4, <3>1
  <2>5. CASE i \in 10 .. n + 2
    <3>1. y5[i] = x3[i - 9]
      BY <2>5, <1>8
    <3>2. i - 9 \in 1 .. m /\ (i - 9) + 7 = i - 2
      BY <2>5, <1>m
    <3>3. x3[i - 9] = s[(i - 9) + 7]
      BY <1>3, <3>2
    <3> QED BY <2>5, <3>1, <3>2, <3>3
  <2> QED BY <2>1, <2>2, <2>3, <2>4, <2>5
<1> QED BY <1>0, <1>8, <1>9

(* The dashes of a manual code are dropped, and nothing else *)
LEMMA CodeNormalized ==
    ASSUME NEW s, NEW n \in Nat, n > 8, DigitString(s, n)
    PROVE  Normalized(Dashed(s, n)) = s
<1> DEFINE in == Dashed(s, n)
           g(i) == IF i <= 5 THEN i ELSE IF i <= 9 THEN i - 1 ELSE i - 2
           w == [i \in 1 .. n + 3 |-> SubSeq(s, g(i), n)]
           h(i) == IF in[i] = Dash THEN <<>> ELSE <<in[i]>>
<1>1. /\ IntString(in, n + 2)
      /\ \A i \in 1 .. n + 2 :
           in[i] = IF i = 5 \/ i = 9 THEN Dash
                   ELSE s[IF i < 5 THEN i ELSE IF i < 9 THEN i - 1 ELSE i - 2]
  BY CodeElements
<1> HIDE DEF in
<1>2. in \in Seq(Int) /\ Len(in) = n + 2
  BY <1>1 DEF IntString
<1>3. w[n + 3] = <<>>
  <2>1. g(n + 3) = n + 1 /\ n + 3 \in 1 .. n + 3
    OBVIOUS
  <2>2. n + 1 \in Int /\ n \in Int /\ n < n + 1
    OBVIOUS
  <2>3. SubSeq(s, n + 1, n) = <<>>
    BY <2>2, SubSeqEmpty
  <2> HIDE DEF g
  <2> QED BY <2>1, <2>3
<1>4. ASSUME NEW i \in 1 .. n + 2 PROVE w[i] = h(i) \o w[i + 1]
  <2>1. w[i] = SubSeq(s, g(i), n) /\ w[i + 1] = SubSeq(s, g(i + 1), n)
    OBVIOUS
  <2>2. CASE i = 5 \/ i = 9
    <3>1. g(i + 1) = g(i)
      BY <2>2
    <3>2. in[i] = Dash
      BY <1>1, <2>2
    <3>3. h(i) = <<>>
      BY <3>2
    <3>4. w[i] \in Seq(Int)
      <4>1. g(i) \in Int /\ n \in Int /\ \A k \in g(i) .. n : k \in 1 .. n
        BY <2>2
      <4>2. \A k \in g(i) .. n : s[k] \in Int
        <5>1. \A k \in 1 .. n : s[k] \in 0 .. 9
          BY DigitElement
        <5> HIDE DEF g
        <5> QED BY <4>1, <5>1
      <4> HIDE DEF g
      <4>3. SubSeq(s, g(i), n) \in Seq(Int)
        BY <4>1, <4>2, SubSeqProperties
      <4> QED BY <4>3, <2>1
    <3> HIDE DEF w, h, g
    <3>5. <<>> \o w[i] = w[i]
      BY <3>4, ConcatEmptySeq
    <3> QED BY <2>1, <3>1, <3>3, <3>5
  <2>3. CASE ~(i = 5 \/ i = 9)
    <3> DEFINE k == g(i)
    <3>1. k \in 1 .. n /\ g(i + 1) = k + 1 /\ k = IF i < 5 THEN i ELSE IF i < 9 THEN i - 1 ELSE i - 2
      BY <2>3
    <3>2. in[i] = s[k]
      <4> HIDE DEF k
      <4> QED BY <1>1, <2>3, <3>1
    <3> HIDE DEF k, g, w
    <3>3. s[k] \in 0 .. 9
      BY <3>1, ElementOfSeq DEF DigitString
    <3>4. h(i) = <<s[k]>>
      <4>1. s[k] # Dash
        BY <3>3 DEF Dash
      <4> QED BY <3>2, <4>1
    <3>5. <<s[k]>> \o SubSeq(s, k + 1, n) = SubSeq(s, k, n)
      BY <3>1, TailOf
    <3> HIDE DEF h
    <3> QED BY <2>1, <3>1, <3>4, <3>5 DEF k
  <2> QED BY <2>2, <2>3
<1>5. w = [i \in 1 .. Len(in) + 1 |->
             IF i > Len(in) THEN <<>> ELSE (IF in[i] = Dash THEN <<>> ELSE <<in[i]>>) \o w[i + 1]]
  <2>1. ASSUME NEW i \in 1 .. n + 3
        PROVE  w[i] = IF i > n + 2 THEN <<>> ELSE h(i) \o w[i + 1]
    <3>1. CASE i > n + 2
      <4>1. i = n + 3
        BY <3>1
      <4> HIDE DEF w, h
      <4> QED BY <4>1, <3>1, <1>3
    <3>2. CASE ~(i > n + 2)
      <4>1. i \in 1 .. n + 2
        BY <3>2
      <4> HIDE DEF w, h
      <4> QED BY <4>1, <3>2, <1>4
    <3> QED BY <3>1, <3>2
  <2>2. w = [i \in 1 .. n + 3 |-> w[i]]
    OBVIOUS
  <2> HIDE DEF w
  <2>3. w = [i \in 1 .. n + 3 |-> IF i > n + 2 THEN <<>> ELSE h(i) \o w[i + 1]]
    BY <2>1, <2>2
  <2>4. Len(in) + 1 = n + 3
    BY <1>2
  <2> QED BY <2>3, <2>4, <1>2
<1>6. w[1] = s
  <2>1. w[1] = SubSeq(s, 1, n)
    OBVIOUS
  <2> DEFINE t == SubSeq(s, 1, n)
  <2>2. 1 \in 1 .. n /\ n \in 1 .. n
    OBVIOUS
  <2>3. IntString(t, n - 1 + 1) /\ \A i \in 1 .. n - 1 + 1 : t[i] = s[1 + i - 1]
    BY <2>2, PartOf
  <2> HIDE DEF t
  <2>4. n - 1 + 1 = n /\ \A i \in 1 .. n : 1 + i - 1 = i
    OBVIOUS
  <2>5. t \in Seq(Int) /\ Len(t) = n /\ \A i \in 1 .. n : t[i] = s[i]
    BY <2>3, <2>4 DEF IntString
  <2>6. s \in Seq(Int) /\ Len(s) = n
    <3>1. 0 .. 9 \subseteq Int
      OBVIOUS
    <3> QED BY <3>1, SeqMonotonic DEF DigitString
  <2>7. t = s
    BY <2>5, <2>6, SeqEqual
  <2> QED BY <2>1, <2>7 DEF t
<1> HIDE DEF w
<1>7. Normalized(in) = w[1]
  BY <1>2, <1>5, NormalizedIs
<1> QED BY <1>6, <1>7 DEF in

LEMMA JoinedDigits ==
    ASSUME NEW e, NEW f, NEW n \in Nat, NEW m \in Nat, DigitString(e, n), DigitString(f, m)
    PROVE  DigitString(e \o f, n + m)
<1>1. e \in Seq(0 .. 9) /\ f \in Seq(0 .. 9) /\ Len(e) = n /\ Len(f) = m
  BY DEF DigitString
<1>2. e \o f \in Seq(0 .. 9) /\ Len(e \o f) = Len(e) + Len(f)
  BY <1>1, ConcatLength
<1> QED BY <1>1, <1>2 DEF DigitString

LEMMA SplitDigits ==
    ASSUME NEW b, NEW e, NEW f, NEW n \in Nat, NEW m \in Nat, NEW l \in Nat,
           DigitString(b, l), DigitString(e, n), DigitString(f, m), At(b, 1, e \o f)
    PROVE  At(b, 1, e) /\ At(b, n + 1, f)
<1>1. b \in Seq(Nat) /\ e \in Seq(Int) /\ f \in Seq(Int) /\ Len(e) = n
  <2>1. 0 .. 9 \subseteq Nat /\ 0 .. 9 \subseteq Int
    OBVIOUS
  <2>2. b \in Seq(0 .. 9) /\ e \in Seq(0 .. 9) /\ f \in Seq(0 .. 9) /\ Len(e) = n
    BY DEF DigitString
  <2> QED BY <2>1, <2>2, SeqMonotonic
<1>2. At(b, 1, e) /\ At(b, 1 + Len(e), f)
  BY <1>1, AtSplit
<1>3. 1 + Len(e) = n + 1
  BY <1>1
<1> QED BY <1>2, <1>3

(* The three groups the decoder takes from a code of either length *)
First(p, long) == (p.discriminator \div 256) \div 4 + (IF long THEN 4 ELSE 0)
Second(p) == ((p.discriminator \div 256) % 4) * 16384 + (p.passcode % 16384)
Third(p) == p.passcode \div 16384
Extra(p, long) == IF long THEN Decimal(p.vendor, 5) \o Decimal(p.product, 5) ELSE <<>>
Long(long) == IF long THEN 21 ELSE 11

LEMMA FirstGroup ==
    ASSUME NEW u \in 0 .. 3, NEW long \in BOOLEAN
    PROVE  u + (IF long THEN 4 ELSE 0) \in 0 .. 9 /\ (u + (IF long THEN 4 ELSE 0)) % 4 = u
<1>1. u + 4 \in 0 .. 9 /\ u + 0 \in 0 .. 9 /\ (u + 4) % 4 = u /\ (u + 0) % 4 = u
  BY SMT
<1> QED BY <1>1, SMT

LEMMA SecondGroup ==
    ASSUME NEW w \in 0 .. 3, NEW t \in Nat, t < 16384
    PROVE  /\ w * 16384 + t \in Nat /\ w * 16384 + t < 100000 /\ (w * 16384 + t) % 16384 = t
           /\ ((w * 16384 + t) \div 16384) % 4 = w
<1>1. w = 0 \/ w = 1 \/ w = 2 \/ w = 3
  BY SMT
<1>2. CASE w = 0
  BY <1>2, SMT
<1>3. CASE w = 1
  BY <1>3, SMT
<1>4. CASE w = 2
  BY <1>4, SMT
<1>5. CASE w = 3
  BY <1>5, SMT
<1> QED BY <1>1, <1>2, <1>3, <1>4, <1>5, SMT

LEMMA GroupArithmetic ==
    ASSUME NEW d \in Nat, d < 4096, NEW c \in Nat, c < 134217728
    PROVE  LET q == d \div 256 IN
           /\ q \div 4 \in 0 .. 3 /\ q % 4 \in 0 .. 3
           /\ c % 16384 \in Nat /\ c % 16384 < 16384 /\ c \div 16384 \in Nat /\ c \div 16384 < 10000
           /\ (c % 16384) + (c \div 16384) * 16384 = c
           /\ (q \div 4) * 1024 + (q % 4) * 256 = d - (d % 256)
<1> DEFINE q == d \div 256
<1>1. q \in 0 .. 15 /\ d - (d % 256) = 256 * q
  BY SMT
<1>2. c % 16384 \in Nat /\ c % 16384 < 16384 /\ c \div 16384 \in Nat /\ c \div 16384 < 10000 /\ (c % 16384) + (c \div 16384) * 16384 = c
  BY SMT
<1> HIDE DEF q
<1>3. q \div 4 \in 0 .. 3 /\ q % 4 \in 0 .. 3 /\ 4 * (q \div 4) + (q % 4) = q
  BY <1>1, SMT
<1>4. (q \div 4) * 1024 + (q % 4) * 256 = 256 * q
  BY <1>1, <1>3, SMT
<1> QED BY <1>1, <1>2, <1>3, <1>4, SMT DEF q

LEMMA GroupBounds ==
    ASSUME NEW p \in Payloads, NEW long \in BOOLEAN
    PROVE  /\ First(p, long) \in Nat /\ First(p, long) < 10
           /\ Second(p) \in Nat /\ Second(p) < 100000
           /\ Third(p) \in Nat /\ Third(p) < 10000
           /\ ManualContent(First(p, long), Second(p), Third(p)) =
                [Passcode |-> p.passcode, Discriminator4 |-> p.discriminator - (p.discriminator % 256)]
<1> DEFINE d == p.discriminator
           c == p.passcode
           u == (d \div 256) \div 4
           w == (d \div 256) % 4
           t == c % 16384
           x == First(p, long)
           y == Second(p)
           z == Third(p)
<1>1. d \in Nat /\ d < 4096 /\ c \in Nat /\ c < 134217728
  <2>1. Fits(d, 12) /\ Fits(c, 27)
    BY PayloadAssumption
  <2>2. Powers(2)[12] = 4096 /\ Powers(2)[27] = 134217728
    BY PowersOfTwo
  <2> QED BY <2>1, <2>2, SMT DEF Fits
<1>2. x = u + (IF long THEN 4 ELSE 0) /\ y = w * 16384 + t /\ z = c \div 16384
  BY DEF First, Second, Third
<1> HIDE DEF d, c
<1>3. /\ u \in 0 .. 3 /\ w \in 0 .. 3 /\ t \in Nat /\ t < 16384
      /\ c \div 16384 \in Nat /\ c \div 16384 < 10000
      /\ t + (c \div 16384) * 16384 = c /\ u * 1024 + w * 256 = d - (d % 256)
  BY <1>1, GroupArithmetic, SMT
<1> HIDE DEF u, w, t, x, y, z
<1>4. x \in 0 .. 9 /\ x % 4 = u
  BY <1>2, <1>3, FirstGroup, SMT
<1>5. y \in Nat /\ y < 100000 /\ y % 16384 = t /\ (y \div 16384) % 4 = w
  BY <1>2, <1>3, SecondGroup, SMT
<1>6. z \in Nat /\ z < 10000 /\ t + z * 16384 = c
  BY <1>2, <1>3, SMT
<1>7. (y % 16384) + z * 16384 = c
  BY <1>5, <1>6, SMT
<1>8. (x % 4) * 1024 + ((y \div 16384) % 4) * 256 = d - (d % 256)
  <2> DEFINE i == x % 4
             j == (y \div 16384) % 4
             k == d - (d % 256)
  <2>1. i = u /\ j = w /\ u * 1024 + w * 256 = k
    BY <1>3, <1>4, <1>5, SMT
  <2> HIDE DEF i, j, k
  <2>2. i * 1024 + j * 256 = k
    BY <2>1, SMT
  <2> QED BY <2>2, SMT DEF i, j, k
<1>9. ManualContent(x, y, z) = [Passcode |-> c, Discriminator4 |-> d - (d % 256)]
  BY <1>7, <1>8, SMT DEF ManualContent
<1>10. x \in Nat /\ x < 10
  BY <1>4, SMT
<1> QED BY <1>5, <1>6, <1>9, <1>10, SMT DEF d, c, x, y, z

(* The digits on the label, and the groups among them *)
LEMMA ManualGroups ==
    ASSUME NEW p \in Payloads, NEW long \in BOOLEAN, NEW check \in 0 .. 9
    PROVE  /\ DigitString(ManualDigits(p, long, check), Long(long))
           /\ At(ManualDigits(p, long, check), 1, Decimal(First(p, long), 1))
           /\ At(ManualDigits(p, long, check), 2, Decimal(Second(p), 5))
           /\ At(ManualDigits(p, long, check), 7, Decimal(Third(p), 4))
<1> DEFINE a == Decimal(First(p, long), 1)
           b == Decimal(Second(p), 5)
           c == Decimal(Third(p), 4)
           e == Extra(p, long)
           k == <<check>>
           x == Decimal(p.vendor, 5)
           y == Decimal(p.product, 5)
           g2 == a \o b
           g3 == g2 \o c
           g4 == g3 \o e
           s == g4 \o k
           m == IF long THEN 10 ELSE 0
           n == Long(long)
<1>1. ManualDigits(p, long, check) = s
  BY DEF ManualDigits, First, Second, Third, Extra
<1>2. DigitString(a, 1) /\ DigitString(b, 5) /\ DigitString(c, 4)
  <2>1. First(p, long) \in Nat /\ Second(p) \in Nat /\ Third(p) \in Nat
    BY GroupBounds
  <2> QED BY <2>1, DecimalDigits
<1>3. DigitString(e, m)
  <2>1. CASE long
    <3>1. p.vendor \in Nat /\ p.product \in Nat
      BY PayloadAssumption DEF Fits
    <3>2. DigitString(x, 5) /\ DigitString(y, 5)
      BY <3>1, DecimalDigits
    <3>3. e = x \o y
      BY <2>1 DEF Extra
    <3> HIDE DEF x, y, e
    <3>4. DigitString(e, 5 + 5)
      BY <3>2, <3>3, JoinedDigits
    <3> QED BY <3>4, <2>1
  <2>2. CASE ~long
    <3>1. e = <<>> /\ m = 0
      BY <2>2 DEF Extra
    <3> QED BY <3>1 DEF DigitString
  <2> QED BY <2>1, <2>2
<1>4. DigitString(k, 1)
  BY DEF DigitString
<1>5. m \in Nat /\ 10 + m \in Nat /\ 10 + m + 1 = n
  BY DEF Long
<1> HIDE DEF a, b, c, e, k, m, n
<1>6. DigitString(g2, 6)
  <2>1. DigitString(g2, 1 + 5)
    BY <1>2, JoinedDigits
  <2> QED BY <2>1
<1> HIDE DEF g2
<1>7. DigitString(g3, 10)
  <2>1. DigitString(g3, 6 + 4)
    BY <1>2, <1>6, JoinedDigits
  <2> QED BY <2>1
<1> HIDE DEF g3
<1>8. DigitString(g4, 10 + m)
  BY <1>3, <1>5, <1>7, JoinedDigits
<1> HIDE DEF g4
<1> DEFINE l == 10 + m
<1>9. DigitString(s, n) /\ n \in Nat
  <2>1. l \in Nat /\ DigitString(g4, l) /\ l + 1 = n
    BY <1>5, <1>8
  <2> HIDE DEF l
  <2>2. DigitString(s, l + 1)
    BY <2>1, <1>4, JoinedDigits
  <2>3. l + 1 \in Nat
    BY <2>1
  <2> QED BY <2>1, <2>2, <2>3
<1>10. At(s, 1, g4 \o k)
  BY <1>9 DEF At, DigitString
<1> HIDE DEF s
<1>11. At(s, 1, g3 \o e)
  <2>1. At(s, 1, g4)
    BY <1>4, <1>5, <1>8, <1>9, <1>10, SplitDigits
  <2> QED BY <2>1 DEF g4
<1>12. At(s, 1, g2 \o c)
  <2>1. At(s, 1, g3)
    BY <1>3, <1>5, <1>7, <1>9, <1>11, SplitDigits
  <2> QED BY <2>1 DEF g3
<1>13. At(s, 6 + 1, c) /\ At(s, 1, a \o b)
  <2>1. At(s, 1, g2) /\ At(s, 6 + 1, c)
    BY <1>2, <1>6, <1>9, <1>12, SplitDigits
  <2> QED BY <2>1 DEF g2
<1>14. At(s, 1, a) /\ At(s, 1 + 1, b)
  BY <1>2, <1>9, <1>13, SplitDigits
<1>15. 6 + 1 = 7 /\ 1 + 1 = 2
  OBVIOUS
<1> QED BY <1>1, <1>9, <1>13, <1>14, <1>15 DEF a, b, c, n

(* The manual code of a payload is decoded to what it says *)
LEMMA ManualDecoded ==
    ASSUME NEW p \in Payloads, NEW long \in BOOLEAN, NEW check \in 0 .. 9
    PROVE  DecodeManualPairingCode(ManualCode(p, long, check)) =
            [Passcode |-> p.passcode, Discriminator4 |-> p.discriminator - (p.discriminator % 256)]
<1> DEFINE s == ManualDigits(p, long, check)
           n == Long(long)
<1>1. /\ DigitString(s, n) /\ At(s, 1, Decimal(First(p, long), 1))
      /\ At(s, 2, Decimal(Second(p), 5)) /\ At(s, 7, Decimal(Third(p), 4))
  BY ManualGroups
<1>2. n \in Nat /\ n > 8
  BY DEF Long
<1>3. ManualCode(p, long, check) = Dashed(s, n)
  <2>1. Len(s) = n
    BY <1>1 DEF DigitString
  <2> QED BY <2>1 DEF ManualCode, Dashed
<1> HIDE DEF s, n
<1>4. Normalized(ManualCode(p, long, check)) = s
  BY <1>1, <1>2, <1>3, CodeNormalized
<1>5. /\ First(p, long) \in Nat /\ First(p, long) < 10
      /\ Second(p) \in Nat /\ Second(p) < 100000
      /\ Third(p) \in Nat /\ Third(p) < 10000
  BY GroupBounds
<1>6. Powers(10)[1] = 10 /\ Powers(10)[5] = 100000 /\ Powers(10)[4] = 10000
  BY OtherPowers
<1>n. {1, 2, 7} \subseteq Nat \ {0} /\ {1, 4, 5} \subseteq Nat
  OBVIOUS
<1>7. Group(s, 1, 1) = First(p, long)
  <2>1. First(p, long) < Powers(10)[1]
    BY <1>5, <1>6, SMT
  <2>2. Group(s, 1, 1 + 1 - 1) = First(p, long)
    BY <1>1, <1>2, <1>5, <1>n, <2>1, GroupRead
  <2> QED BY <2>2
<1>8. Group(s, 2, 6) = Second(p)
  <2>1. Second(p) < Powers(10)[5]
    BY <1>5, <1>6, SMT
  <2>2. Group(s, 2, 2 + 5 - 1) = Second(p)
    BY <1>1, <1>2, <1>5, <1>n, <2>1, GroupRead
  <2> QED BY <2>2
<1>9. Group(s, 7, 10) = Third(p)
  <2>1. Third(p) < Powers(10)[4]
    BY <1>5, <1>6, SMT
  <2>2. Group(s, 7, 7 + 4 - 1) = Third(p)
    BY <1>1, <1>2, <1>5, <1>n, <2>1, GroupRead
  <2> QED BY <2>2
<1>10. DecodeManualPairingCode(ManualCode(p, long, check)) =
         ManualContent(First(p, long), Second(p), Third(p))
  BY <1>4, <1>7, <1>8, <1>9 DEF DecodeManualPairingCode
<1> QED BY <1>10, GroupBounds

(* Whatever a label says: both manual codes name the passcode of the QR    *)
(* code and the upper bits of its discriminator.                           *)
THEOREM ManualTheorem == OnboardingSpec => []ManualCodeAgreesWithQr
<1>1. ASSUME NEW p \in Payloads, NEW long \in BOOLEAN, NEW check \in 0 .. 9
      PROVE  LET qr == DecodeQrText(QrText(p))
                 manual == DecodeManualPairingCode(ManualCode(p, long, check))
             IN /\ manual.Passcode = qr.Passcode
                /\ manual.Discriminator4 = qr.Discriminator - (qr.Discriminator % 256)
  BY QrDecoded, ManualDecoded
<1>2. label \subseteq Payloads => ManualCodeAgreesWithQr
  BY <1>1 DEF ManualCodeAgreesWithQr
<1> QED BY <1>2, LabelInvariant, PTL

-----------------------------------------------------------------------------
(* The transcript of PASE *)

LEMMA LeastElement ==
    ASSUME NEW S \in SUBSET Nat, S # {}
    PROVE  Min(S) \in S /\ \A y \in S : Min(S) <= y
<1>1. ASSUME \A x \in S : \E y \in S : ~(x <= y) PROVE FALSE
  <2> DEFINE T == {n \in Nat : \A m \in 0 .. n : m \notin S}
  <2>1. 0 \in T
    BY <1>1
  <2>2. ASSUME NEW n \in T PROVE n + 1 \in T
    <3>1. n + 1 \notin S
      <4> SUFFICES ASSUME n + 1 \in S PROVE FALSE
        OBVIOUS
      <4>1. PICK y \in S : ~(n + 1 <= y)
        BY <1>1
      <4> QED BY <4>1
    <3> QED BY <3>1
  <2>3. T \subseteq Nat
    OBVIOUS
  <2>4. \A n \in T : n \notin S
    OBVIOUS
  <2> HIDE DEF T
  <2>5. T = Nat
    BY <2>1, <2>2, <2>3, Induction
  <2> QED BY <2>4, <2>5
<1> QED BY <1>1 DEF Min

(* big.Int.Bytes leaves out k leading zeros, and all of them *)
Stripped(s, k) ==
    /\ k \in 0 .. Len(s)
    /\ BigIntBytes(s) = SubSeq(s, k + 1, Len(s))
    /\ \A j \in 1 .. k : s[j] = 0
    /\ k < Len(s) => s[k + 1] # 0

LEMMA LeadingZeros ==
    ASSUME NEW s \in Seq(Nat)
    PROVE  \E k : Stripped(s, k)
<1> DEFINE I == {i \in 1 .. Len(s) : s[i] # 0}
           first == IF I # {} THEN Min(I) ELSE 0
<1>1. BigIntBytes(s) = IF first = 0 THEN <<>> ELSE SubSeq(s, first, Len(s))
  BY DEF BigIntBytes, SelectInSeq
<1>n. Len(s) \in Nat
  OBVIOUS
<1>2. CASE I = {}
  <2>1. BigIntBytes(s) = SubSeq(s, Len(s) + 1, Len(s))
    BY <1>1, <1>2
  <2> HIDE DEF first
  <2>2. Stripped(s, Len(s))
    BY <2>1, <1>2, <1>n DEF Stripped
  <2> QED BY <2>2
<1>3. CASE I # {}
  <2> DEFINE m == Min(I)
             k == m - 1
  <2>1. I \in SUBSET Nat
    OBVIOUS
  <2>2. m \in I /\ \A y \in I : m <= y
    <3> HIDE DEF I
    <3> QED BY <2>1, <1>3, LeastElement
  <2>3. first = m
    BY <1>3
  <2> HIDE DEF m, first
  <2>4. m \in 1 .. Len(s) /\ s[m] # 0 /\ \A j \in 1 .. Len(s) : s[j] # 0 => m <= j
    BY <2>2
  <2>5. BigIntBytes(s) = SubSeq(s, k + 1, Len(s))
    <3>1. k + 1 = m /\ m # 0
      BY <2>4
    <3> QED BY <1>1, <2>3, <3>1
  <2>6. Stripped(s, k)
    <3>1. k \in 0 .. Len(s) /\ k + 1 = m
      BY <2>4, <1>n
    <3>2. \A j \in 1 .. k : s[j] = 0
      BY <2>4, <1>n
    <3> QED BY <3>1, <3>2, <2>4, <2>5 DEF Stripped
  <2> QED BY <2>6
<1> QED BY <1>2, <1>3

LEMMA StrippedBytes ==
    ASSUME NEW s \in Seq(Nat), NEW k, Stripped(s, k)
    PROVE  /\ BigIntBytes(s) \in Seq(Nat) /\ Len(BigIntBytes(s)) = Len(s) - k
           /\ \A i \in 1 .. Len(s) - k : BigIntBytes(s)[i] = s[k + i]
<1>1. k \in 0 .. Len(s) /\ Len(s) \in Nat /\ BigIntBytes(s) = SubSeq(s, k + 1, Len(s))
  BY DEF Stripped
<1> DEFINE t == SubSeq(s, k + 1, Len(s))
<1>2. t \in Seq(Nat) /\ Len(t) = Len(s) - k
  BY <1>1
<1>3. \A i \in 1 .. Len(s) - k : t[i] = s[k + i]
  BY <1>1, SMTT(20)
<1> QED BY <1>1, <1>2, <1>3

(* Scalars of one length have their bytes for themselves *)
LEMMA BigIntBytesInjective ==
    ASSUME NEW s \in Seq(Nat), NEW t \in Seq(Nat), Len(s) = Len(t), BigIntBytes(s) = BigIntBytes(t)
    PROVE  s = t
<1>1. PICK k : Stripped(s, k)
  BY LeadingZeros
<1>2. PICK l : Stripped(t, l)
  BY LeadingZeros
<1>3. Len(BigIntBytes(s)) = Len(s) - k /\ \A i \in 1 .. Len(s) - k : BigIntBytes(s)[i] = s[k + i]
  BY <1>1, StrippedBytes
<1>4. Len(BigIntBytes(t)) = Len(t) - l /\ \A i \in 1 .. Len(t) - l : BigIntBytes(t)[i] = t[l + i]
  BY <1>2, StrippedBytes
<1>5. /\ k \in 0 .. Len(s) /\ l \in 0 .. Len(t) /\ Len(s) \in Nat
      /\ (\A j \in 1 .. k : s[j] = 0) /\ (\A j \in 1 .. l : t[j] = 0)
  BY <1>1, <1>2 DEF Stripped
<1>6. k = l
  BY <1>3, <1>4, <1>5
<1>7. ASSUME NEW j \in 1 .. Len(s) PROVE s[j] = t[j]
  <2>1. CASE j <= k
    BY <2>1, <1>5, <1>6
  <2>2. CASE j > k
    <3> DEFINE i == j - k
    <3>1. i \in 1 .. Len(s) - k /\ k + i = j
      BY <2>2, <1>5
    <3> HIDE DEF i
    <3>2. BigIntBytes(s)[i] = s[k + i] /\ BigIntBytes(t)[i] = t[l + i]
      BY <3>1, <1>3, <1>4, <1>6
    <3> QED BY <3>1, <3>2, <1>6
  <2> QED BY <2>1, <2>2, <1>5
<1>8. s = [j \in 1 .. Len(s) |-> s[j]] /\ t = [j \in 1 .. Len(t) |-> t[j]]
  OBVIOUS
<1> QED BY <1>7, <1>8

(* ... and keep them all exactly when the first one is not zero *)
LEMMA BigIntBytesFull ==
    ASSUME NEW s \in Seq(Nat), Len(s) > 0
    PROVE  BigIntBytes(s) = s <=> s[1] # 0
<1>1. PICK k : Stripped(s, k)
  BY LeadingZeros
<1>2. /\ k \in 0 .. Len(s) /\ Len(s) \in Nat /\ BigIntBytes(s) = SubSeq(s, k + 1, Len(s))
      /\ (\A j \in 1 .. k : s[j] = 0) /\ (k < Len(s) => s[k + 1] # 0)
  BY <1>1 DEF Stripped
<1>3. CASE k = 0
  <2>1. SubSeq(s, 1, Len(s)) = s
    OBVIOUS
  <2> QED BY <1>2, <1>3, <2>1
<1>4. CASE k # 0
  <2>1. Len(BigIntBytes(s)) = Len(s) - k
    BY <1>1, StrippedBytes
  <2>2. BigIntBytes(s) # s
    BY <2>1, <1>2, <1>4
  <2>3. s[1] = 0
    BY <1>2, <1>4
  <2> QED BY <2>2, <2>3
<1> QED BY <1>3, <1>4

LEMMA ConcatCancel ==
    ASSUME NEW a \in Seq(Nat), NEW b \in Seq(Nat), NEW c \in Seq(Nat), NEW d \in Seq(Nat),
           Len(a) = Len(c), a \o b = c \o d
    PROVE  a = c /\ b = d
<1>e. ASSUME NEW e \in Seq(Nat), NEW f \in Seq(Nat)
      PROVE  /\ \A i \in 1 .. Len(e) : (e \o f)[i] = e[i]
             /\ \A i \in Len(e) + 1 .. Len(e) + Len(f) : (e \o f)[i] = f[i - Len(e)]
  BY ConcatElement
<1> DEFINE x == a \o b
<1>1. /\ \A i \in 1 .. Len(a) : x[i] = a[i]
      /\ \A i \in Len(a) + 1 .. Len(a) + Len(b) : x[i] = b[i - Len(a)]
  BY <1>e
<1>2. /\ \A i \in 1 .. Len(c) : (c \o d)[i] = c[i]
      /\ \A i \in Len(c) + 1 .. Len(c) + Len(d) : (c \o d)[i] = d[i - Len(c)]
  BY <1>e
<1>n. Len(a) \in Nat /\ Len(b) \in Nat /\ Len(d) \in Nat
  OBVIOUS
<1>3. Len(x) = Len(a) + Len(b) /\ Len(c \o d) = Len(c) + Len(d)
  BY ConcatLength
<1>4. x = c \o d
  OBVIOUS
<1> HIDE DEF x
<1>5. Len(b) = Len(d)
  BY <1>3, <1>4, <1>n
<1>6. \A i \in 1 .. Len(a) : a[i] = c[i]
  BY <1>1, <1>2, <1>4
<1>7. ASSUME NEW j \in 1 .. Len(b) PROVE b[j] = d[j]
  <2> DEFINE i == j + Len(a)
  <2>1. i \in Len(a) + 1 .. Len(a) + Len(b) /\ i - Len(a) = j
    BY <1>n
  <2> HIDE DEF i
  <2>2. x[i] = b[j] /\ x[i] = d[j]
    BY <2>1, <1>1, <1>2, <1>4, <1>5
  <2> QED BY <2>2
<1>8. a = [i \in 1 .. Len(a) |-> a[i]] /\ c = [i \in 1 .. Len(c) |-> c[i]]
  OBVIOUS
<1>9. b = [i \in 1 .. Len(b) |-> b[i]] /\ d = [i \in 1 .. Len(d) |-> d[i]]
  OBVIOUS
<1> QED BY <1>5, <1>6, <1>7, <1>8, <1>9

LEMMA PartType ==
    /\ <<>> \in Part
    /\ \A p \in Part : p \in Seq(Nat) /\ Len(p) \in Nat /\ Len(p) < Power[8]
<1>1. 8 \in Nat /\ Power[8] \in Nat \ {0} /\ Base \in Nat
  BY PowerFacts, TlvAssumption
<1>2. Len(<<>>) = 0 /\ <<>> \in Seq(0 .. Base - 1)
  OBVIOUS
<1>3. <<>> \in Part
  BY <1>1, <1>2 DEF Part
<1>4. ASSUME NEW p \in Part PROVE p \in Seq(Nat) /\ Len(p) \in Nat /\ Len(p) < Power[8]
  <2>1. p \in Seq(0 .. Base - 1) /\ Len(p) < Power[8]
    BY DEF Part
  <2> QED BY <2>1, <1>1
<1> QED BY <1>3, <1>4

LEMMA LengthBytes ==
    ASSUME NEW n \in Nat
    PROVE  LittleEndian(8, n) \in Seq(Nat) /\ Len(LittleEndian(8, n)) = 8
<1>1. 8 \in Nat /\ n \in Int
  OBVIOUS
<1> QED BY <1>1, LittleEndianBytes, LittleEndianLength

LEMMA SerializedType ==
    ASSUME NEW p \in Part, NEW rest \in Seq(Nat)
    PROVE  serializeBytes(p, rest) \in Seq(Nat)
<1> DEFINE l == LittleEndian(8, Len(p))
<1>1. p \in Seq(Nat) /\ l \in Seq(Nat)
  BY PartType, LengthBytes
<1> HIDE DEF l
<1>2. l \o p \in Seq(Nat)
  BY <1>1
<1>3. (l \o p) \o rest \in Seq(Nat)
  BY <1>2
<1> QED BY <1>3 DEF serializeBytes, l

LEMMA CatsAssociate ==
    ASSUME NEW x \in Seq(Nat), NEW y \in Seq(Nat), NEW z \in Seq(Nat)
    PROVE  Cat(Cat(x, y), z) = Cat(x, Cat(y, z))
BY Associative DEF Cat

(* A part is found again, whatever is written behind it *)
LEMMA PartReadsBack ==
    ASSUME NEW p \in Part, NEW q \in Part, NEW r \in Seq(Nat), NEW s \in Seq(Nat),
           serializeBytes(p, r) = serializeBytes(q, s)
    PROVE  p = q /\ r = s
<1> DEFINE l == LittleEndian(8, Len(p))
           m == LittleEndian(8, Len(q))
<1>p. p \in Seq(Nat) /\ q \in Seq(Nat) /\ Len(p) \in Nat /\ Len(q) \in Nat
  BY PartType
<1>1. l \in Seq(Nat) /\ Len(l) = 8 /\ m \in Seq(Nat) /\ Len(m) = 8
  BY <1>p, LengthBytes
<1>2. (l \o p) \o r = (m \o q) \o s
  BY DEF serializeBytes
<1>n. Number(l) = Len(p) /\ Number(m) = Len(q)
  <2>1. 8 \in Nat /\ Power[8] \in Nat \ {0}
    BY PowerFacts
  <2>2. Number(l) = Len(p) % Power[8] /\ Number(m) = Len(q) % Power[8]
    BY <1>p, <2>1, NumberReadsBack
  <2>3. Len(p) < Power[8] /\ Len(q) < Power[8]
    BY PartType
  <2>4. Len(p) % Power[8] = Len(p) /\ Len(q) % Power[8] = Len(q)
    BY <1>p, <2>1, <2>3, SmallRemainder
  <2> QED BY <2>2, <2>4
<1> HIDE DEF l, m
<1>3. (l \o p) \o r = l \o (p \o r) /\ (m \o q) \o s = m \o (q \o s)
  <2>1. Cat(Cat(l, p), r) = Cat(l, Cat(p, r))
    BY <1>1, <1>p, CatsAssociate
  <2>2. Cat(Cat(m, q), s) = Cat(m, Cat(q, s))
    BY <1>1, <1>p, CatsAssociate
  <2> QED BY <2>1, <2>2 DEF Cat
<1>4. p \o r \in Seq(Nat) /\ q \o s \in Seq(Nat)
  BY <1>p
<1>5. l = m /\ p \o r = q \o s
  <2>1. Len(l) = Len(m) /\ l \o (p \o r) = m \o (q \o s)
    BY <1>1, <1>2, <1>3
  <2> QED BY <1>1, <1>4, <2>1, ConcatCancel
<1>6. Len(p) = Len(q)
  BY <1>5, <1>n
<1> QED BY <1>5, <1>6, <1>p, ConcatCancel

(* A transcript determines its parts: none can pass for another's bytes *)
LEMMA PartsReadBack ==
    ASSUME NEW t \in Transcripts, NEW u \in Transcripts, NEW w \in Part, NEW v \in Part,
           Transcript(t, w) = Transcript(u, v)
    PROVE  /\ t.context = u.context /\ t.X = u.X /\ t.Y = u.Y /\ t.Z = u.Z /\ t.V = u.V
           /\ w = v
<1> DEFINE W(x) == serializeBytes(x, <<>>)
           V(x, y) == serializeBytes(x.V, W(y))
           Z(x, y) == serializeBytes(x.Z, V(x, y))
           Y(x, y) == serializeBytes(x.Y, Z(x, y))
           X(x, y) == serializeBytes(x.X, Y(x, y))
           N(x, y) == serializeBytes(nbin, X(x, y))
           M(x, y) == serializeBytes(mbin, N(x, y))
           B(x, y) == serializeBytes(<<>>, M(x, y))
           A(x, y) == serializeBytes(<<>>, B(x, y))
           C(x, y) == serializeBytes(x.context, A(x, y))
<1>p. \A x \in {t, u} : {x.context, x.X, x.Y, x.Z, x.V, mbin, nbin, <<>>} \subseteq Part
  BY CredentialAssumption, PartType
<1>e. <<>> \in Seq(Nat)
  OBVIOUS
<1>s. ASSUME NEW x \in {t, u}, NEW y \in {w, v}
      PROVE  {W(y), V(x, y), Z(x, y), Y(x, y), X(x, y), N(x, y), M(x, y), B(x, y), A(x, y)}
               \subseteq Seq(Nat)
  <2>1. W(y) \in Seq(Nat)
    BY <1>e, SerializedType
  <2> HIDE DEF W
  <2>2. V(x, y) \in Seq(Nat)
    BY <1>p, <2>1, SerializedType
  <2> HIDE DEF V
  <2>3. Z(x, y) \in Seq(Nat)
    BY <1>p, <2>2, SerializedType
  <2> HIDE DEF Z
  <2>4. Y(x, y) \in Seq(Nat)
    BY <1>p, <2>3, SerializedType
  <2> HIDE DEF Y
  <2>5. X(x, y) \in Seq(Nat)
    BY <1>p, <2>4, SerializedType
  <2> HIDE DEF X
  <2>6. N(x, y) \in Seq(Nat)
    BY <1>p, <2>5, SerializedType
  <2> HIDE DEF N
  <2>7. M(x, y) \in Seq(Nat)
    BY <1>p, <2>6, SerializedType
  <2> HIDE DEF M
  <2>8. B(x, y) \in Seq(Nat)
    BY <1>p, <2>7, SerializedType
  <2> HIDE DEF B
  <2>9. A(x, y) \in Seq(Nat)
    BY <1>p, <2>8, SerializedType
  <2> HIDE DEF A
  <2> QED BY <2>1, <2>2, <2>3, <2>4, <2>5, <2>6, <2>7, <2>8, <2>9
<1>1. C(t, w) = C(u, v)
  BY DEF Transcript, createTT
<1> HIDE DEF A
<1>2. t.context = u.context /\ A(t, w) = A(u, v)
  <2>1. t.context \in Part /\ u.context \in Part
    BY <1>p
  <2>2. A(t, w) \in Seq(Nat) /\ A(u, v) \in Seq(Nat)
    BY <1>s
  <2>3. serializeBytes(t.context, A(t, w)) = serializeBytes(u.context, A(u, v))
    BY <1>1 DEF C
  <2> QED BY <2>1, <2>2, <2>3, PartReadsBack
<1> HIDE DEF B
<1>3. B(t, w) = B(u, v)
  <2>1. <<>> \in Part
    BY <1>p
  <2>2. B(t, w) \in Seq(Nat) /\ B(u, v) \in Seq(Nat)
    BY <1>s
  <2>3. serializeBytes(<<>>, B(t, w)) = serializeBytes(<<>>, B(u, v))
    BY <1>2 DEF A
  <2> QED BY <2>1, <2>2, <2>3, PartReadsBack
<1> HIDE DEF M
<1>4. M(t, w) = M(u, v)
  <2>1. <<>> \in Part
    BY <1>p
  <2>2. M(t, w) \in Seq(Nat) /\ M(u, v) \in Seq(Nat)
    BY <1>s
  <2>3. serializeBytes(<<>>, M(t, w)) = serializeBytes(<<>>, M(u, v))
    BY <1>3 DEF B
  <2> QED BY <2>1, <2>2, <2>3, PartReadsBack
<1> HIDE DEF N
<1>5. N(t, w) = N(u, v)
  <2>1. mbin \in Part
    BY <1>p
  <2>2. N(t, w) \in Seq(Nat) /\ N(u, v) \in Seq(Nat)
    BY <1>s
  <2>3. serializeBytes(mbin, N(t, w)) = serializeBytes(mbin, N(u, v))
    BY <1>4 DEF M
  <2> QED BY <2>1, <2>2, <2>3, PartReadsBack
<1> HIDE DEF X
<1>6. X(t, w) = X(u, v)
  <2>1. nbin \in Part
    BY <1>p
  <2>2. X(t, w) \in Seq(Nat) /\ X(u, v) \in Seq(Nat)
    BY <1>s
  <2>3. serializeBytes(nbin, X(t, w)) = serializeBytes(nbin, X(u, v))
    BY <1>5 DEF N
  <2> QED BY <2>1, <2>2, <2>3, PartReadsBack
<1> HIDE DEF Y
<1>7. t.X = u.X /\ Y(t, w) = Y(u, v)
  <2>1. t.X \in Part /\ u.X \in Part
    BY <1>p
  <2>2. Y(t, w) \in Seq(Nat) /\ Y(u, v) \in Seq(Nat)
    BY <1>s
  <2>3. serializeBytes(t.X, Y(t, w)) = serializeBytes(u.X, Y(u, v))
    BY <1>6 DEF X
  <2> QED BY <2>1, <2>2, <2>3, PartReadsBack
<1> HIDE DEF Z
<1>8. t.Y = u.Y /\ Z(t, w) = Z(u, v)
  <2>1. t.Y \in Part /\ u.Y \in Part
    BY <1>p
  <2>2. Z(t, w) \in Seq(Nat) /\ Z(u, v) \in Seq(Nat)
    BY <1>s
  <2>3. serializeBytes(t.Y, Z(t, w)) = serializeBytes(u.Y, Z(u, v))
    BY <1>7 DEF Y
  <2> QED BY <2>1, <2>2, <2>3, PartReadsBack
<1> HIDE DEF V
<1>9. t.Z = u.Z /\ V(t, w) = V(u, v)
  <2>1. t.Z \in Part /\ u.Z \in Part
    BY <1>p
  <2>2. V(t, w) \in Seq(Nat) /\ V(u, v) \in Seq(Nat)
    BY <1>s
  <2>3. serializeBytes(t.Z, V(t, w)) = serializeBytes(u.Z, V(u, v))
    BY <1>8 DEF Z
  <2> QED BY <2>1, <2>2, <2>3, PartReadsBack
<1> HIDE DEF W
<1>10. t.V = u.V /\ W(w) = W(v)
  <2>1. t.V \in Part /\ u.V \in Part
    BY <1>p
  <2>2. W(w) \in Seq(Nat) /\ W(v) \in Seq(Nat)
    BY <1>s
  <2>3. serializeBytes(t.V, W(w)) = serializeBytes(u.V, W(v))
    BY <1>9 DEF V
  <2> QED BY <2>1, <2>2, <2>3, PartReadsBack
<1>11. w = v
  BY <1>10, <1>e, PartReadsBack DEF W
<1> QED BY <1>2, <1>7, <1>8, <1>9, <1>10, <1>11

LEMMA TranscriptParts ==
    ASSUME NEW t \in Transcripts
    PROVE  t.w0 \in Part /\ t.w0 \in Seq(Nat) /\ Len(t.w0) = Size /\ Size > 0 /\ BigIntBytes(t.w0) \in Part
<1>1. t.w0 \in Part /\ Len(t.w0) = Size /\ Size \in Nat \ {0}
  BY CredentialAssumption
<1>2. t.w0 \in Seq(Nat) /\ Len(t.w0) < Power[8] /\ Len(t.w0) \in Nat
  BY <1>1, PartType
<1>3. PICK k : Stripped(t.w0, k)
  BY <1>2, LeadingZeros
<1> DEFINE s == t.w0
           b == BigIntBytes(s)
<1>4. /\ b \in Seq(Nat) /\ Len(b) = Len(s) - k /\ \A i \in 1 .. Len(s) - k : b[i] = s[k + i]
      /\ k \in 0 .. Len(s)
  <2>1. k \in 0 .. Len(s)
    BY <1>3 DEF Stripped
  <2>2. /\ b \in Seq(Nat) /\ Len(b) = Len(s) - k
        /\ \A i \in 1 .. Len(s) - k : b[i] = s[k + i]
    BY <1>2, <1>3, StrippedBytes
  <2> QED BY <2>1, <2>2
<1>5. s \in Seq(0 .. Base - 1) /\ Power[8] \in Nat
  <2>1. 8 \in Nat /\ Power[8] \in Nat
    BY PowerFacts
  <2> QED BY <1>1, <2>1 DEF Part
<1>6. b \in Part
  <2> HIDE DEF b
  <2>1. ASSUME NEW i \in 1 .. Len(b) PROVE b[i] \in 0 .. Base - 1
    <3>1. i \in 1 .. Len(s) - k /\ k + i \in 1 .. Len(s)
      BY <1>2, <1>4
    <3>2. b[i] = s[k + i]
      BY <3>1, <1>4
    <3>3. ASSUME NEW D, NEW l \in Seq(D) PROVE \A m \in 1 .. Len(l) : l[m] \in D
      OBVIOUS
    <3>4. \A m \in 1 .. Len(s) : s[m] \in 0 .. Base - 1
      BY <1>5, <3>3
    <3> QED BY <3>1, <3>2, <3>4
  <2>2. b \in Seq(0 .. Base - 1)
    <3>1. Len(b) \in Nat /\ b = [i \in 1 .. Len(b) |-> b[i]]
      BY <1>4
    <3> DEFINE n == Len(b)
               D == 0 .. Base - 1
    <3>2. n \in Nat /\ b = [i \in 1 .. n |-> b[i]] /\ \A i \in 1 .. n : b[i] \in D
      BY <3>1, <2>1
    <3> HIDE DEF n, D
    <3>3. b \in [1 .. n -> D]
      BY <3>2
    <3>4. b \in Seq(D)
      BY <3>2, <3>3
    <3> QED BY <3>4 DEF D
  <2>3. Len(b) < Power[8]
    BY <1>2, <1>4, <1>5
  <2> QED BY <2>2, <2>3 DEF Part
<1> QED BY <1>1, <1>2, <1>6

(* Whatever transcript is hashed *)
CredentialInv == transcript \subseteq Transcripts

LEMMA CredentialInvAgrees == CredentialInv => TranscriptsAgree
<1> SUFFICES ASSUME CredentialInv, NEW t \in transcript
             PROVE  /\ (ControllerTranscript(t) = DeviceTranscript(t)) <=> FullLength(t.w0)
                    /\ \A u \in Transcripts \ {t} : ControllerTranscript(u) # ControllerTranscript(t)
  BY DEF TranscriptsAgree
<1>0. t \in Transcripts
  BY DEF CredentialInv
<1>1. t.w0 \in Part /\ t.w0 \in Seq(Nat) /\ Len(t.w0) = Size /\ Size > 0 /\ BigIntBytes(t.w0) \in Part
  BY <1>0, TranscriptParts
<1>2. ControllerTranscript(t) = DeviceTranscript(t) <=> FullLength(t.w0)
  <2>1. BigIntBytes(t.w0) = t.w0 <=> FullLength(t.w0)
    BY <1>1, BigIntBytesFull DEF FullLength
  <2>2. ASSUME ControllerTranscript(t) = DeviceTranscript(t) PROVE BigIntBytes(t.w0) = t.w0
    <3>1. Transcript(t, BigIntBytes(t.w0)) = Transcript(t, t.w0)
      BY <2>2 DEF ControllerTranscript, DeviceTranscript
    <3> QED BY <1>0, <1>1, <3>1, PartsReadBack
  <2>3. ASSUME BigIntBytes(t.w0) = t.w0 PROVE ControllerTranscript(t) = DeviceTranscript(t)
    BY <2>3 DEF ControllerTranscript, DeviceTranscript
  <2> QED BY <2>1, <2>2, <2>3
<1>3. ASSUME NEW u \in Transcripts, ControllerTranscript(u) = ControllerTranscript(t) PROVE u = t
  <2>1. u.w0 \in Seq(Nat) /\ Len(u.w0) = Size /\ BigIntBytes(u.w0) \in Part
    BY TranscriptParts
  <2>2. Transcript(u, BigIntBytes(u.w0)) = Transcript(t, BigIntBytes(t.w0))
    BY <1>3 DEF ControllerTranscript
  <2>3. /\ u.context = t.context /\ u.X = t.X /\ u.Y = t.Y /\ u.Z = t.Z /\ u.V = t.V
        /\ BigIntBytes(u.w0) = BigIntBytes(t.w0)
    BY <1>0, <1>1, <2>1, <2>2, PartsReadBack
  <2>4. u.w0 = t.w0
    BY <1>1, <2>1, <2>3, BigIntBytesInjective
  <2>5. \A x \in {t, u} : x = [context |-> x.context, X |-> x.X, Y |-> x.Y, Z |-> x.Z, V |-> x.V, w0 |-> x.w0]
    BY <1>0, CredentialAssumption
  <2> QED BY <2>3, <2>4, <2>5
<1> QED BY <1>2, <1>3

(* For every base, length of a scalar and set of exchanges: the controller *)
(* hashes what the device hashes exactly when W0 has no leading zero byte, *)
(* and two exchanges that differ in any part never have one transcript.    *)
THEOREM TranscriptTheorem == CredentialSpec => []TranscriptsAgree
<1>1. CredentialInit => CredentialInv
  BY DEF CredentialInit, CredentialInv
<1>2. CredentialInv /\ [CredentialNext]_credentialVars => CredentialInv'
  BY DEF CredentialInv, CredentialNext, SerializeCertificate, HashTranscript, credentialVars
<1> QED BY <1>1, <1>2, CredentialInvAgrees, PTL DEF CredentialSpec

-----------------------------------------------------------------------------
(* AES-CCM *)

Block == [1 .. ccmBlockSize -> Byte]

(* What NewCCM is called with: a cipher for blocks *)
CipherOnBlocks == \A b \in Block : Encrypt(b) \in Block

(* Eight bits, and the number they make *)
EightBits == [1 .. 8 -> 0 .. 1]
Weighed(x) == x[1] + 2 * x[2] + 4 * x[3] + 8 * x[4] + 16 * x[5] + 32 * x[6] + 64 * x[7] + 128 * x[8]

LEMMA BitsOfByte ==
    ASSUME NEW a \in Byte
    PROVE  \E x \in EightBits : a = Weighed(x)
<1>0. a \in Nat /\ a <= 255
  BY DEF Byte
<1>1. PICK y1 \in Nat, x1 \in 0 .. 1 : a = 2 * y1 + x1
  <2>1. a \div 2 \in Nat /\ a % 2 \in 0 .. 1 /\ a = 2 * (a \div 2) + (a % 2)
    BY <1>0
  <2> QED BY <2>1
<1>2. PICK y2 \in Nat, x2 \in 0 .. 1 : y1 = 2 * y2 + x2
  <2>1. y1 \div 2 \in Nat /\ y1 % 2 \in 0 .. 1 /\ y1 = 2 * (y1 \div 2) + (y1 % 2)
    OBVIOUS
  <2> QED BY <2>1
<1>3. PICK y3 \in Nat, x3 \in 0 .. 1 : y2 = 2 * y3 + x3
  <2>1. y2 \div 2 \in Nat /\ y2 % 2 \in 0 .. 1 /\ y2 = 2 * (y2 \div 2) + (y2 % 2)
    OBVIOUS
  <2> QED BY <2>1
<1>4. PICK y4 \in Nat, x4 \in 0 .. 1 : y3 = 2 * y4 + x4
  <2>1. y3 \div 2 \in Nat /\ y3 % 2 \in 0 .. 1 /\ y3 = 2 * (y3 \div 2) + (y3 % 2)
    OBVIOUS
  <2> QED BY <2>1
<1>5. PICK y5 \in Nat, x5 \in 0 .. 1 : y4 = 2 * y5 + x5
  <2>1. y4 \div 2 \in Nat /\ y4 % 2 \in 0 .. 1 /\ y4 = 2 * (y4 \div 2) + (y4 % 2)
    OBVIOUS
  <2> QED BY <2>1
<1>6. PICK y6 \in Nat, x6 \in 0 .. 1 : y5 = 2 * y6 + x6
  <2>1. y5 \div 2 \in Nat /\ y5 % 2 \in 0 .. 1 /\ y5 = 2 * (y5 \div 2) + (y5 % 2)
    OBVIOUS
  <2> QED BY <2>1
<1>7. PICK y7 \in Nat, x7 \in 0 .. 1 : y6 = 2 * y7 + x7
  <2>1. y6 \div 2 \in Nat /\ y6 % 2 \in 0 .. 1 /\ y6 = 2 * (y6 \div 2) + (y6 % 2)
    OBVIOUS
  <2> QED BY <2>1
<1>8. y7 \in 0 .. 1
  BY <1>0, <1>1, <1>2, <1>3, <1>4, <1>5, <1>6, <1>7
<1> DEFINE x == <<x1, x2, x3, x4, x5, x6, x7, y7>>
<1>9. a = Weighed(x)
  BY <1>1, <1>2, <1>3, <1>4, <1>5, <1>6, <1>7, <1>8 DEF Weighed
<1>10. x \in EightBits
  BY <1>8 DEF EightBits
<1> QED BY <1>9, <1>10

LEMMA WeighedParts ==
    ASSUME NEW x \in EightBits, NEW a, a = Weighed(x)
    PROVE  /\ a \in Byte
           /\ a \div 1 = x[1] + 2 * (a \div 2) /\ a \div 2 = x[2] + 2 * (a \div 4)
           /\ a \div 4 = x[3] + 2 * (a \div 8) /\ a \div 8 = x[4] + 2 * (a \div 16)
           /\ a \div 16 = x[5] + 2 * (a \div 32) /\ a \div 32 = x[6] + 2 * (a \div 64)
           /\ a \div 64 = x[7] + 2 * (a \div 128) /\ a \div 128 = x[8]
<1>0. PICK x1, x2, x3, x4, x5, x6, x7, x8 \in 0 .. 1 :
        /\ x1 = x[1] /\ x2 = x[2] /\ x3 = x[3] /\ x4 = x[4]
        /\ x5 = x[5] /\ x6 = x[6] /\ x7 = x[7] /\ x8 = x[8]
  BY DEF EightBits
<1>a. a = x1 + 2 * x2 + 4 * x3 + 8 * x4 + 16 * x5 + 32 * x6 + 64 * x7 + 128 * x8
  BY <1>0 DEF Weighed
<1> DEFINE q7 == x7 + 2 * x8
           q6 == x6 + 2 * q7
           q5 == x5 + 2 * q6
           q4 == x4 + 2 * q5
           q3 == x3 + 2 * q4
           q2 == x2 + 2 * q3
<1>1. /\ q7 \in Nat /\ q6 \in Nat /\ q5 \in Nat /\ q4 \in Nat /\ q3 \in Nat /\ q2 \in Nat /\ a \in Byte
      /\ a = x1 + 2 * q2
      /\ a = x1 + 2 * x2 + 4 * q3
      /\ a = x1 + 2 * x2 + 4 * x3 + 8 * q4
      /\ a = x1 + 2 * x2 + 4 * x3 + 8 * x4 + 16 * q5
      /\ a = x1 + 2 * x2 + 4 * x3 + 8 * x4 + 16 * x5 + 32 * q6
      /\ a = x1 + 2 * x2 + 4 * x3 + 8 * x4 + 16 * x5 + 32 * x6 + 64 * q7
      /\ a = x1 + 2 * x2 + 4 * x3 + 8 * x4 + 16 * x5 + 32 * x6 + 64 * x7 + 128 * x8
  BY <1>a DEF Byte
<1>2. a \in Int
  BY <1>1 DEF Byte
<1>11. a = x1 + 2 * q2 /\ q2 = x2 + 2 * q3 /\ q3 = x3 + 2 * q4 /\ q4 = x4 + 2 * q5
       /\ q5 = x5 + 2 * q6 /\ q6 = x6 + 2 * q7 /\ q7 = x7 + 2 * x8
  BY <1>1
<1> HIDE DEF q7, q6, q5, q4, q3, q2
<1>3. a \div 1 = a
  BY <1>2
<1>4. a \div 2 = q2
  BY <1>1, <1>2
<1>5. a \div 4 = q3
  BY <1>1, <1>2
<1>6. a \div 8 = q4
  BY <1>1, <1>2
<1>7. a \div 16 = q5
  BY <1>1, <1>2
<1>8. a \div 32 = q6
  BY <1>1, <1>2
<1>9. a \div 64 = q7
  BY <1>1, <1>2
<1>10. a \div 128 = x8
  BY <1>1, <1>2
<1> QED BY <1>0, <1>1, <1>3, <1>4, <1>5, <1>6, <1>7, <1>8, <1>9, <1>10, <1>11

AddBit(x, y) == (x + y) % 2
AddBits(x, y) == [i \in 1 .. 8 |-> AddBit(x[i], y[i])]

LEMMA SumOfBits ==
    ASSUME NEW x \in 0 .. 1, NEW y \in 0 .. 1
    PROVE  /\ AddBit(x, y) \in 0 .. 1 /\ AddBit(AddBit(x, y), y) = x
           /\ \A p, q \in Int : (x + 2 * p + (y + 2 * q)) % 2 = AddBit(x, y)
<1>1. AddBit(x, y) \in 0 .. 1 /\ AddBit(AddBit(x, y), y) = x
  BY DEF AddBit
<1>2. ASSUME NEW p \in Int, NEW q \in Int
      PROVE  (x + 2 * p + (y + 2 * q)) % 2 = AddBit(x, y)
  <2>1. x + 2 * p + (y + 2 * q) = x + y + 2 * (p + q) /\ p + q \in Int /\ x + y \in Int
    OBVIOUS
  <2> QED BY <2>1 DEF AddBit
<1> QED BY <1>1, <1>2

LEMMA AddTwice ==
    ASSUME NEW x \in EightBits, NEW y \in EightBits
    PROVE  AddBits(x, y) \in EightBits /\ AddBits(AddBits(x, y), y) = x
<1>1. ASSUME NEW i \in 1 .. 8
      PROVE  AddBit(x[i], y[i]) \in 0 .. 1 /\ AddBit(AddBit(x[i], y[i]), y[i]) = x[i]
  <2>1. x[i] \in 0 .. 1 /\ y[i] \in 0 .. 1
    BY DEF EightBits
  <2> QED BY <2>1, SumOfBits
<1>2. AddBits(x, y) \in EightBits
  BY <1>1 DEF AddBits, EightBits
<1>3. AddBits(AddBits(x, y), y) = [i \in 1 .. 8 |-> x[i]]
  BY <1>1 DEF AddBits
<1>4. [i \in 1 .. 8 |-> x[i]] = x
  BY DEF EightBits
<1> QED BY <1>2, <1>3, <1>4

(* The exclusive or of two numbers has the sums of their bits *)
LEMMA XorOfBits ==
    ASSUME NEW x \in EightBits, NEW y \in EightBits
    PROVE  Xor(Weighed(x), Weighed(y)) = Weighed(AddBits(x, y))
<1> DEFINE a == Weighed(x)
           b == Weighed(y)
           z == AddBits(x, y)
           bit(w) == w * ((a \div w + b \div w) % 2)
<1>1. /\ a \in Byte
      /\ a \div 1 = x[1] + 2 * (a \div 2) /\ a \div 2 = x[2] + 2 * (a \div 4)
      /\ a \div 4 = x[3] + 2 * (a \div 8) /\ a \div 8 = x[4] + 2 * (a \div 16)
      /\ a \div 16 = x[5] + 2 * (a \div 32) /\ a \div 32 = x[6] + 2 * (a \div 64)
      /\ a \div 64 = x[7] + 2 * (a \div 128) /\ a \div 128 = x[8]
  BY WeighedParts
<1>2. /\ b \in Byte
      /\ b \div 1 = y[1] + 2 * (b \div 2) /\ b \div 2 = y[2] + 2 * (b \div 4)
      /\ b \div 4 = y[3] + 2 * (b \div 8) /\ b \div 8 = y[4] + 2 * (b \div 16)
      /\ b \div 16 = y[5] + 2 * (b \div 32) /\ b \div 32 = y[6] + 2 * (b \div 64)
      /\ b \div 64 = y[7] + 2 * (b \div 128) /\ b \div 128 = y[8]
  BY WeighedParts
<1> HIDE DEF a, b, z
<1>3. a \in Byte /\ b \in Byte
  BY <1>1, <1>2
<1>4. \A w \in {2, 4, 8, 16, 32, 64, 128} : a \div w \in Int /\ b \div w \in Int
  BY <1>3 DEF Byte
<1>s. ASSUME NEW i \in 1 .. 8, NEW p \in Int, NEW q \in Int
      PROVE  (x[i] + 2 * p + (y[i] + 2 * q)) % 2 = z[i]
  <2>1. x[i] \in 0 .. 1 /\ y[i] \in 0 .. 1
    BY DEF EightBits
  <2>2. z[i] = AddBit(x[i], y[i])
    BY DEF z, AddBits
  <2> QED BY <2>1, <2>2, SumOfBits
<1>z. z[1] \in 0 .. 1 /\ z[8] = AddBit(x[8], y[8])
  BY AddTwice DEF z, EightBits, AddBits
<1>5. bit(1) = 1 * z[1]
  <2>1. (x[1] + 2 * (a \div 2) + (y[1] + 2 * (b \div 2))) % 2 = z[1]
    BY <1>4, <1>s
  <2>2. a \div 1 + b \div 1 = x[1] + 2 * (a \div 2) + (y[1] + 2 * (b \div 2))
    BY <1>1, <1>2
  <2> QED BY <2>1, <2>2
<1>6. bit(2) = 2 * z[2]
  <2>1. (x[2] + 2 * (a \div 4) + (y[2] + 2 * (b \div 4))) % 2 = z[2]
    BY <1>4, <1>s
  <2>2. a \div 2 + b \div 2 = x[2] + 2 * (a \div 4) + (y[2] + 2 * (b \div 4))
    BY <1>1, <1>2
  <2> QED BY <2>1, <2>2
<1>7. bit(4) = 4 * z[3]
  <2>1. (x[3] + 2 * (a \div 8) + (y[3] + 2 * (b \div 8))) % 2 = z[3]
    BY <1>4, <1>s
  <2>2. a \div 4 + b \div 4 = x[3] + 2 * (a \div 8) + (y[3] + 2 * (b \div 8))
    BY <1>1, <1>2
  <2> QED BY <2>1, <2>2
<1>8. bit(8) = 8 * z[4]
  <2>1. (x[4] + 2 * (a \div 16) + (y[4] + 2 * (b \div 16))) % 2 = z[4]
    BY <1>4, <1>s
  <2>2. a \div 8 + b \div 8 = x[4] + 2 * (a \div 16) + (y[4] + 2 * (b \div 16))
    BY <1>1, <1>2
  <2> QED BY <2>1, <2>2
<1>9. bit(16) = 16 * z[5]
  <2>1. (x[5] + 2 * (a \div 32) + (y[5] + 2 * (b \div 32))) % 2 = z[5]
    BY <1>4, <1>s
  <2>2. a \div 16 + b \div 16 = x[5] + 2 * (a \div 32) + (y[5] + 2 * (b \div 32))
    BY <1>1, <1>2
  <2> QED BY <2>1, <2>2
<1>10. bit(32) = 32 * z[6]
  <2>1. (x[6] + 2 * (a \div 64) + (y[6] + 2 * (b \div 64))) % 2 = z[6]
    BY <1>4, <1>s
  <2>2. a \div 32 + b \div 32 = x[6] + 2 * (a \div 64) + (y[6] + 2 * (b \div 64))
    BY <1>1, <1>2
  <2> QED BY <2>1, <2>2
<1>11. bit(64) = 64 * z[7]
  <2>1. (x[7] + 2 * (a \div 128) + (y[7] + 2 * (b \div 128))) % 2 = z[7]
    BY <1>4, <1>s
  <2>2. a \div 64 + b \div 64 = x[7] + 2 * (a \div 128) + (y[7] + 2 * (b \div 128))
    BY <1>1, <1>2
  <2> QED BY <2>1, <2>2
<1>12. bit(128) = 128 * z[8]
  BY <1>1, <1>2, <1>z DEF AddBit
<1>13. Xor(a, b) = bit(1) + bit(2) + bit(4) + bit(8) + bit(16) + bit(32) + bit(64) + bit(128)
  BY DEF Xor
<1> HIDE DEF bit
<1>14. Xor(a, b) = Weighed(z)
  BY <1>5, <1>6, <1>7, <1>8, <1>9, <1>10, <1>11, <1>12, <1>13, <1>z DEF Weighed
<1> QED BY <1>14 DEF a, b, z

(* What was or-ed with b twice is there again *)
LEMMA XorTwice ==
    ASSUME NEW a \in Byte, NEW b \in Byte
    PROVE  Xor(a, b) \in Byte /\ Xor(Xor(a, b), b) = a
<1>1. PICK x \in EightBits : a = Weighed(x)
  BY BitsOfByte
<1>2. PICK y \in EightBits : b = Weighed(y)
  BY BitsOfByte
<1> DEFINE z == AddBits(x, y)
<1>3. z \in EightBits /\ AddBits(z, y) = x
  BY AddTwice
<1>4. Xor(a, b) = Weighed(z)
  BY <1>1, <1>2, XorOfBits
<1> HIDE DEF z
<1>5. Xor(Xor(a, b), b) = Weighed(AddBits(z, y))
  BY <1>2, <1>3, <1>4, XorOfBits
<1>6. Weighed(z) \in Byte
  BY <1>3, WeighedParts
<1> QED BY <1>1, <1>3, <1>4, <1>5, <1>6

(* The part of a sequence from a to c, written out *)
LEMMA PartWrittenOut ==
    ASSUME NEW s \in Seq(Byte), NEW a \in Nat \ {0}, NEW c \in Nat, a <= c + 1, c <= Len(s)
    PROVE  /\ SubSeq(s, a, c) = [i \in 1 .. c - a + 1 |-> s[a + i - 1]]
           /\ SubSeq(s, a, c) \in Seq(Byte) /\ Len(SubSeq(s, a, c)) = c - a + 1
<1> DEFINE t == SubSeq(s, a, c)
<1>1. a \in Int /\ c \in Int /\ \A i \in a .. c : s[i] \in Byte
  <2>1. \A i \in 1 .. Len(s) : s[i] \in Byte
    BY ElementOfSeq
  <2> QED BY <2>1
<1>2. /\ t \in Seq(Byte) /\ Len(t) = IF a <= c THEN c - a + 1 ELSE 0
      /\ \A i \in 1 .. c - a + 1 : t[i] = s[a + i - 1]
  BY <1>1, SubSeqProperties
<1> HIDE DEF t
<1>3. Len(t) = c - a + 1
  BY <1>2
<1>4. t = [i \in 1 .. c - a + 1 |-> t[i]]
  BY <1>2, <1>3
<1> QED BY <1>2, <1>3, <1>4 DEF t

(* The number of blocks s fills, its k-th block, and that of a sequence of *)
(* full blocks                                                             *)
BlockCount(s) == (Len(s) + 15) \div 16
ByteOr0(s, j) == IF j <= Len(s) THEN s[j] ELSE 0
BlockOf(s, k) == [i \in 1 .. 16 |-> ByteOr0(s, (k - 1) * 16 + i)]
BlockAt(s, k) == SubSeq(s, 16 * k - 15, 16 * k)

LEMMA BlocksAre ==
    ASSUME NEW s \in Seq(Byte)
    PROVE  /\ BlockCount(s) \in Nat /\ Len(Blocks(s)) = BlockCount(s)
           /\ \A k \in 1 .. BlockCount(s) : Blocks(s)[k] = BlockOf(s, k) /\ BlockOf(s, k) \in Block
<1> DEFINE n == BlockCount(s)
<1>1. Len(s) \in Nat
  OBVIOUS
<1>2. n \in Nat /\ (Len(s) + ccmBlockSize - 1) \div ccmBlockSize = n
  BY <1>1 DEF BlockCount, ccmBlockSize
<1>3. Blocks(s) = [k \in 1 .. n |-> BlockOf(s, k)]
  BY <1>2 DEF Blocks, BlockOf, ByteOr0, ccmBlockSize
<1> HIDE DEF n
<1>4. ASSUME NEW k \in 1 .. n PROVE BlockOf(s, k) \in Block
  <2>1. ASSUME NEW j \in Nat \ {0} PROVE ByteOr0(s, j) \in Byte
    <3>1. CASE j <= Len(s)
      <4>1. j \in 1 .. Len(s)
        BY <1>1, <3>1
      <4>2. s[j] \in Byte
        BY <4>1, ElementOfSeq
      <4> QED BY <3>1, <4>2 DEF ByteOr0
    <3>2. CASE ~(j <= Len(s))
      BY <3>2 DEF ByteOr0, Byte
    <3> QED BY <3>1, <3>2
  <2>2. \A i \in 1 .. 16 : (k - 1) * 16 + i \in Nat \ {0}
    BY <1>2
  <2>3. \A i \in 1 .. 16 : ByteOr0(s, (k - 1) * 16 + i) \in Byte
    BY <2>1, <2>2
  <2> QED BY <2>3 DEF BlockOf, Block, ccmBlockSize
<1> QED BY <1>2, <1>3, <1>4 DEF n

LEMMA ZerosAre ==
    ASSUME NEW n \in Nat
    PROVE  Zeros(n) \in Seq(Byte) /\ Len(Zeros(n)) = n /\ \A i \in 1 .. n : Zeros(n)[i] = 0
<1>1. 0 \in Byte
  BY DEF Byte
<1> QED BY <1>1 DEF Zeros

(* A sequence with zeros behind it *)
LEMMA WithZeros ==
    ASSUME NEW s \in Seq(Byte), NEW n \in Nat
    PROVE  /\ s \o Zeros(n) \in Seq(Byte) /\ Len(s \o Zeros(n)) = Len(s) + n
           /\ \A j \in 1 .. Len(s) + n : (s \o Zeros(n))[j] = ByteOr0(s, j)
<1> DEFINE z == Zeros(n)
           l == Len(s)
<1>1. z \in Seq(Byte) /\ Len(z) = n /\ \A i \in 1 .. n : z[i] = 0
  BY ZerosAre
<1>2. l \in Nat
  OBVIOUS
<1> HIDE DEF z
<1>3. s \o z \in Seq(Byte) /\ Len(s \o z) = l + n
  BY <1>1, ConcatLength
<1>4. /\ \A i \in 1 .. l : (s \o z)[i] = s[i]
      /\ \A i \in l + 1 .. l + n : (s \o z)[i] = z[i - l]
  BY <1>1, ConcatElement
<1>5. ASSUME NEW j \in 1 .. l + n PROVE (s \o z)[j] = ByteOr0(s, j)
  <2>1. CASE j <= l
    BY <1>2, <1>4, <2>1 DEF ByteOr0
  <2>2. CASE ~(j <= l)
    <3>1. j \in l + 1 .. l + n /\ j - l \in 1 .. n
      BY <1>2, <2>2
    <3> QED BY <1>1, <1>4, <2>2, <3>1 DEF ByteOr0
  <2> QED BY <2>1, <2>2
<1> QED BY <1>3, <1>5 DEF z

(* Filled with zeros, s has the blocks the code cuts it into *)
LEMMA PaddedBlocks ==
    ASSUME NEW s \in Seq(Byte)
    PROVE  /\ Padded(s) \in Seq(Byte) /\ Len(Padded(s)) = 16 * BlockCount(s)
           /\ \A k \in 1 .. BlockCount(s) : BlockAt(Padded(s), k) = BlockOf(s, k)
<1> DEFINE l == Len(s)
           m == (16 - (l % 16)) % 16
           n == BlockCount(s)
           p == Padded(s)
<1>1. l \in Nat
  OBVIOUS
<1>2. m \in Nat /\ n \in Nat /\ l + m = 16 * n
  BY <1>1 DEF BlockCount
<1>3. p = s \o Zeros(m)
  BY DEF Padded, ccmBlockSize
<1> HIDE DEF p, m
<1>4. p \in Seq(Byte) /\ Len(p) = l + m /\ \A j \in 1 .. l + m : p[j] = ByteOr0(s, j)
  BY <1>2, <1>3, WithZeros
<1> HIDE DEF l, n
<1>5. ASSUME NEW k \in 1 .. n PROVE BlockAt(p, k) = BlockOf(s, k)
  <2> DEFINE a == 16 * k - 15
             c == 16 * k
  <2>1. a \in Nat \ {0} /\ c \in Nat /\ a <= c + 1 /\ c <= Len(p) /\ c - a + 1 = 16
    BY <1>2, <1>4
  <2>2. \A i \in 1 .. 16 : a + i - 1 = (k - 1) * 16 + i /\ a + i - 1 \in 1 .. l + m
    BY <1>2
  <2> HIDE DEF a, c
  <2>3. SubSeq(p, a, c) = [i \in 1 .. c - a + 1 |-> p[a + i - 1]]
    BY <1>4, <2>1, PartWrittenOut
  <2>4. SubSeq(p, a, c) = [i \in 1 .. 16 |-> p[a + i - 1]]
    BY <2>1, <2>3
  <2>5. \A i \in 1 .. 16 : p[a + i - 1] = ByteOr0(s, (k - 1) * 16 + i)
    BY <1>4, <2>2
  <2> QED BY <2>4, <2>5 DEF BlockAt, BlockOf, a, c
<1> QED BY <1>2, <1>4, <1>5 DEF l, n, p

(* n full blocks, and q of them behind p others *)
FullBlocks(s, n) == s \in Seq(Byte) /\ n \in Nat /\ Len(s) = 16 * n
FollowEachOther(g, e, f, p, q) ==
    /\ \A k \in 1 .. p : BlockAt(g, k) = BlockAt(e, k)
    /\ \A k \in 1 .. q : BlockAt(g, p + k) = BlockAt(f, k)

LEMMA BlockBehind ==
    ASSUME NEW e, NEW f, NEW p, NEW q, FullBlocks(e, p), FullBlocks(f, q)
    PROVE  FullBlocks(e \o f, p + q) /\ FollowEachOther(e \o f, e, f, p, q)
<1> DEFINE g == e \o f
<1>0. /\ e \in Seq(Byte) /\ f \in Seq(Byte) /\ p \in Nat /\ q \in Nat
      /\ Len(e) = 16 * p /\ Len(f) = 16 * q
  BY DEF FullBlocks
<1>1. g \in Seq(Byte) /\ Len(g) = 16 * (p + q)
  <2>1. g \in Seq(Byte) /\ Len(g) = Len(e) + Len(f)
    BY <1>0, ConcatLength
  <2> QED BY <1>0, <2>1
<1>2. /\ \A i \in 1 .. Len(e) : g[i] = e[i]
      /\ \A i \in Len(e) + 1 .. Len(e) + Len(f) : g[i] = f[i - Len(e)]
  <2>1. e \in Seq(Byte) /\ f \in Seq(Byte)
    BY <1>0
  <2> QED BY <2>1, ConcatElement
<1> HIDE DEF g
<1>3. ASSUME NEW s \in Seq(Byte), NEW n \in Nat, Len(s) = 16 * n, NEW k \in 1 .. n
      PROVE  BlockAt(s, k) = [i \in 1 .. 16 |-> s[16 * k - 15 + i - 1]]
  <2> DEFINE a == 16 * k - 15
             c == 16 * k
  <2>1. a \in Nat \ {0} /\ c \in Nat /\ a <= c + 1 /\ c <= Len(s) /\ c - a + 1 = 16
    BY <1>3
  <2> HIDE DEF a, c
  <2>2. SubSeq(s, a, c) = [i \in 1 .. c - a + 1 |-> s[a + i - 1]]
    BY <2>1, PartWrittenOut
  <2>3. SubSeq(s, a, c) = [i \in 1 .. 16 |-> s[a + i - 1]]
    BY <2>1, <2>2
  <2> QED BY <2>3 DEF BlockAt, a, c
<1>4. ASSUME NEW k \in 1 .. p PROVE BlockAt(g, k) = BlockAt(e, k)
  <2>1. \A i \in 1 .. 16 : 16 * k - 15 + i - 1 \in 1 .. Len(e)
    BY <1>0
  <2>2. p + q \in Nat /\ k \in 1 .. p + q
    BY <1>0
  <2>3. BlockAt(g, k) = [i \in 1 .. 16 |-> g[16 * k - 15 + i - 1]]
    BY <1>0, <1>1, <1>3, <2>2
  <2>4. BlockAt(e, k) = [i \in 1 .. 16 |-> e[16 * k - 15 + i - 1]]
    BY <1>0, <1>3
  <2> QED BY <1>0, <1>2, <2>1, <2>3, <2>4
<1>5. ASSUME NEW k \in 1 .. q PROVE BlockAt(g, p + k) = BlockAt(f, k)
  <2>1. \A i \in 1 .. 16 : /\ 16 * (p + k) - 15 + i - 1 \in Len(e) + 1 .. Len(e) + Len(f)
                           /\ 16 * (p + k) - 15 + i - 1 - Len(e) = 16 * k - 15 + i - 1
    BY <1>0
  <2>2. p + q \in Nat /\ p + k \in 1 .. p + q
    BY <1>0
  <2>3. BlockAt(g, p + k) = [i \in 1 .. 16 |-> g[16 * (p + k) - 15 + i - 1]]
    BY <1>0, <1>1, <1>3, <2>2
  <2>4. BlockAt(f, k) = [i \in 1 .. 16 |-> f[16 * k - 15 + i - 1]]
    BY <1>0, <1>3
  <2>5. \A i \in 1 .. 16 : g[16 * (p + k) - 15 + i - 1] = f[16 * k - 15 + i - 1]
    <3> SUFFICES ASSUME NEW i \in 1 .. 16 PROVE g[16 * (p + k) - 15 + i - 1] = f[16 * k - 15 + i - 1]
      OBVIOUS
    <3> DEFINE j == 16 * (p + k) - 15 + i - 1
    <3>1. j \in Len(e) + 1 .. Len(e) + Len(f) /\ j - Len(e) = 16 * k - 15 + i - 1
      BY <1>0, <2>1
    <3> HIDE DEF j
    <3>2. g[j] = f[j - Len(e)]
      BY <1>2, <3>1
    <3> QED BY <3>1, <3>2 DEF j
  <2> QED BY <2>3, <2>4, <2>5
<1>6. p + q \in Nat
  BY <1>0
<1> QED BY <1>1, <1>4, <1>5, <1>6 DEF FullBlocks, FollowEachOther, g

(* The macs over a table of blocks, from m on *)
Macs(f, m, table, n) == f = [k \in 0 .. n |-> IF k = 0 THEN m ELSE cbcRound(f[k - 1], table[k])]

LEMMA MacsExist ==
    ASSUME NEW m, NEW table, NEW n \in Nat
    PROVE  \E f : Macs(f, m, table, n)
<1> DEFINE S == {j \in Nat : \E f : Macs(f, m, table, j)}
<1>1. 0 \in S
  <2> DEFINE f == [k \in 0 .. 0 |-> m]
  <2>1. f = [k \in 0 .. 0 |-> IF k = 0 THEN m ELSE cbcRound(f[k - 1], table[k])]
    OBVIOUS
  <2> HIDE DEF f
  <2>2. Macs(f, m, table, 0)
    BY <2>1 DEF Macs
  <2> QED BY <2>2
<1>2. ASSUME NEW j \in S PROVE j + 1 \in S
  <2>1. PICK f : Macs(f, m, table, j)
    OBVIOUS
  <2>j. j \in Nat
    OBVIOUS
  <2> DEFINE g == [k \in 0 .. j + 1 |-> IF k = j + 1 THEN cbcRound(f[j], table[j + 1]) ELSE f[k]]
  <2>2. \A k \in 0 .. j : f[k] = IF k = 0 THEN m ELSE cbcRound(f[k - 1], table[k])
    BY <2>1 DEF Macs
  <2>3. ASSUME NEW k \in 0 .. j + 1 PROVE g[k] = IF k = 0 THEN m ELSE cbcRound(g[k - 1], table[k])
    <3>1. CASE k = j + 1
      <4>1. k # 0 /\ k - 1 = j /\ j \in 0 .. j + 1 /\ j # j + 1
        BY <3>1, <2>j
      <4>2. g[k - 1] = f[j] /\ g[k] = cbcRound(f[j], table[j + 1])
        BY <3>1, <4>1
      <4> HIDE DEF g
      <4> QED BY <3>1, <4>1, <4>2
    <3>2. CASE k # j + 1 /\ k # 0
      <4>1. k \in 0 .. j /\ k - 1 \in 0 .. j + 1 /\ k - 1 # j + 1
        BY <3>2, <2>j
      <4>2. g[k - 1] = f[k - 1] /\ g[k] = f[k]
        BY <3>2, <4>1
      <4> HIDE DEF g
      <4> QED BY <2>2, <3>2, <4>1, <4>2
    <3>3. CASE k # j + 1 /\ k = 0
      <4>1. 0 \in 0 .. j /\ g[k] = f[0]
        BY <3>3, <2>j
      <4> HIDE DEF g
      <4> QED BY <2>2, <3>3, <4>1
    <3> QED BY <3>1, <3>2, <3>3
  <2>4. g = [k \in 0 .. j + 1 |-> g[k]]
    OBVIOUS
  <2> HIDE DEF g
  <2>5. Macs(g, m, table, j + 1)
    BY <2>3, <2>4 DEF Macs
  <2> QED BY <2>5, <2>j
<1>3. S = Nat
  <2> HIDE DEF S
  <2>1. S \subseteq Nat
    BY DEF S
  <2> QED BY <1>1, <1>2, <2>1, Induction
<1> QED BY <1>3

LEMMA CbcDataIs ==
    ASSUME NEW s \in Seq(Byte), NEW m
    PROVE  \E f : Macs(f, m, Blocks(s), BlockCount(s)) /\ cbcData(m, s) = f[BlockCount(s)]
<1> DEFINE table == Blocks(s)
           n == BlockCount(s)
           f == CHOOSE g : g = [k \in 0 .. Len(table) |-> IF k = 0 THEN m ELSE cbcRound(g[k - 1], table[k])]
<1>1. Len(table) = n /\ n \in Nat
  BY BlocksAre
<1>2. cbcData(m, s) = f[Len(table)]
  BY DEF cbcData
<1> HIDE DEF table, n
<1>3. \E g : g = [k \in 0 .. n |-> IF k = 0 THEN m ELSE cbcRound(g[k - 1], table[k])]
  <2>1. \E g : Macs(g, m, table, n)
    BY <1>1, MacsExist
  <2> QED BY <2>1 DEF Macs
<1>4. f = [k \in 0 .. Len(table) |-> IF k = 0 THEN m ELSE cbcRound(f[k - 1], table[k])]
  BY <1>1, <1>3, Zenon
<1> HIDE DEF f
<1>5. Macs(f, m, table, n)
  BY <1>1, <1>4, Zenon DEF Macs
<1> QED BY <1>1, <1>2, <1>5 DEF table, n

(* cbcData takes h, which follows the blocks of s, from one place to where *)
(* they end                                                                *)
LEMMA CbcFollows ==
    ASSUME NEW s \in Seq(Byte), NEW h, NEW p \in Nat,
           \A k \in 1 .. BlockCount(s) : h[p + k] = cbcRound(h[p + k - 1], BlockOf(s, k))
    PROVE  cbcData(h[p], s) = h[p + BlockCount(s)]
<1> DEFINE n == BlockCount(s)
<1>1. PICK f : Macs(f, h[p], Blocks(s), n) /\ cbcData(h[p], s) = f[n]
  BY CbcDataIs
<1>2. n \in Nat /\ \A k \in 1 .. n : Blocks(s)[k] = BlockOf(s, k)
  BY BlocksAre
<1> HIDE DEF n
<1>3. f[0] = h[p] /\ \A k \in 1 .. n : f[k] = cbcRound(f[k - 1], BlockOf(s, k))
  <2>1. \A k \in 0 .. n : f[k] = IF k = 0 THEN h[p] ELSE cbcRound(f[k - 1], Blocks(s)[k])
    BY <1>1 DEF Macs
  <2>2. 0 \in 0 .. n /\ \A k \in 1 .. n : k \in 0 .. n /\ k # 0
    BY <1>2
  <2> QED BY <1>2, <2>1, <2>2
<1> DEFINE S == {k \in Nat : k <= n => f[k] = h[p + k]}
<1>4. 0 \in S
  BY <1>3
<1>5. ASSUME NEW k \in S PROVE k + 1 \in S
  <2> SUFFICES ASSUME k + 1 <= n PROVE f[k + 1] = h[p + (k + 1)]
    OBVIOUS
  <2>1. k + 1 \in 1 .. n /\ (k + 1) - 1 = k /\ p + (k + 1) - 1 = p + k /\ k <= n
    BY <1>2
  <2>2. f[k] = h[p + k]
    BY <2>1
  <2>3. f[k + 1] = cbcRound(f[(k + 1) - 1], BlockOf(s, k + 1))
    BY <1>3, <2>1
  <2>4. h[p + (k + 1)] = cbcRound(h[p + (k + 1) - 1], BlockOf(s, k + 1))
    BY <2>1 DEF n
  <2> QED BY <2>1, <2>2, <2>3, <2>4
<1>6. S = Nat
  <2> HIDE DEF S
  <2>1. S \subseteq Nat
    BY DEF S
  <2> QED BY <1>4, <1>5, <2>1, Induction
<1>7. f[n] = h[p + n]
  BY <1>2, <1>6
<1> QED BY <1>1, <1>7 DEF n

LEMMA RoundIsBlock ==
    ASSUME CipherOnBlocks, NEW m \in Block, NEW b \in Block
    PROVE  cbcRound(m, b) \in Block
<1>1. ASSUME NEW i \in 1 .. 16 PROVE Xor(m[i], b[i]) \in Byte
  <2>1. m[i] \in Byte /\ b[i] \in Byte
    BY DEF Block, ccmBlockSize
  <2> QED BY <2>1, XorTwice
<1>2. Xor2(m, b) = [i \in 1 .. 16 |-> Xor(m[i], b[i])]
  <2>1. DOMAIN m = 1 .. 16
    BY DEF Block, ccmBlockSize
  <2> QED BY <2>1 DEF Xor2
<1>3. Xor2(m, b) \in Block
  BY <1>1, <1>2 DEF Block, ccmBlockSize
<1> QED BY <1>3 DEF cbcRound, CipherOnBlocks

LEMMA CbcIsBlock ==
    ASSUME CipherOnBlocks, NEW s \in Seq(Byte), NEW m \in Block
    PROVE  cbcData(m, s) \in Block
<1> DEFINE n == BlockCount(s)
<1>1. PICK f : Macs(f, m, Blocks(s), n) /\ cbcData(m, s) = f[n]
  BY CbcDataIs
<1>2. n \in Nat /\ \A k \in 1 .. n : Blocks(s)[k] \in Block
  BY BlocksAre
<1> HIDE DEF n
<1>3. \A k \in 0 .. n : f[k] = IF k = 0 THEN m ELSE cbcRound(f[k - 1], Blocks(s)[k])
  BY <1>1 DEF Macs
<1> DEFINE S == {k \in Nat : k <= n => f[k] \in Block}
<1>4. 0 \in S
  <2>1. 0 \in 0 .. n
    BY <1>2
  <2> QED BY <1>3, <2>1
<1>5. ASSUME NEW k \in S PROVE k + 1 \in S
  <2> SUFFICES ASSUME k + 1 <= n PROVE f[k + 1] \in Block
    OBVIOUS
  <2>1. k + 1 \in 1 .. n /\ k + 1 \in 0 .. n /\ k + 1 # 0 /\ (k + 1) - 1 = k /\ k <= n
    BY <1>2
  <2>2. f[k] \in Block /\ Blocks(s)[k + 1] \in Block
    BY <1>2, <2>1
  <2>3. f[k + 1] = cbcRound(f[k], Blocks(s)[k + 1])
    BY <1>3, <2>1
  <2> QED BY <2>2, <2>3, RoundIsBlock
<1>6. S = Nat
  <2> HIDE DEF S
  <2>1. S \subseteq Nat
    BY DEF S
  <2> QED BY <1>4, <1>5, <2>1, Induction
<1> QED BY <1>1, <1>2, <1>6

(* X of RFC 3610 over the blocks of s *)
LEMMA RfcMacsOfBlocks ==
    ASSUME NEW s \in Seq(Byte), NEW n \in Nat \ {0}, Len(s) = 16 * n
    PROVE  /\ RfcMacs(s)[1] = Encrypt(BlockAt(s, 1))
           /\ \A i \in 2 .. n : RfcMacs(s)[i] = cbcRound(RfcMacs(s)[i - 1], BlockAt(s, i))
<1> DEFINE m == Encrypt(SubSeq(s, 1, 16))
           table == [k \in 1 .. n |-> BlockAt(s, k + 1)]
           Eq(X) == X = [i \in 1 .. Len(s) \div 16 |->
                           IF i = 1 THEN Encrypt(SubSeq(s, 1, 16))
                           ELSE Encrypt(Xor2(X[i - 1], SubSeq(s, 16 * i - 15, 16 * i)))]
<1>1. Len(s) \div 16 = n
  OBVIOUS
<1>2. n - 1 \in Nat
  OBVIOUS
<1>3. PICK f : Macs(f, m, table, n - 1)
  BY <1>2, MacsExist
<1> DEFINE g == [i \in 1 .. n |-> f[i - 1]]
<1>4. ASSUME NEW i \in 1 .. n
      PROVE  g[i] = IF i = 1 THEN Encrypt(SubSeq(s, 1, 16))
                    ELSE Encrypt(Xor2(g[i - 1], SubSeq(s, 16 * i - 15, 16 * i)))
  <2>0. \A k \in 0 .. n - 1 : f[k] = IF k = 0 THEN m ELSE cbcRound(f[k - 1], table[k])
    BY <1>3 DEF Macs
  <2>1. CASE i = 1
    <3>1. 0 \in 0 .. n - 1 /\ g[i] = f[0]
      BY <1>2, <2>1
    <3> HIDE DEF g, table
    <3> QED BY <2>0, <2>1, <3>1
  <2>2. CASE i # 1
    <3>1. i - 1 \in 0 .. n - 1 /\ i - 1 # 0 /\ i - 1 \in 1 .. n /\ (i - 1) + 1 = i
      BY <2>2
    <3>2. g[i] = f[i - 1] /\ g[i - 1] = f[(i - 1) - 1] /\ table[i - 1] = BlockAt(s, i)
      BY <3>1
    <3> HIDE DEF g, table
    <3>3. f[i - 1] = cbcRound(f[(i - 1) - 1], table[i - 1])
      BY <2>0, <3>1
    <3> QED BY <2>2, <3>2, <3>3 DEF cbcRound, BlockAt
  <2> QED BY <2>1, <2>2
<1>5. g = [i \in 1 .. n |-> g[i]]
  OBVIOUS
<1> HIDE DEF g
<1>6. Eq(g)
  BY <1>1, <1>4, <1>5
<1> DEFINE X == RfcMacs(s)
<1>7. X = CHOOSE Y : Eq(Y)
  BY DEF RfcMacs
<1> HIDE DEF X
<1>8. Eq(X)
  <2> HIDE DEF Eq
  <2> QED BY <1>6, <1>7, Zenon
<1>9. \A i \in 1 .. n : X[i] = IF i = 1 THEN Encrypt(SubSeq(s, 1, 16))
                               ELSE Encrypt(Xor2(X[i - 1], SubSeq(s, 16 * i - 15, 16 * i)))
  BY <1>1, <1>8
<1>10. X[1] = Encrypt(BlockAt(s, 1))
  <2>1. 1 \in 1 .. n /\ 16 * 1 - 15 = 1 /\ 16 * 1 = 16
    OBVIOUS
  <2> QED BY <1>9, <2>1 DEF BlockAt
<1>11. ASSUME NEW i \in 2 .. n PROVE X[i] = cbcRound(X[i - 1], BlockAt(s, i))
  <2>1. i \in 1 .. n /\ i # 1
    OBVIOUS
  <2> QED BY <1>9, <2>1 DEF BlockAt, cbcRound
<1> QED BY <1>10, <1>11 DEF X

LEMMA BigEndianBytes ==
    ASSUME NEW n \in Nat, NEW v \in Int
    PROVE  BigEndian(n, v) \in Seq(Byte) /\ Len(BigEndian(n, v)) = n
<1> DEFINE d == DigitsOf(v, 256, n)
<1>1. d \in Seq(Byte) /\ Len(d) = n
  <2>1. 256 \in Nat \ {0} /\ 0 .. 256 - 1 = 0 .. 255
    OBVIOUS
  <2> DEFINE base == 256
  <2>b. base \in Nat \ {0}
    BY <2>1
  <2> HIDE DEF base
  <2>d. DigitsOf(v, base, n) \in Seq(0 .. base - 1) /\ Len(DigitsOf(v, base, n)) = n
    BY <2>b, DigitsType
  <2>2. d \in Seq(0 .. 256 - 1) /\ Len(d) = n
    BY <2>d, Zenon DEF base
  <2> HIDE DEF d
  <2> QED BY <2>1, <2>2 DEF Byte
<1> HIDE DEF d
<1>2. BigEndian(n, v) = [i \in 1 .. n |-> d[(n - i) + 1]]
  BY <1>1 DEF BigEndian, Reverse, d
<1>3. ASSUME NEW i \in 1 .. n PROVE d[(n - i) + 1] \in Byte
  <2>1. (n - i) + 1 \in 1 .. Len(d)
    BY <1>1
  <2> QED BY <1>1, <2>1, ElementOfSeq
<1> QED BY <1>2, <1>3

(* A byte, a nonce and a number in the rest of a block *)
NonceSize == 7 .. 13

LEMMA FirstBlockBytes ==
    ASSUME NEW nonce \in Seq(Byte), Len(nonce) \in NonceSize, NEW b \in Byte, NEW v \in Int
    PROVE  LET s == <<b>> \o nonce \o BigEndian(L(nonce), v) IN s \in Seq(Byte) /\ Len(s) = 16 /\ s \in Block
<1> DEFINE c == BigEndian(L(nonce), v)
           d == <<b>> \o nonce
           s == d \o c
<1>1. c \in Seq(Byte) /\ Len(c) = 15 - Len(nonce)
  <2>1. L(nonce) \in Nat /\ L(nonce) = 15 - Len(nonce)
    <3> DEFINE k == Len(nonce)
    <3>1. k \in 7 .. 13
      BY DEF NonceSize
    <3>2. L(nonce) = 15 - k
      BY DEF L
    <3> HIDE DEF k
    <3>3. 15 - k \in Nat
      BY <3>1
    <3> QED BY <3>2, <3>3 DEF k
  <2> QED BY <2>1, BigEndianBytes
<1>2. d \in Seq(Byte) /\ Len(d) = 1 + Len(nonce)
  <2>1. <<b>> \in Seq(Byte) /\ Len(<<b>>) = 1
    OBVIOUS
  <2> QED BY <2>1, ConcatLength
<1> HIDE DEF c, d
<1>3. s \in Seq(Byte) /\ Len(s) = 16
  <2>1. s \in Seq(Byte) /\ Len(s) = Len(d) + Len(c)
    BY <1>1, <1>2, ConcatLength
  <2> QED BY <1>1, <1>2, <2>1 DEF NonceSize
<1> HIDE DEF s
<1>4. s \in Block
  <2>1. s \in [1 .. 16 -> Byte]
    <3>1. s = [i \in 1 .. 16 |-> s[i]]
      BY <1>3
    <3>2. \A i \in 1 .. 16 : s[i] \in Byte
      BY <1>3, ElementOfSeq
    <3> QED BY <3>1, <3>2
  <2> QED BY <2>1 DEF Block, ccmBlockSize
<1> QED BY <1>3, <1>4 DEF s, c, d

(* The additional data, with their length in front: the first block of the *)
(* code and the blocks of what it leaves                                   *)
LEMMA AdditionalBlocks ==
    ASSUME NEW a \in Seq(Byte), a # <<>>
    PROVE  LET c == BigEndian(2, Len(a)) \o a
               rest == SubSeq(a, ccmBlockSize - 1, Len(a))
           IN /\ c \in Seq(Byte) /\ rest \in Seq(Byte)
              /\ BlockCount(c) = 1 + BlockCount(rest) /\ BlockCount(rest) \in Nat
              /\ firstBlock(a) = BlockOf(c, 1)
              /\ \A k \in 1 .. BlockCount(rest) : BlockOf(rest, k) = BlockOf(c, 1 + k)
<1> DEFINE l == Len(a)
           size == BigEndian(2, l)
           c == size \o a
           rest == SubSeq(a, 15, l)
<1>1. l \in Nat /\ l >= 1
  BY EmptySeq
<1>2. size \in Seq(Byte) /\ Len(size) = 2
  <2>1. 2 \in Nat /\ l \in Int
    BY <1>1
  <2> HIDE DEF l
  <2> QED BY <2>1, BigEndianBytes
<1> HIDE DEF size
<1>3. c \in Seq(Byte) /\ Len(c) = 2 + l
  <2>1. c \in Seq(Byte) /\ Len(c) = Len(size) + Len(a)
    BY <1>2, ConcatLength
  <2> QED BY <1>2, <2>1
<1>4. \A j \in 3 .. 2 + l : c[j] = a[j - 2]
  <2>1. \A i \in Len(size) + 1 .. Len(size) + Len(a) : c[i] = a[i - Len(size)]
    BY <1>2, ConcatElement
  <2> HIDE DEF c
  <2> QED BY <1>2, <2>1
<1> HIDE DEF c
<1>5. rest \in Seq(Byte) /\ Len(rest) = IF l >= 14 THEN l - 14 ELSE 0
  <2>1. CASE l >= 14
    <3>1. 15 \in Nat \ {0} /\ 15 <= l + 1 /\ l <= Len(a) /\ l - 15 + 1 = l - 14
      BY <1>1, <2>1
    <3>2. rest \in Seq(Byte) /\ Len(rest) = l - 15 + 1
      BY <1>1, <3>1, PartWrittenOut
    <3> QED BY <2>1, <3>1, <3>2
  <2>2. CASE ~(l >= 14)
    <3>1. rest = <<>>
      BY <1>1, <2>2, SubSeqEmpty
    <3> QED BY <2>2, <3>1
  <2> QED BY <2>1, <2>2
<1>6. \A t \in 1 .. Len(rest) : rest[t] = a[t + 14]
  <2> SUFFICES ASSUME NEW t \in 1 .. Len(rest) PROVE rest[t] = a[t + 14]
    OBVIOUS
  <2>1. l >= 14 /\ 15 \in Nat \ {0} /\ 15 <= l + 1 /\ l <= Len(a) /\ t \in 1 .. l - 15 + 1 /\ 15 + t - 1 = t + 14
    BY <1>1, <1>5
  <2>2. rest = [i \in 1 .. l - 15 + 1 |-> a[15 + i - 1]]
    BY <1>1, <2>1, PartWrittenOut
  <2> HIDE DEF rest
  <2> QED BY <2>1, <2>2
<1> HIDE DEF rest
<1>7. BlockCount(c) = 1 + BlockCount(rest) /\ BlockCount(rest) \in Nat
  <2> DEFINE x == Len(rest)
             y == Len(c)
  <2>1. /\ x \in Nat /\ y \in Nat /\ l \in Nat /\ l >= 1 /\ y = 2 + l
        /\ l >= 14 => x = l - 14
        /\ ~(l >= 14) => x = 0
    BY <1>1, <1>3, <1>5
  <2> HIDE DEF x, y, l
  <2>2. (y + 15) \div 16 = 1 + (x + 15) \div 16 /\ (x + 15) \div 16 \in Nat
    BY <2>1
  <2> QED BY <2>2 DEF BlockCount, x, y
<1>8. firstBlock(a) = BlockOf(c, 1)
  <2> DEFINE z == c \o Zeros(16)
  <2>1. /\ z \in Seq(Byte) /\ Len(z) = 2 + l + 16
        /\ \A j \in 1 .. 2 + l + 16 : z[j] = ByteOr0(c, j)
    <3>1. c \in Seq(Byte) /\ 16 \in Nat
      BY <1>3
    <3>2. /\ z \in Seq(Byte) /\ Len(z) = Len(c) + 16
          /\ \A j \in 1 .. Len(c) + 16 : z[j] = ByteOr0(c, j)
      BY <3>1, WithZeros
    <3> HIDE DEF z
    <3> QED BY <1>3, <3>2
  <2>2. firstBlock(a) = SubSeq(z, 1, 16)
    BY DEF firstBlock, ccmBlockSize, c, size
  <2> HIDE DEF z
  <2>3. 1 \in Nat \ {0} /\ 16 \in Nat /\ 1 <= 16 + 1 /\ 16 <= Len(z) /\ 16 - 1 + 1 = 16
    BY <1>1, <2>1
  <2>4. SubSeq(z, 1, 16) = [i \in 1 .. 16 - 1 + 1 |-> z[1 + i - 1]]
    BY <2>1, <2>3, PartWrittenOut
  <2>5. \A i \in 1 .. 16 : 1 + i - 1 = (1 - 1) * 16 + i /\ 1 + i - 1 \in 1 .. 2 + l + 16
    BY <1>1
  <2>6. \A i \in 1 .. 16 : z[1 + i - 1] = ByteOr0(c, (1 - 1) * 16 + i)
    BY <2>1, <2>5
  <2> QED BY <2>2, <2>3, <2>4, <2>6 DEF BlockOf
<1>9. ASSUME NEW k \in 1 .. BlockCount(rest) PROVE BlockOf(rest, k) = BlockOf(c, 1 + k)
  <2> SUFFICES ASSUME NEW i \in 1 .. 16
               PROVE  ByteOr0(rest, (k - 1) * 16 + i) = ByteOr0(c, ((1 + k) - 1) * 16 + i)
    BY DEF BlockOf
  <2> DEFINE t == (k - 1) * 16 + i
             j == ((1 + k) - 1) * 16 + i
  <2>1. t \in Nat \ {0} /\ j = t + 16 /\ k \in Nat
    BY <1>7
  <2>k. l >= 14
    <3> DEFINE x == Len(rest)
    <3>1. x \in Nat /\ (~(l >= 14) => x = 0)
      BY <1>1, <1>5
    <3>2. (x + 15) \div 16 >= 1
      BY <1>7 DEF BlockCount
    <3> HIDE DEF x, l
    <3> QED BY <3>1, <3>2
  <2> HIDE DEF t, j
  <2>2. CASE t <= Len(rest)
    <3>1. t \in 1 .. Len(rest) /\ j \in 3 .. 2 + l /\ j - 2 = t + 14
      BY <1>1, <1>5, <2>1, <2>2, <2>k
    <3>2. rest[t] = c[j]
      BY <1>4, <1>6, <3>1
    <3> QED BY <1>3, <2>2, <3>1, <3>2 DEF ByteOr0, t, j
  <2>3. CASE ~(t <= Len(rest))
    <3>1. ~(j <= Len(c))
      BY <1>1, <1>3, <1>5, <2>1, <2>3, <2>k
    <3> QED BY <2>3, <3>1 DEF ByteOr0, t, j
  <2> QED BY <2>2, <2>3
<1>10. ccmBlockSize - 1 = 15
  BY DEF ccmBlockSize
<1> QED BY <1>3, <1>5, <1>7, <1>8, <1>9, <1>10 DEF c, rest, size

TagSize == {4, 6, 8, 10, 12, 14, 16}
Flags(nonce, a, M) == (IF a # <<>> THEN 64 ELSE 0) + (M - 2) * 4 + (L(nonce) - 1)
B0(nonce, m, a, M) == <<Flags(nonce, a, M)>> \o nonce \o BigEndian(L(nonce), Len(m))

(* The block that B_0 of RFC 3610 is *)
LEMMA FirstBlock ==
    ASSUME NEW nonce \in Seq(Byte), Len(nonce) \in NonceSize, NEW m \in Seq(Byte), NEW a, NEW M \in TagSize
    PROVE  LET s == B0(nonce, m, a, M) IN
           /\ s \in Seq(Byte) /\ Len(s) = 16 * 1 /\ s \in Block /\ BlockAt(s, 1) = s
           /\ Flags(nonce, a, M) = (IF a = <<>> THEN 0 ELSE 64) + 8 * ((M - 2) \div 2) + ((15 - Len(nonce)) - 1)
<1> DEFINE k == Len(nonce)
           f == Flags(nonce, a, M)
           s == B0(nonce, m, a, M)
<1>1. k \in 7 .. 13 /\ L(nonce) = 15 - k /\ Len(m) \in Int
  BY DEF NonceSize, L
<1>2. f \in Byte /\ f = (IF a = <<>> THEN 0 ELSE 64) + 8 * ((M - 2) \div 2) + ((15 - k) - 1)
  <2> HIDE DEF k
  <2>1. (M - 2) * 4 \in 8 .. 56 /\ 8 * ((M - 2) \div 2) = (M - 2) * 4
    BY DEF TagSize
  <2>2. f = (IF a # <<>> THEN 64 ELSE 0) + (M - 2) * 4 + ((15 - k) - 1)
    BY <1>1 DEF Flags
  <2> DEFINE x == (M - 2) * 4
             z == IF a # <<>> THEN 64 ELSE 0
  <2>3. x \in 8 .. 56 /\ z \in {0, 64} /\ f = z + x + ((15 - k) - 1) /\ z = IF a = <<>> THEN 0 ELSE 64
    BY <2>1, <2>2
  <2> HIDE DEF f, x, z
  <2>4. f \in Byte
    BY <1>1, <2>3 DEF Byte
  <2> QED BY <2>1, <2>3, <2>4 DEF x
<1> HIDE DEF f
<1>3. s \in Seq(Byte) /\ Len(s) = 16 /\ s \in Block
  <2>1. s = <<f>> \o nonce \o BigEndian(L(nonce), Len(m))
    BY DEF B0, f
  <2> HIDE DEF s
  <2> QED BY <1>1, <1>2, <2>1, FirstBlockBytes
<1> HIDE DEF s
<1>4. BlockAt(s, 1) = s
  <2>1. 1 \in Nat \ {0} /\ 16 \in Nat /\ 1 <= 16 + 1 /\ 16 <= Len(s) /\ 16 - 1 + 1 = 16 /\ 16 * 1 - 15 = 1 /\ 16 * 1 = 16
    BY <1>3
  <2>2. SubSeq(s, 1, 16) = [i \in 1 .. 16 - 1 + 1 |-> s[1 + i - 1]]
    BY <1>3, <2>1, PartWrittenOut
  <2>3. \A i \in 1 .. 16 : s[1 + i - 1] = s[i]
    OBVIOUS
  <2>4. s = [i \in 1 .. 16 |-> s[i]]
    BY <1>3
  <2> QED BY <2>1, <2>2, <2>3, <2>4 DEF BlockAt
<1> QED BY <1>2, <1>3, <1>4 DEF f, s, k

(* All blocks of RFC 3610 *)
AllBlocks(nonce, m, a, M) ==
    B0(nonce, m, a, M) \o (IF a = <<>> THEN <<>> ELSE Padded(BigEndian(2, Len(a)) \o a)) \o Padded(m)
HeaderCount(a) == IF a = <<>> THEN 0 ELSE BlockCount(BigEndian(2, Len(a)) \o a)

(* s consists of b, the p blocks of a and the q blocks of m *)
LaidOut(s, b, a, m, p, q) ==
    /\ p \in Nat /\ q \in Nat /\ s \in Seq(Byte) /\ Len(s) = 16 * (1 + p + q)
    /\ BlockAt(s, 1) = b
    /\ a # <<>> => \A k \in 1 .. p : BlockAt(s, 1 + k) = BlockOf(BigEndian(2, Len(a)) \o a, k)
    /\ \A k \in 1 .. q : BlockAt(s, 1 + p + k) = BlockOf(m, k)

LEMMA Layout ==
    ASSUME NEW nonce \in Seq(Byte), Len(nonce) \in NonceSize, NEW m \in Seq(Byte), NEW a \in Seq(Byte), NEW M \in TagSize
    PROVE  LaidOut(AllBlocks(nonce, m, a, M), B0(nonce, m, a, M), a, m, HeaderCount(a), BlockCount(m))
<1> DEFINE c == BigEndian(2, Len(a)) \o a
           b == B0(nonce, m, a, M)
           h == IF a = <<>> THEN <<>> ELSE Padded(c)
           t == Padded(m)
           s == AllBlocks(nonce, m, a, M)
           p == HeaderCount(a)
           q == BlockCount(m)
<1>1. b \in Seq(Byte) /\ Len(b) = 16 * 1 /\ BlockAt(b, 1) = b
  BY FirstBlock
<1>2. /\ p \in Nat /\ h \in Seq(Byte) /\ Len(h) = 16 * p
      /\ a # <<>> => \A k \in 1 .. p : BlockAt(h, k) = BlockOf(c, k)
  <2>1. CASE a = <<>>
    <3>1. h = <<>> /\ p = 0
      BY <2>1 DEF HeaderCount
    <3> HIDE DEF h, p
    <3> QED BY <2>1, <3>1
  <2>2. CASE a # <<>>
    <3>1. h = Padded(c) /\ p = BlockCount(c)
      BY <2>2 DEF HeaderCount
    <3>2. c \in Seq(Byte)
      BY <2>2, AdditionalBlocks
    <3> HIDE DEF h, p, c
    <3>3. p \in Nat
      BY <3>1, <3>2, BlocksAre
    <3> QED BY <3>1, <3>2, <3>3, PaddedBlocks
  <2> QED BY <2>1, <2>2
<1>3. /\ q \in Nat /\ t \in Seq(Byte) /\ Len(t) = 16 * q
      /\ \A k \in 1 .. q : BlockAt(t, k) = BlockOf(m, k)
  BY BlocksAre, PaddedBlocks
<1>4. s = (b \o h) \o t
  BY DEF AllBlocks
<1> HIDE DEF b, h, t, s, p, q, c
<1> DEFINE d == b \o h
<1>5. FullBlocks(d, 1 + p) /\ FollowEachOther(d, b, h, 1, p)
  <2>1. FullBlocks(b, 1) /\ FullBlocks(h, p)
    BY <1>1, <1>2 DEF FullBlocks
  <2> QED BY <2>1, BlockBehind
<1> HIDE DEF d
<1>6. FullBlocks(s, 1 + p + q) /\ FollowEachOther(s, d, t, 1 + p, q)
  <2>1. FullBlocks(t, q) /\ s = d \o t
    BY <1>3, <1>4 DEF FullBlocks, d
  <2> DEFINE n == 1 + p
  <2> HIDE DEF n
  <2>2. FullBlocks(d, n)
    BY <1>5 DEF n
  <2>3. FullBlocks(s, n + q) /\ FollowEachOther(s, d, t, n, q)
    BY <2>1, <2>2, BlockBehind
  <2> QED BY <2>3 DEF n
<1>7. /\ s \in Seq(Byte) /\ Len(s) = 16 * (1 + p + q)
      /\ \A k \in 1 .. 1 + p : BlockAt(s, k) = BlockAt(d, k)
      /\ \A k \in 1 .. q : BlockAt(s, 1 + p + k) = BlockAt(t, k)
  BY <1>6 DEF FullBlocks, FollowEachOther
<1>b. /\ \A k \in 1 .. 1 : BlockAt(d, k) = BlockAt(b, k)
      /\ \A k \in 1 .. p : BlockAt(d, 1 + k) = BlockAt(h, k)
  BY <1>5 DEF FollowEachOther
<1>8. BlockAt(s, 1) = b
  <2>1. 1 \in 1 .. 1 + p /\ 1 \in 1 .. 1
    BY <1>2
  <2> QED BY <1>1, <1>7, <1>b, <2>1
<1>9. a # <<>> => \A k \in 1 .. p : BlockAt(s, 1 + k) = BlockOf(c, k)
  <2> SUFFICES ASSUME a # <<>>, NEW k \in 1 .. p PROVE BlockAt(s, 1 + k) = BlockOf(c, k)
    OBVIOUS
  <2>1. 1 + k \in 1 .. 1 + p
    BY <1>2
  <2> QED BY <1>2, <1>7, <1>b, <2>1
<1>10. LaidOut(s, b, a, m, p, q)
  BY <1>2, <1>3, <1>7, <1>8, <1>9 DEF LaidOut, c
<1> QED BY <1>10 DEF b, s, p, q

(* The mac of the code is the last one of RFC 3610 *)
Mac1(nonce, m, a, M) ==
    IF a = <<>> THEN Encrypt(B0(nonce, m, a, M))
    ELSE cbcData(cbcRound(Encrypt(B0(nonce, m, a, M)), firstBlock(a)), SubSeq(a, ccmBlockSize - 1, Len(a)))
Mac(nonce, m, a, M) == cbcData(Mac1(nonce, m, a, M), m)

LEMMA MacIsLast ==
    ASSUME NEW nonce \in Seq(Byte), Len(nonce) \in NonceSize, NEW m \in Seq(Byte), NEW a \in Seq(Byte), NEW M \in TagSize
    PROVE  LET s == AllBlocks(nonce, m, a, M) IN Mac(nonce, m, a, M) = RfcMacs(s)[Len(s) \div 16]
<1> DEFINE s == AllBlocks(nonce, m, a, M)
           b == B0(nonce, m, a, M)
           c == BigEndian(2, Len(a)) \o a
           rest == SubSeq(a, ccmBlockSize - 1, Len(a))
           p == HeaderCount(a)
           q == BlockCount(m)
           X == RfcMacs(s)
           mac1 == Mac1(nonce, m, a, M)
<1>l. LaidOut(s, b, a, m, p, q)
  BY Layout
<1>1. /\ p \in Nat /\ q \in Nat /\ s \in Seq(Byte) /\ Len(s) = 16 * (1 + p + q)
      /\ BlockAt(s, 1) = b
      /\ a # <<>> => \A k \in 1 .. p : BlockAt(s, 1 + k) = BlockOf(c, k)
      /\ \A k \in 1 .. q : BlockAt(s, 1 + p + k) = BlockOf(m, k)
  <2> HIDE DEF s, b, p, q
  <2> QED BY <1>l DEF LaidOut
<1>d. /\ a # <<>> => mac1 = cbcData(cbcRound(Encrypt(b), firstBlock(a)), rest)
      /\ a = <<>> => mac1 = Encrypt(b)
      /\ Mac(nonce, m, a, M) = cbcData(mac1, m)
  BY DEF Mac, Mac1
<1>a. a # <<>> => /\ rest \in Seq(Byte) /\ BlockCount(rest) \in Nat
                  /\ BlockCount(c) = 1 + BlockCount(rest)
                  /\ firstBlock(a) = BlockOf(c, 1)
                  /\ \A k \in 1 .. BlockCount(rest) : BlockOf(rest, k) = BlockOf(c, 1 + k)
  BY AdditionalBlocks
<1>p. /\ a # <<>> => p = BlockCount(c)
      /\ a = <<>> => p = 0
  BY DEF HeaderCount
<1> HIDE DEF s, b, c, rest, p, q, mac1
<1>2. /\ 1 + p + q \in Nat \ {0} /\ 1 + p \in Nat
      /\ Len(s) \div 16 = 1 + p + q
  BY <1>1
<1>3. /\ X[1] = Encrypt(b)
      /\ \A i \in 2 .. 1 + p + q : X[i] = cbcRound(X[i - 1], BlockAt(s, i))
  BY <1>1, <1>2, RfcMacsOfBlocks
<1> HIDE DEF X
<1>4. mac1 = X[1 + p]
  <2>1. CASE a = <<>>
    BY <1>3, <1>d, <1>p, <2>1
  <2>2. CASE a # <<>>
    <3> DEFINE r == BlockCount(rest)
    <3>1. rest \in Seq(Byte) /\ r \in Nat /\ p = 1 + r
      BY <1>a, <1>p, <2>2
    <3> HIDE DEF r
    <3>2. X[2] = cbcRound(X[1], firstBlock(a))
      <4>1. 2 \in 2 .. 1 + p + q /\ 1 \in 1 .. p /\ 2 - 1 = 1 /\ 1 + 1 = 2
        BY <1>1, <3>1
      <4>2. BlockAt(s, 2) = BlockOf(c, 1)
        BY <1>1, <2>2, <4>1
      <4> QED BY <1>3, <1>a, <2>2, <4>1, <4>2
    <3>3. ASSUME NEW k \in 1 .. r PROVE X[2 + k] = cbcRound(X[2 + k - 1], BlockOf(rest, k))
      <4>1. 2 + k \in 2 .. 1 + p + q /\ 1 + k \in 1 .. p /\ 1 + (1 + k) = 2 + k
        BY <1>1, <3>1
      <4>2. BlockAt(s, 1 + (1 + k)) = BlockOf(c, 1 + k)
        BY <1>1, <2>2, <4>1
      <4>3. BlockOf(rest, k) = BlockOf(c, 1 + k)
        BY <1>a, <2>2 DEF r
      <4>4. X[2 + k] = cbcRound(X[2 + k - 1], BlockAt(s, 2 + k))
        BY <1>3, <4>1
      <4> QED BY <4>1, <4>2, <4>3, <4>4
    <3>4. cbcData(X[2], rest) = X[2 + r]
      <4>1. 2 \in Nat
        OBVIOUS
      <4> QED BY <3>1, <3>3, <4>1, CbcFollows DEF r
    <3>5. 2 + r = 1 + p
      BY <3>1
    <3> QED BY <1>3, <1>d, <2>2, <3>2, <3>4, <3>5
  <2> QED BY <2>1, <2>2
<1>5. cbcData(X[1 + p], m) = X[1 + p + q]
  <2> DEFINE n == 1 + p
  <2>1. n \in Nat
    BY <1>2
  <2>2. ASSUME NEW k \in 1 .. q PROVE X[n + k] = cbcRound(X[n + k - 1], BlockOf(m, k))
    <3> DEFINE i == n + k
    <3>1. i \in 2 .. 1 + p + q /\ BlockAt(s, i) = BlockOf(m, k)
      BY <1>1
    <3> HIDE DEF i
    <3>2. X[i] = cbcRound(X[i - 1], BlockOf(m, k))
      BY <1>3, <3>1
    <3> HIDE DEF n
    <3>3. n + k = i /\ n + k - 1 = i - 1
      BY <2>1 DEF i
    <3> QED BY <3>2, <3>3, Zenon
  <2> HIDE DEF n
  <2>3. cbcData(X[n], m) = X[n + q]
    BY <2>1, <2>2, CbcFollows DEF q
  <2> QED BY <2>3 DEF n
<1> QED BY <1>2, <1>4, <1>5, <1>d DEF X, s

(* A byte of the key stream *)
KeyByte(nonce, j) == Encrypt(iv(nonce, (j + 15) \div 16))[((j - 1) % 16) + 1]

LEMMA KeyStream ==
    ASSUME NEW nonce \in Seq(Byte), NEW s \in Seq(Byte)
    PROVE  XORKeyStream(nonce, s) = [j \in 1 .. Len(s) |-> Xor(s[j], KeyByte(nonce, j))]
<1> DEFINE keyStream == [n \in 1 .. Len(Blocks(s)) |-> Encrypt(iv(nonce, n))]
           stream(j) == Xor(s[j], keyStream[(j + 15) \div 16][((j - 1) % 16) + 1])
<1>1. Len(s) \in Nat /\ DOMAIN s = 1 .. Len(s)
  OBVIOUS
<1>2. XORKeyStream(nonce, s) = [j \in 1 .. Len(s) |-> stream(j)]
  <2>1. XORKeyStream(nonce, s) = [j \in DOMAIN s |-> stream(j)]
    BY DEF XORKeyStream, ccmBlockSize
  <2> QED BY <2>1, <1>1
<1>3. ASSUME NEW j \in 1 .. Len(s) PROVE stream(j) = Xor(s[j], KeyByte(nonce, j))
  <2>1. (j + 15) \div 16 \in 1 .. Len(Blocks(s))
    <3>1. Len(Blocks(s)) = (Len(s) + 15) \div 16
      BY BlocksAre DEF BlockCount
    <3> DEFINE l == Len(s)
    <3>2. l \in Nat /\ j \in 1 .. l
      BY <1>1
    <3> HIDE DEF l
    <3>3. (j + 15) \div 16 \in 1 .. (l + 15) \div 16
      BY <3>2
    <3> QED BY <3>1, <3>3 DEF l
  <2>2. keyStream[(j + 15) \div 16] = Encrypt(iv(nonce, (j + 15) \div 16))
    BY <2>1
  <2> QED BY <2>2 DEF KeyByte
<1> HIDE DEF stream
<1> QED BY <1>2, <1>3

LEMMA KeyBytes ==
    ASSUME CipherOnBlocks, NEW nonce \in Seq(Byte), Len(nonce) \in NonceSize, NEW n \in Nat
    PROVE  iv(nonce, n) \in Block /\ Encrypt(iv(nonce, n)) \in Block
<1>1. L(nonce) - 1 \in Byte
  <2> DEFINE k == Len(nonce)
  <2>1. k \in 7 .. 13 /\ L(nonce) = 15 - k
    BY DEF NonceSize, L
  <2> HIDE DEF k
  <2> QED BY <2>1 DEF Byte
<1> DEFINE b == L(nonce) - 1
<1>2. iv(nonce, n) = <<b>> \o nonce \o BigEndian(L(nonce), n) /\ b \in Byte /\ n \in Int
  BY <1>1 DEF iv
<1> HIDE DEF b
<1>3. iv(nonce, n) \in Block
  BY <1>2, FirstBlockBytes
<1> QED BY <1>3 DEF CipherOnBlocks

LEMMA KeyByteIsByte ==
    ASSUME CipherOnBlocks, NEW nonce \in Seq(Byte), Len(nonce) \in NonceSize, NEW j \in Nat \ {0}
    PROVE  KeyByte(nonce, j) \in Byte
<1>1. (j + 15) \div 16 \in Nat /\ ((j - 1) % 16) + 1 \in 1 .. 16
  OBVIOUS
<1>2. Encrypt(iv(nonce, (j + 15) \div 16)) \in Block
  BY <1>1, KeyBytes
<1> QED BY <1>1, <1>2 DEF KeyByte, Block, ccmBlockSize

(* The key stream turns s into as many bytes, and back *)
LEMMA StreamTwice ==
    ASSUME CipherOnBlocks, NEW nonce \in Seq(Byte), Len(nonce) \in NonceSize, NEW s \in Seq(Byte)
    PROVE  LET t == XORKeyStream(nonce, s)
           IN t \in Seq(Byte) /\ Len(t) = Len(s) /\ XORKeyStream(nonce, t) = s
<1> DEFINE t == XORKeyStream(nonce, s)
<1>1. Len(s) \in Nat /\ s = [j \in 1 .. Len(s) |-> s[j]]
  OBVIOUS
<1>2. t = [j \in 1 .. Len(s) |-> Xor(s[j], KeyByte(nonce, j))]
  BY KeyStream
<1> HIDE DEF t
<1>3. ASSUME NEW j \in 1 .. Len(s)
      PROVE  Xor(s[j], KeyByte(nonce, j)) \in Byte /\ Xor(Xor(s[j], KeyByte(nonce, j)), KeyByte(nonce, j)) = s[j]
  <2>1. j \in Nat \ {0} /\ s[j] \in Byte
    BY <1>1, ElementOfSeq
  <2>2. KeyByte(nonce, j) \in Byte
    BY <2>1, KeyByteIsByte
  <2> QED BY <2>1, <2>2, XorTwice
<1>4. t \in Seq(Byte) /\ Len(t) = Len(s)
  BY <1>1, <1>2, <1>3
<1>5. XORKeyStream(nonce, t) = [j \in 1 .. Len(s) |-> Xor(t[j], KeyByte(nonce, j))]
  BY <1>4, KeyStream
<1>6. \A j \in 1 .. Len(s) : Xor(t[j], KeyByte(nonce, j)) = s[j]
  BY <1>2, <1>3
<1> QED BY <1>1, <1>4, <1>5, <1>6 DEF t

(* Seal and the text of RFC 3610 *)
LEMMA SealIsRfc ==
    ASSUME NEW nonce \in Seq(Byte), Len(nonce) \in NonceSize, NEW m \in Seq(Byte), NEW a \in Seq(Byte), NEW M \in TagSize
    PROVE  Seal(nonce, m, a, M) = Rfc3610(nonce, m, a, M)
<1> DEFINE s == AllBlocks(nonce, m, a, M)
           S(i) == Encrypt(iv(nonce, i))
           stream == [j \in DOMAIN m |-> Xor(m[j], S((j + 15) \div 16)[((j - 1) % 16) + 1])]
<1>1. Tag(nonce, m, a, M) = SubSeq(Mac(nonce, m, a, M), 1, M)
  BY DEF Tag, Mac, Mac1, B0, Flags
<1>2. Mac(nonce, m, a, M) = RfcMacs(s)[Len(s) \div 16]
  BY MacIsLast
<1>3. XORKeyStream(nonce, m) = stream
  <2>1. DOMAIN m = 1 .. Len(m)
    OBVIOUS
  <2>2. XORKeyStream(nonce, m) = [j \in 1 .. Len(m) |-> Xor(m[j], KeyByte(nonce, j))]
    BY KeyStream
  <2>3. stream = [j \in 1 .. Len(m) |-> Xor(m[j], KeyByte(nonce, j))]
    BY <2>1, Zenon DEF KeyByte
  <2> QED BY <2>2, <2>3
<1>4. RfcBlocks(nonce, m, a, M) = s
  <2>1. Flags(nonce, a, M) = (IF a = <<>> THEN 0 ELSE 64) + 8 * ((M - 2) \div 2) + ((15 - Len(nonce)) - 1)
    BY FirstBlock
  <2> QED BY <2>1 DEF RfcBlocks, AllBlocks, B0, L
<1>5. Rfc3610(nonce, m, a, M) =
        LET B == RfcBlocks(nonce, m, a, M)
        IN stream \o Xor2(SubSeq(RfcMacs(B)[Len(B) \div 16], 1, M), S(0))
  BY DEF Rfc3610, iv, L
<1>6. Rfc3610(nonce, m, a, M) = stream \o Xor2(SubSeq(RfcMacs(s)[Len(s) \div 16], 1, M), S(0))
  <2> HIDE DEF s, S, stream
  <2> QED BY <1>4, <1>5
<1> QED BY <1>1, <1>2, <1>3, <1>6 DEF Seal

LEMMA MacIsBlock ==
    ASSUME CipherOnBlocks, NEW nonce \in Seq(Byte), Len(nonce) \in NonceSize,
           NEW m \in Seq(Byte), NEW a \in Seq(Byte), NEW M \in TagSize
    PROVE  Mac(nonce, m, a, M) \in Block
<1> DEFINE first == Encrypt(B0(nonce, m, a, M))
           c == BigEndian(2, Len(a)) \o a
           rest == SubSeq(a, ccmBlockSize - 1, Len(a))
           mac1 == Mac1(nonce, m, a, M)
<1>1. first \in Block
  BY FirstBlock DEF CipherOnBlocks
<1>2. /\ a # <<>> => mac1 = cbcData(cbcRound(first, firstBlock(a)), rest)
      /\ a = <<>> => mac1 = first
      /\ Mac(nonce, m, a, M) = cbcData(mac1, m)
  BY DEF Mac, Mac1
<1>3. a # <<>> => /\ c \in Seq(Byte) /\ rest \in Seq(Byte) /\ BlockCount(rest) \in Nat
                  /\ BlockCount(c) = 1 + BlockCount(rest)
                  /\ firstBlock(a) = BlockOf(c, 1)
  BY AdditionalBlocks
<1> HIDE DEF first, c, rest, mac1
<1>4. mac1 \in Block
  <2>1. CASE a = <<>>
    BY <1>1, <1>2, <2>1
  <2>2. CASE a # <<>>
    <3>1. 1 \in 1 .. BlockCount(c)
      BY <1>3, <2>2
    <3>2. firstBlock(a) \in Block
      BY <1>3, <2>2, <3>1, BlocksAre
    <3>3. cbcRound(first, firstBlock(a)) \in Block
      BY <1>1, <3>2, RoundIsBlock
    <3> QED BY <1>2, <1>3, <2>2, <3>3, CbcIsBlock
  <2> QED BY <2>1, <2>2
<1> QED BY <1>2, <1>4, CbcIsBlock

LEMMA TagBytes ==
    ASSUME CipherOnBlocks, NEW nonce \in Seq(Byte), Len(nonce) \in NonceSize,
           NEW m \in Seq(Byte), NEW a \in Seq(Byte), NEW M \in TagSize
    PROVE  LET t == Tag(nonce, m, a, M)
               z == Encrypt(iv(nonce, 0))
           IN /\ t \in Seq(Byte) /\ Len(t) = M
              /\ Xor2(t, z) \in Seq(Byte) /\ Len(Xor2(t, z)) = M
              /\ Xor2(Xor2(t, z), z) = t
<1> DEFINE b == Mac(nonce, m, a, M)
           t == Tag(nonce, m, a, M)
           z == Encrypt(iv(nonce, 0))
           x == Xor2(t, z)
<1>1. t = SubSeq(b, 1, M)
  BY DEF Tag, Mac, Mac1, B0, Flags
<1>2. b \in Block /\ z \in Block
  <2>1. 0 \in Nat
    OBVIOUS
  <2> QED BY <2>1, MacIsBlock, KeyBytes
<1>3. M \in 1 .. 16
  BY DEF TagSize
<1> HIDE DEF b, t, z
<1>4. t \in Seq(Byte) /\ Len(t) = M
  <2>1. b \in Seq(Byte) /\ Len(b) = 16
    <3>1. b \in [1 .. 16 -> Byte]
      BY <1>2, Zenon DEF Block, ccmBlockSize
    <3>2. b = [i \in 1 .. 16 |-> b[i]] /\ \A i \in 1 .. 16 : b[i] \in Byte
      BY <3>1
    <3> QED BY <3>2
  <2>2. M - 1 + 1 = M /\ 1 \in Nat \ {0} /\ M \in Nat /\ 1 <= M + 1 /\ M <= Len(b)
    BY <1>3, <2>1
  <2> QED BY <1>1, <2>1, <2>2, PartWrittenOut
<1>5. ASSUME NEW i \in 1 .. M
      PROVE  Xor(t[i], z[i]) \in Byte /\ Xor(Xor(t[i], z[i]), z[i]) = t[i]
  <2>1. t[i] \in Byte
    BY <1>4, ElementOfSeq
  <2>2. z[i] \in Byte
    <3>1. z \in [1 .. 16 -> Byte]
      BY <1>2, Zenon DEF Block, ccmBlockSize
    <3>2. i \in 1 .. 16
      BY <1>3
    <3> QED BY <3>1, <3>2
  <2> QED BY <2>1, <2>2, XorTwice
<1>6. x = [i \in 1 .. M |-> Xor(t[i], z[i])]
  <2>1. DOMAIN t = 1 .. M
    BY <1>4
  <2> QED BY <2>1 DEF Xor2
<1>7. x \in Seq(Byte) /\ Len(x) = M
  BY <1>3, <1>5, <1>6
<1>8. Xor2(x, z) = t
  <2>1. DOMAIN x = 1 .. M
    BY <1>7
  <2>2. Xor2(x, z) = [i \in 1 .. M |-> Xor(x[i], z[i])]
    BY <2>1 DEF Xor2
  <2>3. \A i \in 1 .. M : Xor(x[i], z[i]) = t[i]
    BY <1>5, <1>6
  <2>4. t = [i \in 1 .. M |-> t[i]]
    BY <1>4
  <2> QED BY <2>2, <2>3, <2>4
<1> QED BY <1>4, <1>7, <1>8 DEF t, z

(* Two parts cut where they were joined *)
LEMMA PartsOf ==
    ASSUME NEW e \in Seq(Byte), NEW f \in Seq(Byte)
    PROVE  LET s == e \o f
           IN /\ Len(s) = Len(e) + Len(f)
              /\ SubSeq(s, 1, Len(e)) = e /\ SubSeq(s, Len(e) + 1, Len(s)) = f
<1> DEFINE s == e \o f
           k == Len(e)
           n == Len(f)
<1>1. s \in Seq(Byte) /\ Len(s) = k + n /\ k \in Nat /\ n \in Nat
  OBVIOUS
<1>2. /\ \A i \in 1 .. k : s[i] = e[i]
      /\ \A i \in k + 1 .. k + n : s[i] = f[i - k]
  BY ConcatElement
<1>3. e = [i \in 1 .. k |-> e[i]] /\ f = [i \in 1 .. n |-> f[i]]
  OBVIOUS
<1> HIDE DEF s, k, n
<1>4. SubSeq(s, 1, k) = e
  <2>1. 1 \in Nat \ {0} /\ 1 <= k + 1 /\ k <= Len(s) /\ k - 1 + 1 = k
    BY <1>1
  <2>2. SubSeq(s, 1, k) = [i \in 1 .. k |-> s[1 + i - 1]]
    BY <1>1, <2>1, PartWrittenOut
  <2>3. \A i \in 1 .. k : s[1 + i - 1] = e[i]
    BY <1>1, <1>2
  <2> QED BY <1>3, <2>2, <2>3
<1>5. SubSeq(s, k + 1, k + n) = f
  <2>1. k + 1 \in Nat \ {0} /\ k + n \in Nat /\ k + 1 <= k + n + 1 /\ k + n <= Len(s) /\ k + n - (k + 1) + 1 = n
    BY <1>1
  <2>2. SubSeq(s, k + 1, k + n) = [i \in 1 .. n |-> s[k + 1 + i - 1]]
    BY <1>1, <2>1, PartWrittenOut
  <2>3. ASSUME NEW i \in 1 .. n PROVE s[k + 1 + i - 1] = f[i]
    <3>1. k + 1 + i - 1 \in k + 1 .. k + n /\ (k + 1 + i - 1) - k = i
      BY <1>1
    <3> QED BY <1>2, <3>1
  <2> QED BY <1>3, <2>2, <2>3
<1> QED BY <1>1, <1>4, <1>5 DEF s, k, n

LEMMA LimitIsNumber ==
    ASSUME NEW nonce \in Seq(Byte), Len(nonce) \in NonceSize
    PROVE  MaxLength(nonce) \in Int
<1> DEFINE k == Len(nonce)
<1>1. k \in 7 .. 13 /\ L(nonce) = 15 - k
  BY DEF NonceSize, L
<1> HIDE DEF k
<1>2. L(nonce) < 3 => L(nonce) = 2
  BY <1>1
<1>3. L(nonce) = 2 => 256 ^ L(nonce) \in Int
  <2>1. 256 ^ 2 \in Int
    OBVIOUS
  <2> QED BY <2>1
<1>4. 2 ^ 24 \in Int
  OBVIOUS
<1> QED BY <1>2, <1>3, <1>4 DEF MaxLength

LEMMA OpenReads ==
    ASSUME CipherOnBlocks, NEW nonce \in Seq(Byte), Len(nonce) \in NonceSize,
           NEW m \in Seq(Byte), Len(m) <= MaxLength(nonce), NEW a \in Seq(Byte), NEW M \in TagSize
    PROVE  OpenSealed(nonce, Seal(nonce, m, a, M), a, M) = [ok |-> TRUE, text |-> m]
<1> DEFINE c == XORKeyStream(nonce, m)
           t == Tag(nonce, m, a, M)
           z == Encrypt(iv(nonce, 0))
           x == Xor2(t, z)
           s == Seal(nonce, m, a, M)
           size == Len(s) - M
<1>1. c \in Seq(Byte) /\ Len(c) = Len(m) /\ XORKeyStream(nonce, c) = m
  BY StreamTwice
<1>2. x \in Seq(Byte) /\ Len(x) = M /\ Xor2(x, z) = t
  BY TagBytes
<1>3. s = c \o x
  BY DEF Seal
<1> HIDE DEF c, x, s
<1>4. Len(s) = Len(c) + Len(x) /\ SubSeq(s, 1, Len(c)) = c /\ SubSeq(s, Len(c) + 1, Len(s)) = x
  BY <1>1, <1>2, <1>3, PartsOf
<1>5. size = Len(m) /\ size = Len(c)
  <2>1. M \in Int /\ Len(c) \in Int
    BY <1>1 DEF TagSize
  <2> QED BY <1>1, <1>2, <1>4, <2>1
<1> HIDE DEF size
<1>6. SubSeq(s, 1, size) = c /\ SubSeq(s, size + 1, Len(s)) = x
  BY <1>4, <1>5
<1>7. OpenSealed(nonce, s, a, M) =
        IF /\ size \in 0 .. MaxLength(nonce)
           /\ Xor2(SubSeq(s, size + 1, Len(s)), z) = Tag(nonce, XORKeyStream(nonce, SubSeq(s, 1, size)), a, M)
        THEN [ok |-> TRUE, text |-> XORKeyStream(nonce, SubSeq(s, 1, size))]
        ELSE Refused
  BY DEF OpenSealed, size
<1>8. OpenSealed(nonce, s, a, M) = [ok |-> TRUE, text |-> m]
  <2>1. size \in 0 .. MaxLength(nonce)
    <3>1. MaxLength(nonce) \in Int
      BY LimitIsNumber
    <3> QED BY <1>5, <3>1
  <2>2. XORKeyStream(nonce, SubSeq(s, 1, size)) = m /\ Xor2(SubSeq(s, size + 1, Len(s)), z) = t
    BY <1>1, <1>2, <1>6
  <2> QED BY <1>7, <2>1, <2>2
<1> QED BY <1>8 DEF s

(* Whatever packet is sealed, with a cipher that takes blocks to blocks    *)
(* (the AES blocks Seal and Open of ccm.go are given): the bytes are those *)
(* of RFC 3610, and Open returns the plaintext.                            *)
THEOREM SealTheorem ==
    ASSUME CipherOnBlocks
    PROVE  CcmSpec => []SealConforms
<1> DEFINE Sealed == \A p \in packet : p \in Packets /\ NewCCM(p.M, Len(p.nonce))
<1>1. CcmInit => Sealed
  BY DEF CcmInit
<1>2. Sealed /\ [SealPacket]_packet => Sealed'
  BY DEF SealPacket
<1>3. Sealed => SealConforms
  <2> SUFFICES ASSUME Sealed, NEW p \in packet
               PROVE  LET sealed == Seal(p.nonce, p.text, p.adata, p.M)
                      IN /\ sealed = Rfc3610(p.nonce, p.text, p.adata, p.M)
                         /\ OpenSealed(p.nonce, sealed, p.adata, p.M) = [ok |-> TRUE, text |-> p.text]
    BY DEF SealConforms
  <2>1. p \in Packets /\ NewCCM(p.M, Len(p.nonce))
    OBVIOUS
  <2> HIDE DEF Sealed
  <2>2. /\ p.nonce \in Seq(Byte) /\ p.text \in Seq(Byte) /\ p.adata \in Seq(Byte)
        /\ Len(p.text) <= MaxLength(p.nonce)
    BY <2>1, PacketAssumption
  <2>3. p.M \in TagSize
    BY <2>1 DEF NewCCM, TagSize
  <2>4. Len(p.nonce) \in NonceSize
    <3> DEFINE k == Len(p.nonce)
    <3>1. k \in Nat /\ 15 - k \in 2 .. 8
      BY <2>1, <2>2 DEF NewCCM
    <3> HIDE DEF k
    <3>2. k \in NonceSize
      BY <3>1 DEF NonceSize
    <3> QED BY <3>2 DEF k
  <2>5. Seal(p.nonce, p.text, p.adata, p.M) = Rfc3610(p.nonce, p.text, p.adata, p.M)
    BY <2>2, <2>3, <2>4, SealIsRfc
  <2>6. OpenSealed(p.nonce, Seal(p.nonce, p.text, p.adata, p.M), p.adata, p.M) = [ok |-> TRUE, text |-> p.text]
    BY <2>2, <2>3, <2>4, OpenReads
  <2> QED BY <2>5, <2>6
<1> HIDE DEF Sealed
<1> QED BY <1>1, <1>2, <1>3, PTL DEF CcmSpec
=============================================================================
