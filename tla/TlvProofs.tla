----------------------------- MODULE TlvProofs -------------------------------
(***************************************************************************)
(* Proofs about the byte formats, for every base of at least 2, integers,  *)
(* tags, octet strings and nestings: what the writer of Matter TLV writes, *)
(* the decoder reads back.                                                 *)
(*                                                                         *)
(* Induction over the natural numbers is stated for sets and follows from  *)
(* counting; the recursive functions get their equations from it.          *)
(***************************************************************************)
EXTENDS Tlv, FiniteSetTheorems, TLAPS

-----------------------------------------------------------------------------
(* Induction *)

(* A set without n, that has 0 and with every number the next, could be    *)
(* mapped by the successor into itself without 0 below n.                  *)
LEMMA Induction ==
    ASSUME NEW S \in SUBSET Nat, 0 \in S, \A n \in S : n + 1 \in S
    PROVE  S = Nat
<1> SUFFICES ASSUME NEW n \in Nat, n \notin S PROVE FALSE
  OBVIOUS
<1> DEFINE A == {m \in 0 .. n : m \in S}
           B == A \ {0}
           f == [m \in A |-> m + 1]
<1>1. IsFiniteSet(A) /\ 0 \in A
  <2>1. IsFiniteSet(0 .. n)
    BY FS_Interval
  <2> QED BY <2>1, FS_Subset
<1>2. IsFiniteSet(B) /\ Cardinality(B) = Cardinality(A) - 1
  BY <1>1, FS_RemoveElement
<1>3. f \in Injection(A, B)
  <2>1. \A m \in A : m + 1 \in B
    OBVIOUS
  <2> QED BY <2>1 DEF Injection, IsInjective
<1>4. Cardinality(A) <= Cardinality(B)
  BY <1>2, <1>3, FS_Injection
<1>5. Cardinality(A) \in Nat
  BY <1>1, FS_CardinalityType
<1> QED BY <1>2, <1>4, <1>5

-----------------------------------------------------------------------------
(* Powers of the base *)

(* The recursion of Powers has a solution, which Powers is *)
LEMMA PowersEquation ==
    ASSUME NEW base \in Int
    PROVE  Powers(base) = [n \in Nat |-> IF n = 0 THEN 1 ELSE base * Powers(base)[n - 1]]
<1> DEFINE Good(f, m) == \A n \in 0 .. m : f[n] = IF n = 0 THEN 1 ELSE base * f[n - 1]
           S == {m \in Nat : \E f \in [0 .. m -> Int] : Good(f, m)}
<1>1. S = Nat
  <2>1. 0 \in S
    <3>1. [n \in 0 .. 0 |-> 1] \in [0 .. 0 -> Int] /\ Good([n \in 0 .. 0 |-> 1], 0)
      OBVIOUS
    <3> QED BY <3>1
  <2>2. ASSUME NEW m \in S PROVE m + 1 \in S
    <3>1. PICK f \in [0 .. m -> Int] : Good(f, m)
      OBVIOUS
    <3> DEFINE g == [n \in 0 .. m + 1 |-> IF n = m + 1 THEN base * f[m] ELSE f[n]]
    <3>2. g \in [0 .. m + 1 -> Int]
      BY Z3
    <3>3. Good(g, m + 1)
      BY <3>1
    <3> HIDE DEF g, Good
    <3> QED BY <3>2, <3>3
  <2> HIDE DEF S
  <2> QED BY <2>1, <2>2, Induction DEF S
<1>2. \A m, n \in Nat : \A f, g : Good(f, m) /\ Good(g, n) => \A k \in Nat : k <= m /\ k <= n => f[k] = g[k]
  <2> TAKE m, n \in Nat
  <2> TAKE f, g
  <2> HAVE Good(f, m) /\ Good(g, n)
  <2> DEFINE T == {k \in Nat : k <= m /\ k <= n => f[k] = g[k]}
  <2>1. 0 \in T
    OBVIOUS
  <2>2. \A k \in T : k + 1 \in T
    <3> SUFFICES ASSUME NEW k \in T, k + 1 <= m, k + 1 <= n PROVE f[k + 1] = g[k + 1]
      OBVIOUS
    <3>1. f[k] = g[k]
      OBVIOUS
    <3>2. f[k + 1] = base * f[k] /\ g[k + 1] = base * g[k]
      OBVIOUS
    <3> QED BY <3>1, <3>2
  <2>3. T = Nat
    <3> HIDE DEF T
    <3>1. T \subseteq Nat
      BY DEF T
    <3> QED BY <2>1, <2>2, <3>1, Induction
  <2> QED BY <2>3
<1> DEFINE h(m) == CHOOSE f \in [0 .. m -> Int] : Good(f, m)
           p == [m \in Nat |-> h(m)[m]]
<1>3. \A m \in Nat : h(m) \in [0 .. m -> Int] /\ Good(h(m), m)
  BY <1>1
<1>4. p = [n \in Nat |-> IF n = 0 THEN 1 ELSE base * p[n - 1]]
  <2> HIDE DEF h
  <2> SUFFICES ASSUME NEW n \in Nat PROVE p[n] = IF n = 0 THEN 1 ELSE base * p[n - 1]
    OBVIOUS
  <2>1. CASE n = 0
    BY <2>1, <1>3
  <2>2. CASE n # 0
    <3>1. h(n)[n] = base * h(n)[n - 1]
      BY <2>2, <1>3
    <3>2. h(n)[n - 1] = h(n - 1)[n - 1]
      <4> HIDE DEF Good
      <4> QED BY <2>2, <1>2, <1>3
    <3> QED BY <2>2, <3>1, <3>2
  <2> QED BY <2>1, <2>2
<1> QED BY <1>4, Zenon DEF Powers

LEMMA PowersFacts ==
    ASSUME NEW base \in Nat \ {0}
    PROVE  /\ Powers(base)[0] = 1
           /\ \A n \in Nat : Powers(base)[n + 1] = base * Powers(base)[n]
           /\ \A n \in Nat : Powers(base)[n] \in Nat \ {0}
<1>1. Powers(base)[0] = 1 /\ \A n \in Nat : Powers(base)[n + 1] = base * Powers(base)[n]
  BY PowersEquation
<1> DEFINE S == {n \in Nat : Powers(base)[n] \in Nat \ {0}}
<1>2. S = Nat
  <2>1. ASSUME NEW n \in S PROVE n + 1 \in S
    <3> DEFINE p == Powers(base)[n]
    <3>1. p \in Nat \ {0} /\ base \in Nat \ {0}
      OBVIOUS
    <3>2. Powers(base)[n + 1] = base * p
      BY <1>1
    <3> HIDE DEF p
    <3>3. base * p \in Nat \ {0}
      BY <3>1
    <3> QED BY <3>2, <3>3
  <2>2. 0 \in S
    BY <1>1
  <2> HIDE DEF S
  <2> QED BY <2>1, <2>2, Induction DEF S
<1> QED BY <1>1, <1>2

LEMMA PowerFacts ==
    /\ Power[0] = 1
    /\ \A n \in Nat : Power[n + 1] = Base * Power[n]
    /\ \A n \in Nat : Power[n] \in Nat \ {0}
<1>1. Base \in Nat \ {0}
  BY TlvAssumption
<1> QED BY <1>1, PowersFacts DEF Power

-----------------------------------------------------------------------------
(* Numbers of several bytes *)

(* Dividing by one power and then by the base is dividing by the next power *)
LEMMA DivideTwice ==
    ASSUME NEW x \in Int, NEW a \in Nat \ {0}, NEW b \in Nat \ {0}
    PROVE  (x \div a) \div b = x \div (a * b)
<1> DEFINE q == x \div a
           r == q \div b
<1>1. q \in Int /\ a * q <= x /\ x < a * q + a
  OBVIOUS
<1>2. r \in Int /\ b * r <= q /\ q < b * r + b
  BY <1>1
<1> HIDE DEF q, r
<1>3. q <= b * r + b - 1
  BY <1>1, <1>2
<1>4. a * (b * r) <= a * q /\ a * q <= a * (b * r + b - 1)
  BY <1>1, <1>2, <1>3
<1>5. (a * b) * r <= x /\ x < (a * b) * r + a * b
  BY <1>1, <1>2, <1>4
<1>6. a * b \in Nat \ {0}
  OBVIOUS
<1> DEFINE c == a * b
<1>7. x \div c = r
  <2> HIDE DEF c
  <2>1. c \in Nat \ {0} /\ c * r <= x /\ x < c * r + c
    BY <1>5, <1>6 DEF c
  <2> QED BY <2>1, <1>2
<1> QED BY <1>7 DEF q, r

LEMMA SmallRemainder ==
    ASSUME NEW a \in Nat \ {0}, NEW x \in Nat, x < a
    PROVE  x % a = x
<1> DEFINE q == x \div a
<1>1. q \in Int /\ a * q <= x /\ x < a * q + a /\ x = a * q + (x % a) /\ x % a \in Int
  OBVIOUS
<1> HIDE DEF q
<1>2. CASE q >= 1
  <2>1. a * q >= a
    BY <1>1, <1>2
  <2> QED BY <1>1, <2>1
<1>3. CASE q <= -1
  <2>1. a * q <= -a
    BY <1>1, <1>3
  <2> QED BY <1>1, <2>1
<1>4. CASE q = 0
  BY <1>1, <1>4
<1> QED BY <1>1, <1>2, <1>3, <1>4

LEMMA LowestDigit ==
    ASSUME NEW x \in Int, NEW a \in Nat \ {0}, NEW b \in Nat \ {0}
    PROVE  x % (a * b) = (x % a) + a * ((x \div a) % b)
<1> DEFINE q == x \div a
           r == q \div b
           c == a * b
<1>1. q \in Int /\ x = a * q + (x % a) /\ x % a \in Int
  OBVIOUS
<1>2. r \in Int /\ q = b * r + (q % b) /\ q % b \in Int
  BY <1>1
<1>3. c \in Nat \ {0}
  OBVIOUS
<1>4. x \div c = r
  BY DivideTwice
<1>5. x = c * (x \div c) + (x % c)
  <2> HIDE DEF c
  <2> QED BY <1>3
<1>6. c * r = a * (b * r)
  <2> HIDE DEF r
  <2> QED BY <1>2
<1>7. a * q = a * (b * r) + a * (q % b)
  BY <1>1, <1>2
<1>8. x % c \in Int /\ c * r \in Int /\ a * (b * r) \in Int /\ a * (q % b) \in Int /\ a * q \in Int
  BY <1>1, <1>2, <1>3
<1> HIDE DEF q, r, c
<1>9. x % c = (x % a) + a * (q % b)
  BY <1>1, <1>4, <1>5, <1>6, <1>7, <1>8
<1> QED BY <1>9 DEF q, c

(* The digits of a number, as far as there is room for them, make it again *)
LEMMA DigitsMakeNumber ==
    ASSUME NEW base \in Nat \ {0}, NEW n \in Nat, NEW v \in Int
    PROVE  ValueOf(DigitsOf(v, base, n), base) = v % Powers(base)[n]
<1> DEFINE power == Powers(base)
<1>p. /\ power[0] = 1 /\ \A k \in Nat : power[k + 1] = base * power[k]
      /\ \A k \in Nat : power[k] \in Nat \ {0}
  BY PowersFacts
<1> HIDE DEF power
<1> DEFINE s == DigitsOf(v, base, n)
           Eq(f) == f = [i \in 1 .. Len(s) + 1 |-> IF i > Len(s) THEN 0 ELSE s[i] + base * f[i + 1]]
           w == [i \in 1 .. n + 1 |-> (v \div power[i - 1]) % power[n - i + 1]]
<1>1. Len(s) = n /\ \A i \in 1 .. n : s[i] = (v \div power[i - 1]) % base
  BY DEF DigitsOf, power
<1>2. ASSUME NEW i \in 1 .. n PROVE w[i] = s[i] + base * w[i + 1]
  <2> DEFINE x == v \div power[i - 1]
             p == power[n - i]
  <2>1. power[i - 1] \in Nat \ {0} /\ p \in Nat \ {0}
    BY <1>p
  <2>2. x \in Int
    BY <2>1
  <2>3. power[n - i + 1] = base * p /\ power[i] = base * power[i - 1]
    BY <1>p
  <2>4. x \div base = v \div power[i]
    BY <2>1, <2>3, DivideTwice
  <2>5. x % (base * p) = (x % base) + base * ((x \div base) % p)
    BY <2>1, <2>2, LowestDigit
  <2>6. w[i] = x % (base * p) /\ w[i + 1] = (v \div power[i]) % p
    BY <2>3
  <2> QED BY <2>4, <2>5, <2>6, <1>1
<1>3. Eq(w)
  <2>1. w[n + 1] = 0
    <3>1. power[n] \in Nat \ {0} /\ v \div power[n] \in Int
      BY <1>p
    <3>2. w[n + 1] = (v \div power[n]) % power[0] /\ power[0] = 1
      <4>1. power[0] = 1
        BY <1>p
      <4>2. n + 1 - 1 = n /\ n - (n + 1) + 1 = 0
        OBVIOUS
      <4> HIDE DEF s
      <4> QED BY <4>1, <4>2
    <3> DEFINE x == v \div power[n]
    <3>3. x \in Int /\ w[n + 1] = x % 1
      BY <3>1, <3>2
    <3> HIDE DEF x, w, s
    <3> QED BY <3>3
  <2> HIDE DEF s
  <2>2. \A i \in 1 .. n + 1 : w[i] = IF i > n THEN 0 ELSE s[i] + base * w[i + 1]
    <3> HIDE DEF w
    <3> QED BY <2>1, <1>2
  <2>3. w = [i \in 1 .. n + 1 |-> w[i]]
    OBVIOUS
  <2> HIDE DEF w
  <2> QED BY <2>2, <2>3, <1>1
<1>4. ASSUME NEW f, Eq(f) PROVE f[1] = w[1]
  <2> DEFINE Same(k) == k <= n => f[n + 1 - k] = w[n + 1 - k]
             T == {k \in Nat : Same(k)}
  <2> HIDE DEF s, w
  <2>1. 0 \in T
    BY <1>1, <1>3, <1>4
  <2>2. ASSUME NEW k \in T PROVE k + 1 \in T
    <3> SUFFICES ASSUME k + 1 <= n PROVE f[n + 1 - (k + 1)] = w[n + 1 - (k + 1)]
      OBVIOUS
    <3> DEFINE i == n + 1 - (k + 1)
    <3>1. i \in 1 .. n /\ i + 1 = n + 1 - k /\ f[i + 1] = w[i + 1]
      BY <2>2
    <3>2. f[i] = s[i] + base * f[i + 1] /\ w[i] = s[i] + base * w[i + 1]
      <4> HIDE DEF i
      <4> QED BY <3>1, <1>1, <1>3, <1>4
    <3> QED BY <3>1, <3>2
  <2>3. T = Nat
    <3> HIDE DEF T
    <3>1. T \subseteq Nat
      BY DEF T
    <3> QED BY <2>1, <2>2, <3>1, Induction
  <2>4. Same(n)
    BY <2>3
  <2>5. n <= n /\ n + 1 - n = 1
    OBVIOUS
  <2> QED BY <2>4, <2>5
<1>5. ValueOf(s, base) = w[1]
  <2> HIDE DEF s, w
  <2> QED BY <1>3, <1>4, Zenon DEF ValueOf
<1>6. w[1] = v % power[n]
  <2>1. w[1] = (v \div power[0]) % power[n]
    OBVIOUS
  <2>2. v \div 1 = v
    OBVIOUS
  <2> HIDE DEF w
  <2> QED BY <2>1, <2>2, <1>p
<1> QED BY <1>5, <1>6 DEF power

(* What binary.Write truncates an integer to, binary.Read reads back *)
LEMMA NumberReadsBack ==
    ASSUME NEW n \in Nat, NEW v \in Int
    PROVE  Number(LittleEndian(n, v)) = v % Power[n]
<1>1. Base \in Nat \ {0}
  BY TlvAssumption
<1> QED BY <1>1, DigitsMakeNumber DEF Number, LittleEndian, Power

(* Two bytes make a number whatever they are *)
LEMMA NumberOfTwo ==
    ASSUME NEW s \in Seq(Nat), Len(s) = 2
    PROVE  Number(s) \in Nat
<1> DEFINE Eq(f) == f = [i \in 1 .. Len(s) + 1 |-> IF i > Len(s) THEN 0 ELSE s[i] + Base * f[i + 1]]
           w == [i \in 1 .. 3 |-> CASE i = 1 -> s[1] + Base * s[2] [] i = 2 -> s[2] [] i = 3 -> 0]
<1>b. Base \in Nat /\ s[1] \in Nat /\ s[2] \in Nat
  <2> HIDE DEF Eq, w
  <2>1. Base \in Nat
    BY TlvAssumption
  <2>2. s[1] \in Nat /\ s[2] \in Nat
    BY SMTT(20)
  <2> QED BY <2>1, <2>2
<1>1. Eq(w)
  <2>1. w[1] = s[1] + Base * w[2] /\ w[2] = s[2] + Base * w[3] /\ w[3] = 0
    BY <1>b
  <2>2. w = [i \in 1 .. 3 |-> w[i]]
    OBVIOUS
  <2> HIDE DEF w
  <2>3. \A i \in 1 .. 3 : w[i] = IF i > 2 THEN 0 ELSE s[i] + Base * w[i + 1]
    BY <2>1
  <2> QED BY <2>2, <2>3
<1>2. ASSUME NEW f, Eq(f) PROVE f[1] \in Nat
  <2>1. f[3] = 0
    BY <1>2
  <2>2. f[2] = s[2] + Base * f[3] /\ f[1] = s[1] + Base * f[2]
    BY <1>2
  <2>3. f[2] = s[2]
    BY <2>1, <2>2, <1>b
  <2>4. Base * s[2] \in Nat
    BY <1>b
  <2> QED BY <2>2, <2>3, <2>4, <1>b, SMTT(20)
<1> QED BY <1>1, <1>2, Zenon DEF Number, ValueOf

-----------------------------------------------------------------------------
(* What decode returns for the rest of a buffer *)

IsSeq(l) == l \in Seq({l[i] : i \in DOMAIN l})

LEMMA SeqIsSeq == ASSUME NEW S, NEW l \in Seq(S) PROVE IsSeq(l)
BY DEF IsSeq

LEMMA PrependIsSeq ==
    ASSUME NEW l, IsSeq(l), NEW x
    PROVE  IsSeq(<<x>> \o l)
<1> DEFINE S == {x} \cup {l[i] : i \in DOMAIN l}
<1>1. l \in Seq(S)
  BY DEF IsSeq
<1>2. <<x>> \o l \in Seq(S)
  BY <1>1
<1> HIDE DEF S
<1> QED BY <1>2, SeqIsSeq

Result(b, p, r) ==
    /\ r = [items |-> r.items, next |-> r.next]
    /\ IsSeq(r.items)
    /\ r.next # Nowhere => r.next \in p .. Len(b) + 1

(* The shape of results *)
LEMMA ResultParts ==
    ASSUME NEW b, NEW p, NEW r, Result(b, p, r)
    PROVE  IsSeq(r.items) /\ (r.next # Nowhere => r.next \in p .. Len(b) + 1)
BY Zenon DEF Result

LEMMA BeforeResult ==
    ASSUME NEW b \in Seq(Nat), NEW p \in Nat, NEW k \in Nat, p <= k,
           NEW r, Result(b, k, r), NEW item
    PROVE  Result(b, p, Before(item, r))
<1> DEFINE e == Before(item, r)
<1>1. e = [items |-> <<item>> \o r.items, next |-> r.next]
  BY DEF Before
<1>2. IsSeq(<<item>> \o r.items) /\ (r.next # Nowhere => r.next \in k .. Len(b) + 1)
  BY PrependIsSeq, ResultParts
<1>3. r.next # Nowhere => r.next \in p .. Len(b) + 1
  BY <1>2
<1>4. e.items = <<item>> \o r.items /\ e.next = r.next
  BY <1>1
<1> HIDE DEF e
<1>5. Result(b, p, e)
  BY <1>1, <1>2, <1>3, <1>4, Zenon DEF Result
<1> QED BY <1>5 DEF e

LEMMA FailedResult == ASSUME NEW b \in Seq(Nat), NEW p \in Nat PROVE Result(b, p, Failed)
BY DEF Result, Failed, IsSeq

LEMMA ParsedResult ==
    ASSUME NEW b \in Seq(Nat), NEW p \in Nat, NEW k \in p .. Len(b) + 1
    PROVE  Result(b, p, Parsed(<<>>, k))
BY DEF Result, Parsed, IsSeq

LEMMA WidthNat == \A tp \in 1 .. 7 : Width(tp) \in {1, 2, 4, 8}
<1> SUFFICES ASSUME NEW tp \in 1 .. 7 PROVE Width(tp) \in {1, 2, 4, 8}
  OBVIOUS
<1> DEFINE i == (tp % 4) + 1
<1>1. i \in 1 .. 4
  OBVIOUS
<1> HIDE DEF i
<1>2. <<1, 2, 4, 8>>[i] \in {1, 2, 4, 8}
  BY <1>1
<1> QED BY <1>2 DEF Width, i

(* A position behind p, and two tables of results that agree there *)
After(b, p, q) == q \in p + 1 .. Len(b) + 1
Later(b, p, g, h) == \A r \in p + 1 .. Len(b) + 1 : g[r] = h[r] /\ Result(b, r, g[r])

(* decode looks only at later positions, and what it returns is a result *)
LEMMA DecodeContentResult ==
    ASSUME NEW b \in Seq(Nat), NEW p \in Nat, NEW tp \in 0 .. 31, NEW tag,
           NEW q, After(b, p, q), NEW g, NEW h, Later(b, p, g, h)
    PROVE  /\ DecodeContent(b, tp, tag, q, g) = DecodeContent(b, tp, tag, q, h)
           /\ Result(b, p, DecodeContent(b, tp, tag, q, g))
<1> USE DEF Later, After
<1> DEFINE Same(u, v) == u = v /\ Result(b, p, u)
<1>p. p \in Nat /\ q \in Nat /\ Len(b) \in Nat
  OBVIOUS
<1>1. ASSUME NEW k \in Nat, q <= k, NEW item PROVE Same(Then(b, item, k, g), Then(b, item, k, h))
  <2> DEFINE x == Min2(k, Len(b) + 1)
  <2>1. x \in p + 1 .. Len(b) + 1
    BY <1>1 DEF Min2
  <2>2. Then(b, item, k, g) = Before(item, g[x]) /\ Then(b, item, k, h) = Before(item, h[x])
    BY DEF Then
  <2> HIDE DEF x
  <2>3. g[x] = h[x] /\ Result(b, x, g[x]) /\ x \in Nat /\ p <= x
    BY <2>1
  <2>4. Result(b, p, Before(item, g[x]))
    BY <2>3, BeforeResult
  <2> QED BY <2>2, <2>3, <2>4
<1>2. ASSUME NEW k \in Nat, q <= k, NEW size \in Nat
      PROVE  Same(ThenOctets(b, tag, size, k, g), ThenOctets(b, tag, size, k, h))
  <2>1. k + size \in Nat /\ q <= k + size
    BY <1>2
  <2> HIDE DEF Same
  <2> QED BY <1>1, <2>1 DEF ThenOctets
<1>3. ASSUME g[q].next # Nowhere, NEW item
      PROVE  Same(Before(item, g[g[q].next]), Before(item, h[h[q].next]))
  <2> DEFINE x == g[q].next
  <2>1. g[q] = h[q] /\ Result(b, q, g[q])
    OBVIOUS
  <2>2. x \in q .. Len(b) + 1
    BY <2>1, <1>3, ResultParts
  <2>3. h[q].next = x
    BY <2>1
  <2> HIDE DEF x
  <2>4. g[x] = h[x] /\ Result(b, x, g[x]) /\ x \in Nat /\ p <= x
    BY <2>2
  <2>5. Result(b, p, Before(item, g[x]))
    BY <2>4, BeforeResult
  <2> QED BY <2>3, <2>4, <2>5 DEF x
<1>4. g[q] = h[q]
  OBVIOUS
<1>5. tp \in 1 .. 7 => q + Width(tp) \in Nat /\ q <= q + Width(tp)
  <2> SUFFICES ASSUME tp \in 1 .. 7 PROVE q + Width(tp) \in Nat /\ q <= q + Width(tp)
    OBVIOUS
  <2>1. Width(tp) \in {1, 2, 4, 8}
    BY WidthNat
  <2> QED BY <2>1, <1>p
<1>6. ReadNumber(b, q, 2) \in Nat
  <2>1. CASE q + 2 - 1 <= Len(b)
    <3>1. Bytes(b, q, 2) \in Seq(Nat) /\ Len(Bytes(b, q, 2)) = 2
      BY <2>1, <1>p, SMTT(20) DEF Bytes
    <3> QED BY <2>1, <3>1, NumberOfTwo DEF ReadNumber
  <2> QED BY <2>1 DEF ReadNumber
<1>7. Same(Failed, Failed)
  BY FailedResult
<1>8. q <= Len(b) => b[q] \in Nat
  BY <1>p
<1> DEFINE G == DecodeContent(b, tp, tag, q, g)
           H == DecodeContent(b, tp, tag, q, h)
<1> SUFFICES Same(G, H)
  BY DEF Same
<1> HIDE DEF Same, G, H
<1> USE DEF OneByte, Signed, tFalse, tTrue, tUtf8, tOctets1, tOctets2, tNull, Containers, tStruct, tArray, tList
<1>9. CASE tp \in OneByte /\ q <= Len(b)
  <2>1. G = Then(b, IntItem(tag, b[q]), q + 1, g) /\ H = Then(b, IntItem(tag, b[q]), q + 1, h)
    <3>1. CASE tp = 0
      BY <1>9, <3>1 DEF DecodeContent, G, H
    <3>2. CASE tp = 4
      BY <1>9, <3>2 DEF DecodeContent, G, H
    <3> QED BY <1>9, <3>1, <3>2
  <2> QED BY <2>1, <1>1, <1>p
<1>10. CASE tp \in Signed
  <2>1. G = Then(b, IntItem(tag, 0), q + Width(tp), g) /\ H = Then(b, IntItem(tag, 0), q + Width(tp), h)
    <3>1. CASE tp = 1
      BY <1>10, <3>1 DEF DecodeContent, G, H
    <3>2. CASE tp = 2
      BY <1>10, <3>2 DEF DecodeContent, G, H
    <3>3. CASE tp = 3
      BY <1>10, <3>3 DEF DecodeContent, G, H
    <3> QED BY <1>10, <3>1, <3>2, <3>3
  <2> QED BY <2>1, <1>1, <1>5, <1>10
<1>11. CASE tp \in 5 .. 7
  <2> DEFINE item == IntItem(tag, ReadNumber(b, q, Width(tp)))
  <2>1. G = Then(b, item, q + Width(tp), g) /\ H = Then(b, item, q + Width(tp), h)
    <3>1. CASE tp = 5
      BY <1>11, <3>1 DEF DecodeContent, G, H
    <3>2. CASE tp = 6
      BY <1>11, <3>2 DEF DecodeContent, G, H
    <3>3. CASE tp = 7
      BY <1>11, <3>3 DEF DecodeContent, G, H
    <3> QED BY <1>11, <3>1, <3>2, <3>3
  <2> QED BY <2>1, <1>1, <1>5, <1>11
<1>12. CASE tp = tFalse
  <2> DEFINE item == BoolItem(tag, FALSE)
  <2>1. G = Then(b, item, q, g) /\ H = Then(b, item, q, h)
    BY <1>12 DEF DecodeContent, G, H
  <2> HIDE DEF item
  <2> QED BY <2>1, <1>1, <1>p
<1>13. CASE tp = tTrue
  <2> DEFINE item == BoolItem(tag, TRUE)
  <2>1. G = Then(b, item, q, g) /\ H = Then(b, item, q, h)
    BY <1>13 DEF DecodeContent, G, H
  <2> HIDE DEF item
  <2> QED BY <2>1, <1>1, <1>p
<1>14. CASE tp \in {tUtf8, tOctets1} /\ q <= Len(b)
  <2>1. G = ThenOctets(b, tag, b[q], q + 1, g) /\ H = ThenOctets(b, tag, b[q], q + 1, h)
    <3>1. CASE tp = 12
      BY <1>14, <3>1 DEF DecodeContent, G, H
    <3>2. CASE tp = 16
      BY <1>14, <3>2 DEF DecodeContent, G, H
    <3> QED BY <1>14, <3>1, <3>2
  <2> QED BY <2>1, <1>2, <1>p, <1>8, <1>14
<1>15. CASE tp = tOctets2
  <2>1. /\ G = ThenOctets(b, tag, ReadNumber(b, q, 2), q + 2, g)
        /\ H = ThenOctets(b, tag, ReadNumber(b, q, 2), q + 2, h)
    BY <1>15 DEF DecodeContent, G, H
  <2> QED BY <2>1, <1>2, <1>p, <1>6
<1>16. CASE tp = tNull
  <2> DEFINE item == Item(tag, "null", 0, <<>>, <<>>)
  <2>1. G = Then(b, item, q, g) /\ H = Then(b, item, q, h)
    BY <1>16 DEF DecodeContent, G, H
  <2> QED BY <2>1, <1>1, <1>p
<1>17. CASE tp \in Containers /\ g[q].next # Nowhere
  <2>1. /\ G = Before(ListItem(tag, g[q].items), g[g[q].next])
        /\ H = Before(ListItem(tag, h[q].items), h[h[q].next])
    <3>1. CASE tp = 21
      BY <1>17, <1>4, <3>1 DEF DecodeContent, G, H
    <3>2. CASE tp = 22
      BY <1>17, <1>4, <3>2 DEF DecodeContent, G, H
    <3>3. CASE tp = 23
      BY <1>17, <1>4, <3>3 DEF DecodeContent, G, H
    <3> QED BY <1>17, <3>1, <3>2, <3>3
  <2> QED BY <2>1, <1>3, <1>4, <1>17
<1>18. CASE /\ ~(tp \in OneByte /\ q <= Len(b)) /\ tp \notin Signed /\ tp \notin 5 .. 7
            /\ tp # tFalse /\ tp # tTrue /\ ~(tp \in {tUtf8, tOctets1} /\ q <= Len(b))
            /\ tp # tOctets2 /\ tp # tNull /\ ~(tp \in Containers /\ g[q].next # Nowhere)
  <2>1. G = Failed /\ H = Failed
    BY <1>18, <1>4 DEF DecodeContent, G, H
  <2> QED BY <2>1, <1>7
<1> QED BY <1>9, <1>10, <1>11, <1>12, <1>13, <1>14, <1>15, <1>16, <1>17, <1>18

LEMMA ControlType == \A c \in Nat : c % 32 \in 0 .. 31
OBVIOUS

LEMMA DecodeFromResult ==
    ASSUME NEW b \in Seq(Nat), NEW p \in 1 .. Len(b) + 1, NEW g, NEW h,
           \A r \in p + 1 .. Len(b) + 1 : g[r] = h[r] /\ Result(b, r, g[r])
    PROVE  DecodeFrom(b, p, g) = DecodeFrom(b, p, h) /\ Result(b, p, DecodeFrom(b, p, g))
<1> DEFINE tp == b[p] % 32
           q == IF b[p] \div 32 = 1 THEN p + 2 ELSE p + 1
           tag == IF b[p] \div 32 = 1 THEN b[p + 1] ELSE 0
<1>p. p \in Nat /\ Len(b) \in Nat /\ p <= Len(b) + 1
  OBVIOUS
<1>r. \A r \in p + 1 .. Len(b) + 1 : g[r] = h[r] /\ Result(b, r, g[r])
  OBVIOUS
<1>1. CASE p = Len(b) + 1
  <2>1. Result(b, p, Parsed(<<>>, p))
    BY ParsedResult, <1>p
  <2> QED BY <1>1, <2>1 DEF DecodeFrom
<1>2. CASE p # Len(b) + 1 /\ tp = tEnd
  <2>1. Result(b, p, Parsed(<<>>, p + 1))
    BY ParsedResult, <1>p, <1>2
  <2> QED BY <1>2, <2>1 DEF DecodeFrom
<1>3. CASE p # Len(b) + 1 /\ tp # tEnd /\ q > Len(b) + 1
  <2>1. Result(b, p, Failed)
    BY FailedResult, <1>p
  <2> QED BY <1>3, <2>1 DEF DecodeFrom
<1>4. CASE p # Len(b) + 1 /\ tp # tEnd /\ ~(q > Len(b) + 1)
  <2>1. b[p] \in Nat
    BY <1>4, <1>p
  <2>2. tp \in 0 .. 31
    BY <2>1, ControlType
  <2>5. q \in p + 1 .. Len(b) + 1
    <3>1. q = p + 2 \/ q = p + 1
      OBVIOUS
    <3> HIDE DEF q
    <3> QED BY <3>1, <1>4, <1>p
  <2>3. /\ DecodeFrom(b, p, g) = DecodeContent(b, tp, tag, q, g)
        /\ DecodeFrom(b, p, h) = DecodeContent(b, tp, tag, q, h)
    BY <1>4 DEF DecodeFrom
  <2> HIDE DEF tp, q, tag
  <2>4. /\ DecodeContent(b, tp, tag, q, g) = DecodeContent(b, tp, tag, q, h)
        /\ Result(b, p, DecodeContent(b, tp, tag, q, g))
    <3>1. Later(b, p, g, h)
      BY <1>r DEF Later
    <3>2. After(b, p, q)
      BY <2>5 DEF After
    <3> QED BY <2>2, <1>p, <3>1, <3>2, DecodeContentResult
  <2> QED BY <2>3, <2>4
<1> QED BY <1>1, <1>2, <1>3, <1>4

(* The recursion of decode ends: every position has its result *)
LEMMA DecodedEquation ==
    ASSUME NEW b \in Seq(Nat)
    PROVE  /\ Decoded(b) = [p \in 1 .. Len(b) + 1 |-> DecodeFrom(b, p, Decoded(b))]
           /\ \A p \in 1 .. Len(b) + 1 : Result(b, p, Decoded(b)[p])
<1> DEFINE end == Len(b) + 1
           Good(g, k) == \A p \in 1 .. end : p >= end - k => g[p] = DecodeFrom(b, p, g) /\ Result(b, p, g[p])
           Table(g) == g = [p \in 1 .. end |-> g[p]]
           S == {k \in Nat : \E g : Table(g) /\ Good(g, k)}
<1>e. end \in Nat /\ Len(b) \in Nat
  OBVIOUS
<1>1. 0 \in S
  <2> DEFINE g == [p \in 1 .. end |-> Parsed(<<>>, end)]
  <2>1. Table(g)
    OBVIOUS
  <2>2. Good(g, 0)
    <3> SUFFICES ASSUME NEW p \in 1 .. end, p >= end - 0
                 PROVE  g[p] = DecodeFrom(b, p, g) /\ Result(b, p, g[p])
      OBVIOUS
    <3>1. p = end
      BY <1>e
    <3>2. Result(b, p, Parsed(<<>>, end))
      BY <1>e, ParsedResult
    <3> QED BY <3>1, <3>2 DEF DecodeFrom
  <2> HIDE DEF g, Table, Good
  <2> QED BY <2>1, <2>2
<1>2. ASSUME NEW k \in S PROVE k + 1 \in S
  <2>1. PICK g : Table(g) /\ Good(g, k)
    OBVIOUS
  <2> DEFINE x == end - (k + 1)
  <2>k. k \in Nat /\ x \in Int /\ end - k = x + 1
    BY <1>e
  <2>2. CASE x < 1
    <3>1. Good(g, k + 1)
      BY <2>1, <2>2, <2>k, <1>e, SMTT(20)
    <3> HIDE DEF Good, Table
    <3> QED BY <2>1, <3>1
  <2>3. CASE x >= 1
    <3> DEFINE h == [g EXCEPT ![x] = DecodeFrom(b, x, g)]
    <3>1. x \in 1 .. end /\ x # end
      BY <2>3, <1>e
    <3>2. Table(h)
      BY <2>1
    <3>3. h[x] = DecodeFrom(b, x, g) /\ \A p \in 1 .. end : p # x => h[p] = g[p]
      BY <2>1, <3>1
    <3>4. \A p \in x + 1 .. end : h[p] = g[p] /\ Result(b, p, g[p]) /\ g[p] = DecodeFrom(b, p, g)
      <4> SUFFICES ASSUME NEW p \in x + 1 .. end
                   PROVE  h[p] = g[p] /\ Result(b, p, g[p]) /\ g[p] = DecodeFrom(b, p, g)
        OBVIOUS
      <4>1. p \in 1 .. end /\ p >= end - k /\ p # x
        BY <3>1, <2>k, <1>e
      <4> HIDE DEF h
      <4> QED BY <4>1, <2>1, <3>3
    <3> HIDE DEF h
    <3>5. ASSUME NEW p \in x .. end
          PROVE  DecodeFrom(b, p, g) = DecodeFrom(b, p, h) /\ Result(b, p, DecodeFrom(b, p, g))
      <4>1. p \in 1 .. Len(b) + 1
        BY <3>1, <1>e
      <4>2. \A r \in p + 1 .. Len(b) + 1 : g[r] = h[r] /\ Result(b, r, g[r])
        BY <3>4, <3>1, <1>e, SMTT(20)
      <4> QED BY <4>1, <4>2, DecodeFromResult
    <3>6. Good(h, k + 1)
      <4> SUFFICES ASSUME NEW p \in 1 .. end, p >= end - (k + 1)
                   PROVE  h[p] = DecodeFrom(b, p, h) /\ Result(b, p, h[p])
        OBVIOUS
      <4>1. p \in x .. end
        BY <2>k, <1>e
      <4>2. DecodeFrom(b, p, g) = DecodeFrom(b, p, h) /\ Result(b, p, DecodeFrom(b, p, g))
        BY <4>1, <3>5
      <4>3. h[p] = DecodeFrom(b, p, g)
        <5>1. CASE p = x
          BY <5>1, <3>3
        <5>2. CASE p # x
          <6>1. p \in x + 1 .. end
            BY <4>1, <5>2, <2>k, <1>e
          <6> QED BY <6>1, <3>4
        <5> QED BY <5>1, <5>2
      <4> QED BY <4>2, <4>3
    <3> HIDE DEF Good, Table
    <3> QED BY <3>2, <3>6
  <2> QED BY <2>2, <2>3, <1>e
<1>3. S = Nat
  <2> HIDE DEF S
  <2>1. S \subseteq Nat
    BY DEF S
  <2> QED BY <1>1, <1>2, <2>1, Induction
<1>4. \E g : g = [p \in 1 .. end |-> DecodeFrom(b, p, g)]
  <2>1. PICK g : Table(g) /\ Good(g, end)
    BY <1>3, <1>e
  <2>2. \A p \in 1 .. end : g[p] = DecodeFrom(b, p, g)
    BY <2>1, <1>e
  <2> QED BY <2>1, <2>2
<1>5. Decoded(b) = [p \in 1 .. end |-> DecodeFrom(b, p, Decoded(b))]
  BY <1>4, Zenon DEF Decoded
<1> DEFINE D == Decoded(b)
           T == {k \in Nat : \A p \in 1 .. end : p >= end - k => Result(b, p, D[p])}
<1>6. T = Nat
  <2> HIDE DEF D
  <2>0. D = [p \in 1 .. end |-> DecodeFrom(b, p, D)]
    BY <1>5 DEF D
  <2>1. ASSUME NEW p \in 1 .. end, \A r \in p + 1 .. end : Result(b, r, D[r])
        PROVE  Result(b, p, D[p])
    <3>1. Result(b, p, DecodeFrom(b, p, D))
      BY <2>1, DecodeFromResult
    <3>2. D[p] = DecodeFrom(b, p, D)
      BY <2>0
    <3> QED BY <3>1, <3>2
  <2>2. 0 \in T
    BY <2>1, <1>e
  <2>3. ASSUME NEW k \in T PROVE k + 1 \in T
    BY <2>1, <1>e
  <2> HIDE DEF T
  <2>4. T \subseteq Nat
    BY DEF T
  <2> QED BY <2>2, <2>3, <2>4, Induction
<1>7. ASSUME NEW p \in 1 .. end PROVE Result(b, p, D[p])
  <2>1. end \in T /\ p >= end - end
    BY <1>6, <1>e
  <2> QED BY <2>1
<1> QED BY <1>5, <1>7

-----------------------------------------------------------------------------
(* An element that was written, read at its place in a buffer *)

(* e stands in b from position p on *)
At(b, p, e) ==
    /\ p + Len(e) - 1 <= Len(b)
    /\ \A i \in 1 .. Len(e) : b[p + i - 1] = e[i]

(* What decode returns at the end of the buffer ... *)
LEMMA DecodedFinish ==
    ASSUME NEW b \in Seq(Nat)
    PROVE  Decoded(b)[Len(b) + 1] = Parsed(<<>>, Len(b) + 1)
<1> DEFINE D == Decoded(b)
           p == Len(b) + 1
<1>1. p \in 1 .. Len(b) + 1
  OBVIOUS
<1> HIDE DEF D, p
<1>2. D[p] = DecodeFrom(b, p, D)
  BY <1>1, DecodedEquation DEF D
<1> QED BY <1>2 DEF DecodeFrom, D, p

LEMMA DecodedAt ==
    ASSUME NEW b \in Seq(Nat), NEW p \in 1 .. Len(b)
    PROVE  Decoded(b)[p] = DecodeFrom(b, p, Decoded(b))
<1>1. p \in 1 .. Len(b) + 1
  OBVIOUS
<1> DEFINE D == Decoded(b)
<1> HIDE DEF D
<1> QED BY <1>1, DecodedEquation DEF D

(* ... at the end of a container ... *)
LEMMA DecodedEnd ==
    ASSUME NEW b \in Seq(Nat), NEW p \in 1 .. Len(b), b[p] = tEnd
    PROVE  Decoded(b)[p] = Parsed(<<>>, p + 1)
<1> DEFINE D == Decoded(b)
<1> HIDE DEF D
<1>1. D[p] = DecodeFrom(b, p, D)
  BY DecodedAt DEF D
<1>2. b[p] % 32 = tEnd /\ p # Len(b) + 1
  BY DEF tEnd
<1>3. D[p] = Parsed(<<>>, p + 1)
  BY <1>1, <1>2 DEF DecodeFrom
<1> QED BY <1>3 DEF D

(* ... at an element without a tag ... *)
LEMMA DecodedAnonymous ==
    ASSUME NEW b \in Seq(Nat), NEW p \in 1 .. Len(b), b[p] \in 0 .. 31, b[p] # tEnd
    PROVE  Decoded(b)[p] = DecodeContent(b, b[p], 0, p + 1, Decoded(b))
<1> DEFINE D == Decoded(b)
<1> HIDE DEF D
<1>1. D[p] = DecodeFrom(b, p, D)
  BY DecodedAt DEF D
<1>2. b[p] % 32 = b[p] /\ b[p] \div 32 # 1 /\ p # Len(b) + 1 /\ ~(p + 1 > Len(b) + 1)
  <2>1. \A c \in 0 .. 31 : c % 32 = c /\ c \div 32 # 1
    OBVIOUS
  <2>2. p # Len(b) + 1 /\ ~(p + 1 > Len(b) + 1)
    OBVIOUS
  <2> DEFINE c == b[p]
  <2>3. c \in 0 .. 31
    OBVIOUS
  <2> HIDE DEF c
  <2>4. c % 32 = c /\ c \div 32 # 1
    BY <2>1, <2>3
  <2> QED BY <2>2, <2>4 DEF c
<1>3. D[p] = DecodeContent(b, b[p], 0, p + 1, D)
  BY <1>1, <1>2 DEF DecodeFrom
<1> QED BY <1>3 DEF D

(* ... and at an element with one *)
LEMMA DecodedTagged ==
    ASSUME NEW b \in Seq(Nat), NEW p \in 1 .. Len(b), NEW tp \in 0 .. 31, NEW tag, tp # tEnd,
           At(b, p, Header(tag, tp))
    PROVE  Decoded(b)[p] = DecodeContent(b, tp, tag, p + 2, Decoded(b)) /\ p + 1 <= Len(b)
<1> DEFINE D == Decoded(b)
<1> HIDE DEF D
<1>1. D[p] = DecodeFrom(b, p, D)
  BY DecodedAt DEF D
<1> DEFINE e == <<32 + tp, tag>>
<1>2. Len(e) = 2 /\ e[1] = 32 + tp /\ e[2] = tag /\ Header(tag, tp) = e
  BY DEF Header, Control
<1> HIDE DEF e
<1>3. p + 1 <= Len(b) /\ b[p] = 32 + tp /\ b[p + 1] = tag
  <2>1. p + 2 - 1 <= Len(b) /\ b[p + 1 - 1] = e[1] /\ b[p + 2 - 1] = e[2]
    <3>1. At(b, p, e) /\ 1 \in 1 .. Len(e) /\ 2 \in 1 .. Len(e)
      BY <1>2
    <3> QED BY <3>1, <1>2 DEF At
  <2>2. p + 2 - 1 = p + 1 /\ p + 1 - 1 = p
    OBVIOUS
  <2> QED BY <2>1, <2>2, <1>2
<1>4. (32 + tp) % 32 = tp /\ (32 + tp) \div 32 = 1 /\ p # Len(b) + 1 /\ ~(p + 2 > Len(b) + 1)
  BY <1>3
<1>5. D[p] = DecodeContent(b, tp, tag, p + 2, D)
  BY <1>1, <1>3, <1>4 DEF DecodeFrom
<1> QED BY <1>3, <1>5 DEF D

LEMMA ConcatLength ==
    ASSUME NEW S, NEW e \in Seq(S), NEW f \in Seq(S)
    PROVE  e \o f \in Seq(S) /\ Len(e \o f) = Len(e) + Len(f)
OBVIOUS

LEMMA ConcatElement ==
    ASSUME NEW S, NEW e \in Seq(S), NEW f \in Seq(S)
    PROVE  /\ \A i \in 1 .. Len(e) : (e \o f)[i] = e[i]
           /\ \A i \in Len(e) + 1 .. Len(e) + Len(f) : (e \o f)[i] = f[i - Len(e)]
           /\ e \o f = [i \in 1 .. Len(e) + Len(f) |-> (e \o f)[i]]
<1>1. Len(e) \in Nat /\ Len(f) \in Nat
  OBVIOUS
<1>2. \A i \in 1 .. Len(e) : (e \o f)[i] = e[i]
  OBVIOUS
<1>3. \A i \in Len(e) + 1 .. Len(e) + Len(f) : (e \o f)[i] = f[i - Len(e)]
  BY <1>1
<1>4. e \o f = [i \in 1 .. Len(e) + Len(f) |-> (e \o f)[i]]
  <2> DEFINE t == e \o f
  <2>1. t \in Seq(S) /\ Len(t) = Len(e) + Len(f)
    BY ConcatLength
  <2> HIDE DEF t
  <2>2. t = [i \in 1 .. Len(e) + Len(f) |-> t[i]]
    BY <2>1
  <2> QED BY <2>2 DEF t
<1> QED BY <1>2, <1>3, <1>4

LEMMA ConcatOfBytes ==
    ASSUME NEW e \in Seq(Nat), NEW f \in Seq(Nat)
    PROVE  /\ \A i \in 1 .. Len(e) : (e \o f)[i] = e[i]
           /\ \A i \in Len(e) + 1 .. Len(e) + Len(f) : (e \o f)[i] = f[i - Len(e)]
           /\ e \o f = [i \in 1 .. Len(e) + Len(f) |-> (e \o f)[i]]
BY ConcatElement

LEMMA Associative ==
    ASSUME NEW d \in Seq(Nat), NEW e \in Seq(Nat), NEW f \in Seq(Nat)
    PROVE  (d \o e) \o f = d \o (e \o f)
<1> DEFINE x == d \o e
           y == e \o f
           l == Len(d)
           m == Len(e)
           n == Len(f)
<1>n. l \in Nat /\ m \in Nat /\ n \in Nat
  OBVIOUS
<1>1. x \in Seq(Nat) /\ y \in Seq(Nat) /\ Len(x) = l + m /\ Len(y) = m + n
  BY ConcatLength
<1>2. /\ \A i \in 1 .. l : x[i] = d[i]
      /\ \A i \in l + 1 .. l + m : x[i] = e[i - l]
  BY ConcatOfBytes
<1>3. /\ \A i \in 1 .. m : y[i] = e[i]
      /\ \A i \in m + 1 .. m + n : y[i] = f[i - m]
  BY ConcatOfBytes
<1> HIDE DEF x, y
<1>4. /\ \A i \in 1 .. Len(x) : (x \o f)[i] = x[i]
      /\ \A i \in Len(x) + 1 .. Len(x) + n : (x \o f)[i] = f[i - Len(x)]
      /\ x \o f = [i \in 1 .. Len(x) + n |-> (x \o f)[i]]
  BY <1>1, ConcatOfBytes
<1>5. /\ \A i \in 1 .. l : (d \o y)[i] = d[i]
      /\ \A i \in l + 1 .. l + Len(y) : (d \o y)[i] = y[i - l]
      /\ d \o y = [i \in 1 .. l + Len(y) |-> (d \o y)[i]]
  BY <1>1, ConcatOfBytes
<1> DEFINE u == x \o f
           v == d \o y
<1>6. Len(x) + n = l + Len(y) /\ Len(x) + n = l + m + n
  BY <1>1, <1>n
<1> HIDE DEF l, m, n, u, v
<1>7. ASSUME NEW i \in 1 .. l + m + n PROVE u[i] = v[i]
  <2>1. CASE i <= l
    <3>1. i \in 1 .. l /\ i \in 1 .. Len(x)
      BY <2>1, <1>n, <1>1
    <3>2. u[i] = d[i]
      BY <3>1, <1>2, <1>4 DEF u
    <3>3. v[i] = d[i]
      BY <3>1, <1>5 DEF v
    <3> QED BY <3>2, <3>3
  <2>2. CASE l < i /\ i <= l + m
    <3>1. i \in l + 1 .. l + m /\ i \in 1 .. Len(x) /\ i \in l + 1 .. l + Len(y) /\ i - l \in 1 .. m
      BY <2>2, <1>n, <1>1
    <3>2. u[i] = e[i - l]
      BY <3>1, <1>2, <1>4 DEF u
    <3>3. v[i] = e[i - l]
      BY <3>1, <1>3, <1>5 DEF v
    <3> QED BY <3>2, <3>3
  <2>3. CASE l + m < i
    <3>1. /\ i \in Len(x) + 1 .. Len(x) + n /\ i \in l + 1 .. l + Len(y) /\ i - l \in m + 1 .. m + n
          /\ i - Len(x) = (i - l) - m
      BY <2>3, <1>n, <1>1
    <3>2. u[i] = f[(i - l) - m]
      BY <3>1, <1>4 DEF u
    <3>3. v[i] = f[(i - l) - m]
      BY <3>1, <1>3, <1>5 DEF v
    <3> QED BY <3>2, <3>3
  <2> QED BY <2>1, <2>2, <2>3, <1>n
<1>8. u = v
  <2>1. u = [i \in 1 .. l + m + n |-> u[i]] /\ v = [i \in 1 .. l + m + n |-> v[i]]
    BY <1>4, <1>5, <1>6 DEF u, v
  <2> QED BY <1>7, <2>1
<1> QED BY <1>8 DEF u, v, x, y

(* What consists of two parts stands where both stand *)
LEMMA AtSplit ==
    ASSUME NEW b \in Seq(Nat), NEW p \in Nat, NEW e \in Seq(Int), NEW f \in Seq(Int), At(b, p, e \o f)
    PROVE  At(b, p, e) /\ At(b, p + Len(e), f)
<1>1. Len(e \o f) = Len(e) + Len(f) /\ Len(e) \in Nat /\ Len(f) \in Nat
  OBVIOUS
<1>2. \A i \in 1 .. Len(e) : (e \o f)[i] = e[i]
  OBVIOUS
<1>3. \A i \in 1 .. Len(f) : (e \o f)[Len(e) + i] = f[i]
  OBVIOUS
<1> DEFINE ef == e \o f
<1> HIDE DEF ef
<1>4. At(b, p, e)
  <2>1. p + Len(e) - 1 <= Len(b)
    BY <1>1 DEF At
  <2>2. ASSUME NEW i \in 1 .. Len(e) PROVE b[p + i - 1] = e[i]
    <3>1. i \in 1 .. Len(e \o f)
      BY <1>1
    <3> QED BY <3>1, <1>2 DEF At
  <2> QED BY <2>1, <2>2 DEF At
<1>5. At(b, p + Len(e), f)
  <2>1. p + Len(e) + Len(f) - 1 <= Len(b)
    BY <1>1 DEF At
  <2>2. ASSUME NEW i \in 1 .. Len(f) PROVE b[p + Len(e) + i - 1] = f[i]
    <3>1. Len(e) + i \in 1 .. Len(e \o f)
      BY <1>1
    <3>2. b[p + (Len(e) + i) - 1] = (e \o f)[Len(e) + i]
      BY <3>1 DEF At
    <3>3. p + (Len(e) + i) - 1 = p + Len(e) + i - 1
      BY <1>1
    <3> QED BY <3>2, <3>3, <1>3
  <2> QED BY <2>1, <2>2 DEF At
<1> QED BY <1>4, <1>5

LEMMA AtIsBytes ==
    ASSUME NEW b \in Seq(Nat), NEW p \in Nat \ {0}, NEW e \in Seq(Int), At(b, p, e)
    PROVE  Bytes(b, p, Len(e)) = e
<1>1. Len(e) \in Nat /\ p + Len(e) - 1 <= Len(b)
  BY DEF At
<1> DEFINE n == Len(e)
           t == SubSeq(b, p, p + n - 1)
<1>2. t \in Seq(Nat) /\ Len(t) = n
  BY <1>1, SMTT(20)
<1>3. \A i \in 1 .. n : t[i] = b[p + i - 1]
  BY <1>1, SMTT(20)
<1>4. \A i \in 1 .. n : t[i] = e[i]
  <2> HIDE DEF t
  <2> QED BY <1>3 DEF At
<1>5. t = e
  <2>1. t = [i \in 1 .. n |-> t[i]]
    BY <1>2
  <2>2. e = [i \in 1 .. n |-> e[i]]
    OBVIOUS
  <2> HIDE DEF t, n
  <2> QED BY <2>1, <2>2, <1>4
<1> QED BY <1>5 DEF Bytes

(* Reading the element that was written at position p goes on behind it *)
Reads(b, p, e, item) == Decoded(b)[p] = Before(item, Decoded(b)[p + Len(e)])

LEMMA ThenAt ==
    ASSUME NEW b \in Seq(Nat), NEW k \in 1 .. Len(b) + 1, NEW item, NEW d
    PROVE  Then(b, item, k, d) = Before(item, d[k])
BY DEF Then, Min2

LEMMA LittleEndianLength ==
    ASSUME NEW n \in Nat, NEW v \in Int
    PROVE  LittleEndian(n, v) \in Seq(Int) /\ Len(LittleEndian(n, v)) = n
<1>1. \A i \in 1 .. n : (v \div Power[i - 1]) % Base \in Int
  <2> SUFFICES ASSUME NEW i \in 1 .. n PROVE (v \div Power[i - 1]) % Base \in Int
    OBVIOUS
  <2> DEFINE x == Power[i - 1]
  <2>1. x \in Nat \ {0} /\ Base \in Nat \ {0}
    BY PowerFacts, TlvAssumption
  <2> HIDE DEF x
  <2>2. v \div x \in Int
    BY <2>1
  <2> QED BY <2>1, <2>2 DEF x
<1> QED BY <1>1 DEF LittleEndian, DigitsOf, Power

LEMMA ReadNumberAt ==
    ASSUME NEW b \in Seq(Nat), NEW q \in Nat \ {0}, NEW n \in Nat, NEW v \in Int,
           At(b, q, LittleEndian(n, v))
    PROVE  ReadNumber(b, q, n) = v % Power[n] /\ q + n - 1 <= Len(b)
<1> DEFINE e == LittleEndian(n, v)
<1>1. e \in Seq(Int) /\ Len(e) = n
  BY LittleEndianLength
<1> HIDE DEF e
<1>2. At(b, q, e)
  BY DEF e
<1>3. Bytes(b, q, n) = e /\ q + n - 1 <= Len(b)
  <2>1. Bytes(b, q, Len(e)) = e
    BY <1>1, <1>2, AtIsBytes
  <2>2. q + Len(e) - 1 <= Len(b)
    BY <1>2 DEF At
  <2> QED BY <2>1, <2>2, <1>1
<1>4. Number(e) = v % Power[n]
  BY NumberReadsBack DEF e
<1> QED BY <1>3, <1>4 DEF ReadNumber

LEMMA HeaderLength ==
    ASSUME NEW tag \in Nat, NEW tp \in 0 .. 31
    PROVE  Header(tag, tp) \in Seq(Int) /\ Len(Header(tag, tp)) = 2
BY DEF Header, Control

(* Each element is read as the item it was written for, wherever it stands *)
LEMMA UIntReadsBack ==
    ASSUME NEW b \in Seq(Nat), NEW p \in 1 .. Len(b), NEW tag \in Nat, NEW tp \in TYPE_UINT, NEW v \in Int,
           At(b, p, EncUInt(tag, tp, v))
    PROVE  Reads(b, p, EncUInt(tag, tp, v), IntItem(tag, v % Power[Width(tp)]))
<1> DEFINE D == Decoded(b)
           n == Width(tp)
           h == Header(tag, tp)
           e == LittleEndian(n, v)
           item == IntItem(tag, v % Power[n])
<1>t. tp \in 0 .. 31 /\ tp \in 1 .. 7 /\ tp # tEnd /\ p \in Nat \ {0} /\ p + 2 \in Nat \ {0}
  BY DEF TYPE_UINT, tEnd
<1>n. n \in {1, 2, 4, 8}
  BY <1>t, WidthNat
<1> HIDE DEF n
<1>1. /\ h \in Seq(Int) /\ Len(h) = 2 /\ e \in Seq(Int) /\ Len(e) = n
      /\ EncUInt(tag, tp, v) = h \o e /\ Len(h \o e) = n + 2
  <2>1. /\ h \in Seq(Int) /\ Len(h) = 2 /\ e \in Seq(Int) /\ Len(e) = n
    BY <1>t, <1>n, HeaderLength, LittleEndianLength
  <2>2. EncUInt(tag, tp, v) = h \o e
    BY DEF EncUInt, n
  <2> HIDE DEF h, e
  <2>3. Len(h \o e) = Len(h) + Len(e)
    BY <2>1, ConcatLength
  <2>4. Len(h \o e) = n + 2
    BY <2>1, <2>3, <1>n
  <2> QED BY <2>1, <2>2, <2>4
<1>2. At(b, p, h) /\ At(b, p + 2, e)
  <2>1. At(b, p, h \o e)
    BY <1>1
  <2> HIDE DEF h, e
  <2>2. At(b, p, h) /\ At(b, p + Len(h), e)
    BY <1>1, <1>t, <2>1, AtSplit
  <2> QED BY <1>1, <2>2
<1>3. D[p] = DecodeContent(b, tp, tag, p + 2, D)
  BY <1>2, <1>t, DecodedTagged
<1>4. ReadNumber(b, p + 2, n) = v % Power[n] /\ p + 2 + n - 1 <= Len(b)
  BY <1>2, <1>t, <1>n, ReadNumberAt
<1>5. p + 2 + n \in 1 .. Len(b) + 1
  BY <1>4, <1>n
<1> HIDE DEF D
<1>6. DecodeContent(b, tp, tag, p + 2, D) = Then(b, item, p + 2 + n, D)
  <2> USE DEF OneByte, Signed, tFalse, tTrue, tUtf8, tOctets1, tOctets2, tNull, Containers, tStruct, tArray, tList
  <2>1. CASE tp = 4
    <3>1. n = 1 /\ e[1] = v % Base /\ Power[1] = Base
      <4>1. n = 1
        BY <2>1 DEF n, Width
      <4>2. Power[0] = 1 /\ Power[1] = Base * Power[0] /\ Base \in Nat
        <5>1. Power[0] = 1 /\ Power[0 + 1] = Base * Power[0]
          BY PowerFacts
        <5> QED BY <5>1, TlvAssumption
      <4>3. e[1] = (v \div Power[0]) % Base
        BY <4>1 DEF LittleEndian, DigitsOf, Power
      <4> QED BY <4>1, <4>2, <4>3
    <3>2. b[p + 2] = e[1]
      <4>1. b[p + 2 + 1 - 1] = e[1]
        <5> HIDE DEF e
        <5> QED BY <1>1, <1>2, <3>1, SMTT(20) DEF At
      <4> QED BY <4>1, <1>t
    <3>3. p + 2 <= Len(b)
      BY <1>4, <3>1
    <3>4. DecodeContent(b, tp, tag, p + 2, D) = Then(b, IntItem(tag, b[p + 2]), p + 2 + 1, D)
      BY <2>1, <3>3 DEF DecodeContent
    <3> QED BY <3>1, <3>2, <3>4
  <2>2. ASSUME tp \in 5 .. 7
        PROVE  DecodeContent(b, tp, tag, p + 2, D)
                 = Then(b, IntItem(tag, ReadNumber(b, p + 2, n)), p + 2 + n, D)
    <3>1. CASE tp = 5
      BY <3>1 DEF DecodeContent, n
    <3>2. CASE tp = 6
      BY <3>2 DEF DecodeContent, n
    <3>3. CASE tp = 7
      BY <3>3 DEF DecodeContent, n
    <3> QED BY <2>2, <3>1, <3>2, <3>3
  <2> QED BY <2>1, <2>2, <1>4 DEF TYPE_UINT
<1>7. D[p] = Before(item, D[p + (n + 2)])
  <2>1. p + 2 + n = p + (n + 2)
    BY <1>n
  <2> HIDE DEF item
  <2> QED BY <1>3, <1>5, <1>6, <2>1, ThenAt
<1> QED BY <1>1, <1>7 DEF Reads, D, n

LEMMA BoolReadsBack ==
    ASSUME NEW b \in Seq(Nat), NEW p \in 1 .. Len(b), NEW tag \in Nat, NEW v \in BOOLEAN,
           At(b, p, EncBool(tag, v))
    PROVE  Reads(b, p, EncBool(tag, v), BoolItem(tag, v))
<1> DEFINE D == Decoded(b)
           tp == IF v THEN tTrue ELSE tFalse
           item == BoolItem(tag, v)
<1>1. tp \in 0 .. 31 /\ tp # tEnd /\ EncBool(tag, v) = Header(tag, tp)
  BY DEF tTrue, tFalse, tEnd, EncBool
<1>2. D[p] = DecodeContent(b, tp, tag, p + 2, D) /\ p + 1 <= Len(b)
  <2> HIDE DEF tp
  <2> QED BY <1>1, DecodedTagged
<1>3. p + 2 \in 1 .. Len(b) + 1
  BY <1>2
<1>4. Len(EncBool(tag, v)) = 2
  <2> HIDE DEF tp
  <2> QED BY <1>1, HeaderLength
<1> HIDE DEF D
<1>5. DecodeContent(b, tp, tag, p + 2, D) = Then(b, item, p + 2, D)
  <2> USE DEF OneByte, Signed, tFalse, tTrue, tUtf8, tOctets1, tOctets2, tNull, Containers, tStruct, tArray, tList
  <2>1. CASE v = TRUE
    BY <2>1 DEF DecodeContent
  <2>2. CASE v = FALSE
    <3>1. tp = 8 /\ item = BoolItem(tag, FALSE)
      BY <2>2
    <3> HIDE DEF tp, item
    <3> QED BY <3>1 DEF DecodeContent
  <2> QED BY <2>1, <2>2
<1> HIDE DEF item, tp
<1>6. D[p] = Before(item, D[p + 2])
  BY <1>2, <1>3, <1>5, ThenAt
<1> QED BY <1>4, <1>6 DEF Reads, D, item

LEMMA ReadOctetsAt ==
    ASSUME NEW b \in Seq(Nat), NEW k \in Nat \ {0}, NEW s \in Seq(Nat), At(b, k, s)
    PROVE  ReadOctets(b, k, Len(s)) = s
<1>1. \A i \in 1 .. Len(s) : k + i - 1 <= Len(b) /\ b[k + i - 1] = s[i]
  BY DEF At
<1>2. ReadOctets(b, k, Len(s)) = [i \in 1 .. Len(s) |-> s[i]]
  BY <1>1 DEF ReadOctets
<1> QED BY <1>2

(* An octet string behind a length of n bytes *)
LEMMA LengthReadsBack ==
    ASSUME NEW b \in Seq(Nat), NEW p \in 1 .. Len(b), NEW tag \in Nat, NEW s \in Seq(Nat),
           NEW n \in {1, 2}, Len(s) < Power[n],
           NEW tp, tp = IF n = 1 THEN tOctets1 ELSE tOctets2,
           At(b, p, (Header(tag, tp) \o LittleEndian(n, Len(s))) \o s)
    PROVE  Reads(b, p, (Header(tag, tp) \o LittleEndian(n, Len(s))) \o s, OctetsItem(tag, s))
<1> DEFINE D == Decoded(b)
           h == Header(tag, tp)
           e == LittleEndian(n, Len(s))
           item == OctetsItem(tag, s)
<1>t. tp \in 0 .. 31 /\ tp # tEnd /\ p \in Nat \ {0}
  BY DEF tOctets1, tOctets2, tEnd
<1>l. Len(s) \in Nat
  OBVIOUS
<1>1. h \in Seq(Int) /\ Len(h) = 2 /\ e \in Seq(Int) /\ Len(e) = n /\ s \in Seq(Int)
  <2>1. h \in Seq(Int) /\ Len(h) = 2
    BY <1>t, HeaderLength
  <2>2. e \in Seq(Int) /\ Len(e) = n
    <3>1. n \in Nat /\ Len(s) \in Int
      BY <1>l
    <3> QED BY <3>1, LittleEndianLength
  <2>3. s \in Seq(Int)
    OBVIOUS
  <2> HIDE DEF h, e
  <2> QED BY <2>1, <2>2, <2>3
<1>2. Len((h \o e) \o s) = 2 + n + Len(s) /\ h \o e \in Seq(Int) /\ Len(h \o e) = 2 + n
  <2> HIDE DEF h, e
  <2>1. h \o e \in Seq(Int) /\ Len(h \o e) = Len(h) + Len(e)
    BY <1>1, ConcatLength
  <2> DEFINE he == h \o e
  <2>2. he \in Seq(Int) /\ Len(he) = 2 + n
    BY <1>1, <2>1
  <2> HIDE DEF he
  <2>3. Len(he \o s) = Len(he) + Len(s)
    BY <1>1, <2>2, ConcatLength
  <2> QED BY <2>2, <2>3 DEF he
<1>3. At(b, p, h) /\ At(b, p + 2, e) /\ At(b, p + 2 + n, s)
  <2> DEFINE he == h \o e
  <2>1. At(b, p, he \o s)
    OBVIOUS
  <2> HIDE DEF h, e
  <2>3. he \in Seq(Int) /\ Len(he) = 2 + n
    BY <1>2
  <2>2. At(b, p, he) /\ At(b, p + Len(he), s)
    <3> HIDE DEF he
    <3> QED BY <1>1, <1>t, <2>1, <2>3, AtSplit
  <2>4. At(b, p, h) /\ At(b, p + Len(h), e)
    BY <1>1, <1>t, <2>2, AtSplit
  <2>5. p + Len(he) = p + 2 + n
    BY <2>3
  <2> QED BY <1>1, <2>2, <2>4, <2>5
<1>4. D[p] = DecodeContent(b, tp, tag, p + 2, D)
  BY <1>3, <1>t, DecodedTagged
<1>5. ReadNumber(b, p + 2, n) = Len(s) % Power[n] /\ p + 2 + n - 1 <= Len(b)
  BY <1>3, <1>t, <1>l, ReadNumberAt
<1>6. Len(s) % Power[n] = Len(s)
  <2>1. Power[n] \in Nat \ {0}
    BY PowerFacts
  <2> QED BY <2>1, <1>l, SmallRemainder
<1>7. p + 2 + n + Len(s) \in 1 .. Len(b) + 1 /\ p + 2 + n \in Nat \ {0}
  <2>1. p + 2 + n + Len(s) - 1 <= Len(b)
    BY <1>3 DEF At
  <2> QED BY <2>1, <1>l, <1>t
<1>8. ReadOctets(b, p + 2 + n, Len(s)) = s
  BY <1>3, <1>7, ReadOctetsAt
<1> HIDE DEF D
<1>9. DecodeContent(b, tp, tag, p + 2, D) = ThenOctets(b, tag, Len(s), p + 2 + n, D)
  <2> USE DEF OneByte, Signed, tFalse, tTrue, tUtf8, tOctets1, tOctets2, tNull, Containers, tStruct, tArray, tList
  <2>1. CASE n = 1
    <3>1. b[p + 2] = Len(s)
      <4>1. Power[0] = 1 /\ Power[0 + 1] = Base * Power[0] /\ Base \in Nat \ {0}
        BY PowerFacts, TlvAssumption
      <4>2. e[1] = (Len(s) \div Power[0]) % Base
        BY <2>1 DEF LittleEndian, DigitsOf, Power
      <4>3. Len(s) < Base
        BY <4>1, <2>1
      <4>4. e[1] = Len(s)
        <5>1. Len(s) \div 1 = Len(s) /\ Len(s) % Base = Len(s)
          BY <4>1, <4>3, <1>l, SmallRemainder
        <5> HIDE DEF e
        <5> QED BY <4>1, <4>2, <5>1
      <4>5. b[p + 2 + 1 - 1] = e[1]
        <5> HIDE DEF e
        <5> QED BY <1>1, <1>3, <2>1 DEF At
      <4> QED BY <4>4, <4>5, <1>t
    <3>2. p + 2 <= Len(b)
      BY <1>5, <2>1
    <3>3. DecodeContent(b, tp, tag, p + 2, D) = ThenOctets(b, tag, b[p + 2], p + 2 + 1, D)
      BY <2>1, <3>2 DEF DecodeContent
    <3> QED BY <2>1, <3>1, <3>3
  <2>2. CASE n = 2
    <3>1. DecodeContent(b, tp, tag, p + 2, D) = ThenOctets(b, tag, ReadNumber(b, p + 2, 2), p + 2 + 2, D)
      BY <2>2 DEF DecodeContent
    <3> QED BY <2>2, <3>1, <1>5, <1>6
  <2> QED BY <2>1, <2>2
<1>10. D[p] = Before(item, D[p + (2 + n + Len(s))])
  <2>1. p + 2 + n + Len(s) = p + (2 + n + Len(s))
    BY <1>l
  <2>2. ThenOctets(b, tag, Len(s), p + 2 + n, D) = Then(b, item, p + 2 + n + Len(s), D)
    BY <1>8 DEF ThenOctets
  <2> HIDE DEF item
  <2> QED BY <1>4, <1>9, <1>7, <2>1, <2>2, ThenAt
<1> QED BY <1>2, <1>10 DEF Reads, D

LEMMA OctetsReadBack ==
    ASSUME NEW b \in Seq(Nat), NEW p \in 1 .. Len(b), NEW tag \in Nat, NEW s \in Seq(Nat),
           Len(s) < Power[2], At(b, p, EncOctetString(tag, s))
    PROVE  Reads(b, p, EncOctetString(tag, s), OctetsItem(tag, s))
<1>1. CASE Len(s) > Base - 1
  BY <1>1, LengthReadsBack DEF EncOctetString
<1>2. CASE ~(Len(s) > Base - 1)
  <2>1. Power[0] = 1 /\ Power[0 + 1] = Base * Power[0] /\ Base \in Nat
    BY PowerFacts, TlvAssumption
  <2>2. Len(s) < Power[1]
    BY <1>2, <2>1
  <2> QED BY <1>2, <2>2, LengthReadsBack DEF EncOctetString
<1> QED BY <1>1, <1>2

-----------------------------------------------------------------------------
(* Containers that are still being written *)

(* A container whose content is read as `inner`, and what follows it *)
Inner(tag, inner, decode) ==
    IF inner.next = Nowhere THEN Failed ELSE Before(ListItem(tag, inner.items), decode[inner.next])

(* The items l, and behind them what r has *)
Behind(l, r) == [items |-> l \o r.items, next |-> r.next]

LEMMA ContainerContent ==
    ASSUME NEW b, NEW tp \in Containers, NEW tag, NEW q, NEW d
    PROVE  DecodeContent(b, tp, tag, q, d) = Inner(tag, d[q], d)
<1> USE DEF OneByte, Signed, tFalse, tTrue, tUtf8, tOctets1, tOctets2, tNull, Containers, tStruct, tArray, tList
<1>1. CASE tp = 21
  BY <1>1 DEF DecodeContent, Inner
<1>2. CASE tp = 22
  BY <1>2 DEF DecodeContent, Inner
<1>3. CASE tp = 23
  BY <1>3 DEF DecodeContent, Inner
<1> QED BY <1>1, <1>2, <1>3

LEMMA AnonymousReads ==
    ASSUME NEW b \in Seq(Nat), NEW p \in 1 .. Len(b), NEW tp \in Containers, At(b, p, <<tp>>)
    PROVE  Decoded(b)[p] = Inner(0, Decoded(b)[p + 1], Decoded(b))
<1>1. b[p + 1 - 1] = tp
  BY DEF At
<1>2. b[p] = tp /\ tp \in 0 .. 31 /\ tp # tEnd
  BY <1>1 DEF Containers, tStruct, tArray, tList, tEnd
<1> DEFINE D == Decoded(b)
<1> HIDE DEF D
<1>3. D[p] = DecodeContent(b, tp, 0, p + 1, D)
  BY <1>2, DecodedAnonymous DEF D
<1> QED BY <1>3, ContainerContent DEF D

(* A container's content starts behind its control byte and tag *)
LEMMA ContainerReads ==
    ASSUME NEW b \in Seq(Nat), NEW p \in 1 .. Len(b), NEW tag \in Nat, NEW tp \in Containers,
           At(b, p, Header(tag, tp))
    PROVE  Decoded(b)[p] = Inner(tag, Decoded(b)[p + 2], Decoded(b))
<1>1. tp \in 0 .. 31 /\ tp # tEnd
  BY DEF Containers, tStruct, tArray, tList, tEnd
<1> DEFINE D == Decoded(b)
<1> HIDE DEF D
<1>2. D[p] = DecodeContent(b, tp, tag, p + 2, D)
  BY <1>1, DecodedTagged DEF D
<1> QED BY <1>2, ContainerContent DEF D

LEMMA BehindNothing ==
    ASSUME NEW b, NEW p, NEW r, Result(b, p, r)
    PROVE  Behind(<<>>, r) = r
<1>1. IsSeq(r.items) /\ r = [items |-> r.items, next |-> r.next]
  BY Zenon DEF Result
<1> DEFINE l == r.items
<1>2. <<>> \o l = l
  <2>1. l \in Seq({l[i] : i \in DOMAIN l})
    BY <1>1 DEF IsSeq
  <2> DEFINE S == {l[i] : i \in DOMAIN l}
  <2> HIDE DEF l, S
  <2>2. ASSUME NEW m \in Seq(S) PROVE <<>> \o m = m
    OBVIOUS
  <2> QED BY <2>1, <2>2 DEF S
<1>3. Behind(<<>>, r) = [items |-> r.items, next |-> r.next]
  BY <1>2 DEF Behind
<1> QED BY <1>1, <1>3, Zenon

LEMMA AppendIsSeq ==
    ASSUME NEW l, IsSeq(l), NEW x
    PROVE  IsSeq(Append(l, x))
<1> DEFINE S == {x} \cup {l[i] : i \in DOMAIN l}
<1>1. l \in Seq(S)
  BY DEF IsSeq
<1>2. Append(l, x) \in Seq(S)
  BY <1>1
<1> HIDE DEF S
<1> QED BY <1>2, SeqIsSeq

(* Appending to the items in front of what follows *)
LEMMA BehindAppend ==
    ASSUME NEW l, IsSeq(l), NEW b, NEW p, NEW r, Result(b, p, r), NEW item
    PROVE  Behind(Append(l, item), r) = Behind(l, Before(item, r))
<1> DEFINE m == r.items
           S == {item} \cup {l[i] : i \in DOMAIN l} \cup {m[i] : i \in DOMAIN m}
<1>1. IsSeq(m)
  BY ResultParts
<1> HIDE DEF m
<1>2. l \in Seq(S) /\ m \in Seq(S) /\ item \in S
  BY <1>1 DEF IsSeq
<1> HIDE DEF S
<1>3. Append(l, item) \o m = l \o (<<item>> \o m)
  BY <1>2
<1> QED BY <1>3 DEF Behind, Before, m

(* The first n - 1 containers that are open are those the next one is in,  *)
(* and behind what the last one holds comes what is read at `end`.         *)
Unfolds(b, end, n, tag, list, start) ==
    LET D == Decoded(b) IN
    /\ \A k \in 1 .. n - 1 : D[start[k]] = Behind(list[k], Inner(tag[k + 1], D[start[k + 1]], D))
    /\ D[start[n]] = Behind(list[n], D[end])

(* What the three kinds of calls make of the frames *)
LEMMA UnfoldsPut ==
    ASSUME NEW b \in Seq(Nat), NEW p \in 1 .. Len(b), NEW q \in 1 .. Len(b) + 1, NEW item,
           Decoded(b)[p] = Before(item, Decoded(b)[q]),
           NEW n \in Nat \ {0}, NEW tag, NEW list, NEW start, IsSeq(list[n]),
           Unfolds(b, p, n, tag, list, start),
           NEW new, new[n] = Append(list[n], item), \A k \in 1 .. n - 1 : new[k] = list[k]
    PROVE  Unfolds(b, q, n, tag, new, start)
<1> DEFINE D == Decoded(b)
<1>1. Result(b, q, D[q])
  BY DecodedEquation
<1> HIDE DEF D
<1>2. D[p] = Before(item, D[q])
  BY DEF D
<1>3. D[start[n]] = Behind(list[n], D[p])
  BY DEF Unfolds, D
<1>4. Behind(Append(list[n], item), D[q]) = Behind(list[n], Before(item, D[q]))
  BY <1>1, BehindAppend
<1>6. D[start[n]] = Behind(new[n], D[q])
  BY <1>2, <1>3, <1>4
<1>7. ASSUME NEW k \in 1 .. n - 1
      PROVE  D[start[k]] = Behind(new[k], Inner(tag[k + 1], D[start[k + 1]], D))
  BY DEF Unfolds, D
<1> QED BY <1>6, <1>7 DEF Unfolds, D

(* g is f on 1 .. n, and x behind it *)
Longer(f, n, g, m, x) == m = n + 1 /\ g[m] = x /\ \A k \in 1 .. n : g[k] = f[k]

LEMMA UnfoldsOpen ==
    ASSUME NEW b \in Seq(Nat), NEW p \in 1 .. Len(b), NEW q \in 1 .. Len(b) + 1, NEW t,
           Decoded(b)[p] = Inner(t, Decoded(b)[q], Decoded(b)),
           NEW n \in Nat \ {0}, NEW tag, NEW list, NEW start,
           Unfolds(b, p, n, tag, list, start),
           NEW m, NEW tags, Longer(tag, n, tags, m, t),
           NEW lists, Longer(list, n, lists, m, <<>>),
           NEW starts, Longer(start, n, starts, m, q)
    PROVE  Unfolds(b, q, m, tags, lists, starts)
<1> DEFINE D == Decoded(b)
<1>1. Result(b, q, D[q])
  BY DecodedEquation
<1> HIDE DEF D
<1>2. D[p] = Inner(t, D[q], D) /\ D[start[n]] = Behind(list[n], D[p])
  BY DEF Unfolds, D
<1>3. /\ tags[n + 1] = t /\ lists[n + 1] = <<>> /\ starts[n + 1] = q
      /\ \A k \in 1 .. n : tags[k] = tag[k] /\ lists[k] = list[k] /\ starts[k] = start[k]
  BY DEF Longer
<1>4. D[starts[n + 1]] = Behind(lists[n + 1], D[q])
  BY <1>1, <1>3, BehindNothing
<1>5. ASSUME NEW k \in 1 .. n
      PROVE  D[starts[k]] = Behind(lists[k], Inner(tags[k + 1], D[starts[k + 1]], D))
  <2>1. CASE k = n
    BY <2>1, <1>2, <1>3
  <2>2. CASE k # n
    <3>1. k \in 1 .. n - 1 /\ k + 1 \in 1 .. n
      BY <2>2
    <3>2. D[start[k]] = Behind(list[k], Inner(tag[k + 1], D[start[k + 1]], D))
      BY <3>1 DEF Unfolds, D
    <3> QED BY <3>1, <3>2, <1>3
  <2> QED BY <2>1, <2>2
<1>6. m = n + 1 /\ m - 1 = n
  BY DEF Longer
<1> QED BY <1>4, <1>5, <1>6 DEF Unfolds, D

LEMMA UnfoldsEnd ==
    ASSUME NEW b \in Seq(Nat), NEW p \in 1 .. Len(b), NEW q \in 1 .. Len(b) + 1,
           Decoded(b)[p] = Parsed(<<>>, q),
           NEW n \in Nat, n > 1, NEW m \in Nat, m < n, n <= m + 1,
           NEW tag, NEW list, NEW start, IsSeq(list[n]), IsSeq(list[m]),
           Unfolds(b, p, n, tag, list, start),
           NEW new, new[m] = Append(list[m], ListItem(tag[n], list[n])),
           \A k \in 1 .. m - 1 : new[k] = list[k]
    PROVE  Unfolds(b, q, m, tag, new, start)
<1> DEFINE D == Decoded(b)
           item == ListItem(tag[n], list[n])
           r == Parsed(list[n], q)
<1>n. m \in Nat \ {0} /\ m + 1 = n /\ m \in 1 .. n - 1
  OBVIOUS
<1>1. Result(b, q, D[q])
  BY DecodedEquation
<1> HIDE DEF D
<1>2. D[p] = Parsed(<<>>, q) /\ D[start[n]] = Behind(list[n], D[p])
  BY DEF Unfolds, D
<1>3. Behind(list[n], Parsed(<<>>, q)) = r
  <2> DEFINE l == list[n]
             S == {l[i] : i \in DOMAIN l}
  <2>1. l \in Seq(S)
    BY DEF IsSeq
  <2> HIDE DEF l, S
  <2>2. l \o <<>> = l
    BY <2>1
  <2> QED BY <2>2 DEF Behind, Parsed, l
<1>4. Inner(tag[n], r, D) = Before(item, D[q])
  <2>1. q # 0
    OBVIOUS
  <2> QED BY <2>1 DEF Inner, Parsed, Nowhere
<1>5. D[start[m]] = Behind(list[m], Inner(tag[m + 1], D[start[m + 1]], D))
  BY <1>n DEF Unfolds, D
<1>8. new[m] = Append(list[m], item) /\ \A k \in 1 .. m - 1 : new[k] = list[k]
  BY <1>n
<1> HIDE DEF item, r
<1>6. D[start[m]] = Behind(list[m], Before(item, D[q]))
  BY <1>n, <1>2, <1>3, <1>4, <1>5
<1>7. Behind(Append(list[m], item), D[q]) = Behind(list[m], Before(item, D[q]))
  BY <1>1, BehindAppend
<1>9. D[start[m]] = Behind(new[m], D[q])
  BY <1>6, <1>7, <1>8
<1>10. ASSUME NEW k \in 1 .. m - 1
       PROVE  D[start[k]] = Behind(new[k], Inner(tag[k + 1], D[start[k + 1]], D))
  <2>1. k \in 1 .. n - 1
    BY <1>n
  <2>2. D[start[k]] = Behind(list[k], Inner(tag[k + 1], D[start[k + 1]], D))
    BY <2>1 DEF Unfolds, D
  <2> QED BY <2>2, <1>8
<1> QED BY <1>9, <1>10 DEF Unfolds, D

-----------------------------------------------------------------------------
(* The writer's invariant *)

(* The containers being written as their tags and lists, and where the     *)
(* content of each one starts                                              *)
Stack(n, tag, list) == [k \in 1 .. n |-> ListItem(tag[k], list[k])]

Stands(d, o, n, tag, list, start) ==
    /\ n \in Nat \ {0}
    /\ o = Stack(n, tag, list)
    /\ \A k \in 1 .. n : IsSeq(list[k]) /\ start[k] \in 1 .. Len(d) + 1
    /\ start[1] = 1
    /\ \A s \in Seq(Nat) : Unfolds(d \o s, Len(d) + 1, n, tag, list, start)

(* Whatever the writer appends later, decode reads in the buffer what the  *)
(* open containers hold so far, each inside the one before it.             *)
TlvInv ==
    /\ data \in Seq(Nat)
    /\ \E n, tag, list, start : Stands(data, open, n, tag, list, start)

(* \o, as a name the provers leave alone *)
Cat(s, t) == s \o t

(* What is appended to the buffer stands behind what it held *)
LEMMA AppendedAt ==
    ASSUME NEW d \in Seq(Nat), NEW e \in Seq(Nat), NEW s \in Seq(Nat), Len(e) > 0
    PROVE  /\ Cat(Cat(d, e), s) = Cat(d, Cat(e, s))
           /\ Cat(e, s) \in Seq(Nat) /\ Cat(d, Cat(e, s)) \in Seq(Nat)
           /\ At(Cat(d, Cat(e, s)), Len(d) + 1, e)
           /\ Len(d) + 1 \in 1 .. Len(Cat(d, Cat(e, s)))
           /\ Len(Cat(d, e)) + 1 = Len(d) + 1 + Len(e)
           /\ Len(Cat(d, e)) + 1 \in 1 .. Len(Cat(d, Cat(e, s))) + 1
<1>1. (d \o e) \o s = d \o (e \o s) /\ e \o s \in Seq(Nat) /\ d \o (e \o s) \in Seq(Nat)
  <2>1. e \o s \in Seq(Nat)
    OBVIOUS
  <2>2. d \o (e \o s) \in Seq(Nat)
    BY <2>1, ConcatLength
  <2>3. (d \o e) \o s = d \o (e \o s)
    BY Associative
  <2> QED BY <2>1, <2>2, <2>3
<1>2. /\ Len(d \o (e \o s)) = Len(d) + Len(e \o s) /\ Len(e \o s) = Len(e) + Len(s)
      /\ Len(d \o e) = Len(d) + Len(e)
  <2>1. Len(d \o (e \o s)) = Len(d) + Len(e \o s)
    BY <1>1, ConcatLength
  <2> QED BY <2>1, ConcatLength
<1>n. Len(d) \in Nat /\ Len(e) \in Nat /\ Len(s) \in Nat
  OBVIOUS
<1> DEFINE b == d \o (e \o s)
<1>3. ASSUME NEW i \in 1 .. Len(e) PROVE b[Len(d) + 1 + i - 1] = e[i]
  <2>1. (e \o s)[i] = e[i]
    OBVIOUS
  <2> DEFINE f == e \o s
  <2>2. f \in Seq(Nat) /\ i \in 1 .. Len(f)
    BY <1>1, <1>2, <1>n
  <2> HIDE DEF f
  <2>3. (d \o f)[Len(d) + i] = f[i]
    BY <2>2
  <2>4. Len(d) + 1 + i - 1 = Len(d) + i
    BY <1>n
  <2> QED BY <2>1, <2>3, <2>4 DEF f
<1> HIDE DEF b
<1>4. At(b, Len(d) + 1, e)
  BY <1>2, <1>3, <1>n DEF At, b
<1>5. /\ Len(d) + 1 \in 1 .. Len(b)
      /\ Len(d \o e) + 1 = Len(d) + 1 + Len(e) /\ Len(d \o e) + 1 \in 1 .. Len(b) + 1
  BY <1>2, <1>n DEF b
<1> QED BY <1>1, <1>4, <1>5 DEF b, Cat

LEMMA StackParts ==
    ASSUME NEW n \in Nat \ {0}, NEW tag, NEW list, NEW o, o = Stack(n, tag, list)
    PROVE  /\ Len(o) = n /\ IsSeq(o)
           /\ o = [k \in 1 .. n |-> o[k]]
           /\ \A k \in 1 .. n : o[k] = ListItem(tag[k], list[k])
<1> DEFINE S == {ListItem(tag[k], list[k]) : k \in 1 .. n}
<1>1. \A k \in 1 .. n : o[k] = ListItem(tag[k], list[k])
  BY DEF Stack
<1>2. o = [k \in 1 .. n |-> o[k]]
  BY DEF Stack
<1>3. o \in Seq(S) /\ Len(o) = n
  <2> DEFINE f(k) == ListItem(tag[k], list[k])
  <2>1. \A k \in 1 .. n : f(k) \in S
    OBVIOUS
  <2>2. o = [k \in 1 .. n |-> f(k)]
    BY DEF Stack
  <2> HIDE DEF f, S
  <2> QED BY <2>1, <2>2
<1> HIDE DEF S
<1> QED BY <1>1, <1>2, <1>3, SeqIsSeq

LEMMA ListOfItem == \A t, l : ListItem(t, l).list = l
BY DEF ListItem, Item

(* A frame with one more item *)
LEMMA FrameAppend ==
    ASSUME NEW t, NEW l, NEW item
    PROVE  [ListItem(t, l) EXCEPT !.list = Append(@, item)] = ListItem(t, Append(l, item))
BY SMTT(20) DEF ListItem, Item

(* The stack o with one more item in its frame m *)
Added(o, m, item) == [o EXCEPT ![m].list = Append(@, item)]

LEMMA PutStack ==
    ASSUME NEW n \in Nat \ {0}, NEW tag, NEW list, NEW o, o = Stack(n, tag, list), NEW item,
           NEW new, new[n] = Append(list[n], item), \A k \in 1 .. n - 1 : new[k] = list[k]
    PROVE  Added(o, n, item) = Stack(n, tag, new)
<1> DEFINE o2 == Added(o, n, item)
<1>1. (\A k \in 1 .. n : o[k] = ListItem(tag[k], list[k])) /\ o = [k \in 1 .. n |-> o[k]]
  BY StackParts
<1>2. o2 = [k \in 1 .. n |-> IF k = n THEN [o[n] EXCEPT !.list = Append(@, item)] ELSE o[k]]
  BY <1>1 DEF Added
<1>3. [o[n] EXCEPT !.list = Append(@, item)] = ListItem(tag[n], Append(list[n], item))
  <2>1. o[n] = ListItem(tag[n], list[n])
    BY <1>1
  <2> QED BY <2>1, FrameAppend, SMTT(20)
<1>4. \A k \in 1 .. n : k # n => k \in 1 .. n - 1
  OBVIOUS
<1> HIDE DEF o2
<1>5. o2 = [k \in 1 .. n |-> ListItem(tag[k], new[k])]
  BY <1>1, <1>2, <1>3, <1>4
<1> QED BY <1>5 DEF Stack, o2

(* The stack o with a new frame *)
Pushed(o, t) == Append(o, ListItem(t, <<>>))

LEMMA OpenStack ==
    ASSUME NEW n \in Nat \ {0}, NEW tag, NEW list, NEW o, o = Stack(n, tag, list), NEW t,
           NEW m, NEW tags, Longer(tag, n, tags, m, t), NEW lists, Longer(list, n, lists, m, <<>>)
    PROVE  Pushed(o, t) = Stack(m, tags, lists)
<1> DEFINE item == ListItem(t, <<>>)
           o2 == Append(o, item)
           S == {item} \cup {o[k] : k \in DOMAIN o}
<1>1. (\A k \in 1 .. n : o[k] = ListItem(tag[k], list[k])) /\ IsSeq(o) /\ Len(o) = n
  BY StackParts
<1>2. o \in Seq(S) /\ item \in S
  BY <1>1 DEF IsSeq
<1>m. /\ m = n + 1 /\ tags[n + 1] = t /\ lists[n + 1] = <<>>
      /\ \A k \in 1 .. n : tags[k] = tag[k] /\ lists[k] = list[k]
  BY DEF Longer
<1>3. item = ListItem(tags[n + 1], lists[n + 1])
  BY <1>m
<1> HIDE DEF S, item
<1>4. o2 \in Seq(S) /\ Len(o2) = n + 1
  BY <1>1, <1>2
<1>5. o2[n + 1] = item /\ \A k \in 1 .. n : o2[k] = o[k]
  BY <1>1, <1>2
<1> HIDE DEF o2
<1>6. o2 = [k \in 1 .. n + 1 |-> o2[k]]
  BY <1>4
<1>7. ASSUME NEW k \in 1 .. n + 1 PROVE o2[k] = ListItem(tags[k], lists[k])
  <2>1. CASE k = n + 1
    BY <2>1, <1>3, <1>5
  <2>2. CASE k # n + 1
    <3>1. k \in 1 .. n
      BY <2>2
    <3> QED BY <3>1, <1>1, <1>5, <1>m
  <2> QED BY <2>1, <2>2
<1>8. o2 = Stack(m, tags, lists)
  BY <1>6, <1>7, <1>m DEF Stack
<1> QED BY <1>8 DEF o2, item, Pushed

LEMMA EndStack ==
    ASSUME NEW n \in Nat, n > 1, NEW tag, NEW list, NEW o, o = Stack(n, tag, list)
    PROVE  Last(o) = ListItem(tag[n], list[n]) /\ Front(o) = Stack(n - 1, tag, list)
<1> DEFINE m == n - 1
           front == SubSeq(o, 1, m)
           S == {o[k] : k \in DOMAIN o}
<1>n. m \in Nat \ {0} /\ n \in Nat \ {0} /\ n \in 1 .. n /\ m < n
  OBVIOUS
<1>1. (\A k \in 1 .. n : o[k] = ListItem(tag[k], list[k])) /\ Len(o) = n /\ IsSeq(o)
  BY <1>n, StackParts
<1>2. Last(o) = ListItem(tag[n], list[n]) /\ Front(o) = front
  BY <1>1, <1>n DEF Last, Front
<1>3. o \in Seq(S)
  BY <1>1 DEF IsSeq
<1> HIDE DEF m, S
<1>4. front = [k \in 1 .. m |-> front[k]] /\ \A k \in 1 .. m : front[k] = o[k]
  BY <1>1, <1>3, <1>n
<1> HIDE DEF front
<1>5. \A k \in 1 .. m : front[k] = ListItem(tag[k], list[k])
  BY <1>1, <1>4, <1>n
<1>6. front = Stack(m, tag, list)
  BY <1>4, <1>5 DEF Stack
<1> QED BY <1>2, <1>6 DEF m

(* An empty buffer: whatever is appended is read from position 1 *)
LEMMA TlvInitInv == TlvInit => TlvInv
<1> SUFFICES ASSUME TlvInit PROVE TlvInv
  OBVIOUS
<1> DEFINE tag == [k \in 1 .. 1 |-> 0]
           list == [k \in 1 .. 1 |-> <<>>]
           start == [k \in 1 .. 1 |-> 1]
<1>1. tag[1] = 0 /\ list[1] = <<>> /\ start[1] = 1
  OBVIOUS
<1> HIDE DEF tag, list, start
<1>2. data = <<>> /\ open = <<ListItem(0, <<>>)>> /\ data \in Seq(Nat) /\ Len(data) + 1 = 1
  BY DEF TlvInit
<1>3. open = Stack(1, tag, list)
  <2> DEFINE item == ListItem(0, <<>>)
  <2>1. \A k \in 1 .. 1 : ListItem(tag[k], list[k]) = item
    BY <1>1
  <2> HIDE DEF item
  <2>2. <<item>> = [k \in 1 .. 1 |-> item]
    OBVIOUS
  <2> QED BY <2>1, <2>2, <1>2 DEF Stack, item
<1>4. IsSeq(<<>>)
  BY DEF IsSeq
<1>5. ASSUME NEW s \in Seq(Nat) PROVE Unfolds(data \o s, Len(data) + 1, 1, tag, list, start)
  <2> DEFINE b == data \o s
  <2>1. b \in Seq(Nat)
    BY <1>2, ConcatLength
  <2> HIDE DEF b
  <2>2. 1 \in 1 .. Len(b) + 1
    BY <2>1
  <2> DEFINE D == Decoded(b)
  <2>3. Result(b, 1, D[1])
    BY <2>1, <2>2, DecodedEquation
  <2> HIDE DEF D
  <2>4. D[1] = Behind(<<>>, D[1])
    BY <2>3, BehindNothing
  <2>5. D[start[1]] = Behind(list[1], D[1]) /\ 1 - 1 = 0
    BY <2>4, <1>1
  <2>6. Unfolds(b, 1, 1, tag, list, start)
    BY <2>5 DEF Unfolds, D
  <2> QED BY <2>6, <1>2 DEF b
<1>6. Stands(data, open, 1, tag, list, start)
  BY <1>1, <1>2, <1>3, <1>4, <1>5 DEF Stands
<1> QED BY <1>2, <1>6 DEF TlvInv

(* e is read as the item, wherever it stands *)
StandsFor(e, item) ==
    \A b \in Seq(Nat) : \A p \in 1 .. Len(b) : At(b, p, e) => Reads(b, p, e, item)

LEMMA PutKeeps ==
    ASSUME TlvInv, NEW e \in Seq(Nat), Len(e) > 0, NEW item, Put(e, item), StandsFor(e, item)
    PROVE  TlvInv'
<1>1. PICK n, tag, list, start : Stands(data, open, n, tag, list, start)
  BY DEF TlvInv
<1>2. /\ n \in Nat \ {0} /\ open = Stack(n, tag, list) /\ start[1] = 1
      /\ \A k \in 1 .. n : IsSeq(list[k]) /\ start[k] \in 1 .. Len(data) + 1
      /\ \A s \in Seq(Nat) : Unfolds(data \o s, Len(data) + 1, n, tag, list, start)
  BY <1>1 DEF Stands
<1>3. data \in Seq(Nat) /\ data' = data \o e /\ data' \in Seq(Nat) /\ Len(data') = Len(data) + Len(e)
  <2>1. data \in Seq(Nat) /\ data' = data \o e
    BY DEF TlvInv, Put
  <2> QED BY <2>1, ConcatLength
<1> DEFINE new == [k \in 1 .. n |-> IF k = n THEN Append(list[n], item) ELSE list[k]]
<1>4. open' = Stack(n, tag, new)
  <2>1. open' = Added(open, n, item) /\ n \in 1 .. n
    <3>1. Len(open) = n /\ n \in 1 .. n
      BY <1>2, StackParts
    <3> QED BY <3>1 DEF Put, Added
  <2>2. new[n] = Append(list[n], item) /\ \A k \in 1 .. n - 1 : new[k] = list[k]
    BY <2>1
  <2>3. n \in Nat \ {0} /\ open = Stack(n, tag, list)
    BY <1>2
  <2> HIDE DEF new
  <2>4. Added(open, n, item) = Stack(n, tag, new)
    BY <2>2, <2>3, PutStack
  <2> QED BY <2>1, <2>4
<1>5. \A k \in 1 .. n : IsSeq(new[k]) /\ start[k] \in 1 .. Len(data') + 1
  <2> SUFFICES ASSUME NEW k \in 1 .. n PROVE IsSeq(new[k]) /\ start[k] \in 1 .. Len(data') + 1
    OBVIOUS
  <2>1. start[k] \in 1 .. Len(data') + 1
    BY <1>2, <1>3
  <2>2. IsSeq(list[k]) /\ IsSeq(Append(list[k], item))
    BY <1>2, AppendIsSeq
  <2>3. new[k] = list[k] \/ new[k] = Append(list[k], item)
    OBVIOUS
  <2> HIDE DEF new
  <2> QED BY <2>1, <2>2, <2>3
<1>6. ASSUME NEW s \in Seq(Nat) PROVE Unfolds(data' \o s, Len(data') + 1, n, tag, new, start)
  <2> DEFINE p == Len(data) + 1
             q == Len(data') + 1
  <2>c. data' = Cat(data, e)
    BY <1>3 DEF Cat
  <2> DEFINE x == Cat(e, s)
             b == Cat(data, x)
  <2>1. /\ Cat(data', s) = b /\ Cat(data, x) = b /\ x \in Seq(Nat) /\ b \in Seq(Nat) /\ At(b, p, e)
        /\ p \in 1 .. Len(b) /\ q = p + Len(e) /\ q \in 1 .. Len(b) + 1
    BY <1>3, <2>c, AppendedAt
  <2> HIDE DEF x, b
  <2>2. Unfolds(b, p, n, tag, list, start)
    BY <1>2, <2>1 DEF Cat
  <2> HIDE DEF p, q
  <2>3. Decoded(b)[p] = Before(item, Decoded(b)[q])
    <3>1. Reads(b, p, e, item)
      BY <2>1 DEF StandsFor
    <3> QED BY <3>1, <2>1 DEF Reads
  <2>4. IsSeq(list[n]) /\ new[n] = Append(list[n], item) /\ \A k \in 1 .. n - 1 : new[k] = list[k]
    BY <1>2
  <2> HIDE DEF new
  <2>5. Unfolds(b, q, n, tag, new, start)
    BY <2>1, <2>2, <2>3, <2>4, <1>2, UnfoldsPut
  <2> QED BY <2>1, <2>5 DEF q, Cat
<1> HIDE DEF new
<1>7. Stands(data', open', n, tag, new, start)
  BY <1>2, <1>4, <1>5, <1>6 DEF Stands
<1> QED BY <1>3, <1>7 DEF TlvInv

(* e opens a container with the tag t, wherever it stands *)
Opens(e, t) ==
    \A b \in Seq(Nat) : \A p \in 1 .. Len(b) :
      At(b, p, e) => Decoded(b)[p] = Inner(t, Decoded(b)[p + Len(e)], Decoded(b))

LEMMA OpenKeeps ==
    ASSUME TlvInv, NEW e \in Seq(Nat), Len(e) > 0, NEW t, Open(e, t), Opens(e, t)
    PROVE  TlvInv'
<1>1. PICK n, tag, list, start : Stands(data, open, n, tag, list, start)
  BY DEF TlvInv
<1>2. /\ n \in Nat \ {0} /\ open = Stack(n, tag, list) /\ start[1] = 1
      /\ \A k \in 1 .. n : IsSeq(list[k]) /\ start[k] \in 1 .. Len(data) + 1
      /\ \A s \in Seq(Nat) : Unfolds(data \o s, Len(data) + 1, n, tag, list, start)
  BY <1>1 DEF Stands
<1>3. data \in Seq(Nat) /\ data' = data \o e /\ data' \in Seq(Nat) /\ Len(data') = Len(data) + Len(e)
  <2>1. data \in Seq(Nat) /\ data' = data \o e
    BY DEF TlvInv, Open
  <2> QED BY <2>1, ConcatLength
<1> DEFINE q == Len(data') + 1
<1> DEFINE m == n + 1
           tags == [k \in 1 .. m |-> IF k = m THEN t ELSE tag[k]]
           lists == [k \in 1 .. m |-> IF k = m THEN <<>> ELSE list[k]]
           starts == [k \in 1 .. m |-> IF k = m THEN q ELSE start[k]]
<1>m. m = n + 1 /\ m \in Nat \ {0}
  BY <1>2
<1> HIDE DEF m
<1>p. /\ tags[m] = t /\ lists[m] = <<>> /\ starts[m] = q
      /\ \A k \in 1 .. n : tags[k] = tag[k] /\ lists[k] = list[k] /\ starts[k] = start[k]
  BY <1>2, <1>m
<1> HIDE DEF tags, lists, starts, q
<1>l. Longer(tag, n, tags, m, t) /\ Longer(list, n, lists, m, <<>>) /\ Longer(start, n, starts, m, q)
  BY <1>m, <1>p DEF Longer
<1>4. open' = Stack(m, tags, lists)
  <2>1. open' = Pushed(open, t)
    BY DEF Open, Pushed
  <2>2. Pushed(open, t) = Stack(m, tags, lists)
    BY <1>2, <1>l, OpenStack
  <2> QED BY <2>1, <2>2
<1>5. \A k \in 1 .. m : IsSeq(lists[k]) /\ starts[k] \in 1 .. Len(data') + 1
  <2> SUFFICES ASSUME NEW k \in 1 .. m PROVE IsSeq(lists[k]) /\ starts[k] \in 1 .. Len(data') + 1
    OBVIOUS
  <2>1. CASE k = m
    <3>1. lists[k] = <<>> /\ starts[k] = q
      BY <2>1, <1>p
    <3>2. IsSeq(<<>>)
      BY DEF IsSeq
    <3>3. q \in 1 .. Len(data') + 1
      BY <1>3 DEF q
    <3> QED BY <3>1, <3>2, <3>3
  <2>2. CASE k # m
    <3>1. lists[k] = list[k] /\ starts[k] = start[k] /\ k \in 1 .. n
      <4>1. k \in 1 .. n
        BY <2>2, <1>2, <1>m
      <4> QED BY <4>1, <1>p
    <3>2. IsSeq(list[k]) /\ start[k] \in 1 .. Len(data') + 1
      BY <3>1, <1>2, <1>3
    <3> QED BY <3>1, <3>2
  <2> QED BY <2>1, <2>2
<1>6. ASSUME NEW s \in Seq(Nat) PROVE Unfolds(data' \o s, Len(data') + 1, m, tags, lists, starts)
  <2> DEFINE p == Len(data) + 1
  <2>c. data' = Cat(data, e)
    BY <1>3 DEF Cat
  <2> DEFINE x == Cat(e, s)
             b == Cat(data, x)
  <2>1. /\ Cat(data', s) = b /\ Cat(data, x) = b /\ x \in Seq(Nat) /\ b \in Seq(Nat) /\ At(b, p, e)
        /\ p \in 1 .. Len(b) /\ q = p + Len(e) /\ q \in 1 .. Len(b) + 1
    BY <1>3, <2>c, AppendedAt, SMTT(20) DEF q
  <2> HIDE DEF x, b
  <2>2. Unfolds(b, p, n, tag, list, start)
    BY <1>2, <2>1 DEF Cat
  <2> HIDE DEF p
  <2>3. Decoded(b)[p] = Inner(t, Decoded(b)[q], Decoded(b))
    BY <2>1 DEF Opens
  <2>4. Unfolds(b, q, m, tags, lists, starts)
    BY <1>2, <1>l, <2>1, <2>2, <2>3, UnfoldsOpen
  <2> QED BY <2>1, <2>4 DEF q, Cat
<1>7. starts[1] = 1
  BY <1>2, <1>p
<1>8. Stands(data', open', m, tags, lists, starts)
  BY <1>4, <1>5, <1>6, <1>7, <1>m DEF Stands
<1> QED BY <1>3, <1>8 DEF TlvInv

(* Closing a container makes an item of it, in the list of the one around it *)
LEMMA EndKeeps == ASSUME TlvInv, WriteStructEnd PROVE TlvInv'
<1>1. PICK n, tag, list, start : Stands(data, open, n, tag, list, start)
  BY DEF TlvInv
<1>2. /\ n \in Nat \ {0} /\ open = Stack(n, tag, list) /\ start[1] = 1
      /\ \A k \in 1 .. n : IsSeq(list[k]) /\ start[k] \in 1 .. Len(data) + 1
      /\ \A s \in Seq(Nat) : Unfolds(data \o s, Len(data) + 1, n, tag, list, start)
  BY <1>1 DEF Stands
<1>e. Len(open) = n /\ n > 1
  BY <1>2, StackParts DEF WriteStructEnd
<1> DEFINE e == <<tEnd>>
<1>3. /\ e \in Seq(Nat) /\ Len(e) = 1 /\ e[1] = tEnd
      /\ data \in Seq(Nat) /\ data' = data \o e /\ data' \in Seq(Nat) /\ Len(data') = Len(data) + 1
  <2>1. e \in Seq(Nat) /\ Len(e) = 1 /\ e[1] = tEnd
    BY DEF tEnd
  <2>2. data \in Seq(Nat) /\ data' = Append(data, tEnd) /\ tEnd \in Nat
    BY DEF TlvInv, WriteStructEnd, tEnd
  <2>3. Append(data, tEnd) = data \o e
    BY <2>2
  <2> QED BY <2>1, <2>2, <2>3
<1> HIDE DEF e
<1> DEFINE m == n - 1
<1>m. m = n - 1 /\ m \in Nat \ {0} /\ n = m + 1 /\ n \in Nat /\ m \in 1 .. n /\ n \in 1 .. n
  BY <1>2, <1>e
<1> HIDE DEF m
<1> DEFINE item == ListItem(tag[n], list[n])
           new == [k \in 1 .. m |-> IF k = m THEN Append(list[k], item) ELSE list[k]]
<1>p. new[m] = Append(list[m], item) /\ \A k \in 1 .. m - 1 : new[k] = list[k]
  BY <1>m
<1>4. open' = Stack(m, tag, new)
  <2>1. open' = Added(Front(open), m, Last(open))
    BY <1>e, <1>m DEF WriteStructEnd, Added
  <2>2. Last(open) = item /\ Front(open) = Stack(m, tag, list)
    BY <1>2, <1>e, <1>m, EndStack
  <2> HIDE DEF new, item
  <2>3. Added(Front(open), m, item) = Stack(m, tag, new)
    BY <2>2, <1>m, <1>p, PutStack
  <2> QED BY <2>1, <2>2, <2>3
<1>5. \A k \in 1 .. m : IsSeq(new[k]) /\ start[k] \in 1 .. Len(data') + 1
  <2> SUFFICES ASSUME NEW k \in 1 .. m PROVE IsSeq(new[k]) /\ start[k] \in 1 .. Len(data') + 1
    OBVIOUS
  <2>1. start[k] \in 1 .. Len(data') + 1
    BY <1>2, <1>3, <1>m
  <2>2. IsSeq(list[k]) /\ IsSeq(Append(list[k], item))
    <3>1. k \in 1 .. n
      BY <1>m
    <3> QED BY <3>1, <1>2, AppendIsSeq
  <2>3. new[k] = list[k] \/ new[k] = Append(list[k], item)
    OBVIOUS
  <2> HIDE DEF new
  <2> QED BY <2>1, <2>2, <2>3
<1>6. ASSUME NEW s \in Seq(Nat) PROVE Unfolds(data' \o s, Len(data') + 1, m, tag, new, start)
  <2> HIDE DEF new
  <2> DEFINE p == Len(data) + 1
             q == Len(data') + 1
  <2>c. data' = Cat(data, e)
    BY <1>3 DEF Cat
  <2> DEFINE x == Cat(e, s)
             b == Cat(data, x)
  <2>1. /\ Cat(data', s) = b /\ Cat(data, x) = b /\ x \in Seq(Nat) /\ b \in Seq(Nat) /\ At(b, p, e)
        /\ p \in 1 .. Len(b) /\ q = p + 1 /\ q \in 1 .. Len(b) + 1
    <3>1. Len(e) > 0 /\ e \in Seq(Nat) /\ data \in Seq(Nat)
      BY <1>3
    <3>2. /\ Cat(data', s) = b /\ Cat(data, x) = b /\ x \in Seq(Nat) /\ b \in Seq(Nat) /\ At(b, p, e)
          /\ p \in 1 .. Len(b) /\ q = p + Len(e) /\ q \in 1 .. Len(b) + 1
      BY <3>1, <2>c, AppendedAt
    <3> QED BY <3>2, <1>3
  <2> HIDE DEF x, b
  <2>2. Unfolds(b, p, n, tag, list, start)
    BY <1>2, <2>1 DEF Cat
  <2> HIDE DEF p, q
  <2>3. Decoded(b)[p] = Parsed(<<>>, q)
    <3>1. b[p + 1 - 1] = e[1]
      BY <2>1, <1>3 DEF At
    <3>2. b[p] = tEnd
      BY <3>1, <2>1, <1>3
    <3> QED BY <3>2, <2>1, DecodedEnd
  <2>4. IsSeq(list[n]) /\ IsSeq(list[m])
    BY <1>2, <1>m
  <2>5. Unfolds(b, q, m, tag, new, start)
    <3>1. n \in Nat /\ m \in Nat /\ n > 1 /\ m < n /\ n <= m + 1
      BY <1>e, <1>m
    <3>2. new[m] = Append(list[m], ListItem(tag[n], list[n])) /\ \A k \in 1 .. m - 1 : new[k] = list[k]
      BY <1>p
    <3> QED BY <2>1, <2>2, <2>3, <2>4, <3>1, <3>2, UnfoldsEnd
  <2> QED BY <2>1, <2>5 DEF q, Cat
<1> HIDE DEF new
<1>7. Stands(data', open', m, tag, new, start)
  BY <1>2, <1>4, <1>5, <1>6, <1>m DEF Stands
<1> QED BY <1>3, <1>7 DEF TlvInv

-----------------------------------------------------------------------------
(* The writer's elements *)

LEMMA LittleEndianBytes ==
    ASSUME NEW n \in Nat, NEW v \in Int
    PROVE  LittleEndian(n, v) \in Seq(Nat)
<1>1. ASSUME NEW i \in 1 .. n PROVE (v \div Power[i - 1]) % Base \in Nat
  <2> DEFINE x == Power[i - 1]
  <2>1. x \in Nat \ {0} /\ Base \in Nat \ {0}
    BY PowerFacts, TlvAssumption
  <2> HIDE DEF x
  <2>2. v \div x \in Int
    BY <2>1
  <2> QED BY <2>1, <2>2 DEF x
<1> QED BY <1>1 DEF LittleEndian, DigitsOf, Power

LEMMA HeaderBytes ==
    ASSUME NEW tag \in Nat, NEW tp \in 0 .. 31
    PROVE  Header(tag, tp) \in Seq(Nat) /\ Len(Header(tag, tp)) = 2
BY DEF Header, Control

LEMMA UIntBytes ==
    ASSUME NEW t \in Nat, NEW tp \in TYPE_UINT, NEW v \in Int
    PROVE  EncUInt(t, tp, v) \in Seq(Nat) /\ Len(EncUInt(t, tp, v)) > 0
<1> DEFINE e == EncUInt(t, tp, v)
           h == Header(t, tp)
           w == Width(tp)
           l == LittleEndian(w, v)
<1>1. tp \in 0 .. 31 /\ w \in Nat
  <2>1. tp \in 0 .. 31 /\ tp \in 1 .. 7
    BY DEF TYPE_UINT
  <2> QED BY <2>1, WidthNat
<1> HIDE DEF w
<1>2. h \in Seq(Nat) /\ Len(h) = 2 /\ l \in Seq(Nat) /\ Len(l) = w
  BY <1>1, HeaderBytes, LittleEndianBytes, LittleEndianLength
<1>3. e = h \o l
  BY DEF EncUInt, w
<1> HIDE DEF e, h, l
<1>4. h \o l \in Seq(Nat) /\ Len(h \o l) = Len(h) + Len(l)
  BY <1>2, ConcatLength
<1>5. e \in Seq(Nat) /\ Len(e) > 0
  BY <1>1, <1>2, <1>3, <1>4
<1> QED BY <1>5 DEF e

LEMMA BoolBytes ==
    ASSUME NEW t \in Nat, NEW v \in BOOLEAN
    PROVE  EncBool(t, v) \in Seq(Nat) /\ Len(EncBool(t, v)) > 0
<1> DEFINE tp == IF v THEN tTrue ELSE tFalse
           e == EncBool(t, v)
<1>1. tp \in 0 .. 31 /\ e = Header(t, tp)
  BY DEF EncBool, tTrue, tFalse
<1> HIDE DEF tp, e
<1>2. Header(t, tp) \in Seq(Nat) /\ Len(Header(t, tp)) = 2
  BY <1>1, HeaderBytes
<1>3. e \in Seq(Nat) /\ Len(e) > 0
  BY <1>1, <1>2
<1> QED BY <1>3 DEF e

LEMMA OctetStringBytes ==
    ASSUME NEW t \in Nat, NEW s \in Seq(Nat)
    PROVE  EncOctetString(t, s) \in Seq(Nat) /\ Len(EncOctetString(t, s)) > 0
<1>1. ASSUME NEW tp \in 0 .. 31, NEW n \in 1 .. 2
      PROVE  LET f == (Header(t, tp) \o LittleEndian(n, Len(s))) \o s IN f \in Seq(Nat) /\ Len(f) > 0
  <2> DEFINE h == Header(t, tp)
             l == LittleEndian(n, Len(s))
             hl == h \o l
  <2>n. Len(s) \in Int /\ Len(s) >= 0 /\ n \in Nat
    OBVIOUS
  <2>1. h \in Seq(Nat) /\ Len(h) = 2 /\ l \in Seq(Nat) /\ Len(l) = n
    BY <2>n, HeaderBytes, LittleEndianBytes, LittleEndianLength
  <2> HIDE DEF h, l
  <2>2. hl \in Seq(Nat) /\ Len(hl) = Len(h) + Len(l)
    BY <2>1, ConcatLength
  <2> HIDE DEF hl
  <2>3. hl \o s \in Seq(Nat) /\ Len(hl \o s) = Len(hl) + Len(s)
    BY <2>2, ConcatLength
  <2>4. Len(hl \o s) > 0
    BY <2>1, <2>2, <2>3, <2>n
  <2> QED BY <2>3, <2>4 DEF hl, h, l
<1> QED BY <1>1 DEF EncOctetString, tOctets1, tOctets2

LEMMA TagNat == \A t \in Tags : t \in Nat
BY TlvAssumption

LEMMA WriteUIntKeeps ==
    ASSUME TlvInv, NEW t \in Tags, NEW tp \in TYPE_UINT, NEW v \in Ints, WriteUInt(t, tp, v)
    PROVE  TlvInv'
<1> DEFINE e == EncUInt(t, tp, v)
           item == IntItem(t, v % Power[Width(tp)])
<1>1. t \in Nat /\ v \in Int /\ tp \in 0 .. 31 /\ tp \in 1 .. 7
  BY TagNat, TlvAssumption DEF TYPE_UINT
<1>2. e \in Seq(Nat) /\ Len(e) > 0
  BY <1>1, UIntBytes
<1>3. StandsFor(e, item)
  BY <1>1, UIntReadsBack DEF StandsFor
<1>4. Put(e, item)
  BY DEF WriteUInt
<1> HIDE DEF e, item
<1> QED BY <1>2, <1>3, <1>4, PutKeeps

LEMMA WriteBoolKeeps ==
    ASSUME TlvInv, NEW t \in Tags, NEW v \in BOOLEAN, WriteBool(t, v)
    PROVE  TlvInv'
<1> DEFINE e == EncBool(t, v)
           item == BoolItem(t, v)
<1>1. t \in Nat
  BY TagNat
<1>2. e \in Seq(Nat) /\ Len(e) > 0
  BY <1>1, BoolBytes
<1>3. StandsFor(e, item)
  BY <1>1, BoolReadsBack DEF StandsFor
<1>4. Put(e, item)
  BY DEF WriteBool
<1> HIDE DEF e, item
<1> QED BY <1>2, <1>3, <1>4, PutKeeps

LEMMA WriteOctetStringKeeps ==
    ASSUME TlvInv, NEW t \in Tags, NEW s \in Octets, WriteOctetString(t, s)
    PROVE  TlvInv'
<1> DEFINE e == EncOctetString(t, s)
           item == OctetsItem(t, s)
<1>1. t \in Nat /\ s \in Seq(Nat) /\ Len(s) < Power[2]
  <2>1. s \in Seq(0 .. Base - 1) /\ Len(s) < Power[2] /\ Base \in Nat
    BY TlvAssumption
  <2> QED BY <2>1, TagNat
<1>2. e \in Seq(Nat) /\ Len(e) > 0
  BY <1>1, OctetStringBytes
<1>3. StandsFor(e, item)
  BY <1>1, OctetsReadBack DEF StandsFor
<1>4. Put(e, item)
  BY DEF WriteOctetString
<1> HIDE DEF e, item
<1> QED BY <1>2, <1>3, <1>4, PutKeeps

LEMMA WriteAnonKeeps ==
    ASSUME TlvInv, NEW tp \in Containers, WriteAnon(tp)
    PROVE  TlvInv'
<1> DEFINE e == <<tp>>
<1>1. e \in Seq(Nat) /\ Len(e) = 1 /\ Len(e) > 0
  BY DEF Containers, tStruct, tArray, tList
<1>2. Opens(e, 0)
  BY <1>1, AnonymousReads DEF Opens
<1>3. Open(e, 0)
  BY DEF WriteAnon
<1> HIDE DEF e
<1> QED BY <1>1, <1>2, <1>3, OpenKeeps

LEMMA WriteContainerKeeps ==
    ASSUME TlvInv, NEW t \in Tags, NEW tp \in Containers, WriteContainer(t, tp)
    PROVE  TlvInv'
<1> DEFINE e == Header(t, tp)
<1>1. t \in Nat /\ tp \in 0 .. 31
  BY TagNat DEF Containers, tStruct, tArray, tList
<1>2. e \in Seq(Nat) /\ Len(e) = 2 /\ Len(e) > 0
  <2>1. e \in Seq(Nat) /\ Len(e) = 2
    BY <1>1, HeaderBytes
  <2> QED BY <2>1
<1>3. Opens(e, t)
  <2> HIDE DEF e
  <2> SUFFICES ASSUME NEW b \in Seq(Nat), NEW p \in 1 .. Len(b), At(b, p, e)
               PROVE  Decoded(b)[p] = Inner(t, Decoded(b)[p + Len(e)], Decoded(b))
    BY DEF Opens
  <2>1. At(b, p, Header(t, tp))
    BY DEF e
  <2>2. Decoded(b)[p] = Inner(t, Decoded(b)[p + 2], Decoded(b))
    BY <1>1, <2>1, ContainerReads
  <2> QED BY <2>2, <1>2
<1>4. Open(e, t)
  BY DEF WriteContainer
<1> HIDE DEF e
<1> QED BY <1>2, <1>3, <1>4, OpenKeeps

(* One step per call of the writer *)
LEMMA TlvStepInv == ASSUME TlvInv, [TlvNext]_tlvVars PROVE TlvInv'
<1>1. CASE UNCHANGED tlvVars
  BY <1>1 DEF TlvInv, tlvVars
<1>2. CASE TlvNext
  <2>1. ASSUME NEW t \in Tags, NEW tp \in TYPE_UINT, NEW v \in Ints, WriteUInt(t, tp, v) PROVE TlvInv'
    BY <2>1, WriteUIntKeeps
  <2>2. ASSUME NEW t \in Tags, NEW v \in BOOLEAN, WriteBool(t, v) PROVE TlvInv'
    BY <2>2, WriteBoolKeeps
  <2>3. ASSUME NEW t \in Tags, NEW s \in Octets, WriteOctetString(t, s) PROVE TlvInv'
    BY <2>3, WriteOctetStringKeeps
  <2>4. ASSUME NEW t \in Tags, NEW tp \in Containers, WriteContainer(t, tp) PROVE TlvInv'
    BY <2>4, WriteContainerKeeps
  <2>5. ASSUME NEW tp \in Containers \ {tArray}, WriteAnon(tp) PROVE TlvInv'
    BY <2>5, WriteAnonKeeps
  <2>6. CASE WriteStructEnd
    BY <2>6, EndKeeps
  <2> QED BY <1>2, <2>1, <2>2, <2>3, <2>4, <2>5, <2>6 DEF TlvNext
<1> QED BY <1>1, <1>2

(* A complete sequence of calls: nothing is open, so decode has read all *)
LEMMA TlvInvReads == TlvInv => DecodesWhatWasWritten
<1> SUFFICES ASSUME TlvInv, Written PROVE Decode(data) = open[1].list[1]
  BY DEF DecodesWhatWasWritten
<1>1. PICK n, tag, list, start : Stands(data, open, n, tag, list, start)
  BY DEF TlvInv
<1>2. /\ n \in Nat \ {0} /\ open = Stack(n, tag, list) /\ start[1] = 1 /\ data \in Seq(Nat)
      /\ \A k \in 1 .. n : IsSeq(list[k])
      /\ \A s \in Seq(Nat) : Unfolds(data \o s, Len(data) + 1, n, tag, list, start)
  BY <1>1 DEF Stands, TlvInv
<1>3. n = 1 /\ open[1] = ListItem(tag[1], list[1]) /\ list[1] # <<>> /\ open[1].list = list[1]
  <2>1. Len(open) = n /\ open[1] = ListItem(tag[1], list[1])
    BY <1>2, StackParts, SMTT(20)
  <2>2. ListItem(tag[1], list[1]).list = list[1]
    BY ListOfItem
  <2> QED BY <2>1, <2>2 DEF Written
<1> DEFINE D == Decoded(data)
           l == list[1]
           q == Len(data) + 1
<1>4. D[1] = Behind(l, D[q])
  <2>1. data \o <<>> = data /\ <<>> \in Seq(Nat)
    BY <1>2
  <2>2. Unfolds(data, q, n, tag, list, start)
    <3>1. Unfolds(data \o <<>>, q, n, tag, list, start)
      BY <1>2, <2>1
    <3> QED BY <3>1, <2>1
  <2> QED BY <2>2, <1>2, <1>3 DEF Unfolds
<1>5. D[q] = Parsed(<<>>, q) /\ q # Nowhere
  BY <1>2, DecodedFinish DEF Nowhere
<1>6. IsSeq(l)
  BY <1>2, <1>3
<1> HIDE DEF D, l, q
<1>7. Behind(l, Parsed(<<>>, q)).items = l /\ Behind(l, Parsed(<<>>, q)).next = q
  <2> DEFINE S == {l[i] : i \in DOMAIN l}
  <2>1. l \in Seq(S)
    BY <1>6 DEF IsSeq
  <2> HIDE DEF S
  <2>2. l \o <<>> = l
    BY <2>1
  <2> QED BY <2>2 DEF Behind, Parsed
<1>8. D[1].items = l /\ D[1].next = q
  BY <1>4, <1>5, <1>7
<1>9. Decode(data) = IF D[1].next # Nowhere /\ D[1].items # <<>> THEN D[1].items[1] ELSE NoItem
  BY DEF Decode, D
<1>10. l # <<>> /\ open[1].list[1] = l[1]
  BY <1>3 DEF l
<1> QED BY <1>5, <1>8, <1>9, <1>10

(* The writer's invariant holds of every sequence of calls: what is in the *)
(* buffer is read, whatever follows it, as the open containers say.        *)
THEOREM TlvInvariant == TlvSpec => []TlvInv
<1>1. TlvInit => TlvInv
  BY TlvInitInv
<1>2. TlvInv /\ [TlvNext]_tlvVars => TlvInv'
  BY TlvStepInv
<1> QED BY <1>1, <1>2, PTL DEF TlvSpec

(* What a complete sequence of writer calls wrote, Decode reads back: the  *)
(* tags, the values cut to their width, the octet strings in the short and *)
(* the long form, and the nesting.                                         *)
THEOREM TlvTheorem == TlvSpec => []DecodesWhatWasWritten
BY TlvInvariant, TlvInvReads, PTL
=============================================================================
