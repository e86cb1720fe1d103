----------------------------- MODULE MessageProofs -----------------------------
(***************************************************************************)
(* Proofs about the bytes of messages and certificates, for every base of  *)
(* at least 2 and every set of requests, answers and certificates:         *)
(*                                                                         *)
(*   - what the controller sends, a device reads back;                     *)
(*   - what a device answers, Receive and the lookups tell apart;          *)
(*   - a certificate is restored exactly when its conversion has room.     *)
(*                                                                         *)
(* Content is composed as it is written: Lists(e, l) says that the bytes e *)
(* are read as the items l wherever they stand, and holds of what an       *)
(* element writes (ListsUInt ...), of two parts one behind the other       *)
(* (ListsJoin), of what a container holds (ListsContainer) and of a whole  *)
(* buffer (ListsDecode).  A lookup needs of a list only whether it Offers  *)
(* an item with the tag or Lacks one.                                      *)
(***************************************************************************)
EXTENDS CodecProofs

-----------------------------------------------------------------------------
(* What encoded content is read as *)

(* e is read as the items l, wherever it stands and whatever follows it *)
Lists(e, l) ==
    /\ e \in Seq(Nat) /\ IsSeq(l)
    /\ \A b \in Seq(Nat) : \A p \in 1 .. Len(b) + 1 :
         At(b, p, e) => Decoded(b)[p] = Behind(l, Decoded(b)[p + Len(e)])

LEMMA ListsNothing == Lists(<<>>, <<>>)
<1>1. ASSUME NEW b \in Seq(Nat), NEW p \in 1 .. Len(b) + 1
      PROVE  Decoded(b)[p] = Behind(<<>>, Decoded(b)[p + Len(<<>>)])
  <2> DEFINE r == Decoded(b)[p]
  <2>1. Result(b, p, r)
    BY DecodedEquation
  <2> HIDE DEF r
  <2>2. Behind(<<>>, r) = r
    BY <2>1, BehindNothing
  <2>3. p + Len(<<>>) = p
    OBVIOUS
  <2> QED BY <2>2, <2>3 DEF r
<1>2. <<>> \in Seq(Nat) /\ IsSeq(<<>>)
  BY DEF IsSeq
<1> QED BY <1>1, <1>2 DEF Lists

(* An element stands for one item *)
LEMMA ListsOne ==
    ASSUME NEW e \in Seq(Nat), Len(e) > 0, NEW item, StandsFor(e, item)
    PROVE  Lists(e, <<item>>)
<1>1. ASSUME NEW b \in Seq(Nat), NEW p \in 1 .. Len(b) + 1, At(b, p, e)
      PROVE  Decoded(b)[p] = Behind(<<item>>, Decoded(b)[p + Len(e)])
  <2>1. p \in 1 .. Len(b)
    BY <1>1 DEF At
  <2>2. Reads(b, p, e, item)
    BY <1>1, <2>1 DEF StandsFor
  <2> QED BY <2>2 DEF Reads, Before, Behind
<1>2. IsSeq(<<item>>)
  BY DEF IsSeq
<1> QED BY <1>1, <1>2 DEF Lists

(* Items in front of items *)
LEMMA BehindTwice ==
    ASSUME NEW l, IsSeq(l), NEW m, IsSeq(m), NEW b, NEW p, NEW r, Result(b, p, r)
    PROVE  Behind(l, Behind(m, r)) = Behind(l \o m, r)
<1> DEFINE n == r.items
           S == {l[i] : i \in DOMAIN l} \cup {m[i] : i \in DOMAIN m} \cup {n[i] : i \in DOMAIN n}
<1>1. IsSeq(n)
  BY ResultParts
<1> HIDE DEF n
<1>2. l \in Seq(S) /\ m \in Seq(S) /\ n \in Seq(S)
  BY <1>1 DEF IsSeq
<1> HIDE DEF S
<1>3. l \o (m \o n) = (l \o m) \o n
  BY <1>2, ConcatAssociative
<1> QED BY <1>3 DEF Behind, n

(* Content in two parts *)
LEMMA ListsJoin ==
    ASSUME NEW e, NEW l, Lists(e, l), NEW f, NEW m, Lists(f, m)
    PROVE  Lists(e \o f, l \o m)
<1>e. e \in Seq(Nat) /\ f \in Seq(Nat) /\ IsSeq(l) /\ IsSeq(m)
  BY DEF Lists
<1>l. e \o f \in Seq(Nat) /\ Len(e \o f) = Len(e) + Len(f) /\ Len(e) \in Nat /\ Len(f) \in Nat
  BY <1>e, ConcatLength
<1>i. e \in Seq(Int) /\ f \in Seq(Int)
  BY <1>e
<1>m. IsSeq(l \o m)
  <2> DEFINE S == {l[i] : i \in DOMAIN l} \cup {m[i] : i \in DOMAIN m}
  <2>1. l \in Seq(S) /\ m \in Seq(S)
    BY <1>e DEF IsSeq
  <2> HIDE DEF S
  <2>2. l \o m \in Seq(S)
    BY <2>1
  <2> QED BY <2>2, SeqIsSeq
<1> DEFINE ef == e \o f
           lm == l \o m
<1>1. ASSUME NEW b \in Seq(Nat), NEW p \in 1 .. Len(b) + 1, At(b, p, ef)
      PROVE  Decoded(b)[p] = Behind(lm, Decoded(b)[p + Len(ef)])
  <2> DEFINE q == p + Len(e)
             r == q + Len(f)
             D == Decoded(b)
  <2>p. p \in Nat /\ Len(b) \in Nat
    OBVIOUS
  <2>1. At(b, p, e) /\ At(b, q, f)
    BY <1>1, <1>i, <2>p, AtSplit
  <2>2. p + Len(ef) = r /\ q \in 1 .. Len(b) + 1 /\ r \in 1 .. Len(b) + 1
    <3>1. q + Len(f) - 1 <= Len(b)
      BY <2>1 DEF At
    <3> QED BY <3>1, <1>l
  <2> HIDE DEF q, r
  <2>3. D[p] = Behind(l, D[q])
    BY <2>1 DEF Lists, q
  <2>4. D[q] = Behind(m, D[r])
    BY <2>1, <2>2 DEF Lists, r
  <2>5. Result(b, r, D[r])
    BY <2>2, DecodedEquation
  <2> HIDE DEF D
  <2>6. Behind(l, Behind(m, D[r])) = Behind(l \o m, D[r])
    BY <1>e, <2>5, BehindTwice
  <2> QED BY <2>2, <2>3, <2>4, <2>6 DEF D
<1> HIDE DEF ef, lm
<1>2. ef \in Seq(Nat) /\ IsSeq(lm)
  BY <1>l, <1>m DEF ef, lm
<1>3. Lists(ef, lm)
  BY <1>1, <1>2 DEF Lists
<1> QED BY <1>3 DEF ef, lm

(* The items l of a container that ends where the content does *)
LEMMA BehindEnd ==
    ASSUME NEW l, IsSeq(l), NEW p
    PROVE  Behind(l, Parsed(<<>>, p)) = [items |-> l, next |-> p]
<1> DEFINE S == {l[i] : i \in DOMAIN l}
<1>1. l \in Seq(S)
  BY DEF IsSeq
<1> HIDE DEF S
<1>2. l \o <<>> = l
  BY <1>1
<1> QED BY <1>2 DEF Behind, Parsed

(* Content between the opening and the end of a container *)
LEMMA ListsBetween ==
    ASSUME NEW h \in Seq(Nat), Len(h) > 0, NEW t, Opens(h, t), NEW c, NEW l, Lists(c, l)
    PROVE  Lists((h \o c) \o <<tEnd>>, <<ListItem(t, l)>>)
<1> DEFINE hc == h \o c
           e == hc \o <<tEnd>>
           item == ListItem(t, l)
<1>c. c \in Seq(Nat) /\ IsSeq(l)
  BY DEF Lists
<1>t. <<tEnd>> \in Seq(Nat) /\ Len(<<tEnd>>) = 1 /\ <<tEnd>>[1] = tEnd
  BY DEF tEnd
<1>1. hc \in Seq(Nat) /\ Len(hc) = Len(h) + Len(c) /\ Len(h) \in Nat /\ Len(c) \in Nat
  BY <1>c, ConcatLength
<1>i. h \in Seq(Int) /\ c \in Seq(Int) /\ hc \in Seq(Int) /\ <<tEnd>> \in Seq(Int)
  BY <1>c, <1>1, <1>t
<1>2. e \in Seq(Nat) /\ Len(e) = Len(hc) + 1
  <2> HIDE DEF hc
  <2>1. e \in Seq(Nat) /\ Len(e) = Len(hc) + Len(<<tEnd>>)
    BY <1>1, <1>t, ConcatLength
  <2> QED BY <2>1, <1>t
<1>3. ASSUME NEW b \in Seq(Nat), NEW p \in 1 .. Len(b), At(b, p, e)
      PROVE  Reads(b, p, e, item)
  <2> DEFINE D == Decoded(b)
             q == p + Len(h)
             r == q + Len(c)
             s == r + 1
  <2>p. p \in Nat /\ Len(b) \in Nat
    OBVIOUS
  <2> HIDE DEF hc
  <2>1. At(b, p, hc) /\ At(b, p + Len(hc), <<tEnd>>)
    BY <1>3, <1>i, <2>p, AtSplit
  <2> HIDE DEF e
  <2>2. At(b, p, h) /\ At(b, q, c)
    BY <2>1, <1>i, <2>p, AtSplit DEF hc
  <2>3. p + Len(hc) = r /\ p + Len(e) = s
    BY <1>1, <1>2, <2>p
  <2>4. r <= Len(b) /\ b[r] = tEnd
    <3>1. At(b, r, <<tEnd>>)
      BY <2>1, <2>3
    <3>2. r + 1 - 1 <= Len(b) /\ b[r + 1 - 1] = tEnd
      BY <3>1, <1>t DEF At
    <3>3. r + 1 - 1 = r
      BY <1>1, <2>p
    <3> QED BY <3>2, <3>3
  <2>5. q \in 1 .. Len(b) + 1 /\ r \in 1 .. Len(b) /\ s \in 1 .. Len(b) + 1 /\ s # Nowhere
    <3>1. r <= Len(b) /\ p \in 1 .. Len(b)
      BY <2>4
    <3>2. Len(h) \in Nat /\ Len(c) \in Nat /\ p \in Nat /\ p >= 1 /\ Len(b) \in Nat
      BY <1>1
    <3> DEFINE i == Len(h)
               j == Len(c)
               k == Len(b)
    <3> HIDE DEF i, j, k
    <3>3. i \in Nat /\ j \in Nat /\ k \in Nat /\ p + i + j <= k
      BY <3>1, <3>2 DEF i, j, k
    <3>4. /\ p + i \in 1 .. k + 1 /\ p + i + j \in 1 .. k /\ p + i + j + 1 \in 1 .. k + 1
          /\ p + i + j + 1 # 0
      BY <3>2, <3>3
    <3> QED BY <3>4 DEF Nowhere, i, j, k
  <2> HIDE DEF q, r, s
  <2>6. D[p] = Inner(t, D[q], D)
    BY <2>2 DEF Opens, q
  <2>7. D[q] = Behind(l, D[r])
    BY <2>2, <2>5 DEF Lists, r
  <2>8. D[r] = Parsed(<<>>, s)
    BY <2>4, <2>5, DecodedEnd DEF s
  <2> HIDE DEF D
  <2>9. D[q] = [items |-> l, next |-> s]
    BY <1>c, <2>7, <2>8, BehindEnd
  <2>10. D[p] = Before(item, D[s])
    BY <2>5, <2>6, <2>9 DEF Inner
  <2> QED BY <2>3, <2>10 DEF Reads, D
<1> HIDE DEF e, item
<1>4. StandsFor(e, item)
  BY <1>3 DEF StandsFor
<1>5. Len(e) > 0
  BY <1>1, <1>2
<1>6. Lists(e, <<item>>)
  BY <1>2, <1>4, <1>5, ListsOne
<1> QED BY <1>6 DEF e, item

LEMMA ListsAnon ==
    ASSUME NEW tp \in Containers, NEW c, NEW l, Lists(c, l)
    PROVE  Lists((<<tp>> \o c) \o <<tEnd>>, <<ListItem(0, l)>>)
<1> DEFINE h == <<tp>>
<1>1. h \in Seq(Nat) /\ Len(h) = 1 /\ Len(h) > 0
  BY DEF Containers, tStruct, tArray, tList
<1>2. Opens(h, 0)
  BY <1>1, AnonymousReads DEF Opens
<1> HIDE DEF h
<1>3. Lists((h \o c) \o <<tEnd>>, <<ListItem(0, l)>>)
  BY <1>1, <1>2, ListsBetween
<1> QED BY <1>3 DEF h

LEMMA ListsStruct ==
    ASSUME NEW c, NEW l, Lists(c, l)
    PROVE  Lists(AnonStruct(c), <<ListItem(0, l)>>)
BY ListsAnon DEF AnonStruct, Containers

LEMMA ListsList ==
    ASSUME NEW c, NEW l, Lists(c, l)
    PROVE  Lists(AnonList(c), <<ListItem(0, l)>>)
BY ListsAnon DEF AnonList, Containers

LEMMA ListsContainer ==
    ASSUME NEW tag \in Nat, NEW tp \in Containers, NEW c, NEW l, Lists(c, l)
    PROVE  Lists(Container(tag, tp, c), <<ListItem(tag, l)>>)
<1> DEFINE h == Header(tag, tp)
<1>1. h \in Seq(Nat) /\ Len(h) = 2 /\ Len(h) > 0
  <2>1. tp \in 0 .. 31
    BY DEF Containers, tStruct, tArray, tList
  <2>2. h \in Seq(Nat) /\ Len(h) = 2
    BY <2>1, HeaderBytes
  <2> QED BY <2>2
<1>2. Opens(h, tag)
  <2> HIDE DEF h
  <2> SUFFICES ASSUME NEW b \in Seq(Nat), NEW p \in 1 .. Len(b), At(b, p, h)
               PROVE  Decoded(b)[p] = Inner(tag, Decoded(b)[p + Len(h)], Decoded(b))
    BY DEF Opens
  <2>1. At(b, p, Header(tag, tp))
    BY DEF h
  <2>2. Decoded(b)[p] = Inner(tag, Decoded(b)[p + 2], Decoded(b))
    BY <2>1, ContainerReads
  <2> QED BY <2>2, <1>1
<1> HIDE DEF h
<1>3. Lists((h \o c) \o <<tEnd>>, <<ListItem(tag, l)>>)
  BY <1>1, <1>2, ListsBetween
<1> QED BY <1>3 DEF h, Container

(* Decode of content is its first item *)
LEMMA ListsDecode ==
    ASSUME NEW e, NEW l, Lists(e, l), l # <<>>
    PROVE  Decode(e) = l[1]
<1> DEFINE D == Decoded(e)
           q == Len(e) + 1
<1>1. e \in Seq(Nat) /\ IsSeq(l) /\ Len(e) \in Nat
  BY DEF Lists
<1>2. At(e, 1, e) /\ 1 \in 1 .. q /\ 1 + Len(e) = q /\ q # Nowhere
  BY <1>1 DEF At, Nowhere
<1>3. D[q] = Parsed(<<>>, q)
  BY <1>1, DecodedFinish
<1>4. D[1] = Behind(l, D[q])
  BY <1>1, <1>2 DEF Lists
<1> HIDE DEF D, q
<1>5. D[1] = [items |-> l, next |-> q]
  BY <1>1, <1>3, <1>4, BehindEnd
<1>6. Decode(e) = IF D[1].next # Nowhere /\ D[1].items # <<>> THEN D[1].items[1] ELSE NoItem
  BY DEF Decode, D
<1> QED BY <1>2, <1>5, <1>6

(* The writer's elements as content *)
LEMMA ListsUInt ==
    ASSUME NEW tag \in Nat, NEW tp \in TYPE_UINT, NEW v \in Int
    PROVE  Lists(EncUInt(tag, tp, v), <<IntItem(tag, v % Power[Width(tp)])>>)
<1>1. EncUInt(tag, tp, v) \in Seq(Nat) /\ Len(EncUInt(tag, tp, v)) > 0
  BY UIntBytes
<1>2. StandsFor(EncUInt(tag, tp, v), IntItem(tag, v % Power[Width(tp)]))
  BY UIntReadsBack DEF StandsFor
<1> QED BY <1>1, <1>2, ListsOne

LEMMA ListsBool ==
    ASSUME NEW tag \in Nat, NEW v \in BOOLEAN
    PROVE  Lists(EncBool(tag, v), <<BoolItem(tag, v)>>)
<1>1. EncBool(tag, v) \in Seq(Nat) /\ Len(EncBool(tag, v)) > 0
  BY BoolBytes
<1>2. StandsFor(EncBool(tag, v), BoolItem(tag, v))
  BY BoolReadsBack DEF StandsFor
<1> QED BY <1>1, <1>2, ListsOne

LEMMA ListsOctets ==
    ASSUME NEW tag \in Nat, NEW s \in Seq(Nat), Len(s) < Power[2]
    PROVE  Lists(EncOctetString(tag, s), <<OctetsItem(tag, s)>>)
<1>1. EncOctetString(tag, s) \in Seq(Nat) /\ Len(EncOctetString(tag, s)) > 0
  BY OctetStringBytes
<1>2. StandsFor(EncOctetString(tag, s), OctetsItem(tag, s))
  BY OctetsReadBack DEF StandsFor
<1> QED BY <1>1, <1>2, ListsOne

(* A number that fits is read as it is *)
LEMMA FittingRemainder ==
    ASSUME NEW n \in Nat, NEW v \in Fitting(n)
    PROVE  v % Power[n] = v /\ v \in Nat /\ v \in Int
<1>1. Power[n] \in Nat \ {0}
  BY PowerFacts
<1>2. v \in Nat /\ v < Power[n]
  BY <1>1 DEF Fitting
<1> QED BY <1>1, <1>2, SmallRemainder

LEMMA ListsNumber ==
    ASSUME NEW tag \in Nat, NEW tp \in TYPE_UINT, NEW v \in Fitting(Width(tp))
    PROVE  Lists(EncUInt(tag, tp, v), <<IntItem(tag, v)>>)
<1>1. Width(tp) \in Nat
  <2>1. tp \in 1 .. 7
    BY DEF TYPE_UINT
  <2> QED BY <2>1, WidthNat
<1>2. v % Power[Width(tp)] = v /\ v \in Int
  BY <1>1, FittingRemainder
<1> QED BY <1>2, ListsUInt

LEMMA Widths == Width(4) = 1 /\ Width(5) = 2 /\ Width(6) = 4 /\ Width(7) = 8
<1> DEFINE w == <<1, 2, 4, 8>>
<1>1. w[1] = 1 /\ w[2] = 2 /\ w[3] = 4 /\ w[4] = 8
  OBVIOUS
<1> HIDE DEF w
<1>2. (4 % 4) + 1 = 1 /\ (5 % 4) + 1 = 2 /\ (6 % 4) + 1 = 3 /\ (7 % 4) + 1 = 4
  OBVIOUS
<1>3. \A tp : Width(tp) = w[(tp % 4) + 1]
  BY DEF Width, w
<1> QED BY <1>1, <1>2, <1>3

LEMMA ListsUInt8 ==
    ASSUME NEW tag \in Nat, NEW v \in Fitting(1)
    PROVE  Lists(UInt8(tag, v), <<IntItem(tag, v)>>)
<1>1. 4 \in TYPE_UINT /\ v \in Fitting(Width(4))
  BY Widths DEF TYPE_UINT
<1> QED BY <1>1, ListsNumber DEF UInt8

LEMMA ListsUInt16 ==
    ASSUME NEW tag \in Nat, NEW v \in Fitting(2)
    PROVE  Lists(UInt16(tag, v), <<IntItem(tag, v)>>)
<1>1. 5 \in TYPE_UINT /\ v \in Fitting(Width(5))
  BY Widths DEF TYPE_UINT
<1> QED BY <1>1, ListsNumber DEF UInt16

LEMMA ListsUInt32 ==
    ASSUME NEW tag \in Nat, NEW v \in Fitting(4)
    PROVE  Lists(UInt32(tag, v), <<IntItem(tag, v)>>)
<1>1. 6 \in TYPE_UINT /\ v \in Fitting(Width(6))
  BY Widths DEF TYPE_UINT
<1> QED BY <1>1, ListsNumber DEF UInt32

-----------------------------------------------------------------------------
(* Lookups *)

LEMMA ItemParts ==
    \A t, x :
      /\ ListItem(t, x).tag = t /\ ListItem(t, x).type = "list" /\ ListItem(t, x).list = x
      /\ ListItem(t, x).int = 0 /\ ListItem(t, x).oct = <<>>
      /\ IntItem(t, x).tag = t /\ IntItem(t, x).type = "int" /\ IntItem(t, x).int = x
      /\ IntItem(t, x).list = <<>> /\ IntItem(t, x).oct = <<>>
      /\ BoolItem(t, x).tag = t /\ BoolItem(t, x).type = "bool" /\ BoolItem(t, x).int = IF x THEN 1 ELSE 0
      /\ OctetsItem(t, x).tag = t /\ OctetsItem(t, x).type = "octets" /\ OctetsItem(t, x).oct = x
      /\ OctetsItem(t, x).int = 0 /\ OctetsItem(t, x).list = <<>>
BY DEF ListItem, IntItem, BoolItem, OctetsItem, Item

LEMMA NoItemParts == NoItem.type = "none" /\ NoItem.int = 0 /\ NoItem.oct = <<>> /\ NoItem.list = <<>>
BY DEF NoItem, Item

(* An item of some type has been found *)
LEMMA FoundItem == \A item : item.type # "none" => Found(item)
BY NoItemParts DEF Found

LEMMA NothingFound == ~Found(NoItem)
BY DEF Found

(* The items of l in front of the k-th have other tags *)
Leads(l, k, tag) == l[k].tag = tag /\ \A i \in 1 .. Len(l) : i < k => l[i].tag # tag

LEMMA ChildFound ==
    ASSUME NEW l, IsSeq(l), NEW t, NEW tag, NEW k \in 1 .. Len(l), Leads(l, k, tag)
    PROVE  Child(ListItem(t, l), tag) = l[k]
<1> DEFINE item == ListItem(t, l)
           S == {i \in 1 .. Len(l) : l[i].tag = tag}
<1>n. Len(l) \in Nat
  BY DEF IsSeq
<1>1. k \in S /\ S \subseteq Nat /\ S # {}
  BY <1>n DEF Leads
<1>2. Min(S) \in S /\ \A i \in S : Min(S) <= i
  BY <1>1, LeastElement
<1>3. Min(S) = k
  <2>1. Min(S) \in Nat /\ k \in Nat /\ Min(S) <= k /\ Min(S) \in 1 .. Len(l) /\ l[Min(S)].tag = tag
    BY <1>1, <1>2
  <2> DEFINE m == Min(S)
  <2> HIDE DEF m
  <2>2. ~(m < k)
    BY <2>1 DEF m, Leads
  <2> QED BY <2>1, <2>2 DEF m
<1>4. item.list = l /\ item.type = "list"
  BY ItemParts
<1> HIDE DEF item
<1>5. Child(item, tag) = item.list[Min(S)]
  BY <1>1, <1>4 DEF Child
<1> QED BY <1>3, <1>4, <1>5 DEF item

LEMMA ChildMissing ==
    ASSUME NEW l, NEW t, NEW tag, \A i \in 1 .. Len(l) : l[i].tag # tag
    PROVE  Child(ListItem(t, l), tag) = NoItem
<1> DEFINE item == ListItem(t, l)
<1>1. item.list = l
  BY ItemParts
<1> HIDE DEF item
<1>2. Child(item, tag) = NoItem
  BY <1>1 DEF Child
<1> QED BY <1>2 DEF item

LEMMA ChildOfOther ==
    ASSUME NEW item, item.type # "list", NEW tag
    PROVE  Child(item, tag) = NoItem
BY DEF Child

(* w goes down the path from w[0] *)
LEMMA WalkedPath ==
    ASSUME NEW path, NEW n \in Nat, Len(path) = n, NEW w, \A i \in 1 .. n : w[i] = Child(w[i - 1], path[i])
    PROVE  GetItemRec(w[0], path) = w[n]
<1> DEFINE item == w[0]
           Eq(f) == f = [i \in 0 .. Len(path) |-> IF i = 0 THEN item ELSE Child(f[i - 1], path[i])]
           v == [i \in 0 .. n |-> w[i]]
<1>1. Eq(v)
  OBVIOUS
<1>2. ASSUME NEW f, Eq(f) PROVE f[n] = w[n]
  <2> DEFINE Same(i) == i <= n => f[i] = w[i]
             T == {i \in Nat : Same(i)}
  <2>1. 0 \in T
    BY <1>2
  <2>2. ASSUME NEW i \in T PROVE i + 1 \in T
    <3> SUFFICES ASSUME i + 1 <= n PROVE f[i + 1] = w[i + 1]
      OBVIOUS
    <3>1. f[i] = w[i] /\ i + 1 \in 1 .. n /\ i + 1 - 1 = i
      OBVIOUS
    <3>2. f[i + 1] = Child(f[i], path[i + 1]) /\ w[i + 1] = Child(w[i], path[i + 1])
      BY <1>2, <3>1
    <3> QED BY <3>1, <3>2
  <2>3. T = Nat
    <3> HIDE DEF T
    <3>1. T \subseteq Nat
      BY DEF T
    <3> QED BY <2>1, <2>2, <3>1, Induction
  <2>4. Same(n)
    BY <2>3
  <2> QED BY <2>4
<1>3. GetItemRec(item, path) = w[n]
  <2> HIDE DEF v, item
  <2> DEFINE g == CHOOSE f : Eq(f)
  <2>1. Eq(g)
    BY <1>1
  <2>2. g[n] = w[n]
    <3> HIDE DEF g
    <3> QED BY <1>2, <2>1
  <2>3. GetItemRec(item, path) = g[n]
    BY DEF GetItemRec
  <2> QED BY <2>2, <2>3
<1> QED BY <1>3

(* The same for paths of one to five tags *)
LEMMA Walk1 ==
    ASSUME NEW item, NEW s
    PROVE  GetItemRec(item, <<s>>) = Child(item, s)
<1> DEFINE path == <<s>>
           w == [i \in 0 .. 1 |-> IF i = 0 THEN item ELSE Child(item, s)]
<1>1. Len(path) = 1 /\ path[1] = s /\ w[0] = item /\ w[1] = Child(item, s) /\ 1 \in Nat
  OBVIOUS
<1> HIDE DEF path, w
<1>2. \A i \in 1 .. 1 : w[i] = Child(w[i - 1], path[i])
  BY <1>1
<1>3. GetItemRec(w[0], path) = w[1]
  BY <1>1, <1>2, WalkedPath
<1> QED BY <1>1, <1>3 DEF path

LEMMA Walk2 ==
    ASSUME NEW item, NEW s, NEW t
    PROVE  GetItemRec(item, <<s, t>>) = Child(Child(item, s), t)
<1> DEFINE path == <<s, t>>
           a == Child(item, s)
           b == Child(a, t)
           w == [i \in 0 .. 2 |-> IF i = 0 THEN item ELSE IF i = 1 THEN a ELSE b]
           n == 2
<1>1. /\ Len(path) = n /\ path[1] = s /\ path[2] = t
      /\ w[0] = item /\ w[1] = a /\ w[2] = b /\ n \in Nat /\ w[n] = w[2] /\ 1 .. n = 1 .. 2
  OBVIOUS
<1> HIDE DEF path, w, n
<1>2. ASSUME NEW i \in 1 .. n PROVE w[i] = Child(w[i - 1], path[i])
  <2>1. w[1] = Child(w[0], path[1]) /\ w[2] = Child(w[1], path[2])
    BY <1>1
  <2>2. (i = 1 /\ i - 1 = 0) \/ (i = 2 /\ i - 1 = 1)
    <3>1. i \in 1 .. 2
      BY <1>1
    <3> QED BY <3>1
  <2> HIDE DEF a, b
  <2> QED BY <2>1, <2>2
<1>3. GetItemRec(w[0], path) = w[n]
  BY <1>1, <1>2, WalkedPath
<1> QED BY <1>1, <1>3 DEF path

LEMMA Walk3 ==
    ASSUME NEW item, NEW s, NEW t, NEW u
    PROVE  GetItemRec(item, <<s, t, u>>) = Child(Child(Child(item, s), t), u)
<1> DEFINE path == <<s, t, u>>
           a == Child(item, s)
           b == Child(a, t)
           c == Child(b, u)
           w == [i \in 0 .. 3 |-> IF i = 0 THEN item ELSE IF i = 1 THEN a ELSE IF i = 2 THEN b ELSE c]
           n == 3
<1>1. /\ Len(path) = n /\ path[1] = s /\ path[2] = t /\ path[3] = u
      /\ w[0] = item /\ w[1] = a /\ w[2] = b /\ w[3] = c /\ n \in Nat /\ w[n] = w[3] /\ 1 .. n = 1 .. 3
  OBVIOUS
<1> HIDE DEF path, w, n
<1>2. ASSUME NEW i \in 1 .. n PROVE w[i] = Child(w[i - 1], path[i])
  <2>1. w[1] = Child(w[0], path[1]) /\ w[2] = Child(w[1], path[2]) /\ w[3] = Child(w[2], path[3])
    BY <1>1
  <2>2. (i = 1 /\ i - 1 = 0) \/ (i = 2 /\ i - 1 = 1) \/ (i = 3 /\ i - 1 = 2)
    BY <1>1, SMT
  <2> HIDE DEF a, b, c
  <2> QED BY <2>1, <2>2
<1> HIDE DEF a, b, c
<1>3. GetItemRec(w[0], path) = w[n]
  BY <1>1, <1>2, WalkedPath
<1> QED BY <1>1, <1>3 DEF path, a, b, c

LEMMA Walk4 ==
    ASSUME NEW item, NEW s, NEW t, NEW u, NEW v
    PROVE  GetItemRec(item, <<s, t, u, v>>) = Child(Child(Child(Child(item, s), t), u), v)
<1> DEFINE path == <<s, t, u, v>>
           a == Child(item, s)
           b == Child(a, t)
           c == Child(b, u)
           d == Child(c, v)
           w == [i \in 0 .. 4 |-> IF i = 0 THEN item ELSE IF i = 1 THEN a ELSE IF i = 2 THEN b
                                  ELSE IF i = 3 THEN c ELSE d]
           n == 4
<1>1. /\ Len(path) = n /\ path[1] = s /\ path[2] = t /\ path[3] = u /\ path[4] = v
      /\ w[0] = item /\ w[1] = a /\ w[2] = b /\ w[3] = c /\ w[4] = d
      /\ n \in Nat /\ w[n] = w[4] /\ 1 .. n = 1 .. 4
  OBVIOUS
<1> HIDE DEF path, w, n
<1>2. ASSUME NEW i \in 1 .. n PROVE w[i] = Child(w[i - 1], path[i])
  <2>1. /\ w[1] = Child(w[0], path[1]) /\ w[2] = Child(w[1], path[2]) /\ w[3] = Child(w[2], path[3])
        /\ w[4] = Child(w[3], path[4])
    BY <1>1
  <2>2. \/ (i = 1 /\ i - 1 = 0) \/ (i = 2 /\ i - 1 = 1) \/ (i = 3 /\ i - 1 = 2)
        \/ (i = 4 /\ i - 1 = 3)
    BY <1>1, SMT
  <2> HIDE DEF a, b, c, d
  <2> QED BY <2>1, <2>2
<1> HIDE DEF a, b, c, d
<1>3. GetItemRec(w[0], path) = w[n]
  BY <1>1, <1>2, WalkedPath
<1> QED BY <1>1, <1>3 DEF path, a, b, c, d

LEMMA Walk5 ==
    ASSUME NEW item, NEW s, NEW t, NEW u, NEW v, NEW x
    PROVE  GetItemRec(item, <<s, t, u, v, x>>) = Child(Child(Child(Child(Child(item, s), t), u), v), x)
<1> DEFINE path == <<s, t, u, v, x>>
           a == Child(item, s)
           b == Child(a, t)
           c == Child(b, u)
           d == Child(c, v)
           e == Child(d, x)
           w == [i \in 0 .. 5 |-> IF i = 0 THEN item ELSE IF i = 1 THEN a ELSE IF i = 2 THEN b
                                  ELSE IF i = 3 THEN c ELSE IF i = 4 THEN d ELSE e]
           n == 5
<1>1. /\ Len(path) = n /\ path[1] = s /\ path[2] = t /\ path[3] = u /\ path[4] = v /\ path[5] = x
      /\ w[0] = item /\ w[1] = a /\ w[2] = b /\ w[3] = c /\ w[4] = d /\ w[5] = e
      /\ n \in Nat /\ w[n] = w[5] /\ 1 .. n = 1 .. 5
  OBVIOUS
<1> HIDE DEF path, w, n
<1>2. ASSUME NEW i \in 1 .. n PROVE w[i] = Child(w[i - 1], path[i])
  <2>1. /\ w[1] = Child(w[0], path[1]) /\ w[2] = Child(w[1], path[2]) /\ w[3] = Child(w[2], path[3])
        /\ w[4] = Child(w[3], path[4]) /\ w[5] = Child(w[4], path[5])
    BY <1>1
  <2>2. \/ (i = 1 /\ i - 1 = 0) \/ (i = 2 /\ i - 1 = 1) \/ (i = 3 /\ i - 1 = 2)
        \/ (i = 4 /\ i - 1 = 3) \/ (i = 5 /\ i - 1 = 4)
    <3>1. i \in 1 .. 5
      BY <1>1
    <3> QED BY <3>1
  <2> HIDE DEF a, b, c, d, e
  <2> QED BY <2>1, <2>2
<1> HIDE DEF a, b, c, d, e
<1>3. GetItemRec(w[0], path) = w[n]
  BY <1>1, <1>2, WalkedPath
<1> QED BY <1>1, <1>3 DEF path, a, b, c, d, e

(* No item of l has the tag; or the first one that has it is x *)
Lacks(l, tag) == IsSeq(l) /\ \A i \in 1 .. Len(l) : l[i].tag # tag
Offers(l, tag, x) == IsSeq(l) /\ \E k \in 1 .. Len(l) : Leads(l, k, tag) /\ l[k] = x

LEMMA LacksChild ==
    ASSUME NEW l, NEW tag, Lacks(l, tag), NEW t
    PROVE  Child(ListItem(t, l), tag) = NoItem
BY ChildMissing DEF Lacks

LEMMA OffersChild ==
    ASSUME NEW l, NEW tag, NEW x, Offers(l, tag, x), NEW t
    PROVE  Child(ListItem(t, l), tag) = x
BY ChildFound DEF Offers

LEMMA LacksOne ==
    ASSUME NEW x, NEW tag, x.tag # tag
    PROVE  Lacks(<<x>>, tag)
<1> DEFINE l == <<x>>
<1>1. IsSeq(l) /\ Len(l) = 1 /\ l[1] = x
  BY DEF IsSeq
<1> HIDE DEF l
<1>2. Lacks(l, tag)
  BY <1>1 DEF Lacks
<1> QED BY <1>2 DEF l

LEMMA OffersOne ==
    ASSUME NEW x, NEW tag, x.tag = tag
    PROVE  Offers(<<x>>, tag, x)
<1> DEFINE l == <<x>>
<1>1. IsSeq(l) /\ Len(l) = 1 /\ l[1] = x
  BY DEF IsSeq
<1> HIDE DEF l
<1>2. Leads(l, 1, tag) /\ 1 \in 1 .. Len(l)
  BY <1>1 DEF Leads
<1>3. Offers(l, tag, x)
  BY <1>1, <1>2 DEF Offers
<1> QED BY <1>3 DEF l

(* The items of l \o m are those of l, then those of m *)
LEMMA JoinedItems ==
    ASSUME NEW l, IsSeq(l), NEW m, IsSeq(m)
    PROVE  /\ IsSeq(l \o m) /\ Len(l \o m) = Len(l) + Len(m) /\ Len(l) \in Nat /\ Len(m) \in Nat
           /\ \A i \in 1 .. Len(l) : (l \o m)[i] = l[i]
           /\ \A i \in Len(l) + 1 .. Len(l) + Len(m) : (l \o m)[i] = m[i - Len(l)]
<1> DEFINE S == {l[i] : i \in DOMAIN l} \cup {m[i] : i \in DOMAIN m}
<1>1. l \in Seq(S) /\ m \in Seq(S)
  BY DEF IsSeq
<1> HIDE DEF S
<1>2. l \o m \in Seq(S) /\ Len(l \o m) = Len(l) + Len(m)
  BY <1>1, ConcatLength
<1>3. /\ \A i \in 1 .. Len(l) : (l \o m)[i] = l[i]
      /\ \A i \in Len(l) + 1 .. Len(l) + Len(m) : (l \o m)[i] = m[i - Len(l)]
  BY <1>1, ConcatElement
<1>4. IsSeq(l \o m)
  BY <1>2, SeqIsSeq
<1>5. Len(l) \in Nat /\ Len(m) \in Nat
  BY <1>1
<1> QED BY <1>2, <1>3, <1>4, <1>5

LEMMA LacksJoin ==
    ASSUME NEW tag, NEW l, Lacks(l, tag), NEW m, Lacks(m, tag)
    PROVE  Lacks(l \o m, tag)
<1> DEFINE w == l \o m
           n == Len(l)
           k == Len(m)
<1>1. /\ IsSeq(w) /\ Len(w) = n + k /\ n \in Nat /\ k \in Nat
      /\ \A i \in 1 .. n : w[i] = l[i]
      /\ \A i \in n + 1 .. n + k : w[i] = m[i - n]
  BY JoinedItems DEF Lacks
<1>2. (\A i \in 1 .. n : l[i].tag # tag) /\ \A i \in 1 .. k : m[i].tag # tag
  BY DEF Lacks
<1> HIDE DEF w, n, k
<1>3. ASSUME NEW i \in 1 .. n + k PROVE w[i].tag # tag
  <2>1. CASE i \in 1 .. n
    BY <2>1, <1>1, <1>2
  <2>2. CASE i \notin 1 .. n
    <3>1. i \in n + 1 .. n + k /\ i - n \in 1 .. k
      BY <2>2, <1>1
    <3> QED BY <3>1, <1>1, <1>2
  <2> QED BY <2>1, <2>2
<1>4. Lacks(w, tag)
  BY <1>1, <1>3 DEF Lacks
<1> QED BY <1>4 DEF w

LEMMA OffersFront ==
    ASSUME NEW tag, NEW x, NEW l, Offers(l, tag, x), NEW m, IsSeq(m)
    PROVE  Offers(l \o m, tag, x)
<1> DEFINE w == l \o m
           n == Len(l)
<1>1. /\ IsSeq(w) /\ Len(w) = n + Len(m) /\ n \in Nat /\ Len(m) \in Nat
      /\ \A i \in 1 .. n : w[i] = l[i]
  BY JoinedItems DEF Offers
<1>2. PICK k \in 1 .. n : Leads(l, k, tag) /\ l[k] = x
  BY DEF Offers
<1>3. l[k].tag = tag /\ \A i \in 1 .. n : i < k => l[i].tag # tag
  BY <1>2 DEF Leads
<1> HIDE DEF w, n
<1>4. k \in 1 .. Len(w) /\ w[k] = x /\ w[k].tag = tag
  BY <1>1, <1>2, <1>3
<1>5. ASSUME NEW i \in 1 .. Len(w), i < k PROVE w[i].tag # tag
  <2>1. i \in 1 .. n
    BY <1>1, <1>5
  <2> QED BY <2>1, <1>1, <1>3, <1>5
<1>6. Offers(w, tag, x)
  BY <1>1, <1>4, <1>5 DEF Offers, Leads
<1> QED BY <1>6 DEF w

LEMMA OffersBehind ==
    ASSUME NEW tag, NEW x, NEW l, Lacks(l, tag), NEW m, Offers(m, tag, x)
    PROVE  Offers(l \o m, tag, x)
<1> DEFINE w == l \o m
           n == Len(l)
           k == Len(m)
<1>1. /\ IsSeq(w) /\ Len(w) = n + k /\ n \in Nat /\ k \in Nat
      /\ \A i \in 1 .. n : w[i] = l[i]
      /\ \A i \in n + 1 .. n + k : w[i] = m[i - n]
  BY JoinedItems DEF Lacks, Offers
<1>2. PICK j \in 1 .. k : Leads(m, j, tag) /\ m[j] = x
  BY DEF Offers
<1>3. /\ m[j].tag = tag /\ \A i \in 1 .. k : i < j => m[i].tag # tag
      /\ \A i \in 1 .. n : l[i].tag # tag
  BY <1>2 DEF Leads, Lacks
<1> HIDE DEF w, n, k
<1>4. n + j \in 1 .. Len(w) /\ w[n + j] = x /\ w[n + j].tag = tag
  <2>1. n + j \in n + 1 .. n + k /\ n + j - n = j
    BY <1>1
  <2> QED BY <1>1, <1>2, <1>3, <2>1
<1>5. ASSUME NEW i \in 1 .. Len(w), i < n + j PROVE w[i].tag # tag
  <2>1. CASE i \in 1 .. n
    BY <2>1, <1>1, <1>3
  <2>2. CASE i \notin 1 .. n
    <3>1. i \in n + 1 .. n + k /\ i - n \in 1 .. k /\ i - n < j
      BY <2>2, <1>1, <1>5
    <3> QED BY <3>1, <1>1, <1>3
  <2> QED BY <2>1, <2>2
<1>6. Offers(w, tag, x)
  BY <1>1, <1>4, <1>5 DEF Offers, Leads
<1> QED BY <1>6 DEF w

-----------------------------------------------------------------------------
(* The headers of a message *)

GoodHeader(h) ==
    /\ h.session \in Fitting(2) /\ h.counter \in Fitting(4)
    /\ h.source \in NodeIds({0, 8}) /\ h.destination \in NodeIds({0, 2, 8})

(* The sizes a header says the node ids have *)
SourceSize(b) == IF Bit(b[1], 2) THEN 8 ELSE 0
DestinationSize(b) == CASE b[1] % 4 = 1 -> 8 [] b[1] % 4 = 2 -> 2 [] OTHER -> 0

LEMMA FlagsTellSizes ==
    ASSUME NEW h, Len(h.source) \in {0, 8}, Len(h.destination) \in {0, 2, 8},
           NEW b, b[1] = calcMessageFlags(h)
    PROVE  /\ b[1] \in Nat
           /\ SourceSize(b) = Len(h.source) /\ DestinationSize(b) = Len(h.destination)
<1> DEFINE s == Len(h.source)
           d == Len(h.destination)
           f == (IF s = 8 THEN 4 ELSE 0) + (IF d = 2 THEN 2 ELSE IF d = 8 THEN 1 ELSE 0)
<1>1. s \in {0, 8} /\ d \in {0, 2, 8} /\ b[1] = f
  BY DEF calcMessageFlags
<1>2. SourceSize(b) = IF (f \div 4) % 2 = 1 THEN 8 ELSE 0
  <2>1. Powers(2)[2] = 4
    BY PowersOfTwo
  <2> HIDE DEF f
  <2> QED BY <1>1, <2>1 DEF SourceSize, Bit
<1>3. DestinationSize(b) = CASE f % 4 = 1 -> 8 [] f % 4 = 2 -> 2 [] OTHER -> 0
  <2> HIDE DEF f
  <2> QED BY <1>1 DEF DestinationSize
<1> HIDE DEF s, d
<1>4. /\ f \in Nat /\ (IF (f \div 4) % 2 = 1 THEN 8 ELSE 0) = s
      /\ (CASE f % 4 = 1 -> 8 [] f % 4 = 2 -> 2 [] OTHER -> 0) = d
  <2>1. CASE s = 0 /\ d = 0
    BY <2>1
  <2>2. CASE s = 0 /\ d = 2
    BY <2>2
  <2>3. CASE s = 0 /\ d = 8
    BY <2>3
  <2>4. CASE s = 8 /\ d = 0
    BY <2>4
  <2>5. CASE s = 8 /\ d = 2
    BY <2>5
  <2>6. CASE s = 8 /\ d = 8
    BY <2>6
  <2> QED BY <1>1, <2>1, <2>2, <2>3, <2>4, <2>5, <2>6
<1> HIDE DEF f
<1> QED BY <1>1, <1>2, <1>3, <1>4 DEF s, d

LEMMA NumberWord ==
    ASSUME NEW n \in Nat, NEW v \in Fitting(n)
    PROVE  Word(LittleEndian(n, v), n)
<1>1. v \in Int
  BY FittingRemainder
<1>2. LittleEndian(n, v) \in Seq(Nat) /\ Len(LittleEndian(n, v)) = n
  BY <1>1, LittleEndianBytes, LittleEndianLength
<1> QED BY <1>2 DEF Word

LEMMA NumberAt ==
    ASSUME NEW b \in Seq(Nat), NEW q \in Nat \ {0}, NEW n \in Nat, NEW v \in Fitting(n),
           At(b, q, LittleEndian(n, v))
    PROVE  ReadNumber(b, q, n) = v
<1>1. v \in Int /\ v % Power[n] = v
  BY FittingRemainder
<1> QED BY <1>1, ReadNumberAt

(* Where the parts of the header stand *)
LEMMA HeaderParts ==
    ASSUME NEW h, GoodHeader(h)
    PROVE  /\ EncodeHeader(h) \in Seq(Nat)
           /\ Len(EncodeHeader(h)) = 8 + Len(h.source) + Len(h.destination)
           /\ \A b \in Seq(Nat) : At(b, 1, EncodeHeader(h)) =>
                /\ b[1] = calcMessageFlags(h)
                /\ At(b, 2, LittleEndian(2, h.session)) /\ At(b, 5, LittleEndian(4, h.counter))
<1> DEFINE f == <<calcMessageFlags(h)>>
           s == LittleEndian(2, h.session)
           z == <<0>>
           c == LittleEndian(4, h.counter)
           x == IF Len(h.source) = 8 THEN h.source ELSE <<>>
           y == h.destination
           m == Len(h.source)
           n == Len(h.destination)
           g2 == f \o s
           g3 == g2 \o z
           g4 == g3 \o c
           g5 == g4 \o x
           e == g5 \o y
<1>1. EncodeHeader(h) = e
  BY DEF EncodeHeader
<1>2. /\ h.session \in Fitting(2) /\ h.counter \in Fitting(4)
      /\ m \in {0, 8} /\ n \in {0, 2, 8} /\ h.source \in Seq(Nat) /\ y \in Seq(Nat)
  BY DEF GoodHeader, NodeIds
<1>3. Word(f, 1) /\ Word(s, 2) /\ Word(z, 1) /\ Word(c, 4) /\ Word(x, m) /\ Word(y, n)
  <2>1. Word(s, 2) /\ Word(c, 4)
    <3>1. 2 \in Nat /\ 4 \in Nat
      OBVIOUS
    <3> QED BY <1>2, <3>1, NumberWord
  <2>2. Word(f, 1) /\ Word(z, 1)
    <3>1. calcMessageFlags(h) \in Nat
      BY <1>2 DEF calcMessageFlags
    <3> QED BY <3>1 DEF Word
  <2>3. Word(x, m) /\ Word(y, n)
    BY <1>2 DEF Word
  <2> QED BY <2>1, <2>2, <2>3
<1>4. f[1] = calcMessageFlags(h)
  OBVIOUS
<1>5. m \in Nat /\ n \in Nat /\ 8 + m \in Nat /\ 8 + m + n \in Nat
  <2>1. m \in {0, 8} /\ n \in {0, 2, 8}
    BY <1>2
  <2> HIDE DEF m, n
  <2> QED BY <2>1
<1> HIDE DEF f, s, z, c, x, y, m, n
<1>6. Word(g2, 3)
  <2>1. Word(g2, 1 + 2)
    BY <1>3, JoinedWords
  <2> QED BY <2>1
<1> HIDE DEF g2
<1>7. Word(g3, 4)
  <2>1. Word(g3, 3 + 1)
    BY <1>3, <1>6, JoinedWords
  <2> QED BY <2>1
<1> HIDE DEF g3
<1>8. Word(g4, 8)
  <2>1. Word(g4, 4 + 4)
    BY <1>3, <1>7, JoinedWords
  <2> QED BY <2>1
<1> HIDE DEF g4
<1>9. Word(g5, 8 + m)
  BY <1>3, <1>5, <1>8, JoinedWords
<1> HIDE DEF g5
<1> DEFINE l == 8 + m
<1>10. Word(e, l + n)
  <2>1. Word(g5, l) /\ l \in Nat
    BY <1>5, <1>9
  <2> HIDE DEF l
  <2> QED BY <1>3, <1>5, <2>1, JoinedWords
<1> DEFINE Placed(b) ==
             /\ b[1] = f[1]
             /\ At(b, 2, s) /\ At(b, 5, c)
<1>11. ASSUME NEW b \in Seq(Nat), At(b, 1, e) PROVE Placed(b)
  <2> DEFINE k == Len(b)
  <2>k. k \in Nat /\ Word(b, k)
    BY DEF Word
  <2> HIDE DEF k
  <2>1. At(b, 1, g5)
    <3>1. At(b, 1, g5 \o y)
      BY <1>11
    <3>2. Word(g5, l) /\ l \in Nat
      BY <1>5, <1>9
    <3> HIDE DEF l
    <3> QED BY <1>3, <1>5, <2>k, <3>1, <3>2, SplitWords
  <2>2. At(b, 1, g4)
    <3>1. At(b, 1, g4 \o x)
      BY <2>1 DEF g5
    <3> QED BY <1>3, <1>5, <2>k, <1>8, <3>1, SplitWords
  <2>3. At(b, 1, g3) /\ At(b, 4 + 1, c)
    <3>1. At(b, 1, g3 \o c)
      BY <2>2 DEF g4
    <3> QED BY <1>3, <1>5, <2>k, <1>7, <3>1, SplitWords
  <2>4. At(b, 1, g2)
    <3>1. At(b, 1, g2 \o z)
      BY <2>3 DEF g3
    <3> QED BY <1>3, <1>5, <2>k, <1>6, <3>1, SplitWords
  <2>5. At(b, 1, f) /\ At(b, 1 + 1, s)
    <3>1. At(b, 1, f \o s)
      BY <2>4 DEF g2
    <3> QED BY <1>3, <1>5, <2>k, <3>1, SplitWords
  <2>6. b[1] = f[1]
    <3>1. Len(f) = 1
      BY <1>3 DEF Word
    <3>2. b[1 + 1 - 1] = f[1]
      BY <2>5, <3>1 DEF At
    <3> QED BY <3>2
  <2>7. 4 + 1 = 5 /\ 1 + 1 = 2
    OBVIOUS
  <2> HIDE DEF e
  <2> QED BY <2>3, <2>5, <2>6, <2>7
<1>12. e \in Seq(Nat) /\ Len(e) = 8 + m + n
  BY <1>10 DEF Word
<1> HIDE DEF e
<1> QED BY <1>1, <1>4, <1>11, <1>12 DEF s, c, m, n

(* DecodeHeader and Receive take a message apart where it was put together *)
LEMMA HeaderReads ==
    ASSUME NEW h, GoodHeader(h), NEW e \in Seq(Nat)
    PROVE  LET b == EncodeHeader(h) \o e IN
           /\ b \in Seq(Nat) /\ EncodeHeader(h) \in Seq(Nat)
           /\ DecodeHeader(b).session = h.session /\ DecodeHeader(b).counter = h.counter
           /\ SubSeq(b, 1, DecodeHeader(b).size) = EncodeHeader(h)
           /\ SubSeq(b, DecodeHeader(b).size + 1, Len(b)) = e
<1> DEFINE g == EncodeHeader(h)
           b == g \o e
           n == Len(g)
           m == Len(e)
<1>1. g \in Seq(Nat)
  BY HeaderParts
<1>n. n \in Nat /\ m \in Nat /\ g \in Seq(Int) /\ e \in Seq(Int)
  BY <1>1
<1> HIDE DEF g
<1>2. b \in Seq(Nat) /\ Len(b) = n + m
  BY <1>1, ConcatLength
<1>3. At(b, 1, b)
  BY <1>2 DEF At
<1>4. At(b, 1, g) /\ At(b, 1 + n, e)
  BY <1>2, <1>3, <1>n, AtSplit
<1> HIDE DEF b
<1>5. /\ n = 8 + Len(h.source) + Len(h.destination) /\ b[1] = calcMessageFlags(h)
      /\ At(b, 2, LittleEndian(2, h.session)) /\ At(b, 5, LittleEndian(4, h.counter))
  BY <1>2, <1>4, HeaderParts DEF g
<1>6. DecodeHeader(b).size = n
  <2>1. Len(h.source) \in {0, 8} /\ Len(h.destination) \in {0, 2, 8}
    BY DEF GoodHeader, NodeIds
  <2>2. SourceSize(b) = Len(h.source) /\ DestinationSize(b) = Len(h.destination)
    BY <1>5, <2>1, FlagsTellSizes
  <2>3. DecodeHeader(b).size = 8 + SourceSize(b) + DestinationSize(b)
    BY DEF DecodeHeader, SourceSize, DestinationSize
  <2> QED BY <1>5, <2>2, <2>3
<1>7. DecodeHeader(b).session = h.session /\ DecodeHeader(b).counter = h.counter
  <2>1. h.session \in Fitting(2) /\ h.counter \in Fitting(4) /\ 2 \in Nat \ {0} /\ 5 \in Nat \ {0} /\ 4 \in Nat
    BY DEF GoodHeader
  <2>2. ReadNumber(b, 2, 2) = h.session /\ ReadNumber(b, 5, 4) = h.counter
    BY <1>2, <1>5, <2>1, NumberAt
  <2> QED BY <2>2 DEF DecodeHeader
<1>8. SubSeq(b, 1, n) = g
  <2>1. Bytes(b, 1, n) = g
    BY <1>2, <1>4, <1>n, AtIsBytes
  <2>2. 1 + n - 1 = n
    BY <1>n
  <2> QED BY <2>1, <2>2 DEF Bytes
<1>9. SubSeq(b, n + 1, Len(b)) = e
  <2>1. Bytes(b, 1 + n, m) = e
    <3>1. 1 + n \in Nat \ {0}
      BY <1>n
    <3> QED BY <1>2, <1>4, <1>n, <3>1, AtIsBytes
  <2>2. 1 + n = n + 1 /\ n + 1 + m - 1 = Len(b)
    BY <1>2, <1>n
  <2> QED BY <2>1, <2>2 DEF Bytes
<1> QED BY <1>1, <1>2, <1>6, <1>7, <1>8, <1>9 DEF b, g

-----------------------------------------------------------------------------
(* The protocol header *)

GoodProtocol(p) ==
    /\ p.flags \in Nat /\ p.opcode \in Nat
    /\ p.exchange \in Fitting(2) /\ p.protocol \in Fitting(2)

LEMMA ProtocolParts ==
    ASSUME NEW p, GoodProtocol(p)
    PROVE  /\ Word(EncodeProtocol(p), 6)
           /\ \A b \in Seq(Nat) : At(b, 1, EncodeProtocol(p)) =>
                /\ b[1] = p.flags /\ b[2] = p.opcode
                /\ At(b, 3, LittleEndian(2, p.exchange)) /\ At(b, 5, LittleEndian(2, p.protocol))
<1> DEFINE f == <<p.flags, p.opcode>>
           s == LittleEndian(2, p.exchange)
           c == LittleEndian(2, p.protocol)
           g == f \o s
           e == g \o c
<1>1. EncodeProtocol(p) = e
  BY DEF EncodeProtocol
<1>2. Word(f, 2) /\ f[1] = p.flags /\ f[2] = p.opcode
  BY DEF GoodProtocol, Word
<1>3. Word(s, 2) /\ Word(c, 2)
  <2>1. 2 \in Nat /\ p.exchange \in Fitting(2) /\ p.protocol \in Fitting(2)
    BY DEF GoodProtocol
  <2> QED BY <2>1, NumberWord
<1> HIDE DEF f, s, c
<1>4. Word(g, 4)
  <2>1. Word(g, 2 + 2)
    BY <1>2, <1>3, JoinedWords
  <2> QED BY <2>1
<1> HIDE DEF g
<1>5. Word(e, 6)
  <2>1. Word(e, 4 + 2)
    BY <1>3, <1>4, JoinedWords
  <2> QED BY <2>1
<1> DEFINE Placed(b) == b[1] = f[1] /\ b[2] = f[2] /\ At(b, 3, s) /\ At(b, 5, c)
<1>6. ASSUME NEW b \in Seq(Nat), At(b, 1, e) PROVE Placed(b)
  <2> DEFINE k == Len(b)
  <2>k. k \in Nat /\ Word(b, k)
    BY DEF Word
  <2> HIDE DEF k
  <2>1. At(b, 1, g) /\ At(b, 4 + 1, c)
    <3>1. At(b, 1, g \o c)
      BY <1>6
    <3> QED BY <1>3, <1>4, <2>k, <3>1, SplitWords
  <2>2. At(b, 1, f) /\ At(b, 2 + 1, s)
    <3>1. At(b, 1, f \o s)
      BY <2>1 DEF g
    <3> QED BY <1>2, <1>3, <2>k, <3>1, SplitWords
  <2>3. b[1] = f[1] /\ b[2] = f[2]
    <3>1. Len(f) = 2
      BY <1>2 DEF Word
    <3>2. b[1 + 1 - 1] = f[1] /\ b[1 + 2 - 1] = f[2]
      BY <2>2, <3>1 DEF At
    <3> QED BY <3>2
  <2>4. 4 + 1 = 5 /\ 2 + 1 = 3
    OBVIOUS
  <2> HIDE DEF e
  <2> QED BY <2>1, <2>2, <2>3, <2>4
<1> HIDE DEF e
<1> QED BY <1>1, <1>2, <1>5, <1>6 DEF s, c

(* Two parts, cut at the length of the first one *)
Cuts(b, g, e) ==
    /\ b \in Seq(Nat) /\ At(b, 1, g) /\ At(b, 1 + Len(g), e)
    /\ SubSeq(b, 1, Len(g)) = g /\ SubSeq(b, Len(g) + 1, Len(b)) = e

LEMMA CutParts ==
    ASSUME NEW g \in Seq(Nat), NEW e \in Seq(Nat), NEW b, b = g \o e
    PROVE  Cuts(b, g, e)
<1> DEFINE n == Len(g)
           m == Len(e)
<1>n. n \in Nat /\ m \in Nat /\ g \in Seq(Int) /\ e \in Seq(Int)
  OBVIOUS
<1>1. b \in Seq(Nat) /\ Len(b) = n + m
  BY ConcatLength
<1>2. At(b, 1, b)
  BY <1>1 DEF At
<1>3. At(b, 1, g) /\ At(b, 1 + n, e)
  BY <1>1, <1>2, <1>n, AtSplit
<1>4. SubSeq(b, 1, n) = g
  <2>1. Bytes(b, 1, n) = g
    <3>1. 1 \in Nat \ {0}
      OBVIOUS
    <3> QED BY <1>1, <1>3, <1>n, <3>1, AtIsBytes, Zenon
  <2>2. 1 + n - 1 = n
    BY <1>n
  <2> QED BY <2>1, <2>2 DEF Bytes
<1>5. SubSeq(b, n + 1, Len(b)) = e
  <2>1. Bytes(b, 1 + n, m) = e
    <3>1. 1 + n \in Nat \ {0}
      BY <1>n
    <3> QED BY <1>1, <1>3, <1>n, <3>1, AtIsBytes
  <2>2. 1 + n = n + 1 /\ n + 1 + m - 1 = Len(b)
    BY <1>1, <1>n
  <2> QED BY <2>1, <2>2 DEF Bytes
<1> QED BY <1>1, <1>3, <1>4, <1>5 DEF Cuts

(* What comes behind the protocol header and the counter of an ack in it *)
ReadsAs(d, payload, p, z) ==
    /\ d.flags = p.flags /\ d.exchange = p.exchange
    /\ ~Bit(p.flags, 1) => d.ack = 0 /\ payload = z
    /\ \A c \in Fitting(4), y \in Seq(Nat) :
         Bit(p.flags, 1) /\ z = LittleEndian(4, c) \o y => d.ack = c /\ payload = y

LEMMA ProtocolReads ==
    ASSUME NEW p, GoodProtocol(p), NEW z \in Seq(Nat), NEW b, b = EncodeProtocol(p) \o z
    PROVE  b \in Seq(Nat) /\ ReadsAs(DecodeProtocol(b), SubSeq(b, DecodeProtocol(b).size + 1, Len(b)), p, z)
<1> DEFINE d == DecodeProtocol(b)
           g == EncodeProtocol(p)
<1>1. g \in Seq(Nat) /\ Len(g) = 6
  BY ProtocolParts DEF Word
<1>2. b \in Seq(Nat) /\ At(b, 1, g) /\ SubSeq(b, Len(g) + 1, Len(b)) = z
  <2>1. b = g \o z
    OBVIOUS
  <2> HIDE DEF g
  <2>2. Cuts(b, g, z)
    BY <1>1, <2>1, CutParts
  <2> QED BY <2>2 DEF Cuts
<1>3. b[1] = p.flags /\ At(b, 3, LittleEndian(2, p.exchange))
  BY <1>2, ProtocolParts
<1>4. ReadNumber(b, 3, 2) = p.exchange
  <2>1. p.exchange \in Fitting(2) /\ 3 \in Nat \ {0} /\ 2 \in Nat
    BY DEF GoodProtocol
  <2> QED BY <1>2, <1>3, <2>1, NumberAt
<1>5. d.flags = p.flags /\ d.exchange = p.exchange
  BY <1>3, <1>4 DEF DecodeProtocol
<1>6. ASSUME ~Bit(p.flags, 1) PROVE d.ack = 0 /\ d.size = Len(g)
  BY <1>1, <1>3, <1>6 DEF DecodeProtocol
<1>7. ASSUME Bit(p.flags, 1) PROVE d.ack = ReadNumber(b, 7, 4) /\ d.size = 10
  BY <1>3, <1>7 DEF DecodeProtocol
<1> HIDE DEF d, g
<1>8. ASSUME NEW c \in Fitting(4), NEW y \in Seq(Nat), Bit(p.flags, 1), z = LittleEndian(4, c) \o y
      PROVE  d.ack = c /\ SubSeq(b, d.size + 1, Len(b)) = y
  <2> DEFINE n == LittleEndian(4, c)
             gn == g \o n
  <2>1. n \in Seq(Nat) /\ Len(n) = 4
    <3>1. 4 \in Nat
      OBVIOUS
    <3> QED BY <3>1, NumberWord DEF Word
  <2>2. b = gn \o y
    <3> HIDE DEF n
    <3>1. b = g \o (n \o y)
      BY <1>8 DEF g, n
    <3> QED BY <1>1, <2>1, <3>1, Associative
  <2>3. gn \in Seq(Nat) /\ Len(gn) = 10 /\ At(gn, 7, n)
    <3> HIDE DEF n
    <3>1. gn \in Seq(Nat) /\ Len(gn) = Len(g) + Len(n)
      BY <1>1, <2>1, ConcatLength
    <3>2. At(gn, 1 + Len(g), n)
      <4>1. Cuts(gn, g, n)
        BY <1>1, <2>1, CutParts
      <4> QED BY <4>1 DEF Cuts
    <3> HIDE DEF gn
    <3> QED BY <1>1, <2>1, <3>1, <3>2
  <2> HIDE DEF gn
  <2>4. SubSeq(b, Len(gn) + 1, Len(b)) = y /\ At(b, 1, gn)
    <3>1. Cuts(b, gn, y)
      BY <2>2, <2>3, CutParts
    <3> QED BY <3>1 DEF Cuts
  <2>5. At(b, 7, n)
    <3>1. At(b, 1, g \o n)
      BY <2>4 DEF gn
    <3>2. g \in Seq(Int) /\ n \in Seq(Int) /\ 1 \in Nat
      BY <1>1, <2>1
    <3> HIDE DEF n
    <3>3. At(b, 1 + Len(g), n)
      BY <1>2, <3>1, <3>2, AtSplit
    <3>4. 1 + Len(g) = 7
      BY <1>1
    <3> QED BY <3>3, <3>4
  <2>6. ReadNumber(b, 7, 4) = c
    <3>1. 7 \in Nat \ {0} /\ 4 \in Nat
      OBVIOUS
    <3> QED BY <1>2, <2>5, <3>1, NumberAt
  <2> QED BY <1>7, <1>8, <2>3, <2>4, <2>6
<1> QED BY <1>2, <1>5, <1>6, <1>8 DEF d, ReadsAs

(* Receive, of a header, a protocol header and what comes behind it *)
ParsesAs(m, h, p, z) ==
    /\ m.aad = EncodeHeader(h)
    /\ m.header.session = h.session /\ m.header.counter = h.counter
    /\ ReadsAs(m.protocol, m.payload, p, z)

LEMMA ParseReads ==
    ASSUME NEW h, GoodHeader(h), NEW p, GoodProtocol(p), NEW z \in Seq(Nat)
    PROVE  ParsesAs(Parse(EncodeHeader(h) \o (EncodeProtocol(p) \o z)), h, p, z)
<1> DEFINE e == EncodeProtocol(p) \o z
           b == EncodeHeader(h) \o e
           m == Parse(b)
<1>1. e \in Seq(Nat) /\ ReadsAs(DecodeProtocol(e), SubSeq(e, DecodeProtocol(e).size + 1, Len(e)), p, z)
  <2>1. e = EncodeProtocol(p) \o z
    OBVIOUS
  <2> HIDE DEF e
  <2> QED BY <2>1, ProtocolReads
<1> HIDE DEF e
<1>2. /\ DecodeHeader(b).session = h.session /\ DecodeHeader(b).counter = h.counter
      /\ SubSeq(b, 1, DecodeHeader(b).size) = EncodeHeader(h)
      /\ SubSeq(b, DecodeHeader(b).size + 1, Len(b)) = e
  BY <1>1, HeaderReads
<1> HIDE DEF b
<1>3. /\ m.header = DecodeHeader(b) /\ m.aad = EncodeHeader(h)
      /\ m.protocol = DecodeProtocol(e) /\ m.payload = SubSeq(e, DecodeProtocol(e).size + 1, Len(e))
  BY <1>2 DEF Parse
<1> HIDE DEF m
<1>4. ParsesAs(m, h, p, z)
  BY <1>1, <1>2, <1>3 DEF ParsesAs
<1> QED BY <1>4 DEF m, b, e

-----------------------------------------------------------------------------
(* The content of an answer *)

(* An element of one byte without a tag *)
LEMMA ListsAnonByte ==
    ASSUME NEW v \in Nat
    PROVE  Lists(<<4, v>>, <<IntItem(0, v)>>)
<1> DEFINE e == <<4, v>>
           item == IntItem(0, v)
<1>1. e \in Seq(Nat) /\ Len(e) = 2 /\ e[1] = 4 /\ e[2] = v
  OBVIOUS
<1> HIDE DEF e
<1>2. ASSUME NEW b \in Seq(Nat), NEW p \in 1 .. Len(b), At(b, p, e) PROVE Reads(b, p, e, item)
  <2> DEFINE D == Decoded(b)
  <2>1. b[p + 1 - 1] = 4 /\ b[p + 2 - 1] = v /\ p + 2 - 1 <= Len(b)
    BY <1>1, <1>2 DEF At
  <2>2. p + 1 - 1 = p /\ p + 2 - 1 = p + 1
    OBVIOUS
  <2>3. b[p] = 4 /\ b[p + 1] = v /\ p + 1 <= Len(b)
    BY <2>1, <2>2
  <2>4. D[p] = DecodeContent(b, 4, 0, p + 1, D)
    BY <2>3, DecodedAnonymous DEF tEnd
  <2> HIDE DEF D
  <2>5. DecodeContent(b, 4, 0, p + 1, D) = Then(b, IntItem(0, b[p + 1]), p + 1 + 1, D)
    <3> DEFINE q == p + 1
               tp == 4
    <3>1. q <= Len(b) /\ tp \in OneByte
      BY <2>3 DEF OneByte
    <3> HIDE DEF q
    <3> USE DEF OneByte, Signed, tFalse, tTrue, tUtf8, tOctets1, tOctets2, tNull, Containers, tStruct, tArray, tList
    <3>2. DecodeContent(b, tp, 0, q, D) = Then(b, IntItem(0, b[q]), q + 1, D)
      BY <3>1 DEF DecodeContent
    <3> QED BY <3>2 DEF q, tp
  <2>6. p + 2 \in 1 .. Len(b) + 1 /\ p + 1 + 1 = p + 2
    BY <2>3
  <2>7. Then(b, item, p + 2, D) = Before(item, D[p + 2])
    BY <2>6, ThenAt
  <2>8. D[p] = Before(item, D[p + Len(e)])
    BY <1>1, <2>3, <2>4, <2>5, <2>6, <2>7
  <2> QED BY <2>8 DEF D, Reads
<1>3. Lists(e, <<item>>)
  BY <1>1, <1>2, ListsOne DEF StandsFor
<1> QED BY <1>3 DEF e

(* The revision at the end of every payload *)
RevisionItem == IntItem(255, 10 % Power[Width(4)])

LEMMA ListsRevision ==
    /\ Lists(Revision, <<RevisionItem>>)
    /\ RevisionItem.tag = 255 /\ RevisionItem.type = "int"
<1>1. Lists(Revision, <<RevisionItem>>)
  <2>1. 255 \in Nat /\ 4 \in TYPE_UINT /\ 10 \in Int
    BY DEF TYPE_UINT
  <2> QED BY <2>1, ListsUInt DEF Revision, RevisionItem, UInt8
<1>2. RevisionItem.tag = 255 /\ RevisionItem.type = "int"
  BY ItemParts DEF RevisionItem
<1> QED BY <1>1, <1>2

(* The path of an answer is one item *)
LEMMA ListsAnswerPath == \E l : Lists(AnswerPath, <<ListItem(0, l)>>)
<1> DEFINE x == IntItem(0, 1 % Power[Width(5)])
           y == IntItem(1, 6 % Power[Width(6)])
           z == IntItem(2, 0 % Power[Width(6)])
<1>1. Lists(UInt16(0, 1), <<x>>) /\ Lists(UInt32(1, 6), <<y>>) /\ Lists(UInt32(2, 0), <<z>>)
  <2>1. 5 \in TYPE_UINT /\ 6 \in TYPE_UINT
    BY DEF TYPE_UINT
  <2>2. Lists(EncUInt(0, 5, 1), <<x>>)
    BY <2>1, ListsUInt
  <2>3. Lists(EncUInt(1, 6, 6), <<y>>)
    BY <2>1, ListsUInt
  <2>4. Lists(EncUInt(2, 6, 0), <<z>>)
    BY <2>1, ListsUInt
  <2> QED BY <2>2, <2>3, <2>4 DEF UInt16, UInt32
<1> HIDE DEF x, y, z
<1>2. Lists((UInt16(0, 1) \o UInt32(1, 6)) \o UInt32(2, 0), (<<x>> \o <<y>>) \o <<z>>)
  BY <1>1, ListsJoin
<1>3. Lists(Container(0, tList, (UInt16(0, 1) \o UInt32(1, 6)) \o UInt32(2, 0)),
            <<ListItem(0, (<<x>> \o <<y>>) \o <<z>>)>>)
  <2>1. 0 \in Nat /\ tList \in Containers
    BY DEF Containers
  <2> QED BY <1>2, <2>1, ListsContainer
<1> QED BY <1>3 DEF AnswerPath

-----------------------------------------------------------------------------
(* An item that stands for content, and where a first one of l is its own *)

LEMMA DecodeOne ==
    ASSUME NEW e, NEW x, Lists(e, <<x>>)
    PROVE  Decode(e) = x
<1> DEFINE l == <<x>>
<1>1. Lists(e, l) /\ l # <<>> /\ l[1] = x
  OBVIOUS
<1> HIDE DEF l
<1> QED BY <1>1, ListsDecode

LEMMA LonelyChild ==
    ASSUME NEW x, NEW t
    PROVE  Child(ListItem(t, <<x>>), x.tag) = x
BY OffersOne, OffersChild

LEMMA OtherChild ==
    ASSUME NEW x, NEW t, NEW tag, x.tag # tag
    PROVE  Child(ListItem(t, <<x>>), tag) = NoItem
BY LacksOne, LacksChild

LEMMA NoChild == \A tag : Child(NoItem, tag) = NoItem
BY ChildOfOther, NoItemParts

(* What an InvokeResponse wraps *)
LEMMA InvokeResponseReads ==
    ASSUME NEW c, NEW l, Lists(c, l)
    PROVE  /\ InvokeResponse(c) \in Seq(Nat)
           /\ Child(Child(Decode(InvokeResponse(c)), 1), 0) = ListItem(0, l)
<1> DEFINE f == BoolItem(0, FALSE)
           s == ListItem(0, l)
           a == ListItem(1, <<s>>)
           list == (<<f>> \o <<a>>) \o <<RevisionItem>>
<1>1. Lists(EncBool(0, FALSE), <<f>>)
  BY ListsBool
<1>2. Lists(Container(1, tArray, AnonStruct(c)), <<a>>)
  <2>1. Lists(AnonStruct(c), <<s>>)
    BY ListsStruct
  <2>2. 1 \in Nat /\ tArray \in Containers
    BY DEF Containers
  <2> HIDE DEF s
  <2> QED BY <2>1, <2>2, ListsContainer
<1>3. f.tag = 0 /\ a.tag = 1 /\ s.tag = 0 /\ RevisionItem.tag = 255 /\ Lists(Revision, <<RevisionItem>>)
  <2>1. f.tag = 0
    BY ItemParts
  <2>2. s.tag = 0
    BY ItemParts
  <2>3. a.tag = 1
    <3> HIDE DEF s
    <3> QED BY ItemParts
  <2> QED BY <2>1, <2>2, <2>3, ListsRevision
<1>4. Child(a, 0) = s
  <2> HIDE DEF s
  <2>1. Child(ListItem(1, <<s>>), s.tag) = s
    BY LonelyChild
  <2> QED BY <1>3, <2>1
<1> HIDE DEF f, a
<1>5. Lists((EncBool(0, FALSE) \o Container(1, tArray, AnonStruct(c))) \o Revision, list)
  BY <1>1, <1>2, <1>3, ListsJoin
<1>6. Lists(InvokeResponse(c), <<ListItem(0, list)>>)
  <2> HIDE DEF list
  <2>1. Lists(AnonStruct((EncBool(0, FALSE) \o Container(1, tArray, AnonStruct(c))) \o Revision), <<ListItem(0, list)>>)
    BY <1>5, ListsStruct
  <2> QED BY <2>1 DEF InvokeResponse
<1>7. Offers(list, 1, a)
  <2>1. Lacks(<<f>>, 1) /\ Offers(<<a>>, 1, a)
    BY <1>3, LacksOne, OffersOne
  <2>2. Offers(<<f>> \o <<a>>, 1, a)
    BY <2>1, OffersBehind
  <2>3. IsSeq(<<RevisionItem>>)
    BY <1>3 DEF Lists
  <2> QED BY <2>2, <2>3, OffersFront
<1> HIDE DEF list
<1>8. Decode(InvokeResponse(c)) = ListItem(0, list)
  BY <1>6, DecodeOne
<1>9. Child(ListItem(0, list), 1) = a
  BY <1>7, OffersChild
<1>10. InvokeResponse(c) \in Seq(Nat)
  BY <1>6 DEF Lists
<1> QED BY <1>4, <1>8, <1>9, <1>10 DEF s

(* ... and where a status and a field of a command are in it *)
AnswerAt(b, k, t) == GetItemRec(Decode(b), <<1, 0, k, 1, t>>)

LEMMA AnswerReads ==
    ASSUME NEW k \in Nat, NEW s, NEW l, Lists(s, l),
           NEW b, b = InvokeResponse(Container(k, tStruct, AnswerPath \o Container(1, tStruct, s)))
    PROVE  /\ b \in Seq(Nat)
           /\ \A t : AnswerAt(b, k, t) = Child(ListItem(1, l), t)
           /\ \A j, t : j # k => AnswerAt(b, j, t) = NoItem
<1> DEFINE inner == AnswerPath \o Container(1, tStruct, s)
           c == Container(k, tStruct, inner)
           v == ListItem(1, l)
<1>b. b = InvokeResponse(c)
  OBVIOUS
<1>1. PICK p : Lists(AnswerPath, <<ListItem(0, p)>>)
  BY ListsAnswerPath
<1> DEFINE g == ListItem(0, p)
           list == <<g>> \o <<v>>
           x == ListItem(k, list)
<1>2. 1 \in Nat /\ tStruct \in Containers
  BY DEF Containers
<1>3. g.tag = 0 /\ v.tag = 1 /\ x.tag = k
  BY ItemParts
<1>4. Lists(Container(1, tStruct, s), <<v>>)
  BY <1>2, ListsContainer
<1> HIDE DEF g, v
<1>5. Lists(AnswerPath, <<g>>)
  BY <1>1 DEF g
<1>6. Lists(inner, list)
  BY <1>4, <1>5, ListsJoin
<1>7. Child(x, 1) = v
  <2>1. Lacks(<<g>>, 1) /\ Offers(<<v>>, 1, v)
    BY <1>3, LacksOne, OffersOne
  <2>2. Offers(<<g>> \o <<v>>, 1, v)
    BY <2>1, OffersBehind
  <2> QED BY <2>2, OffersChild
<1> HIDE DEF inner, list
<1>8. Lists(c, <<x>>)
  BY <1>2, <1>6, ListsContainer
<1> HIDE DEF x, c
<1>9. b \in Seq(Nat) /\ Child(Child(Decode(b), 1), 0) = ListItem(0, <<x>>)
  BY <1>8, <1>b, InvokeResponseReads
<1>10. ASSUME NEW t PROVE AnswerAt(b, k, t) = Child(v, t)
  <2>1. AnswerAt(b, k, t) = Child(Child(Child(Child(Child(Decode(b), 1), 0), k), 1), t)
    BY Walk5 DEF AnswerAt
  <2>2. Child(ListItem(0, <<x>>), k) = x
    <3>1. Child(ListItem(0, <<x>>), x.tag) = x
      BY LonelyChild
    <3> QED BY <1>3, <3>1
  <2> QED BY <2>1, <2>2, <1>7, <1>9
<1>11. ASSUME NEW j, NEW t, j # k PROVE AnswerAt(b, j, t) = NoItem
  <2>1. AnswerAt(b, j, t) = Child(Child(Child(Child(Child(Decode(b), 1), 0), j), 1), t)
    BY Walk5 DEF AnswerAt
  <2>2. Child(ListItem(0, <<x>>), j) = NoItem
    BY <1>3, <1>11, OtherChild
  <2> QED BY <2>1, <2>2, <1>9, NoChild
<1> QED BY <1>9, <1>10, <1>11 DEF v

LEMMA ShortFits == Short = Fitting(1) /\ Short \subseteq Nat /\ Seq(Short) \subseteq Seq(Nat)
<1>1. Power[1] = Base /\ Base \in Nat
  <2>1. Power[0] = 1 /\ Power[0 + 1] = Base * Power[0]
    BY PowerFacts
  <2> QED BY <2>1, TlvAssumption
<1>2. Short = Fitting(1)
  BY <1>1 DEF Short, Fitting
<1>3. Short \subseteq Nat
  BY <1>1 DEF Short
<1> QED BY <1>2, <1>3

LEMMA AnswerWalk ==
    \A b, k, t : AnswerAt(b, k, t) = Child(Child(Child(Child(Child(Decode(b), 1), 0), k), 1), t)
BY Walk5 DEF AnswerAt

(* What the lookups find in an answer *)
LEMMA StatusReads ==
    ASSUME NEW v \in Short, NEW c \in Short, NEW has \in BOOLEAN,
           NEW b, b = InvokeResponse(Container(1, tStruct, AnswerPath \o
               Container(1, tStruct, UInt8(0, v) \o (IF has THEN UInt8(1, c) ELSE <<>>))))
    PROVE  /\ b \in Seq(Nat)
           /\ AnswerAt(b, 1, 0) = IntItem(0, v)
           /\ AnswerAt(b, 1, 1) = IF has THEN IntItem(1, c) ELSE NoItem
           /\ AnswerAt(b, 0, 0) = NoItem
<1> DEFINE x == IntItem(0, v)
           y == IntItem(1, c)
           s == UInt8(0, v) \o (IF has THEN UInt8(1, c) ELSE <<>>)
           m == IF has THEN <<y>> ELSE <<>>
           l == <<x>> \o m
<1>1. Lists(UInt8(0, v), <<x>>) /\ Lists(UInt8(1, c), <<y>>)
  BY ShortFits, ListsUInt8
<1>2. x.tag = 0 /\ y.tag = 1
  BY ItemParts
<1> HIDE DEF x, y
<1>3. Lists(IF has THEN UInt8(1, c) ELSE <<>>, m)
  BY <1>1, ListsNothing
<1>4. Lacks(m, 0) /\ (~has => Lacks(m, 1)) /\ (has => Offers(m, 1, y))
  <2>1. CASE ~has
    <3>1. Len(m) = 0 /\ IsSeq(m)
      BY <2>1 DEF IsSeq
    <3> HIDE DEF m
    <3> QED BY <2>1, <3>1 DEF Lacks
  <2>2. CASE has
    <3>1. m = <<y>>
      BY <2>2
    <3>2. Lacks(<<y>>, 0) /\ Offers(<<y>>, 1, y)
      BY <1>2, LacksOne, OffersOne
    <3> HIDE DEF m
    <3> QED BY <2>2, <3>1, <3>2
  <2> QED BY <2>1, <2>2
<1> HIDE DEF m
<1>5. Lists(s, l)
  BY <1>1, <1>3, ListsJoin
<1>6. Offers(l, 0, x)
  <2>1. Offers(<<x>>, 0, x) /\ IsSeq(m)
    BY <1>2, <1>4, OffersOne DEF Lacks
  <2> QED BY <2>1, OffersFront
<1>7. (~has => Lacks(l, 1)) /\ (has => Offers(l, 1, y))
  <2>1. Lacks(<<x>>, 1)
    BY <1>2, LacksOne
  <2> QED BY <1>4, <2>1, LacksJoin, OffersBehind
<1>b. b = InvokeResponse(Container(1, tStruct, AnswerPath \o Container(1, tStruct, s)))
  OBVIOUS
<1> HIDE DEF s, l
<1>8. b \in Seq(Nat) /\ (\A t : AnswerAt(b, 1, t) = Child(ListItem(1, l), t)) /\ AnswerAt(b, 0, 0) = NoItem
  <2>1. 1 \in Nat /\ 0 # 1
    OBVIOUS
  <2> QED BY <1>5, <1>b, <2>1, AnswerReads
<1>9. Child(ListItem(1, l), 0) = x
  BY <1>6, OffersChild
<1>10. Child(ListItem(1, l), 1) = IF has THEN y ELSE NoItem
  BY <1>7, LacksChild, OffersChild
<1> QED BY <1>8, <1>9, <1>10 DEF x, y

LEMMA FieldReads ==
    ASSUME NEW s, NEW x, Lists(s, <<x>>), x.tag = 0,
           NEW b, b = InvokeResponse(Container(0, tStruct, AnswerPath \o Container(1, tStruct, s)))
    PROVE  /\ b \in Seq(Nat)
           /\ AnswerAt(b, 0, 0) = x
           /\ AnswerAt(b, 1, 0) = NoItem /\ AnswerAt(b, 1, 1) = NoItem
<1> DEFINE l == <<x>>
<1>1. Child(ListItem(1, l), 0) = x
  <2>1. Child(ListItem(1, <<x>>), x.tag) = x
    BY LonelyChild
  <2> QED BY <2>1
<1>2. Lists(s, l)
  OBVIOUS
<1> HIDE DEF l
<1>3. 0 \in Nat /\ 1 # 0
  OBVIOUS
<1>4. b \in Seq(Nat) /\ (\A t : AnswerAt(b, 0, t) = Child(ListItem(1, l), t))
  BY <1>2, <1>3, AnswerReads
<1>5. \A t : AnswerAt(b, 1, t) = NoItem
  BY <1>2, <1>3, AnswerReads
<1> QED BY <1>1, <1>4, <1>5

LEMMA ReportReads ==
    ASSUME NEW v \in Short,
           NEW b, b = AnonStruct(Container(1, tArray, AnonStruct(Container(1, tStruct,
               UInt32(0, 7) \o Container(1, tList, UInt16(2, 0))
               \o Container(2, tArray, <<4, v>>))))
               \o EncBool(4, TRUE) \o Revision)
    PROVE  /\ b \in Seq(Nat)
           /\ AnswerAt(b, 0, 0) = NoItem
           /\ AnswerAt(b, 1, 0) = NoItem /\ AnswerAt(b, 1, 1) = NoItem
           /\ GetItemRec(Decode(b), <<1, 0, 1, 2>>).list[1].int = v
<1> DEFINE x == IntItem(0, v)
           y == IntItem(0, 7 % Power[Width(6)])
           z == IntItem(2, 0 % Power[Width(5)])
           p == ListItem(1, <<z>>)
           q == ListItem(2, <<x>>)
           l == (<<y>> \o <<p>>) \o <<q>>
           s == (UInt32(0, 7) \o Container(1, tList, UInt16(2, 0))) \o Container(2, tArray, <<4, v>>)
           r == ListItem(1, l)
           f == ListItem(1, <<ListItem(0, <<r>>)>>)
           g == BoolItem(4, TRUE)
           list == (<<f>> \o <<g>>) \o <<RevisionItem>>
           c == Container(1, tArray, AnonStruct(Container(1, tStruct, s)))
<1>c. tStruct \in Containers /\ tArray \in Containers /\ tList \in Containers /\ 0 \in Nat /\ 1 \in Nat /\ 2 \in Nat
  BY DEF Containers
<1>b. b = AnonStruct((c \o EncBool(4, TRUE)) \o Revision)
  OBVIOUS
<1>1. Lists(<<4, v>>, <<x>>)
  BY ShortFits, ListsAnonByte
<1>2. Lists(UInt32(0, 7), <<y>>) /\ Lists(UInt16(2, 0), <<z>>)
  <2>1. 5 \in TYPE_UINT /\ 6 \in TYPE_UINT
    BY DEF TYPE_UINT
  <2>2. Lists(EncUInt(0, 6, 7), <<y>>)
    BY <2>1, ListsUInt
  <2>3. Lists(EncUInt(2, 5, 0), <<z>>)
    BY <2>1, ListsUInt
  <2> QED BY <2>2, <2>3 DEF UInt16, UInt32
<1>t. x.tag = 0 /\ y.tag = 0 /\ z.tag = 2 /\ x.int = v
  BY ItemParts
<1> HIDE DEF x, y, z
<1>3. Lists(Container(1, tList, UInt16(2, 0)), <<p>>) /\ Lists(Container(2, tArray, <<4, v>>), <<q>>)
  <2>1. Lists(Container(1, tList, UInt16(2, 0)), <<p>>)
    BY <1>2, <1>c, ListsContainer
  <2> DEFINE e == <<4, v>>
  <2>2. Lists(e, <<x>>)
    BY <1>1
  <2> HIDE DEF e
  <2>3. Lists(Container(2, tArray, e), <<q>>)
    BY <1>c, <2>2, ListsContainer
  <2> QED BY <2>1, <2>3 DEF e
<1>4. p.tag = 1 /\ q.tag = 2 /\ q.list[1] = x /\ Child(p, 0) = NoItem /\ Child(p, 1) = NoItem
  <2>1. p.tag = 1 /\ q.tag = 2 /\ q.list = <<x>>
    BY ItemParts
  <2>2. Child(p, 0) = NoItem /\ Child(p, 1) = NoItem
    BY <1>t, OtherChild
  <2> QED BY <2>1, <2>2
<1> HIDE DEF p, q
<1> DEFINE u == Container(1, tList, UInt16(2, 0))
           w == Container(2, tArray, <<4, v>>)
<1>5. Lists(s, l)
  <2>1. Lists(u, <<p>>) /\ Lists(w, <<q>>) /\ s = (UInt32(0, 7) \o u) \o w
    BY <1>3
  <2> HIDE DEF u, w, s
  <2>2. Lists(UInt32(0, 7) \o u, <<y>> \o <<p>>)
    BY <1>2, <2>1, ListsJoin
  <2> QED BY <2>1, <2>2, ListsJoin
<1>6. Offers(l, 1, p) /\ Offers(l, 2, q)
  <2>1. Lacks(<<y>>, 1) /\ Offers(<<p>>, 1, p)
    BY <1>t, <1>4, LacksOne, OffersOne
  <2>2. Offers(<<y>> \o <<p>>, 1, p) /\ IsSeq(<<q>>)
    <3>1. Offers(<<y>> \o <<p>>, 1, p)
      BY <2>1, OffersBehind
    <3>2. Offers(<<q>>, 2, q)
      BY <1>4, OffersOne
    <3> QED BY <3>1, <3>2 DEF Offers
  <2>3. Offers(l, 1, p)
    BY <2>2, OffersFront
  <2>4. Lacks(<<y>>, 2) /\ Lacks(<<p>>, 2) /\ Offers(<<q>>, 2, q)
    BY <1>t, <1>4, LacksOne, OffersOne
  <2>5. Lacks(<<y>> \o <<p>>, 2)
    BY <2>4, LacksJoin
  <2>6. Offers(l, 2, q)
    BY <2>4, <2>5, OffersBehind
  <2> QED BY <2>3, <2>6
<1> HIDE DEF s, l
<1>7. Lists(Container(1, tStruct, s), <<r>>)
  BY <1>5, <1>c, ListsContainer
<1>8. r.tag = 1 /\ Child(r, 1) = p /\ Child(r, 2) = q
  BY <1>6, OffersChild, ItemParts
<1> HIDE DEF r
<1> DEFINE i == ListItem(0, <<r>>)
<1>9. Lists(c, <<f>>)
  <2>1. Lists(AnonStruct(Container(1, tStruct, s)), <<i>>)
    BY <1>7, ListsStruct
  <2> HIDE DEF i
  <2>2. Lists(c, <<ListItem(1, <<i>>)>>)
    BY <1>c, <2>1, ListsContainer
  <2> QED BY <2>2 DEF i
<1>10. /\ f.tag = 1 /\ Child(f, 0) = i /\ Child(i, 0) = NoItem /\ Child(i, 1) = r
  <2>1. i.tag = 0
    BY ItemParts
  <2>2. Child(i, 0) = NoItem
    BY <1>8, OtherChild
  <2>3. Child(i, 1) = r
    <3>1. Child(ListItem(0, <<r>>), r.tag) = r
      BY LonelyChild
    <3> QED BY <1>8, <3>1
  <2>4. f = ListItem(1, <<i>>)
    OBVIOUS
  <2> HIDE DEF i, f
  <2>5. f.tag = 1 /\ Child(f, i.tag) = i
    BY <2>4, LonelyChild, ItemParts
  <2> QED BY <2>1, <2>2, <2>3, <2>5
<1> HIDE DEF f, i, c
<1>11. Lists(EncBool(4, TRUE), <<g>>) /\ g.tag = 4
  <2>1. 4 \in Nat /\ TRUE \in BOOLEAN
    OBVIOUS
  <2> QED BY <2>1, ListsBool, ItemParts
<1> HIDE DEF g
<1>12. Lists((c \o EncBool(4, TRUE)) \o Revision, list)
  BY <1>9, <1>11, ListsRevision, ListsJoin
<1>13. Offers(list, 1, f)
  <2>1. Offers(<<f>>, 1, f) /\ IsSeq(<<g>>) /\ IsSeq(<<RevisionItem>>)
    BY <1>10, <1>11, ListsRevision, OffersOne DEF Lists
  <2>2. Offers(<<f>> \o <<g>>, 1, f)
    BY <2>1, OffersFront
  <2> QED BY <2>1, <2>2, OffersFront
<1> HIDE DEF list
<1>14. Lists(b, <<ListItem(0, list)>>)
  BY <1>b, <1>12, ListsStruct
<1>15. Child(Child(Decode(b), 1), 0) = i
  <2>1. Decode(b) = ListItem(0, list)
    BY <1>14, DecodeOne
  <2>2. Child(ListItem(0, list), 1) = f
    BY <1>13, OffersChild
  <2> QED BY <2>1, <2>2, <1>10
<1>16. b \in Seq(Nat)
  BY <1>14 DEF Lists
<1>17. AnswerAt(b, 0, 0) = NoItem
  <2>1. AnswerAt(b, 0, 0) = Child(Child(Child(Child(Child(Decode(b), 1), 0), 0), 1), 0)
    BY AnswerWalk
  <2> QED BY <1>10, <1>15, <2>1, NoChild
<1>18. AnswerAt(b, 1, 0) = NoItem /\ AnswerAt(b, 1, 1) = NoItem
  <2>1. AnswerAt(b, 1, 0) = Child(Child(Child(Child(Child(Decode(b), 1), 0), 1), 1), 0)
    BY AnswerWalk
  <2>2. AnswerAt(b, 1, 1) = Child(Child(Child(Child(Child(Decode(b), 1), 0), 1), 1), 1)
    BY AnswerWalk
  <2> QED BY <1>4, <1>8, <1>10, <1>15, <2>1, <2>2
<1>19. GetItemRec(Decode(b), <<1, 0, 1, 2>>).list[1].int = v
  <2>1. GetItemRec(Decode(b), <<1, 0, 1, 2>>) = Child(Child(Child(Child(Decode(b), 1), 0), 1), 2)
    <3> DEFINE item == Decode(b)
               P(h, j, k, t) == GetItemRec(item, <<h, j, k, t>>) = Child(Child(Child(Child(item, h), j), k), t)
    <3>1. ASSUME NEW h, NEW j, NEW k, NEW t PROVE P(h, j, k, t)
      <4> HIDE DEF item
      <4>1. GetItemRec(item, <<h, j, k, t>>) = Child(Child(Child(Child(item, h), j), k), t)
        BY Walk4
      <4> QED BY <4>1
    <3> HIDE DEF P
    <3>2. P(1, 0, 1, 2)
      BY <3>1
    <3> QED BY <3>2 DEF P
  <2> DEFINE n == GetItemRec(Decode(b), <<1, 0, 1, 2>>)
  <2>2. n = q
    BY <1>8, <1>10, <1>15, <2>1
  <2> QED BY <1>t, <1>4, <2>2
<1> QED BY <1>16, <1>17, <1>18, <1>19

-----------------------------------------------------------------------------
(* Answers *)

LEMMA AnswerParts ==
    ASSUME NEW a \in Answers
    PROVE  /\ a.kind \in {"status", "command", "csr", "report"}
           /\ a.value \in Short /\ a.clustered \in BOOLEAN /\ a.cluster \in Short
           /\ a.octets \in Seq(Nat) /\ Len(a.octets) < Power[2]
           /\ GoodHeader(a.header) /\ GoodProtocol(a.protocol) /\ a.ack \in Fitting(4)
BY MessageAssumption, ShortFits DEF GoodHeader, GoodProtocol

(* What the lookups find in the payload of an answer *)
AnswerFound(a, b) ==
    /\ b \in Seq(Nat)
    /\ AnswerAt(b, 1, 0) = IF a.kind = "status" THEN IntItem(0, a.value) ELSE NoItem
    /\ AnswerAt(b, 1, 1) = IF a.kind = "status" /\ a.clustered THEN IntItem(1, a.cluster) ELSE NoItem
    /\ a.kind = "command" => AnswerAt(b, 0, 0) = IntItem(0, a.value)
    /\ a.kind = "csr" => AnswerAt(b, 0, 0) = OctetsItem(0, a.octets)
    /\ a.kind \notin {"command", "csr"} => AnswerAt(b, 0, 0) = NoItem
    /\ a.kind = "report" => GetItemRec(Decode(b), <<1, 0, 1, 2>>).list[1].int = a.value

LEMMA PayloadFound ==
    ASSUME NEW a \in Answers
    PROVE  AnswerFound(a, AnswerPayload(a))
<1> DEFINE b == AnswerPayload(a)
<1>1. CASE a.kind = "status"
  <2>1. b = InvokeResponse(Container(1, tStruct, AnswerPath \o
               Container(1, tStruct, UInt8(0, a.value) \o (IF a.clustered THEN UInt8(1, a.cluster) ELSE <<>>))))
    BY <1>1 DEF AnswerPayload
  <2> HIDE DEF b
  <2>2. /\ b \in Seq(Nat) /\ AnswerAt(b, 1, 0) = IntItem(0, a.value) /\ AnswerAt(b, 0, 0) = NoItem
        /\ AnswerAt(b, 1, 1) = IF a.clustered THEN IntItem(1, a.cluster) ELSE NoItem
    BY <2>1, AnswerParts, StatusReads
  <2>3. AnswerFound(a, b)
    BY <1>1, <2>2 DEF AnswerFound
  <2> QED BY <2>3 DEF b
<1>2. CASE a.kind = "command"
  <2> DEFINE x == IntItem(0, a.value)
             s == UInt8(0, a.value)
  <2>1. b = InvokeResponse(Container(0, tStruct, AnswerPath \o Container(1, tStruct, s)))
    BY <1>2 DEF AnswerPayload
  <2>2. Lists(s, <<x>>) /\ x.tag = 0
    BY AnswerParts, ShortFits, ListsUInt8, ItemParts
  <2> HIDE DEF b, x, s
  <2>3. /\ b \in Seq(Nat) /\ AnswerAt(b, 0, 0) = x
        /\ AnswerAt(b, 1, 0) = NoItem /\ AnswerAt(b, 1, 1) = NoItem
    BY <2>1, <2>2, FieldReads
  <2>4. AnswerFound(a, b)
    BY <1>2, <2>3 DEF AnswerFound, x
  <2> QED BY <2>4 DEF b
<1>3. CASE a.kind = "csr"
  <2> DEFINE x == OctetsItem(0, a.octets)
             s == EncOctetString(0, a.octets)
  <2>1. b = InvokeResponse(Container(0, tStruct, AnswerPath \o Container(1, tStruct, s)))
    BY <1>3 DEF AnswerPayload
  <2>2. Lists(s, <<x>>) /\ x.tag = 0
    BY AnswerParts, ListsOctets, ItemParts
  <2> HIDE DEF b, x, s
  <2>3. /\ b \in Seq(Nat) /\ AnswerAt(b, 0, 0) = x
        /\ AnswerAt(b, 1, 0) = NoItem /\ AnswerAt(b, 1, 1) = NoItem
    BY <2>1, <2>2, FieldReads
  <2>4. AnswerFound(a, b)
    BY <1>3, <2>3 DEF AnswerFound, x
  <2> QED BY <2>4 DEF b
<1>4. CASE a.kind = "report"
  <2>1. b = AnonStruct(Container(1, tArray, AnonStruct(Container(1, tStruct,
               UInt32(0, 7) \o Container(1, tList, UInt16(2, 0))
               \o Container(2, tArray, <<4, a.value>>))))
               \o EncBool(4, TRUE) \o Revision)
    BY <1>4 DEF AnswerPayload
  <2>v. a.value \in Short
    BY AnswerParts
  <2> HIDE DEF b
  <2>2. /\ b \in Seq(Nat) /\ AnswerAt(b, 0, 0) = NoItem
        /\ AnswerAt(b, 1, 0) = NoItem /\ AnswerAt(b, 1, 1) = NoItem
        /\ GetItemRec(Decode(b), <<1, 0, 1, 2>>).list[1].int = a.value
    BY <2>1, <2>v, ReportReads
  <2>3. AnswerFound(a, b)
    BY <1>4, <2>2 DEF AnswerFound
  <2> QED BY <2>3 DEF b
<1> QED BY <1>1, <1>2, <1>3, <1>4, AnswerParts

(* What Receive takes from the datagram *)
LEMMA AnswerTaken ==
    ASSUME NEW a \in Answers, NEW m, m = Parse(AnswerDatagram(a))
    PROVE  /\ m.aad = EncodeHeader(a.header) /\ m.payload = AnswerPayload(a)
           /\ m.header.counter = a.header.counter
           /\ m.protocol.flags = a.protocol.flags /\ m.protocol.exchange = a.protocol.exchange
           /\ m.protocol.ack = IF Bit(a.protocol.flags, 1) THEN a.ack ELSE 0
<1> DEFINE h == EncodeHeader(a.header)
           p == EncodeProtocol(a.protocol)
           n == LittleEndian(4, a.ack)
           y == AnswerPayload(a)
           acks == Bit(a.protocol.flags, 1)
           x == IF acks THEN n ELSE <<>>
           z == x \o y
<1>1. GoodHeader(a.header) /\ GoodProtocol(a.protocol) /\ a.ack \in Fitting(4)
  BY AnswerParts
<1>2. h \in Seq(Nat)
  BY <1>1, HeaderParts
<1>3. p \in Seq(Nat)
  BY <1>1, ProtocolParts DEF Word
<1>4. n \in Seq(Nat)
  <2>1. 4 \in Nat
    OBVIOUS
  <2> QED BY <1>1, <2>1, NumberWord DEF Word
<1>5. y \in Seq(Nat)
  BY PayloadFound DEF AnswerFound
<1>6. AnswerDatagram(a) = ((h \o p) \o x) \o y
  BY DEF AnswerDatagram
<1> HIDE DEF h, p, n, y, acks
<1>7. x \in Seq(Nat)
  BY <1>4
<1>8. (acks => z = n \o y) /\ (~acks => z = y)
  <2>1. <<>> \o y = y
    BY <1>5
  <2>2. ~acks => x = <<>>
    OBVIOUS
  <2>3. acks => x = n
    OBVIOUS
  <2> HIDE DEF x
  <2> QED BY <2>1, <2>2, <2>3
<1> HIDE DEF x
<1>9. z \in Seq(Nat)
  BY <1>5, <1>7, ConcatLength
<1>10. AnswerDatagram(a) = h \o (p \o z)
  <2>1. (h \o p) \in Seq(Nat)
    BY <1>2, <1>3, ConcatLength
  <2>2. ((h \o p) \o x) \o y = (h \o p) \o (x \o y)
    BY <1>5, <1>7, <2>1, Associative
  <2> HIDE DEF z
  <2>3. (h \o p) \o z = h \o (p \o z)
    BY <1>2, <1>3, <1>9, Associative
  <2> QED BY <1>6, <2>2, <2>3 DEF z
<1> HIDE DEF z
<1>11. ParsesAs(m, a.header, a.protocol, z)
  <2>1. AnswerDatagram(a) = EncodeHeader(a.header) \o (EncodeProtocol(a.protocol) \o z)
    BY <1>10 DEF h, p
  <2>2. ParsesAs(Parse(EncodeHeader(a.header) \o (EncodeProtocol(a.protocol) \o z)), a.header, a.protocol, z)
    BY <1>1, <1>9, ParseReads
  <2> QED BY <2>1, <2>2
<1>12. ReadsAs(m.protocol, m.payload, a.protocol, z) /\ m.aad = h /\ m.header.counter = a.header.counter
  BY <1>11 DEF ParsesAs, h
<1>13. m.protocol.flags = a.protocol.flags /\ m.protocol.exchange = a.protocol.exchange
  BY <1>12 DEF ReadsAs
<1>14. CASE acks
  <2>1. z = LittleEndian(4, a.ack) \o y
    BY <1>8, <1>14 DEF n
  <2>2. m.protocol.ack = a.ack /\ m.payload = y
    BY <1>1, <1>5, <1>12, <1>14, <2>1 DEF ReadsAs, acks
  <2> QED BY <1>12, <1>13, <1>14, <2>2 DEF h, y, acks
<1>15. CASE ~acks
  <2>1. m.protocol.ack = 0 /\ m.payload = y
    BY <1>8, <1>12, <1>15 DEF ReadsAs, acks
  <2> QED BY <1>12, <1>13, <1>15, <2>1 DEF h, y, acks
<1> QED BY <1>14, <1>15

(* Bits of the flags written *)
LEMMA FlagBits ==
    /\ Bit(2, 1) /\ ~Bit(2, 0) /\ Bit(3, 1) /\ Bit(3, 0)
    /\ Bit(5, 0) /\ ~Bit(5, 1) /\ ~Bit(4, 0) /\ ~Bit(4, 1)
<1>1. Powers(2)[0] = 1 /\ Powers(2)[1] = 2
  BY PowersOfTwo
<1> QED BY <1>1 DEF Bit

(* The header of what the controller sends *)
SentHeader(session, counter) ==
    [session |-> session, counter |-> counter,
     source |-> <<1, 2, 3, 4, 5, 6, 7, 8>>, destination |-> <<>>]

LEMMA SentHeaderGood ==
    ASSUME NEW session \in Fitting(2), NEW counter \in Fitting(4)
    PROVE  GoodHeader(SentHeader(session, counter))
<1>1. <<1, 2, 3, 4, 5, 6, 7, 8>> \in NodeIds({0, 8})
  BY DEF NodeIds
<1>2. <<>> \in NodeIds({0, 2, 8})
  BY DEF NodeIds
<1> QED BY <1>1, <1>2 DEF GoodHeader, SentHeader

LEMMA ZeroFits == \A n \in Nat : 0 \in Fitting(n)
<1> SUFFICES ASSUME NEW n \in Nat PROVE 0 \in Fitting(n)
  OBVIOUS
<1>1. Power[n] \in Nat \ {0}
  BY PowerFacts
<1> QED BY <1>1 DEF Fitting

LEMMA AckReads ==
    ASSUME NEW p, p.exchange \in Fitting(2), NEW c \in Fitting(4),
           NEW m, m = Parse(Send(0, 0, ackGen(p, c)))
    PROVE  /\ m.protocol.ack = c /\ m.protocol.exchange = p.exchange
           /\ Initiator(m.protocol.flags) # Initiator(p.flags)
<1> DEFINE q == [flags |-> IF Initiator(p.flags) THEN 2 ELSE 3, opcode |-> 16,
                 exchange |-> p.exchange, protocol |-> 0]
           n == LittleEndian(4, c)
           h == SentHeader(0, 0)
<1>1. GoodHeader(h)
  BY ZeroFits, SentHeaderGood
<1>2. GoodProtocol(q) /\ q.exchange = p.exchange /\ Bit(q.flags, 1) /\ Bit(q.flags, 0) # Initiator(p.flags)
  <2>1. 0 \in Fitting(2)
    BY ZeroFits
  <2>2. GoodProtocol(q)
    BY <2>1 DEF GoodProtocol
  <2>3. CASE Initiator(p.flags)
    BY <2>2, <2>3, FlagBits
  <2>4. CASE ~Initiator(p.flags)
    BY <2>2, <2>4, FlagBits
  <2> QED BY <2>3, <2>4
<1>3. n \in Seq(Nat)
  <2>1. 4 \in Nat
    OBVIOUS
  <2> QED BY <2>1, NumberWord DEF Word
<1>4. Send(0, 0, ackGen(p, c)) = EncodeHeader(h) \o (EncodeProtocol(q) \o n)
  BY DEF Send, ackGen, SentHeader
<1> HIDE DEF q, h
<1>5. ParsesAs(m, h, q, n)
  <2> HIDE DEF n
  <2>1. ParsesAs(Parse(EncodeHeader(h) \o (EncodeProtocol(q) \o n)), h, q, n)
    BY <1>1, <1>2, <1>3, ParseReads
  <2> QED BY <1>4, <2>1
<1>6. ReadsAs(m.protocol, m.payload, q, n)
  BY <1>5 DEF ParsesAs
<1>7. n = LittleEndian(4, c) \o <<>> /\ <<>> \in Seq(Nat)
  <2> DEFINE k == LittleEndian(4, c)
  <2>1. k \in Seq(Nat)
    BY <1>3
  <2> HIDE DEF k
  <2>2. k = k \o <<>>
    BY <2>1
  <2> QED BY <2>2 DEF k
<1> HIDE DEF n
<1>8. m.protocol.ack = c /\ m.protocol.flags = q.flags /\ m.protocol.exchange = q.exchange
  BY <1>2, <1>6, <1>7 DEF ReadsAs
<1> QED BY <1>2, <1>8 DEF Initiator

LEMMA FoundItems ==
    /\ \A t, x : Found(IntItem(t, x)) = TRUE /\ Found(OctetsItem(t, x)) = TRUE
    /\ Found(NoItem) = FALSE
<1>1. \A item : Found(item) \in BOOLEAN
  BY DEF Found
<1>2. ASSUME NEW t, NEW x PROVE IntItem(t, x).type # "none" /\ OctetsItem(t, x).type # "none"
  BY ItemParts
<1> QED BY <1>1, <1>2, FoundItem, NothingFound

MessageInv == answer \subseteq Answers /\ request \subseteq Requests

LEMMA AnswerReadsBack == MessageInv => AnswersReadBack
<1> SUFFICES ASSUME MessageInv, NEW a \in answer
             PROVE  LET m == Parse(AnswerDatagram(a))
                        item == Decode(m.payload)
                        status == GetItemRec(item, <<1, 0, 1, 1, 0>>)
                        field == GetItemRec(item, <<1, 0, 0, 1, 0>>)
                        ack == Parse(Send(0, 0, ackGen(m.protocol, m.header.counter)))
                    IN /\ m.aad = EncodeHeader(a.header) /\ m.payload = AnswerPayload(a)
                       /\ m.header.counter = a.header.counter
                       /\ m.protocol.ack = IF Bit(a.protocol.flags, 1) THEN a.ack ELSE 0
                       /\ Found(status) = (a.kind = "status") /\ status.int = IF a.kind = "status" THEN a.value ELSE 0
                       /\ Found(field) = (a.kind \in {"command", "csr"})
                       /\ field.int = IF a.kind = "command" THEN a.value ELSE 0
                       /\ field.oct = IF a.kind = "csr" THEN a.octets ELSE <<>>
                       /\ ParseImInvokeResponse(item) =
                            CASE a.kind = "status" /\ a.value = 0 -> 0
                              [] a.kind = "status" /\ a.value # 0 /\ a.clustered -> a.cluster
                              [] OTHER -> -1
                       /\ a.kind = "report" => GetItemRec(item, <<1, 0, 1, 2>>).list[1].int = a.value
                       /\ ack.protocol.ack = a.header.counter /\ ack.protocol.exchange = a.protocol.exchange
                       /\ Initiator(ack.protocol.flags) # Initiator(a.protocol.flags)
  BY DEF AnswersReadBack
<1> DEFINE m == Parse(AnswerDatagram(a))
           b == AnswerPayload(a)
           status == AnswerAt(b, 1, 0)
           cluster == AnswerAt(b, 1, 1)
           field == AnswerAt(b, 0, 0)
           ack == Parse(Send(0, 0, ackGen(m.protocol, m.header.counter)))
<1>1. a \in Answers
  BY DEF MessageInv
<1>2. /\ m.aad = EncodeHeader(a.header) /\ m.payload = b /\ m.header.counter = a.header.counter
      /\ m.protocol.flags = a.protocol.flags /\ m.protocol.exchange = a.protocol.exchange
      /\ m.protocol.ack = IF Bit(a.protocol.flags, 1) THEN a.ack ELSE 0
  BY <1>1, AnswerTaken
<1>3. /\ ack.protocol.ack = a.header.counter /\ ack.protocol.exchange = a.protocol.exchange
      /\ Initiator(ack.protocol.flags) # Initiator(a.protocol.flags)
  <2> DEFINE p == m.protocol
             c == m.header.counter
  <2>1. p.exchange \in Fitting(2) /\ c \in Fitting(4)
    BY <1>1, <1>2, AnswerParts DEF GoodProtocol, GoodHeader
  <2>2. ack = Parse(Send(0, 0, ackGen(p, c)))
    OBVIOUS
  <2>3. p.flags = a.protocol.flags /\ p.exchange = a.protocol.exchange /\ c = a.header.counter
    BY <1>2
  <2> HIDE DEF p, c, ack
  <2>4. ack.protocol.ack = c /\ ack.protocol.exchange = p.exchange /\ Initiator(ack.protocol.flags) # Initiator(p.flags)
    BY <2>1, <2>2, AckReads
  <2> QED BY <2>3, <2>4
<1>4. AnswerFound(a, b) /\ a.kind \in {"status", "command", "csr", "report"} /\ a.value \in Nat /\ a.clustered \in BOOLEAN /\ a.cluster \in Nat
  BY <1>1, PayloadFound, AnswerParts, ShortFits
<1>f. /\ status = IF a.kind = "status" THEN IntItem(0, a.value) ELSE NoItem
      /\ a.kind = "command" => field = IntItem(0, a.value)
      /\ a.kind = "csr" => field = OctetsItem(0, a.octets)
      /\ a.kind \notin {"command", "csr"} => field = NoItem
  BY <1>4 DEF AnswerFound
<1>5. Found(status) = (a.kind = "status") /\ status.int = IF a.kind = "status" THEN a.value ELSE 0
  <2> HIDE DEF status
  <2>1. CASE a.kind = "status"
    <3>1. status = IntItem(0, a.value)
      BY <1>f, <2>1
    <3>2. Found(status) = TRUE /\ status.int = a.value
      BY <3>1, FoundItems, ItemParts
    <3> QED BY <2>1, <3>2
  <2>2. CASE a.kind # "status"
    BY <1>f, <2>2, FoundItems, NoItemParts
  <2> QED BY <2>1, <2>2
<1>6. /\ Found(field) = (a.kind \in {"command", "csr"})
      /\ field.int = IF a.kind = "command" THEN a.value ELSE 0
      /\ field.oct = IF a.kind = "csr" THEN a.octets ELSE <<>>
  <2> HIDE DEF field
  <2>1. CASE a.kind = "command"
    <3>1. field = IntItem(0, a.value)
      BY <1>f, <2>1
    <3>2. Found(field) = TRUE /\ field.int = a.value /\ field.oct = <<>>
      BY <3>1, FoundItems, ItemParts
    <3> QED BY <2>1, <3>2
  <2>2. CASE a.kind = "csr"
    <3>1. field = OctetsItem(0, a.octets)
      BY <1>f, <2>2
    <3>2. Found(field) = TRUE /\ field.int = 0 /\ field.oct = a.octets
      BY <3>1, FoundItems, ItemParts
    <3> QED BY <2>2, <3>2
  <2>3. CASE a.kind \notin {"command", "csr"}
    <3>1. field = NoItem
      BY <1>f, <2>3
    <3>2. Found(field) = FALSE /\ field.int = 0 /\ field.oct = <<>>
      BY <3>1, FoundItems, NoItemParts
    <3>3. a.kind # "command" /\ a.kind # "csr"
      BY <2>3
    <3>4. (a.kind \in {"command", "csr"}) = FALSE
      BY <3>3
    <3> QED BY <3>2, <3>3, <3>4
  <2> QED BY <2>1, <2>2, <2>3
<1>7. a.kind = "status" => IF a.clustered THEN Found(cluster) /\ cluster.int = a.cluster ELSE ~Found(cluster)
  BY <1>4, FoundItem, NothingFound, ItemParts DEF AnswerFound
<1>8. a.kind = "report" => GetItemRec(Decode(b), <<1, 0, 1, 2>>).list[1].int = a.value
  BY <1>4 DEF AnswerFound
<1>9. /\ status = GetItemRec(Decode(b), <<1, 0, 1, 1, 0>>) /\ field = GetItemRec(Decode(b), <<1, 0, 0, 1, 0>>)
      /\ cluster = GetItemRec(Decode(b), <<1, 0, 1, 1, 1>>)
  BY DEF AnswerAt
<1>10. ParseImInvokeResponse(Decode(b)) =
         CASE ~Found(status) -> -1
           [] Found(status) /\ status.int = 0 -> 0
           [] Found(status) /\ status.int # 0 /\ Found(cluster) -> cluster.int
           [] OTHER -> -1
  BY <1>9 DEF ParseImInvokeResponse
<1> HIDE DEF status, cluster, field, m, b, ack
<1>11. ParseImInvokeResponse(Decode(b)) =
         CASE a.kind = "status" /\ a.value = 0 -> 0
           [] a.kind = "status" /\ a.value # 0 /\ a.clustered -> a.cluster
           [] OTHER -> -1
  <2>1. CASE a.kind # "status"
    BY <1>5, <1>10, <2>1
  <2>2. CASE a.kind = "status" /\ a.value = 0
    BY <1>5, <1>10, <2>2
  <2>3. CASE a.kind = "status" /\ a.value # 0 /\ ~a.clustered
    BY <1>5, <1>7, <1>10, <2>3
  <2>4. CASE a.kind = "status" /\ a.value # 0 /\ a.clustered
    BY <1>5, <1>7, <1>10, <2>4
  <2> QED BY <2>1, <2>2, <2>3, <2>4
<1> QED BY <1>2, <1>3, <1>5, <1>6, <1>8, <1>9, <1>11 DEF m, b, ack

(* For every base and set of answers, whatever the node ids, the ack, the  *)
(* codes and the octets: Receive takes a device's datagram apart at the    *)
(* right places; no lookup takes a field for a status or a status for a    *)
(* field; and ParseImInvokeResponse returns 0 for a success and for a      *)
(* failure with cluster status 0, for no other answer.                     *)
THEOREM AnswersTheorem == MessageSpec => []AnswersReadBack
<1>1. MessageInit => MessageInv
  BY DEF MessageInit, MessageInv
<1>2. MessageInv /\ [MessageNext]_messageVars => MessageInv'
  BY DEF MessageInv, MessageNext, SendRequest, TakeAnswer, messageVars
<1> QED BY <1>1, <1>2, AnswerReadsBack, PTL DEF MessageSpec

-----------------------------------------------------------------------------
(* The fields of a command, joined *)

(* A sequence by its items *)
LEMMA SequenceOf ==
    ASSUME NEW n \in Nat, NEW l
    PROVE  LET s == [i \in 1 .. n |-> l[i]] IN
           /\ IsSeq(s) /\ Len(s) = n /\ \A i \in 1 .. n : s[i] = l[i]
<1> DEFINE s == [i \in 1 .. n |-> l[i]]
           S == {l[i] : i \in 1 .. n}
<1>1. s \in Seq(S) /\ Len(s) = n /\ \A i \in 1 .. n : s[i] = l[i]
  OBVIOUS
<1> HIDE DEF s
<1>2. IsSeq(s)
  BY <1>1, SeqIsSeq
<1> QED BY <1>1, <1>2 DEF s

LEMMA SequenceGrows ==
    ASSUME NEW n \in Nat, NEW l
    PROVE  [i \in 1 .. n |-> l[i]] \o <<l[n + 1]>> = [i \in 1 .. n + 1 |-> l[i]]
<1> DEFINE s == [i \in 1 .. n |-> l[i]]
           x == <<l[n + 1]>>
           t == [i \in 1 .. n + 1 |-> l[i]]
           S == {l[i] : i \in 1 .. n + 1}
<1>1. s \in Seq(S) /\ Len(s) = n /\ \A i \in 1 .. n : s[i] = l[i]
  OBVIOUS
<1>2. x \in Seq(S) /\ Len(x) = 1 /\ x[1] = l[n + 1]
  OBVIOUS
<1> HIDE DEF s, x
<1>3. /\ \A i \in 1 .. Len(s) : (s \o x)[i] = s[i]
      /\ \A i \in Len(s) + 1 .. Len(s) + Len(x) : (s \o x)[i] = x[i - Len(s)]
      /\ s \o x = [i \in 1 .. Len(s) + Len(x) |-> (s \o x)[i]]
  <2> HIDE DEF S
  <2> QED BY <1>1, <1>2, ConcatElement
<1> DEFINE w == s \o x
<1> HIDE DEF w
<1>4. /\ \A i \in 1 .. n : w[i] = l[i]
      /\ \A i \in n + 1 .. n + 1 : w[i] = x[i - n]
      /\ w = [i \in 1 .. n + 1 |-> w[i]]
  BY <1>1, <1>2, <1>3 DEF w
<1>5. w[n + 1] = l[n + 1]
  <2>1. n + 1 \in n + 1 .. n + 1 /\ n + 1 - n = 1
    OBVIOUS
  <2> QED BY <1>2, <1>4, <2>1
<1>6. \A i \in 1 .. n + 1 : w[i] = l[i]
  <2> SUFFICES ASSUME NEW i \in 1 .. n + 1 PROVE w[i] = l[i]
    OBVIOUS
  <2>1. i \in 1 .. n \/ i = n + 1
    OBVIOUS
  <2> QED BY <1>4, <1>5, <2>1
<1>7. w = t
  BY <1>4, <1>6
<1> QED BY <1>7 DEF w, s, x

(* Joined puts the parts one behind the other *)
LEMMA JoinedTable ==
    ASSUME NEW n \in Nat, NEW s, Len(s) = n
    PROVE  \E g : g[0] = <<>> /\ (\A i \in 1 .. n : g[i] = g[i - 1] \o s[i]) /\ Joined(s) = g[n]
<1> DEFINE Table(g) == g = [i \in 0 .. n |-> g[i]]
           Good(g, k) == g[0] = <<>> /\ \A i \in 1 .. n : i <= k => g[i] = g[i - 1] \o s[i]
           S == {k \in Nat : \E g : Table(g) /\ Good(g, k)}
           Eq(g) == g = [i \in 0 .. Len(s) |-> IF i = 0 THEN <<>> ELSE g[i - 1] \o s[i]]
<1>1. 0 \in S
  <2> DEFINE g == [i \in 0 .. n |-> <<>>]
  <2>1. Table(g) /\ Good(g, 0)
    OBVIOUS
  <2> HIDE DEF g, Table, Good
  <2> QED BY <2>1
<1>2. ASSUME NEW k \in S PROVE k + 1 \in S
  <2>1. PICK g : Table(g) /\ Good(g, k)
    OBVIOUS
  <2>k. k \in Nat
    OBVIOUS
  <2> DEFINE x == k + 1
             v == g[k] \o s[x]
             h == [g EXCEPT ![x] = v]
  <2>2. Table(h)
    BY <2>1
  <2>3. \A i \in 0 .. n : h[i] = IF i = x THEN v ELSE g[i]
    BY <2>1
  <2> HIDE DEF h, v
  <2>4. Good(h, x)
    <3>1. h[0] = <<>>
      BY <2>1, <2>3, <2>k
    <3>2. ASSUME NEW i \in 1 .. n, i <= x PROVE h[i] = h[i - 1] \o s[i]
      <4>1. i - 1 \in 0 .. n /\ i - 1 # x /\ i \in 0 .. n
        BY <3>2, <2>k
      <4>2. h[i - 1] = g[i - 1]
        BY <4>1, <2>3
      <4>3. CASE i = x
        <5>1. i - 1 = k /\ h[i] = v
          BY <4>1, <4>3, <2>3, <2>k
        <5> QED BY <4>2, <4>3, <5>1 DEF v
      <4>4. CASE i # x
        <5>1. i <= k /\ h[i] = g[i]
          BY <3>2, <4>1, <4>4, <2>3, <2>k
        <5>2. g[i] = g[i - 1] \o s[i]
          BY <2>1, <5>1
        <5> QED BY <4>2, <5>1, <5>2
      <4> QED BY <4>3, <4>4
    <3> QED BY <3>1, <3>2
  <2> HIDE DEF Table, Good
  <2> QED BY <2>2, <2>4, <2>k
<1>3. S = Nat
  <2> HIDE DEF S
  <2>1. S \subseteq Nat
    BY DEF S
  <2> QED BY <1>1, <1>2, <2>1, Induction
<1>4. \E g : Eq(g)
  <2>1. PICK g : Table(g) /\ Good(g, n)
    BY <1>3
  <2>2. \A i \in 0 .. n : g[i] = IF i = 0 THEN <<>> ELSE g[i - 1] \o s[i]
    BY <2>1
  <2> QED BY <2>1, <2>2
<1> DEFINE u == CHOOSE g : Eq(g)
<1>5. Eq(u)
  BY <1>4
<1>6. Joined(s) = u[n]
  BY DEF Joined
<1> HIDE DEF u
<1>7. u[0] = <<>> /\ \A i \in 1 .. n : u[i] = u[i - 1] \o s[i]
  <2>1. \A i \in 0 .. n : u[i] = IF i = 0 THEN <<>> ELSE u[i - 1] \o s[i]
    BY <1>5
  <2>2. u[0] = <<>>
    BY <2>1
  <2>3. ASSUME NEW i \in 1 .. n PROVE u[i] = u[i - 1] \o s[i]
    <3>1. i \in 0 .. n /\ i # 0
      OBVIOUS
    <3> QED BY <2>1, <3>1
  <2> QED BY <2>2, <2>3
<1> QED BY <1>6, <1>7

LEMMA ListsJoined ==
    ASSUME NEW n \in Nat, NEW s, Len(s) = n, NEW l, \A i \in 1 .. n : Lists(s[i], <<l[i]>>)
    PROVE  Lists(Joined(s), [i \in 1 .. n |-> l[i]])
<1>1. PICK g : g[0] = <<>> /\ (\A i \in 1 .. n : g[i] = g[i - 1] \o s[i]) /\ Joined(s) = g[n]
  BY JoinedTable
<1> DEFINE UpTo(k) == [i \in 1 .. k |-> l[i]]
           S == {k \in Nat : k <= n => Lists(g[k], UpTo(k))}
<1>2. 0 \in S
  <2>1. UpTo(0) = <<>>
    OBVIOUS
  <2> HIDE DEF UpTo
  <2> QED BY <1>1, <2>1, ListsNothing
<1>3. ASSUME NEW k \in S PROVE k + 1 \in S
  <2> SUFFICES ASSUME k + 1 <= n PROVE Lists(g[k + 1], UpTo(k + 1))
    OBVIOUS
  <2>1. k \in Nat /\ k + 1 \in 1 .. n /\ k + 1 - 1 = k
    OBVIOUS
  <2>2. Lists(g[k], UpTo(k))
    BY <2>1
  <2>3. g[k + 1] = g[k] \o s[k + 1] /\ Lists(s[k + 1], <<l[k + 1]>>)
    <3> DEFINE j == k + 1
    <3>1. j \in 1 .. n /\ j - 1 = k
      BY <2>1
    <3> HIDE DEF j
    <3>2. g[j] = g[j - 1] \o s[j] /\ Lists(s[j], <<l[j]>>)
      BY <1>1, <3>1
    <3> QED BY <3>1, <3>2 DEF j
  <2>4. UpTo(k) \o <<l[k + 1]>> = UpTo(k + 1)
    BY <2>1, SequenceGrows
  <2> HIDE DEF UpTo
  <2>5. Lists(g[k] \o s[k + 1], UpTo(k) \o <<l[k + 1]>>)
    BY <2>2, <2>3, ListsJoin
  <2> QED BY <2>3, <2>4, <2>5
<1>4. S = Nat
  <2> HIDE DEF S
  <2>1. S \subseteq Nat
    BY DEF S
  <2> QED BY <1>2, <1>3, <2>1, Induction
<1>5. Lists(g[n], UpTo(n))
  <2> HIDE DEF UpTo
  <2>1. n \in S
    <3> HIDE DEF S
    <3> QED BY <1>4
  <2> QED BY <2>1
<1> QED BY <1>1, <1>5

(* The fields of a command *)
LEMMA RequestParts ==
    ASSUME NEW r \in Requests
    PROVE  /\ r.kind \in {"invoke", "read", "subscribe", "timed", "status"}
           /\ r.session \in Fitting(2) /\ r.counter \in Fitting(4) /\ r.exchange \in Fitting(2)
           /\ r.endpoint \in Fitting(2) /\ r.cluster \in Fitting(4)
           /\ r.id \in Fitting(IF r.kind = "timed" THEN 2 ELSE 4)
           /\ r.timed \in BOOLEAN
           /\ r.fields \in Seq(Fields)
BY MessageAssumption, Zenon

LEMMA FieldReadsBack ==
    ASSUME NEW r \in Requests, NEW i \in 1 .. Len(r.fields)
    PROVE  Lists(FieldBytes(r.fields[i]), <<FieldItem(r.fields[i])>>)
<1> DEFINE f == r.fields[i]
<1>1. /\ f \in Fields
      /\ f.type \in TYPE_UINT => f.int \in Fitting(Width(f.type))
      /\ Len(f.oct) < Power[2]
  <2>1. r.fields \in Seq(Fields)
    BY RequestParts
  <2>2. f \in Fields
    BY <2>1
  <2>3. /\ f.type \in TYPE_UINT => f.int \in Fitting(Width(f.type))
        /\ Len(f.oct) < Power[2]
    BY MessageAssumption, Zenon
  <2> QED BY <2>2, <2>3
<1>2. f.tag \in Nat /\ f.oct \in Seq(Nat)
  BY <1>1, ShortFits DEF Fields
<1> HIDE DEF f
<1>3. CASE f.type \in TYPE_UINT
  <2>1. Lists(EncUInt(f.tag, f.type, f.int), <<IntItem(f.tag, f.int)>>)
    BY <1>1, <1>2, <1>3, ListsNumber
  <2>2. FieldBytes(f) = EncUInt(f.tag, f.type, f.int) /\ FieldItem(f) = IntItem(f.tag, f.int)
    BY <1>3 DEF FieldBytes, FieldItem
  <2> QED BY <2>1, <2>2 DEF f
<1>4. CASE f.type \notin TYPE_UINT
  <2>1. Lists(EncOctetString(f.tag, f.oct), <<OctetsItem(f.tag, f.oct)>>)
    BY <1>1, <1>2, ListsOctets
  <2>2. FieldBytes(f) = EncOctetString(f.tag, f.oct) /\ FieldItem(f) = OctetsItem(f.tag, f.oct)
    BY <1>4 DEF FieldBytes, FieldItem
  <2> QED BY <2>1, <2>2 DEF f
<1> QED BY <1>3, <1>4

LEMMA FieldsReadBack ==
    ASSUME NEW r \in Requests
    PROVE  Lists(CommandFields(r), [i \in 1 .. Len(r.fields) |-> FieldItem(r.fields[i])])
<1> DEFINE n == Len(r.fields)
           s == [i \in 1 .. n |-> FieldBytes(r.fields[i])]
           l == [i \in 1 .. n |-> FieldItem(r.fields[i])]
<1>1. n \in Nat
  <2>1. r.fields \in Seq(Fields)
    BY RequestParts
  <2> QED BY <2>1
<1>2. Joined(s) = CommandFields(r)
  BY DEF CommandFields
<1>3. \A i \in 1 .. n : s[i] = FieldBytes(r.fields[i]) /\ l[i] = FieldItem(r.fields[i])
  OBVIOUS
<1>4. l = [i \in 1 .. n |-> l[i]]
  OBVIOUS
<1>5. Len(s) = n
  BY <1>1
<1>6. \A i \in 1 .. n : Lists(FieldBytes(r.fields[i]), <<FieldItem(r.fields[i])>>)
  BY FieldReadsBack
<1> HIDE DEF n, s, l
<1>7. \A i \in 1 .. n : Lists(s[i], <<l[i]>>)
  BY <1>3, <1>6
<1>8. Lists(Joined(s), [i \in 1 .. n |-> l[i]])
  BY <1>1, <1>5, <1>7, ListsJoined
<1>9. Lists(CommandFields(r), l)
  BY <1>2, <1>4, <1>8
<1> QED BY <1>9 DEF l, n

-----------------------------------------------------------------------------
(* The content of a request *)

Get1(x, h) == GetItemRec(x, <<h>>)
Get3(x, h, i, j) == GetItemRec(x, <<h, i, j>>)
Get4(x, h, i, j, k) == GetItemRec(x, <<h, i, j, k>>)

LEMMA GetWalks ==
    /\ \A x, h : Get1(x, h) = Child(x, h)
    /\ \A x, h, i, j : Get3(x, h, i, j) = Child(Child(Child(x, h), i), j)
    /\ \A x, h, i, j, k : Get4(x, h, i, j, k) = Child(Child(Child(Child(x, h), i), j), k)
<1>1. ASSUME NEW x, NEW h PROVE Get1(x, h) = Child(x, h)
  BY Walk1 DEF Get1
<1>2. ASSUME NEW x, NEW h, NEW i, NEW j PROVE Get3(x, h, i, j) = Child(Child(Child(x, h), i), j)
  BY Walk3 DEF Get3
<1>3. ASSUME NEW x, NEW h, NEW i, NEW j, NEW k
      PROVE  Get4(x, h, i, j, k) = Child(Child(Child(Child(x, h), i), j), k)
  BY Walk4 DEF Get4
<1> QED BY <1>1, <1>2, <1>3

LEMMA OneIsSeq == \A x : IsSeq(<<x>>)
BY DEF IsSeq

(* An item in front of others, or behind items with other tags *)
LEMMA OffersFirst ==
    ASSUME NEW x, NEW m, IsSeq(m)
    PROVE  Offers(<<x>> \o m, x.tag, x)
BY OffersOne, OffersFront

LEMMA OffersLast ==
    ASSUME NEW x, NEW l, Lacks(l, x.tag)
    PROVE  Offers(l \o <<x>>, x.tag, x)
BY OffersOne, OffersBehind

LEMMA LacksTwo ==
    ASSUME NEW x, NEW y, NEW tag, x.tag # tag, y.tag # tag
    PROVE  Lacks(<<x>> \o <<y>>, tag)
BY LacksOne, LacksJoin

LEMMA Triple ==
    ASSUME NEW x, NEW y, NEW z, x.tag # y.tag, x.tag # z.tag, y.tag # z.tag
    PROVE  LET l == (<<x>> \o <<y>>) \o <<z>> IN
           Offers(l, x.tag, x) /\ Offers(l, y.tag, y) /\ Offers(l, z.tag, z)
<1>1. Offers(<<x>> \o <<y>>, x.tag, x)
  BY OneIsSeq, OffersFirst
<1>2. Offers(<<x>> \o <<y>>, y.tag, y)
  BY LacksOne, OffersLast
<1>3. Lacks(<<x>> \o <<y>>, z.tag)
  BY LacksTwo
<1> QED BY <1>1, <1>2, <1>3, OneIsSeq, OffersFront, OffersLast

(* The numbers of a path *)
PathItems(s, t, u, e, c, i) == (<<IntItem(s, e)>> \o <<IntItem(t, c)>>) \o <<IntItem(u, i)>>

LEMMA ListsPath ==
    ASSUME NEW s \in Nat, NEW t \in Nat, NEW u \in Nat, s # t, s # u, t # u,
           NEW e \in Fitting(2), NEW c \in Fitting(4), NEW i \in Fitting(4)
    PROVE  LET l == PathItems(s, t, u, e, c, i) IN
           /\ Lists((UInt16(s, e) \o UInt32(t, c)) \o UInt32(u, i), l)
           /\ Offers(l, s, IntItem(s, e)) /\ Offers(l, t, IntItem(t, c)) /\ Offers(l, u, IntItem(u, i))
<1> DEFINE x == IntItem(s, e)
           y == IntItem(t, c)
           z == IntItem(u, i)
           l == (<<x>> \o <<y>>) \o <<z>>
<1>1. Lists(UInt16(s, e), <<x>>) /\ Lists(UInt32(t, c), <<y>>) /\ Lists(UInt32(u, i), <<z>>)
  BY ListsUInt16, ListsUInt32
<1>2. x.tag = s /\ y.tag = t /\ z.tag = u
  BY ItemParts
<1>3. PathItems(s, t, u, e, c, i) = l
  BY DEF PathItems
<1> HIDE DEF x, y, z
<1>4. Lists((UInt16(s, e) \o UInt32(t, c)) \o UInt32(u, i), l)
  BY <1>1, ListsJoin
<1>5. Offers(l, s, x) /\ Offers(l, t, y) /\ Offers(l, u, z)
  <2>1. Offers(l, x.tag, x) /\ Offers(l, y.tag, y) /\ Offers(l, z.tag, z)
    BY <1>2, Triple
  <2> QED BY <1>2, <2>1
<1> QED BY <1>3, <1>4, <1>5 DEF x, y, z

(* Behind the other items, the revision *)
LEMMA EndsInRevision ==
    ASSUME NEW c, NEW l, Lists(c, l), Lacks(l, 255)
    PROVE  /\ Lists(AnonStruct(c \o Revision), <<ListItem(0, l \o <<RevisionItem>>)>>)
           /\ Found(Get1(ListItem(0, l \o <<RevisionItem>>), 255))
           /\ \A tag, x : Offers(l, tag, x) => Child(ListItem(0, l \o <<RevisionItem>>), tag) = x
<1> DEFINE m == l \o <<RevisionItem>>
<1>1. Lists(c \o Revision, m)
  BY ListsRevision, ListsJoin
<1>2. Offers(m, 255, RevisionItem)
  <2>1. Offers(<<RevisionItem>>, 255, RevisionItem)
    BY ListsRevision, OffersOne
  <2> QED BY <2>1, OffersBehind
<1>3. ASSUME NEW tag, NEW x, Offers(l, tag, x) PROVE Child(ListItem(0, m), tag) = x
  <2>1. Offers(m, tag, x)
    BY <1>3, OneIsSeq, OffersFront
  <2> HIDE DEF m
  <2> QED BY <2>1, OffersChild
<1> HIDE DEF m
<1>4. Lists(AnonStruct(c \o Revision), <<ListItem(0, m)>>)
  BY <1>1, ListsStruct
<1>5. Found(Get1(ListItem(0, m), 255))
  <2>1. Get1(ListItem(0, m), 255) = RevisionItem
    BY <1>2, OffersChild, GetWalks
  <2> QED BY <2>1, FoundItems DEF RevisionItem
<1> QED BY <1>3, <1>4, <1>5 DEF m

-----------------------------------------------------------------------------
(* What a request is sent as: x is the item its payload is read as *)
RequestFlags(r) == IF r.kind # "status" \/ r.timed THEN 5 ELSE 4
RequestExchange(r) == IF r.kind \in {"read", "subscribe"} THEN 0 ELSE r.exchange

SentAs(r, x) ==
    \E o, c :
      /\ o \in Nat
      /\ Encode(r) = InteractionMessage(RequestFlags(r), o, RequestExchange(r), c)
      /\ Lists(AnonStruct(c), <<x>>)

NumbersFound(r, x, y, z) == x.int = r.endpoint /\ y.int = r.cluster /\ z.int = r.id

LEMMA ReadSent ==
    ASSUME NEW r \in Requests, r.kind = "read"
    PROVE  \E x : /\ SentAs(r, x)
                  /\ NumbersFound(r, Get3(x, 0, 0, 2), Get3(x, 0, 0, 3), Get3(x, 0, 0, 4))
                  /\ Found(Get1(x, 255))
<1>1. r.endpoint \in Fitting(2) /\ r.cluster \in Fitting(4) /\ r.id \in Fitting(4)
  BY RequestParts
<1> DEFINE pl == PathItems(2, 3, 4, r.endpoint, r.cluster, r.id)
           pe == (UInt16(2, r.endpoint) \o UInt32(3, r.cluster)) \o UInt32(4, r.id)
           p == ListItem(0, pl)
           a == ListItem(0, <<p>>)
           b == BoolItem(3, TRUE)
           ce == Container(0, tArray, AnonList(pe))
           l == <<a>> \o <<b>>
           c == (ce \o EncBool(3, TRUE)) \o Revision
           x == ListItem(0, l \o <<RevisionItem>>)
<1>2. /\ Lists(pe, pl) /\ Offers(pl, 2, IntItem(2, r.endpoint))
      /\ Offers(pl, 3, IntItem(3, r.cluster)) /\ Offers(pl, 4, IntItem(4, r.id))
  <2>1. 2 \in Nat /\ 3 \in Nat /\ 4 \in Nat /\ 2 # 3 /\ 2 # 4 /\ 3 # 4
    OBVIOUS
  <2> QED BY <1>1, <2>1, ListsPath
<1>3. Encode(r) = InteractionMessage(5, 2, 0, c)
  BY DEF Encode, EncodeIMReadRequest
<1> HIDE DEF pl, pe
<1>4. Lists(AnonList(pe), <<p>>)
  BY <1>2, ListsList
<1>5. /\ Child(p, 2) = IntItem(2, r.endpoint) /\ Child(p, 3) = IntItem(3, r.cluster)
      /\ Child(p, 4) = IntItem(4, r.id)
  BY <1>2, OffersChild
<1>6. p.tag = 0 /\ b.tag = 3
  <2>1. p.tag = 0
    BY DEF ListItem, Item
  <2>2. b.tag = 3
    BY DEF BoolItem, Item
  <2> QED BY <2>1, <2>2
<1> HIDE DEF p
<1>7. Lists(ce, <<a>>)
  <2>1. 0 \in Nat /\ tArray \in Containers
    BY DEF Containers
  <2> QED BY <1>4, <2>1, ListsContainer
<1>8. a.tag = 0 /\ Child(a, 0) = p
  <2>1. Child(a, p.tag) = p
    BY LonelyChild
  <2> QED BY <1>6, <2>1, ItemParts
<1>9. Lists(EncBool(3, TRUE), <<b>>)
  BY ListsBool
<1> HIDE DEF a, b, ce
<1>10. Lists(ce \o EncBool(3, TRUE), l) /\ Lacks(l, 255)
  <2>1. Lists(ce \o EncBool(3, TRUE), l)
    BY <1>7, <1>9, ListsJoin
  <2>2. a.tag # 255 /\ b.tag # 255
    BY <1>6, <1>8
  <2>3. Lacks(<<a>> \o <<b>>, 255)
    BY <2>2, LacksTwo
  <2> HIDE DEF c
  <2> QED BY <2>1, <2>3
<1>11. Offers(l, 0, a)
  <2>1. Offers(l, a.tag, a)
    BY OneIsSeq, OffersFirst
  <2> QED BY <1>8, <2>1
<1> HIDE DEF l
<1>12. Lists(AnonStruct(c), <<x>>) /\ Found(Get1(x, 255)) /\ Child(x, 0) = a
  BY <1>10, <1>11, EndsInRevision
<1> HIDE DEF x, c
<1>13. SentAs(r, x)
  <2>1. RequestFlags(r) = 5 /\ RequestExchange(r) = 0
    BY DEF RequestFlags, RequestExchange
  <2> QED BY <1>3, <1>12, <2>1 DEF SentAs
<1>14. NumbersFound(r, Get3(x, 0, 0, 2), Get3(x, 0, 0, 3), Get3(x, 0, 0, 4))
  <2>1. /\ Get3(x, 0, 0, 2) = IntItem(2, r.endpoint) /\ Get3(x, 0, 0, 3) = IntItem(3, r.cluster)
        /\ Get3(x, 0, 0, 4) = IntItem(4, r.id)
    BY <1>5, <1>8, <1>12, GetWalks
  <2> QED BY <2>1, ItemParts DEF NumbersFound
<1> QED BY <1>12, <1>13, <1>14

LEMMA TimedSent ==
    ASSUME NEW r \in Requests, r.kind = "timed"
    PROVE  \E x : SentAs(r, x) /\ Get1(x, 0).int = r.id /\ Found(Get1(x, 255))
<1>1. r.id \in Fitting(2)
  BY RequestParts
<1> DEFINE i == IntItem(0, r.id)
           c == UInt16(0, r.id) \o Revision
           x == ListItem(0, <<i>> \o <<RevisionItem>>)
<1>2. Lists(UInt16(0, r.id), <<i>>) /\ i.tag = 0 /\ i.int = r.id
  BY <1>1, ListsUInt16, ItemParts
<1>3. Encode(r) = InteractionMessage(5, 10, r.exchange, c)
  BY DEF Encode, EncodeIMTimedRequest
<1> HIDE DEF i
<1>4. Lacks(<<i>>, 255) /\ Offers(<<i>>, 0, i)
  BY <1>2, LacksOne, OffersOne
<1>5. Lists(AnonStruct(c), <<x>>) /\ Found(Get1(x, 255)) /\ Child(x, 0) = i
  BY <1>2, <1>4, EndsInRevision
<1> HIDE DEF x, c
<1>6. SentAs(r, x)
  <2>1. RequestFlags(r) = 5 /\ RequestExchange(r) = r.exchange
    BY DEF RequestFlags, RequestExchange
  <2> QED BY <1>3, <1>5, <2>1 DEF SentAs
<1> QED BY <1>2, <1>5, <1>6, GetWalks

LEMMA StatusSent ==
    ASSUME NEW r \in Requests, r.kind = "status"
    PROVE  \E x : SentAs(r, x)
<1> DEFINE i == IntItem(0, 0)
           c == UInt8(0, 0)
           x == ListItem(0, <<i>>)
<1>1. Lists(c, <<i>>)
  <2>1. 0 \in Nat /\ 1 \in Nat
    OBVIOUS
  <2> QED BY <2>1, ZeroFits, ListsUInt8
<1>2. Encode(r) = InteractionMessage(IF r.timed THEN 5 ELSE 4, 1, r.exchange, c)
  BY DEF Encode, EncodeIMStatusResponse
<1> HIDE DEF i, c
<1>3. Lists(AnonStruct(c), <<x>>)
  BY <1>1, ListsStruct
<1> HIDE DEF x
<1>4. RequestFlags(r) = (IF r.timed THEN 5 ELSE 4) /\ RequestExchange(r) = r.exchange
  BY DEF RequestFlags, RequestExchange
<1> QED BY <1>2, <1>3, <1>4 DEF SentAs

LEMMA BoolItemParts == \A t, v : BoolItem(t, v).tag = t /\ BoolItem(t, v).int = IF v THEN 1 ELSE 0
BY DEF BoolItem, Item

LEMMA SubscribeSent ==
    ASSUME NEW r \in Requests, r.kind = "subscribe"
    PROVE  \E x : /\ SentAs(r, x)
                  /\ NumbersFound(r, Get3(x, 4, 0, 1), Get3(x, 4, 0, 2), Get3(x, 4, 0, 3))
                  /\ Found(Get1(x, 255))
<1>1. r.endpoint \in Fitting(2) /\ r.cluster \in Fitting(4) /\ r.id \in Fitting(4)
  BY RequestParts
<1> DEFINE pl == PathItems(1, 2, 3, r.endpoint, r.cluster, r.id)
           pe == (UInt16(1, r.endpoint) \o UInt32(2, r.cluster)) \o UInt32(3, r.id)
           t == BoolItem(4, TRUE)
           p == ListItem(0, pl \o <<t>>)
           a == ListItem(4, <<p>>)
           f == BoolItem(0, FALSE)
           u == IntItem(1, 10 % Power[Width(5)])
           v == IntItem(2, 50 % Power[Width(5)])
           g == BoolItem(7, FALSE)
           ce == Container(4, tArray, AnonList(pe \o EncBool(4, TRUE)))
           fe == EncBool(0, FALSE)
           ue == UInt16(1, 10)
           ve == UInt16(2, 50)
           ge == EncBool(7, FALSE)
           l == (((<<f>> \o <<u>>) \o <<v>>) \o <<a>>) \o <<g>>
           c == ((((fe \o ue) \o ve) \o ce) \o ge) \o Revision
           x == ListItem(0, l \o <<RevisionItem>>)
<1>2. /\ Lists(pe, pl) /\ Offers(pl, 1, IntItem(1, r.endpoint))
      /\ Offers(pl, 2, IntItem(2, r.cluster)) /\ Offers(pl, 3, IntItem(3, r.id))
  <2>1. 1 \in Nat /\ 2 \in Nat /\ 3 \in Nat /\ 1 # 2 /\ 1 # 3 /\ 2 # 3
    OBVIOUS
  <2> QED BY <1>1, <2>1, ListsPath
<1>3. Encode(r) = InteractionMessage(5, 3, 0, c)
  BY DEF Encode, EncodeIMSubscribeRequest
<1> HIDE DEF pl, pe
<1>4. Lists(EncBool(4, TRUE), <<t>>) /\ Lists(fe, <<f>>) /\ Lists(ge, <<g>>)
  BY ListsBool
<1>5. Lists(ue, <<u>>) /\ Lists(ve, <<v>>)
  <2>1. 5 \in TYPE_UINT /\ 1 \in Nat /\ 2 \in Nat /\ 10 \in Int /\ 50 \in Int
    BY DEF TYPE_UINT
  <2>2. Lists(EncUInt(1, 5, 10), <<u>>)
    BY <2>1, ListsUInt
  <2>3. Lists(EncUInt(2, 5, 50), <<v>>)
    BY <2>1, ListsUInt
  <2> QED BY <2>2, <2>3 DEF UInt16
<1>6. f.tag = 0 /\ u.tag = 1 /\ v.tag = 2 /\ g.tag = 7
  <2>1. f.tag = 0 /\ g.tag = 7
    BY BoolItemParts
  <2>2. u.tag = 1
    BY ItemParts
  <2>3. v.tag = 2
    BY ItemParts
  <2> HIDE DEF f, u, v, g
  <2> QED BY <2>1, <2>2, <2>3
<1> HIDE DEF t, f, u, v, g, fe, ue, ve, ge
<1>7. /\ Child(p, 1) = IntItem(1, r.endpoint) /\ Child(p, 2) = IntItem(2, r.cluster)
      /\ Child(p, 3) = IntItem(3, r.id) /\ p.tag = 0
  <2> DEFINE m == pl \o <<t>>
  <2>1. /\ Offers(m, 1, IntItem(1, r.endpoint)) /\ Offers(m, 2, IntItem(2, r.cluster))
        /\ Offers(m, 3, IntItem(3, r.id))
    BY <1>2, OneIsSeq, OffersFront
  <2> HIDE DEF m
  <2>2. p = ListItem(0, m)
    BY DEF m
  <2> HIDE DEF p
  <2> QED BY <2>1, <2>2, OffersChild, ItemParts
<1>8. Lists(AnonList(pe \o EncBool(4, TRUE)), <<p>>)
  <2>1. Lists(pe \o EncBool(4, TRUE), pl \o <<t>>)
    BY <1>2, <1>4, ListsJoin
  <2> QED BY <2>1, ListsList
<1> HIDE DEF p
<1>9. Lists(ce, <<a>>)
  <2>1. 4 \in Nat /\ tArray \in Containers
    BY DEF Containers
  <2> QED BY <1>8, <2>1, ListsContainer
<1>10. a.tag = 4 /\ Child(a, 0) = p
  <2>1. Child(a, p.tag) = p
    BY LonelyChild
  <2> QED BY <1>7, <2>1, ItemParts
<1> HIDE DEF a, ce
<1> DEFINE k == (<<f>> \o <<u>>) \o <<v>>
           ke == (fe \o ue) \o ve
<1>11. Lists(ke, k)
  BY <1>4, <1>5, ListsJoin
<1>12. Lacks(k, 4) /\ Lacks(k, 255)
  <2>1. Lacks(<<f>> \o <<u>>, 4) /\ Lacks(<<f>> \o <<u>>, 255)
    BY <1>6, LacksTwo
  <2>2. Lacks(<<v>>, 4) /\ Lacks(<<v>>, 255)
    BY <1>6, LacksOne
  <2> QED BY <2>1, <2>2, LacksJoin
<1>13. l = (k \o <<a>>) \o <<g>> /\ c = ((ke \o ce) \o ge) \o Revision
  OBVIOUS
<1> HIDE DEF k, ke, l, c
<1>14. Lists((ke \o ce) \o ge, l)
  <2>1. Lists(ke \o ce, k \o <<a>>)
    BY <1>9, <1>11, ListsJoin
  <2>2. Lists((ke \o ce) \o ge, (k \o <<a>>) \o <<g>>)
    BY <1>4, <2>1, ListsJoin
  <2> QED BY <1>13, <2>2
<1>15. Lacks(l, 255) /\ Offers(l, 4, a)
  <2>1. Lacks(<<a>>, 255) /\ Lacks(<<g>>, 255) /\ Offers(<<a>>, 4, a)
    BY <1>6, <1>10, LacksOne, OffersOne
  <2>2. Lacks(k \o <<a>>, 255) /\ Offers(k \o <<a>>, 4, a)
    BY <1>12, <2>1, LacksJoin, OffersBehind
  <2>3. Lacks((k \o <<a>>) \o <<g>>, 255) /\ Offers((k \o <<a>>) \o <<g>>, 4, a)
    BY <2>1, <2>2, OneIsSeq, LacksJoin, OffersFront
  <2> QED BY <1>13, <2>3
<1>16. Lists(AnonStruct(c), <<x>>) /\ Found(Get1(x, 255)) /\ Child(x, 4) = a
  BY <1>13, <1>14, <1>15, EndsInRevision
<1> HIDE DEF x
<1>17. SentAs(r, x)
  <2>1. RequestFlags(r) = 5 /\ RequestExchange(r) = 0
    BY DEF RequestFlags, RequestExchange
  <2> QED BY <1>3, <1>16, <2>1 DEF SentAs
<1>18. NumbersFound(r, Get3(x, 4, 0, 1), Get3(x, 4, 0, 2), Get3(x, 4, 0, 3))
  <2>1. /\ Get3(x, 4, 0, 1) = IntItem(1, r.endpoint) /\ Get3(x, 4, 0, 2) = IntItem(2, r.cluster)
        /\ Get3(x, 4, 0, 3) = IntItem(3, r.id)
    BY <1>7, <1>10, <1>16, GetWalks
  <2> QED BY <2>1, ItemParts DEF NumbersFound
<1> QED BY <1>16, <1>17, <1>18

LEMMA InvokeSent ==
    ASSUME NEW r \in Requests, r.kind = "invoke"
    PROVE  \E x : /\ SentAs(r, x)
                  /\ NumbersFound(r, Get4(x, 2, 0, 0, 0), Get4(x, 2, 0, 0, 1), Get4(x, 2, 0, 0, 2))
                  /\ Get1(x, 1).int = IF r.timed THEN 1 ELSE 0
                  /\ Get3(x, 2, 0, 1).list = [i \in 1 .. Len(r.fields) |-> FieldItem(r.fields[i])]
                  /\ Found(Get1(x, 255))
<1>1. r.endpoint \in Fitting(2) /\ r.cluster \in Fitting(4) /\ r.id \in Fitting(4) /\ r.timed \in BOOLEAN
  BY RequestParts
<1> DEFINE pl == PathItems(0, 1, 2, r.endpoint, r.cluster, r.id)
           pe == (UInt16(0, r.endpoint) \o UInt32(1, r.cluster)) \o UInt32(2, r.id)
           fl == [i \in 1 .. Len(r.fields) |-> FieldItem(r.fields[i])]
           p == ListItem(0, pl)
           g == ListItem(1, fl)
           s == ListItem(0, <<p>> \o <<g>>)
           a == ListItem(2, <<s>>)
           f == BoolItem(0, FALSE)
           t == BoolItem(1, r.timed)
           ce == Container(2, tArray, AnonStruct(Container(0, tList, pe) \o Container(1, tStruct, CommandFields(r))))
           fe == EncBool(0, FALSE)
           te == EncBool(1, r.timed)
           l == (<<f>> \o <<t>>) \o <<a>>
           c == ((fe \o te) \o ce) \o Revision
           x == ListItem(0, l \o <<RevisionItem>>)
<1>2. /\ Lists(pe, pl) /\ Offers(pl, 0, IntItem(0, r.endpoint))
      /\ Offers(pl, 1, IntItem(1, r.cluster)) /\ Offers(pl, 2, IntItem(2, r.id))
  <2>1. 0 \in Nat /\ 1 \in Nat /\ 2 \in Nat /\ 0 # 1 /\ 0 # 2 /\ 1 # 2
    OBVIOUS
  <2> QED BY <1>1, <2>1, ListsPath
<1>3. Encode(r) = InteractionMessage(5, 8, r.exchange, c)
  BY DEF Encode, EncodeIMInvokeRequest
<1>4. Lists(CommandFields(r), fl)
  BY FieldsReadBack
<1>5. Lists(fe, <<f>>) /\ Lists(te, <<t>>)
  BY <1>1, ListsBool
<1>6. f.tag = 0 /\ t.tag = 1 /\ t.int = IF r.timed THEN 1 ELSE 0
  BY <1>1, BoolItemParts
<1> HIDE DEF pl, pe, fl, f, t, fe, te
<1>7. tList \in Containers /\ tStruct \in Containers /\ tArray \in Containers /\ 0 \in Nat /\ 1 \in Nat /\ 2 \in Nat
  BY DEF Containers
<1>8. Lists(Container(0, tList, pe), <<p>>) /\ Lists(Container(1, tStruct, CommandFields(r)), <<g>>)
  BY <1>2, <1>4, <1>7, ListsContainer
<1>9. /\ Child(p, 0) = IntItem(0, r.endpoint) /\ Child(p, 1) = IntItem(1, r.cluster)
      /\ Child(p, 2) = IntItem(2, r.id) /\ p.tag = 0 /\ g.tag = 1 /\ g.list = fl
  BY <1>2, OffersChild, ItemParts
<1> HIDE DEF p, g
<1> DEFINE se == Container(0, tList, pe) \o Container(1, tStruct, CommandFields(r))
<1>10. Lists(AnonStruct(se), <<s>>)
  <2>1. Lists(se, <<p>> \o <<g>>)
    BY <1>8, ListsJoin
  <2> HIDE DEF se
  <2> QED BY <2>1, ListsStruct
<1>11. s.tag = 0 /\ Child(s, 0) = p /\ Child(s, 1) = g
  <2>1. Offers(<<p>> \o <<g>>, p.tag, p)
    BY OneIsSeq, OffersFirst
  <2>2. Offers(<<p>> \o <<g>>, g.tag, g)
    BY <1>9, LacksOne, OffersLast
  <2> QED BY <1>9, <2>1, <2>2, OffersChild, ItemParts
<1>12. Lists(ce, <<a>>)
  <2>1. ce = Container(2, tArray, AnonStruct(se))
    OBVIOUS
  <2> HIDE DEF se, s, ce
  <2> QED BY <1>7, <1>10, <2>1, ListsContainer
<1> HIDE DEF s
<1>13. a.tag = 2 /\ Child(a, 0) = s
  <2>1. Child(a, s.tag) = s
    BY LonelyChild
  <2> QED BY <1>11, <2>1, ItemParts
<1> HIDE DEF a, ce
<1>14. Lists((fe \o te) \o ce, l)
  BY <1>5, <1>12, ListsJoin
<1>15. Offers(l, 1, t) /\ Offers(l, 2, a)
  <2>1. Offers(l, t.tag, t) /\ Offers(l, a.tag, a)
    BY <1>6, <1>13, Triple
  <2> QED BY <1>6, <1>13, <2>1
<1>16. Lacks(l, 255)
  <2>1. Lacks(<<f>> \o <<t>>, 255)
    BY <1>6, LacksTwo
  <2>2. Lacks(<<a>>, 255)
    BY <1>13, LacksOne
  <2>3. Lacks((<<f>> \o <<t>>) \o <<a>>, 255)
    BY <2>1, <2>2, LacksJoin
  <2> HIDE DEF c
  <2> QED BY <2>3
<1>17. c = ((fe \o te) \o ce) \o Revision
  OBVIOUS
<1> HIDE DEF l, c
<1>18. Lists(AnonStruct(c), <<x>>) /\ Found(Get1(x, 255)) /\ Child(x, 1) = t /\ Child(x, 2) = a
  BY <1>14, <1>15, <1>16, <1>17, EndsInRevision
<1> HIDE DEF x
<1>19. SentAs(r, x)
  <2>1. RequestFlags(r) = 5 /\ RequestExchange(r) = r.exchange
    BY DEF RequestFlags, RequestExchange
  <2> QED BY <1>3, <1>18, <2>1 DEF SentAs
<1>20. NumbersFound(r, Get4(x, 2, 0, 0, 0), Get4(x, 2, 0, 0, 1), Get4(x, 2, 0, 0, 2))
  <2>1. /\ Get4(x, 2, 0, 0, 0) = IntItem(0, r.endpoint) /\ Get4(x, 2, 0, 0, 1) = IntItem(1, r.cluster)
        /\ Get4(x, 2, 0, 0, 2) = IntItem(2, r.id)
    BY <1>9, <1>11, <1>13, <1>18, GetWalks
  <2> QED BY <2>1, ItemParts DEF NumbersFound
<1>21. Get1(x, 1) = t /\ Get3(x, 2, 0, 1) = g
  BY <1>11, <1>13, <1>18, GetWalks
<1>22. Get1(x, 1).int = (IF r.timed THEN 1 ELSE 0) /\ Get3(x, 2, 0, 1).list = fl
  BY <1>6, <1>9, <1>21
<1> QED BY <1>18, <1>19, <1>20, <1>22 DEF fl

-----------------------------------------------------------------------------
(* Requests *)

(* What Send writes without an ack, read back *)
LEMMA SentReads ==
    ASSUME NEW session \in Fitting(2), NEW counter \in Fitting(4),
           NEW q, GoodProtocol(q), ~Bit(q.flags, 1), NEW z \in Seq(Nat),
           NEW m, m = Parse(Send(session, counter, EncodeProtocol(q) \o z))
    PROVE  /\ m.aad = Send(session, counter, <<>>)
           /\ m.header.session = session /\ m.header.counter = counter
           /\ m.protocol.flags = q.flags /\ m.protocol.exchange = q.exchange /\ m.payload = z
<1> DEFINE h == SentHeader(session, counter)
           e == EncodeHeader(h)
<1>1. GoodHeader(h) /\ h.session = session /\ h.counter = counter
  <2>1. h.session = session /\ h.counter = counter
    BY DEF SentHeader
  <2> QED BY <2>1, SentHeaderGood
<1>2. Send(session, counter, EncodeProtocol(q) \o z) = e \o (EncodeProtocol(q) \o z)
  BY DEF Send, SentHeader
<1>3. Send(session, counter, <<>>) = e
  <2>1. Send(session, counter, <<>>) = e \o <<>>
    BY DEF Send, SentHeader
  <2>2. e \in Seq(Nat)
    BY <1>1, HeaderParts
  <2> HIDE DEF e
  <2>3. e \o <<>> = e
    BY <2>2
  <2> QED BY <2>1, <2>3
<1> HIDE DEF h
<1>4. ParsesAs(m, h, q, z)
  <2>1. ParsesAs(Parse(EncodeHeader(h) \o (EncodeProtocol(q) \o z)), h, q, z)
    BY <1>1, ParseReads
  <2> QED BY <1>2, <2>1
<1>5. m.aad = e /\ m.header.session = h.session /\ m.header.counter = h.counter /\ ReadsAs(m.protocol, m.payload, q, z)
  BY <1>4 DEF ParsesAs
<1>6. m.protocol.flags = q.flags /\ m.protocol.exchange = q.exchange /\ m.payload = z
  BY <1>5 DEF ReadsAs
<1> QED BY <1>1, <1>3, <1>5, <1>6

LEMMA ReportReadsBack ==
    ASSUME NEW session \in Fitting(2), NEW counter \in Fitting(4), NEW x \in Fitting(2),
           NEW code, code.general \in Fitting(2), code.protocol \in Fitting(4), code.code \in Fitting(2),
           code = [general |-> code.general, protocol |-> code.protocol, code |-> code.code],
           NEW m, m = Parse(Send(session, counter, EncodeStatusReport(code, x)))
    PROVE  ReadStatusReport(m.payload) = code
<1> DEFINE q == [flags |-> 5, opcode |-> 64, exchange |-> x, protocol |-> 0]
           p == EncodeProtocol(q)
           a == LittleEndian(2, code.general)
           b == LittleEndian(4, code.protocol)
           c == LittleEndian(2, code.code)
           ab == a \o b
           z == ab \o c
<1>1. GoodProtocol(q) /\ ~Bit(q.flags, 1)
  <2>1. 0 \in Fitting(2)
    BY ZeroFits
  <2> QED BY <2>1, FlagBits DEF GoodProtocol
<1>2. Word(a, 2) /\ Word(b, 4) /\ Word(c, 2)
  <2>1. 2 \in Nat /\ 4 \in Nat
    OBVIOUS
  <2> QED BY <2>1, NumberWord
<1>3. EncodeStatusReport(code, x) = ((p \o a) \o b) \o c
  BY DEF EncodeStatusReport
<1>4. p \in Seq(Nat)
  BY <1>1, ProtocolParts DEF Word
<1> HIDE DEF q, a, b, c
<1>5. Word(ab, 6)
  <2>1. Word(a \o b, 2 + 4)
    BY <1>2, JoinedWords
  <2> QED BY <2>1
<1>6. EncodeStatusReport(code, x) = p \o z
  <2> HIDE DEF p
  <2>1. a \in Seq(Nat) /\ b \in Seq(Nat) /\ c \in Seq(Nat) /\ ab \in Seq(Nat)
    BY <1>2, <1>5 DEF Word
  <2>2. (p \o a) \o b = p \o ab
    BY <1>4, <2>1, Associative
  <2> HIDE DEF ab
  <2>3. (p \o ab) \o c = p \o (ab \o c)
    BY <1>4, <2>1, Associative
  <2> QED BY <1>3, <2>2, <2>3
<1> HIDE DEF ab
<1>7. Word(z, 8)
  <2>1. Word(ab \o c, 6 + 2)
    BY <1>2, <1>5, JoinedWords
  <2> QED BY <2>1
<1>8. At(z, 1, ab) /\ At(z, 6 + 1, c)
  <2>1. At(z, 1, ab \o c)
    BY <1>7 DEF At, Word
  <2> HIDE DEF z
  <2>2. 6 \in Nat /\ 2 \in Nat /\ 8 \in Nat
    OBVIOUS
  <2> QED BY <1>2, <1>5, <1>7, <2>1, <2>2, SplitWords
<1> HIDE DEF z
<1>9. At(z, 1, a) /\ At(z, 2 + 1, b)
  <2>1. At(z, 1, a \o b)
    BY <1>8 DEF ab
  <2>2. 2 \in Nat /\ 4 \in Nat /\ 8 \in Nat
    OBVIOUS
  <2> QED BY <1>2, <1>7, <2>1, <2>2, SplitWords
<1>10. z \in Seq(Nat)
  BY <1>7 DEF Word
<1>11. ReadNumber(z, 1, 2) = code.general /\ ReadNumber(z, 3, 4) = code.protocol /\ ReadNumber(z, 7, 2) = code.code
  <2>1. 2 \in Nat /\ 4 \in Nat /\ 1 \in Nat \ {0} /\ 3 \in Nat \ {0} /\ 7 \in Nat \ {0} /\ 2 + 1 = 3 /\ 6 + 1 = 7
    OBVIOUS
  <2>2. At(z, 1, LittleEndian(2, code.general)) /\ At(z, 3, LittleEndian(4, code.protocol))
        /\ At(z, 7, LittleEndian(2, code.code))
    BY <1>8, <1>9, <2>1 DEF a, b, c
  <2> QED BY <1>10, <2>1, <2>2, NumberAt
<1>12. m.payload = z
  <2>1. m = Parse(Send(session, counter, EncodeProtocol(q) \o z))
    BY <1>6
  <2> QED BY <1>1, <1>10, <2>1, SentReads
<1> QED BY <1>11, <1>12 DEF ReadStatusReport

LEMMA FittingGrows == Fitting(2) \subseteq Fitting(4)
<1> DEFINE P == Power
<1>1. Base \in Nat /\ Base > 0 /\ P[2] \in Nat \ {0} /\ P[3] \in Nat \ {0} /\ P[4] \in Nat \ {0}
  BY PowerFacts, TlvAssumption
<1>2. P[3] = Base * P[2] /\ P[4] = Base * P[3]
  <2>1. P[2 + 1] = Base * P[2] /\ P[3 + 1] = Base * P[3]
    BY PowerFacts
  <2> QED BY <2>1
<1> HIDE DEF P
<1>3. \A u, v \in Nat \ {0} : v <= u * v
  OBVIOUS
<1>4. P[2] <= P[3] /\ P[3] <= P[4]
  BY <1>1, <1>2, <1>3
<1>5. P[2] <= P[4]
  BY <1>1, <1>4
<1>6. \A v \in 0 .. P[2] - 1 : v \in 0 .. P[4] - 1
  BY <1>1, <1>5
<1> QED BY <1>6 DEF P, Fitting

(* What is sent is read as the item that its payload stands for *)
LEMMA SentItem ==
    ASSUME NEW r \in Requests, NEW x, SentAs(r, x),
           NEW m, m = Parse(Send(r.session, r.counter, Encode(r)))
    PROVE  /\ m.aad = Send(r.session, r.counter, <<>>)
           /\ m.header.session = r.session /\ m.header.counter = r.counter
           /\ m.protocol.exchange = RequestExchange(r)
           /\ Initiator(m.protocol.flags) <=> RequestFlags(r) = 5
           /\ Decode(m.payload) = x
<1>1. PICK o, c : /\ o \in Nat
                  /\ Encode(r) = InteractionMessage(RequestFlags(r), o, RequestExchange(r), c)
                  /\ Lists(AnonStruct(c), <<x>>)
  BY DEF SentAs
<1> DEFINE q == [flags |-> RequestFlags(r), opcode |-> o, exchange |-> RequestExchange(r), protocol |-> 1]
           z == AnonStruct(c)
<1>2. r.session \in Fitting(2) /\ r.counter \in Fitting(4) /\ r.exchange \in Fitting(2)
  BY RequestParts
<1>3. RequestFlags(r) \in {4, 5} /\ RequestExchange(r) \in Fitting(2)
  BY <1>2, ZeroFits DEF RequestFlags, RequestExchange
<1>4. GoodProtocol(q) /\ ~Bit(q.flags, 1) /\ q.flags = RequestFlags(r) /\ q.exchange = RequestExchange(r)
  <2>1. 1 \in Fitting(2)
    <3>1. Power[2] \in Nat /\ Power[2] > 1
      <4>1. Power[0] = 1 /\ Power[0 + 1] = Base * Power[0] /\ Power[1 + 1] = Base * Power[1]
        BY PowerFacts
      <4>2. Base \in Nat /\ Base > 1
        BY TlvAssumption
      <4>3. Power[1] = Base /\ Power[2] = Base * Base
        BY <4>1, <4>2
      <4>4. \A u \in Nat : u > 1 => u * u \in Nat /\ u * u > 1
        OBVIOUS
      <4> QED BY <4>2, <4>3, <4>4
    <3> QED BY <3>1 DEF Fitting
  <2>2. \A f \in {4, 5} : f \in Nat /\ ~Bit(f, 1)
    BY FlagBits
  <2>3. GoodProtocol(q)
    BY <1>1, <1>3, <2>1, <2>2 DEF GoodProtocol
  <2> QED BY <1>3, <2>2, <2>3
<1>5. Encode(r) = EncodeProtocol(q) \o z
  BY <1>1 DEF InteractionMessage
<1> HIDE DEF q, z
<1>6. z \in Seq(Nat) /\ Decode(z) = x
  <2>1. Lists(z, <<x>>)
    BY <1>1 DEF z
  <2> QED BY <2>1, DecodeOne DEF Lists
<1>7. m = Parse(Send(r.session, r.counter, EncodeProtocol(q) \o z))
  BY <1>5
<1>8. /\ m.aad = Send(r.session, r.counter, <<>>)
      /\ m.header.session = r.session /\ m.header.counter = r.counter
      /\ m.protocol.flags = q.flags /\ m.protocol.exchange = q.exchange /\ m.payload = z
  BY <1>2, <1>4, <1>6, <1>7, SentReads
<1>9. Initiator(m.protocol.flags) <=> RequestFlags(r) = 5
  <2>1. CASE RequestFlags(r) = 5
    BY <1>4, <1>8, <2>1, FlagBits DEF Initiator
  <2>2. CASE RequestFlags(r) = 4
    BY <1>4, <1>8, <2>2, FlagBits DEF Initiator
  <2> QED BY <1>3, <2>1, <2>2
<1> QED BY <1>4, <1>6, <1>8, <1>9

(* ... which the lookups find their way in *)
RequestFound(r, x) ==
    /\ r.kind = "invoke" =>
         /\ NumbersFound(r, Get4(x, 2, 0, 0, 0), Get4(x, 2, 0, 0, 1), Get4(x, 2, 0, 0, 2))
         /\ Get1(x, 1).int = IF r.timed THEN 1 ELSE 0
         /\ Get3(x, 2, 0, 1).list = [i \in 1 .. Len(r.fields) |-> FieldItem(r.fields[i])]
    /\ r.kind = "read" => NumbersFound(r, Get3(x, 0, 0, 2), Get3(x, 0, 0, 3), Get3(x, 0, 0, 4))
    /\ r.kind = "subscribe" => NumbersFound(r, Get3(x, 4, 0, 1), Get3(x, 4, 0, 2), Get3(x, 4, 0, 3))
    /\ r.kind = "timed" => Get1(x, 0).int = r.id
    /\ r.kind # "status" => Found(Get1(x, 255))

LEMMA RequestSent ==
    ASSUME NEW r \in Requests
    PROVE  \E x : SentAs(r, x) /\ RequestFound(r, x)
<1>1. CASE r.kind = "invoke"
  BY <1>1, InvokeSent DEF RequestFound
<1>2. CASE r.kind = "read"
  BY <1>2, ReadSent DEF RequestFound
<1>3. CASE r.kind = "subscribe"
  BY <1>3, SubscribeSent DEF RequestFound
<1>4. CASE r.kind = "timed"
  BY <1>4, TimedSent DEF RequestFound
<1>5. CASE r.kind = "status"
  BY <1>5, StatusSent DEF RequestFound
<1> QED BY <1>1, <1>2, <1>3, <1>4, <1>5, RequestParts

LEMMA RequestReadsBack == MessageInv => RequestsReadBack
<1> SUFFICES ASSUME MessageInv, NEW r \in request
             PROVE  LET m == Parse(Send(r.session, r.counter, Encode(r)))
                        item == Decode(m.payload)
                        number(path) == GetItemRec(item, path).int
                        path == CASE r.kind = "invoke" -> <<number(<<2,0,0,0>>), number(<<2,0,0,1>>), number(<<2,0,0,2>>)>>
                                  [] r.kind = "read" -> <<number(<<0,0,2>>), number(<<0,0,3>>), number(<<0,0,4>>)>>
                                  [] r.kind = "subscribe" -> <<number(<<4,0,1>>), number(<<4,0,2>>), number(<<4,0,3>>)>>
                                  [] OTHER -> <<r.endpoint, r.cluster, r.id>>
                        code == [general |-> 0, protocol |-> r.id, code |-> r.endpoint]
                        report == Parse(Send(r.session, r.counter, EncodeStatusReport(code, r.exchange)))
                    IN /\ m.aad = Send(r.session, r.counter, <<>>)
                       /\ m.header.session = r.session /\ m.header.counter = r.counter
                       /\ m.protocol.exchange = IF r.kind \in {"read", "subscribe"} THEN 0 ELSE r.exchange
                       /\ Initiator(m.protocol.flags) = (r.kind # "status" \/ r.timed)
                       /\ path = <<r.endpoint, r.cluster, r.id>>
                       /\ r.kind = "timed" => number(<<0>>) = r.id
                       /\ r.kind = "invoke" =>
                            /\ number(<<1>>) = IF r.timed THEN 1 ELSE 0
                            /\ GetItemRec(item, <<2, 0, 1>>).list =
                                 [i \in 1 .. Len(r.fields) |-> FieldItem(r.fields[i])]
                       /\ r.kind # "status" => Found(GetItemRec(item, <<255>>))
                       /\ ReadStatusReport(report.payload) = code
  BY DEF RequestsReadBack
<1> DEFINE m == Parse(Send(r.session, r.counter, Encode(r)))
           item == Decode(m.payload)
           code == [general |-> 0, protocol |-> r.id, code |-> r.endpoint]
           report == Parse(Send(r.session, r.counter, EncodeStatusReport(code, r.exchange)))
<1>1. r \in Requests
  BY DEF MessageInv
<1>2. PICK x : SentAs(r, x) /\ RequestFound(r, x)
  BY <1>1, RequestSent
<1>3. /\ m.aad = Send(r.session, r.counter, <<>>)
      /\ m.header.session = r.session /\ m.header.counter = r.counter
      /\ m.protocol.exchange = RequestExchange(r)
      /\ Initiator(m.protocol.flags) <=> RequestFlags(r) = 5
      /\ item = x
  BY <1>1, <1>2, SentItem
<1>4. ReadStatusReport(report.payload) = code
  <2>1. /\ r.session \in Fitting(2) /\ r.counter \in Fitting(4) /\ r.exchange \in Fitting(2)
        /\ r.endpoint \in Fitting(2) /\ r.id \in Fitting(4) /\ 0 \in Fitting(2)
    BY <1>1, RequestParts, FittingGrows, ZeroFits
  <2>2. /\ code.general = 0 /\ code.protocol = r.id /\ code.code = r.endpoint
        /\ code = [general |-> code.general, protocol |-> code.protocol, code |-> code.code]
    OBVIOUS
  <2>3. report = Parse(Send(r.session, r.counter, EncodeStatusReport(code, r.exchange)))
    OBVIOUS
  <2> HIDE DEF code, report
  <2> QED BY <2>1, <2>2, <2>3, ReportReadsBack
<1>5. Initiator(m.protocol.flags) = (r.kind # "status" \/ r.timed)
  <2>1. Initiator(m.protocol.flags) \in BOOLEAN
    BY DEF Initiator, Bit
  <2>2. RequestFlags(r) = 5 <=> (r.kind # "status" \/ r.timed)
    BY DEF RequestFlags
  <2> HIDE DEF m
  <2> QED BY <1>3, <2>1, <2>2
<1>6. m.protocol.exchange = IF r.kind \in {"read", "subscribe"} THEN 0 ELSE r.exchange
  BY <1>3 DEF RequestExchange
<1>7. /\ r.kind = "invoke" =>
           /\ GetItemRec(x, <<2,0,0,0>>).int = r.endpoint /\ GetItemRec(x, <<2,0,0,1>>).int = r.cluster
           /\ GetItemRec(x, <<2,0,0,2>>).int = r.id
           /\ GetItemRec(x, <<1>>).int = IF r.timed THEN 1 ELSE 0
           /\ GetItemRec(x, <<2,0,1>>).list = [i \in 1 .. Len(r.fields) |-> FieldItem(r.fields[i])]
      /\ r.kind = "read" =>
           /\ GetItemRec(x, <<0,0,2>>).int = r.endpoint /\ GetItemRec(x, <<0,0,3>>).int = r.cluster
           /\ GetItemRec(x, <<0,0,4>>).int = r.id
      /\ r.kind = "subscribe" =>
           /\ GetItemRec(x, <<4,0,1>>).int = r.endpoint /\ GetItemRec(x, <<4,0,2>>).int = r.cluster
           /\ GetItemRec(x, <<4,0,3>>).int = r.id
      /\ r.kind = "timed" => GetItemRec(x, <<0>>).int = r.id
      /\ r.kind # "status" => Found(GetItemRec(x, <<255>>))
  BY <1>2 DEF RequestFound, NumbersFound, Get1, Get3, Get4
<1> DEFINE number(path) == GetItemRec(item, path).int
           path == CASE r.kind = "invoke" -> <<number(<<2,0,0,0>>), number(<<2,0,0,1>>), number(<<2,0,0,2>>)>>
                     [] r.kind = "read" -> <<number(<<0,0,2>>), number(<<0,0,3>>), number(<<0,0,4>>)>>
                     [] r.kind = "subscribe" -> <<number(<<4,0,1>>), number(<<4,0,2>>), number(<<4,0,3>>)>>
                     [] OTHER -> <<r.endpoint, r.cluster, r.id>>
<1> HIDE DEF item
<1>8. path = <<r.endpoint, r.cluster, r.id>>
  <2>1. CASE r.kind = "invoke"
    BY <1>3, <1>7, <2>1
  <2>2. CASE r.kind = "read"
    BY <1>3, <1>7, <2>2
  <2>3. CASE r.kind = "subscribe"
    BY <1>3, <1>7, <2>3
  <2>4. CASE r.kind \notin {"invoke", "read", "subscribe"}
    BY <2>4
  <2> QED BY <2>1, <2>2, <2>3, <2>4
<1>9. /\ r.kind = "timed" => number(<<0>>) = r.id
      /\ r.kind = "invoke" =>
           /\ number(<<1>>) = IF r.timed THEN 1 ELSE 0
           /\ GetItemRec(item, <<2, 0, 1>>).list = [i \in 1 .. Len(r.fields) |-> FieldItem(r.fields[i])]
      /\ r.kind # "status" => Found(GetItemRec(item, <<255>>))
  BY <1>3, <1>7, Zenon
<1> QED BY <1>3, <1>4, <1>5, <1>6, <1>8, <1>9, Zenon DEF item, m, report, code, path, number

(* For every base and set of requests, whatever path, fields and flags:    *)
(* what Send writes a device reads back, at the places of the interaction  *)
(* model, and the additional data of the encryption is the header.         *)
THEOREM RequestsTheorem == MessageSpec => []RequestsReadBack
<1>1. MessageInit => MessageInv
  BY DEF MessageInit, MessageInv
<1>2. MessageInv /\ [MessageNext]_messageVars => MessageInv'
  BY DEF MessageInv, MessageNext, SendRequest, TakeAnswer, messageVars
<1> QED BY <1>1, <1>2, RequestReadsBack, PTL DEF MessageSpec

-----------------------------------------------------------------------------
(* Certificates: names *)

(* An item of a name that a reader can take for an attribute *)
Readable(x) == x.tag \in {DnTag[t] : t \in DOMAIN DnTag} /\ x.int \in Nat

(* The item an attribute that can be converted is written as *)
AttributeItem(a) == IntItem(DnTag[a.type], a.text)

(* The items l stand for the first k attributes of a name *)
NameItems(name, k, l) ==
    /\ IsSeq(l) /\ \A i \in 1 .. Len(l) : Readable(l[i])
    /\ (\A i \in 1 .. k : name[i].type \in DOMAIN DnTag /\ name[i].text # NotHex)
         => l = [i \in 1 .. k |-> AttributeItem(name[i])]

LEMMA DnTags ==
    /\ DOMAIN DnTag = {"node", "rcac", "fabric"}
    /\ DnTag["node"] = 17 /\ DnTag["rcac"] = 20 /\ DnTag["fabric"] = 21
BY DEF DnTag

(* What one attribute is written as *)
LEMMA AttributeReads ==
    ASSUME NEW a, a.text \in Fitting(8) \cup {NotHex}
    PROVE  \E l : /\ Lists(AttributeBytes(a), l)
                  /\ IsSeq(l) /\ \A i \in 1 .. Len(l) : Readable(l[i])
                  /\ a.type \in DOMAIN DnTag /\ a.text # NotHex => l = <<AttributeItem(a)>>
<1>1. CASE a.type \in DOMAIN DnTag
  <2> DEFINE tag == DnTag[a.type]
             v == caConvertDNValue(a.text)
             x == IntItem(tag, v)
  <2>1. v \in Fitting(8) /\ v \in Nat
    <3>1. 0 \in Fitting(8) /\ Fitting(8) \subseteq Nat
      BY ZeroFits DEF Fitting
    <3> QED BY <3>1 DEF caConvertDNValue
  <2>2. tag \in Nat /\ tag \in {DnTag[t] : t \in DOMAIN DnTag}
    BY <1>1, DnTags
  <2>3. AttributeBytes(a) = EncUInt(tag, 7, v)
    BY <1>1 DEF AttributeBytes
  <2>4. a.text # NotHex => x = AttributeItem(a)
    BY DEF AttributeItem, caConvertDNValue
  <2> HIDE DEF tag, v
  <2>5. x.tag = tag /\ x.int = v
    BY ItemParts
  <2>6. Lists(EncUInt(tag, 7, v), <<x>>)
    <3>1. 7 \in TYPE_UINT /\ v \in Fitting(Width(7))
      BY <2>1, Widths DEF TYPE_UINT
    <3> QED BY <2>2, <3>1, ListsNumber
  <2> HIDE DEF x
  <2>7. IsSeq(<<x>>) /\ \A i \in 1 .. Len(<<x>>) : Readable(<<x>>[i])
    BY <2>1, <2>2, <2>5, OneIsSeq DEF Readable
  <2> QED BY <2>3, <2>4, <2>6, <2>7
<1>2. CASE a.type \notin DOMAIN DnTag
  <2>1. AttributeBytes(a) = <<>>
    BY <1>2 DEF AttributeBytes
  <2>2. IsSeq(<<>>) /\ \A i \in 1 .. Len(<<>>) : Readable(<<>>[i])
    BY DEF IsSeq
  <2> QED BY <1>2, <2>1, <2>2, ListsNothing
<1> QED BY <1>1, <1>2

LEMMA ReadableJoin ==
    ASSUME NEW l, IsSeq(l), \A i \in 1 .. Len(l) : Readable(l[i]),
           NEW m, IsSeq(m), \A i \in 1 .. Len(m) : Readable(m[i])
    PROVE  IsSeq(l \o m) /\ \A i \in 1 .. Len(l \o m) : Readable((l \o m)[i])
<1>1. /\ IsSeq(l \o m) /\ Len(l \o m) = Len(l) + Len(m)
      /\ \A i \in 1 .. Len(l \o m) : (l \o m)[i] = IF i <= Len(l) THEN l[i] ELSE m[i - Len(l)]
  BY JoinedItems
<1>2. Len(l) \in Nat /\ Len(m) \in Nat
  BY DEF IsSeq
<1>3. ASSUME NEW i \in 1 .. Len(l \o m) PROVE Readable((l \o m)[i])
  <2>1. CASE i <= Len(l)
    BY <1>1, <1>2, <2>1
  <2>2. CASE i > Len(l)
    <3> DEFINE j == i - Len(l)
    <3>1. j \in 1 .. Len(m) /\ ~(i <= Len(l))
      BY <1>1, <1>2, <2>2
    <3>2. (l \o m)[i] = m[j]
      BY <1>1, <3>1
    <3> HIDE DEF j
    <3> QED BY <3>1, <3>2
  <2> QED BY <1>2, <2>1, <2>2
<1> QED BY <1>1, <1>3

(* A sequence of one kind is its elements *)
LEMMA Elements ==
    ASSUME NEW S, NEW s \in Seq(S)
    PROVE  Len(s) \in Nat /\ DOMAIN s = 1 .. Len(s) /\ s = [i \in 1 .. Len(s) |-> s[i]]
           /\ \A i \in 1 .. Len(s) : s[i] \in S
OBVIOUS

LEMMA NameReads ==
    ASSUME NEW name \in Names
    PROVE  \E l : Lists(caConvertDN(name), l) /\ NameItems(name, Len(name), l)
<1> DEFINE n == Len(name)
           s == [i \in 1 .. n |-> AttributeBytes(name[i])]
<1>1. n \in Nat /\ Len(s) = n /\ \A i \in 1 .. n : s[i] = AttributeBytes(name[i])
  BY DEF Names
<1>t. \A i \in 1 .. n : name[i].text \in Fitting(8) \cup {NotHex}
  <2>1. \A i \in 1 .. n : name[i] \in [type : STRING, text : Fitting(8) \cup {NotHex}]
    BY Elements DEF Names
  <2> QED BY <2>1
<1>2. caConvertDN(name) = Joined(s)
  BY DEF caConvertDN
<1> HIDE DEF n, s
<1>3. PICK g : g[0] = <<>> /\ (\A i \in 1 .. n : g[i] = g[i - 1] \o s[i]) /\ Joined(s) = g[n]
  BY <1>1, JoinedTable
<1> DEFINE Good(k) == \E l : Lists(g[k], l) /\ NameItems(name, k, l)
           S == {k \in Nat : k <= n => Good(k)}
<1>4. 0 \in S
  <2>1. NameItems(name, 0, <<>>)
    <3>1. [i \in 1 .. 0 |-> AttributeItem(name[i])] = <<>>
      OBVIOUS
    <3>2. IsSeq(<<>>) /\ \A i \in 1 .. Len(<<>>) : Readable(<<>>[i])
      BY DEF IsSeq
    <3> QED BY <3>1, <3>2 DEF NameItems
  <2>2. Good(0)
    BY <1>3, <2>1, ListsNothing
  <2> HIDE DEF Good
  <2> QED BY <2>2
<1>5. ASSUME NEW k \in S PROVE k + 1 \in S
  <2> DEFINE j == k + 1
  <2> SUFFICES ASSUME j <= n PROVE Good(j)
    OBVIOUS
  <2>1. k \in Nat /\ j \in 1 .. n /\ j - 1 = k /\ j \in Nat
    BY <1>1
  <2>g. Good(k)
    <3> HIDE DEF Good
    <3> QED BY <1>1, <2>1
  <2>2. PICK l : Lists(g[k], l) /\ NameItems(name, k, l)
    BY <2>g
  <2>3. name[j].text \in Fitting(8) \cup {NotHex} /\ s[j] = AttributeBytes(name[j]) /\ g[j] = g[k] \o s[j]
    BY <1>1, <1>3, <1>t, <2>1
  <2>4. PICK m : /\ Lists(AttributeBytes(name[j]), m)
                 /\ IsSeq(m) /\ \A i \in 1 .. Len(m) : Readable(m[i])
                 /\ name[j].type \in DOMAIN DnTag /\ name[j].text # NotHex => m = <<AttributeItem(name[j])>>
    BY <2>3, AttributeReads
  <2>5. Lists(g[j], l \o m)
    BY <2>2, <2>3, <2>4, ListsJoin
  <2>6. NameItems(name, j, l \o m)
    <3>1. IsSeq(l \o m) /\ \A i \in 1 .. Len(l \o m) : Readable((l \o m)[i])
      BY <2>2, <2>4, ReadableJoin DEF NameItems
    <3>2. ASSUME \A i \in 1 .. j : name[i].type \in DOMAIN DnTag /\ name[i].text # NotHex
          PROVE  l \o m = [i \in 1 .. j |-> AttributeItem(name[i])]
      <4>1. l = [i \in 1 .. k |-> AttributeItem(name[i])]
        <5>1. \A i \in 1 .. k : i \in 1 .. j
          BY <2>1
        <5> QED BY <3>2, <5>1, <2>2 DEF NameItems
      <4>2. m = <<AttributeItem(name[j])>>
        <5>1. j \in 1 .. j
          BY <2>1
        <5> QED BY <3>2, <5>1, <2>4
      <4> DEFINE all == [i \in 1 .. n |-> AttributeItem(name[i])]
      <4>3. [i \in 1 .. k |-> all[i]] \o <<all[k + 1]>> = [i \in 1 .. k + 1 |-> all[i]]
        BY <2>1, SequenceGrows
      <4>4. [i \in 1 .. k |-> all[i]] = l
        <5>1. \A i \in 1 .. k : all[i] = AttributeItem(name[i])
          BY <1>1, <2>1
        <5> HIDE DEF all
        <5> QED BY <4>1, <5>1
      <4>5. all[k + 1] = AttributeItem(name[j])
        BY <1>1, <2>1
      <4>6. [i \in 1 .. k + 1 |-> all[i]] = [i \in 1 .. j |-> AttributeItem(name[i])]
        <5>1. \A i \in 1 .. j : all[i] = AttributeItem(name[i])
          BY <1>1, <2>1
        <5> HIDE DEF all
        <5> QED BY <5>1
      <4> HIDE DEF all, j
      <4> QED BY <4>2, <4>3, <4>4, <4>5, <4>6
    <3> QED BY <3>1, <3>2 DEF NameItems
  <2> HIDE DEF j
  <2> QED BY <2>5, <2>6
<1>6. S = Nat
  <2> HIDE DEF S
  <2>1. S \subseteq Nat
    BY DEF S
  <2> QED BY <1>4, <1>5, <2>1, Induction
<1>7. Good(n)
  <2> HIDE DEF Good
  <2>1. n \in S
    <3> HIDE DEF S
    <3> QED BY <1>1, <1>6
  <2> QED BY <2>1
<1> QED BY <1>2, <1>3, <1>7 DEF n

(* A reader restores the name exactly when all of it could be converted *)
LEMMA NameRestored ==
    ASSUME NEW name \in Names, NEW l, NameItems(name, Len(name), l), NEW t
    PROVE  DnOf(ListItem(t, l)) = name <=> Convertible(name)
<1> DEFINE n == Len(name)
           Type(x) == CHOOSE u \in DOMAIN DnTag : DnTag[u] = x.tag
           read == [i \in DOMAIN l |-> [type |-> Type(l[i]), text |-> l[i].int]]
<1>1. /\ n \in Nat /\ DOMAIN name = 1 .. n /\ name = [i \in 1 .. n |-> name[i]]
      /\ \A i \in 1 .. n : name[i] \in [type : STRING, text : Fitting(8) \cup {NotHex}]
  BY Elements DEF Names
<1>2. DnOf(ListItem(t, l)) = read
  <2>1. ListItem(t, l).list = l
    BY ItemParts
  <2> HIDE DEF n
  <2> QED BY <2>1 DEF DnOf
<1>3. IsSeq(l) /\ DOMAIN l = 1 .. Len(l) /\ \A i \in 1 .. Len(l) : Readable(l[i])
  BY DEF NameItems, IsSeq
<1>4. ASSUME read = name PROVE Convertible(name)
  <2>1. ASSUME NEW i \in DOMAIN name PROVE name[i].type \in DOMAIN DnTag /\ name[i].text # NotHex
    <3>1. i \in DOMAIN l /\ Readable(l[i])
      BY <1>3, <1>4, <2>1
    <3>2. name[i] = [type |-> Type(l[i]), text |-> l[i].int]
      BY <1>4, <3>1
    <3>3. \E u \in DOMAIN DnTag : DnTag[u] = l[i].tag
      BY <3>1 DEF Readable
    <3>4. Type(l[i]) \in DOMAIN DnTag
      BY <3>3
    <3> HIDE DEF Type
    <3>5. name[i].type = Type(l[i]) /\ name[i].text = l[i].int
      BY <3>2
    <3>6. l[i].int # NotHex
      BY <3>1 DEF Readable, NotHex
    <3> QED BY <3>4, <3>5, <3>6
  <2> QED BY <2>1 DEF Convertible
<1>5. ASSUME Convertible(name) PROVE read = name
  <2>1. \A i \in 1 .. n : name[i].type \in DOMAIN DnTag /\ name[i].text # NotHex
    BY <1>1, <1>5 DEF Convertible
  <2>2. l = [i \in 1 .. n |-> AttributeItem(name[i])]
    BY <2>1 DEF NameItems
  <2>3. DOMAIN l = 1 .. n /\ \A i \in 1 .. n : l[i] = AttributeItem(name[i])
    BY <2>2
  <2>4. ASSUME NEW i \in 1 .. n PROVE [type |-> Type(l[i]), text |-> l[i].int] = name[i]
    <3>1. l[i].tag = DnTag[name[i].type] /\ l[i].int = name[i].text
      BY <2>3, ItemParts DEF AttributeItem
    <3>2. name[i] = [type |-> name[i].type, text |-> name[i].text]
      BY <1>1
    <3>3. \A u \in DOMAIN DnTag : DnTag[u] = l[i].tag => u = name[i].type
      <4>1. name[i].type \in {"node", "rcac", "fabric"}
        BY <2>1, DnTags
      <4> QED BY <3>1, <4>1, DnTags
    <3>4. Type(l[i]) = name[i].type
      BY <2>1, <3>1, <3>3
    <3> HIDE DEF Type
    <3> QED BY <3>1, <3>2, <3>4
  <2> HIDE DEF Type
  <2> QED BY <1>1, <2>3, <2>4
<1> QED BY <1>2, <1>4, <1>5

-----------------------------------------------------------------------------
(* Certificates: numbers *)

(* What is left of a number of any size is a number of the field *)
LEMMA RemainderFits ==
    ASSUME NEW n \in Nat, NEW v \in Int
    PROVE  v % Power[n] \in Fitting(n) /\ (v % Power[n] = v <=> v \in Fitting(n))
<1> DEFINE p == Power[n]
<1>1. p \in Nat \ {0}
  BY PowerFacts
<1>2. v \in Fitting(n) => v % p = v
  BY FittingRemainder
<1>3. Fitting(n) = 0 .. p - 1
  BY DEF Fitting
<1> HIDE DEF p
<1>4. v % p \in 0 .. p - 1
  BY <1>1
<1> QED BY <1>2, <1>3, <1>4 DEF p

(* A date counted from Epoch in four bytes *)
LEMMA DateRestored ==
    ASSUME NEW v \in Int
    PROVE  ((v - Epoch) % Power[4]) + Epoch = v <=> v \in Epoch .. Epoch + Power[4] - 1
<1> DEFINE p == Power[4]
           d == v - Epoch
<1>1. Epoch \in Nat /\ p \in Nat \ {0}
  BY CredentialAssumption, PowerFacts
<1>2. d \in Int /\ (d % p = d <=> d \in 0 .. p - 1) /\ d % p \in Int
  <2>1. d \in Int
    BY <1>1
  <2> HIDE DEF d
  <2> QED BY <2>1, RemainderFits DEF Fitting
<1> DEFINE m == d % p
<1>3. m + Epoch = v <=> m = d
  <2>1. m \in Int
    BY <1>2
  <2> HIDE DEF m
  <2> QED BY <2>1, <1>1
<1> HIDE DEF p
<1>4. d \in 0 .. p - 1 <=> v \in Epoch .. Epoch + p - 1
  BY <1>1
<1> QED BY <1>2, <1>3, <1>4 DEF p

(* ... also when the date is cut to four bytes first *)
LEMMA LateDateRestored ==
    ASSUME NEW v \in Int
    PROVE  (((v % Power[4]) - Epoch) % Power[4]) + Epoch = v <=> v \in Epoch .. Epoch + Power[4] - 1
<1> DEFINE p == Power[4]
           u == v % p
           d == u - Epoch
           m == d % p
<1>1. Epoch \in 0 .. p - 1 /\ p \in Nat \ {0}
  BY CredentialAssumption, PowerFacts
<1>2. u \in 0 .. p - 1 /\ d \in Int
  <2>1. u \in 0 .. p - 1
    BY RemainderFits DEF Fitting
  <2> HIDE DEF u
  <2> QED BY <1>1, <2>1
<1>3. m \in 0 .. p - 1
  <2> HIDE DEF d
  <2> QED BY <1>2, RemainderFits DEF Fitting
<1>4. ASSUME m + Epoch = v PROVE v \in Epoch .. Epoch + p - 1
  <2> HIDE DEF m, p
  <2> QED BY <1>1, <1>3, <1>4
<1>5. ASSUME v \in Epoch .. Epoch + p - 1 PROVE m + Epoch = v
  <2>1. CASE v < p
    <3>1. v \in Fitting(4)
      BY <2>1, <1>1, <1>5 DEF Fitting
    <3>2. u = v
      BY <3>1, FittingRemainder
    <3> HIDE DEF u
    <3>3. d \in Fitting(4)
      <4>1. v \in 0 .. p - 1 /\ v >= Epoch
        BY <1>1, <1>5, <2>1
      <4> HIDE DEF p
      <4>2. d \in 0 .. p - 1
        BY <1>1, <3>2, <4>1
      <4> QED BY <4>2 DEF Fitting, p
    <3>4. m = d
      <4> HIDE DEF d
      <4> QED BY <3>3, FittingRemainder
    <3> HIDE DEF m
    <3> QED BY <1>1, <3>2, <3>4
  <2>2. CASE v >= p
    <3> DEFINE w == v - p
               x == v - Epoch
    <3>1. w \in 0 .. p - 1 /\ v = w + p * 1 /\ x \in 0 .. p - 1 /\ x \in Int
      <4> HIDE DEF p
      <4> QED BY <1>1, <1>5, <2>2
    <3>2. u = w
      <4> HIDE DEF w, p
      <4>1. (w + p * 1) % p = w
        BY <1>1, <3>1, DivideSum
      <4> QED BY <3>1, <4>1
    <3>3. d = x + p * (-1)
      <4> HIDE DEF u, p
      <4> QED BY <1>1, <3>2
    <3>4. m = x
      <4> HIDE DEF x, p, d
      <4>1. (x + p * (-1)) % p = x
        BY <1>1, <3>1, DivideSum
      <4> QED BY <3>3, <4>1
    <3> HIDE DEF m
    <3> QED BY <1>1, <3>4
  <2> HIDE DEF m, p
  <2> QED BY <1>1, <2>1, <2>2
<1> QED BY <1>4, <1>5 DEF m

-----------------------------------------------------------------------------
(* Certificates: signatures *)

(* A signature is restored exactly when neither scalar lost a byte *)
LEMMA SignatureRestored ==
    ASSUME NEW r \in Seq(Short), Len(r) = Size, NEW s \in Seq(Short), Len(s) = Size, NEW tag
    PROVE  /\ Signature(r, s) \in Seq(Nat) /\ Len(Signature(r, s)) < Power[2]
           /\ SignatureOf(OctetsItem(tag, Signature(r, s))) = <<r, s>> <=> FullLength(r) /\ FullLength(s)
<1> DEFINE a == BigIntBytes(r)
           b == BigIntBytes(s)
           e == a \o b
<1>1. Size \in Nat /\ Size > 0 /\ 2 * Size < Power[2] /\ Power[2] \in Nat
  <2>1. Size \in Nat \ {0} /\ 2 * Size < Power[2]
    BY CredentialAssumption
  <2>2. Power[2] \in Nat
    BY PowerFacts
  <2> QED BY <2>1, <2>2
<1>2. r \in Seq(Nat) /\ s \in Seq(Nat)
  BY ShortFits
<1>3. PICK k : Stripped(r, k)
  BY <1>2, LeadingZeros
<1>4. PICK l : Stripped(s, l)
  BY <1>2, LeadingZeros
<1>5. k \in 0 .. Size /\ l \in 0 .. Size
  BY <1>3, <1>4 DEF Stripped
<1>6. a \in Seq(Nat) /\ Len(a) = Size - k /\ b \in Seq(Nat) /\ Len(b) = Size - l
  BY <1>2, <1>3, <1>4, StrippedBytes
<1>7. (a = r <=> FullLength(r)) /\ (b = s <=> FullLength(s))
  BY <1>1, <1>2, BigIntBytesFull DEF FullLength
<1>8. (k = 0 => a = r) /\ (l = 0 => b = s)
  <2>1. SubSeq(r, 1, Len(r)) = r /\ SubSeq(s, 1, Len(s)) = s
    BY <1>2
  <2>2. a = SubSeq(r, k + 1, Len(r)) /\ b = SubSeq(s, l + 1, Len(s))
    BY <1>3, <1>4 DEF Stripped
  <2> HIDE DEF a, b
  <2>3. ASSUME k = 0 PROVE a = r
    <3>1. a = SubSeq(r, 1, Len(r))
      BY <2>2, <2>3
    <3> QED BY <2>1, <3>1
  <2>4. ASSUME l = 0 PROVE b = s
    <3>1. b = SubSeq(s, 1, Len(s))
      BY <2>2, <2>4
    <3> QED BY <2>1, <3>1
  <2> QED BY <2>3, <2>4
<1>9. Signature(r, s) = e
  BY DEF Signature
<1> HIDE DEF a, b
<1>10. e \in Seq(Nat) /\ Len(e) = Len(a) + Len(b)
  BY <1>6, ConcatLength
<1>11. Len(e) = 2 * Size - k - l /\ Len(e) < Power[2]
  BY <1>1, <1>5, <1>6, <1>10
<1>12. OctetsItem(tag, e).oct = e
  <2> HIDE DEF e
  <2> QED BY ItemParts
<1>13. SignatureOf(OctetsItem(tag, e)) =
         IF Len(e) = 2 * Size THEN <<SubSeq(e, 1, Size), SubSeq(e, Size + 1, 2 * Size)>> ELSE <<>>
  <2> HIDE DEF e
  <2> QED BY <1>12 DEF SignatureOf
<1>14. ASSUME SignatureOf(OctetsItem(tag, e)) = <<r, s>> PROVE FullLength(r) /\ FullLength(s)
  <2> HIDE DEF e
  <2>1. <<>> # <<r, s>>
    OBVIOUS
  <2>2. Len(e) = 2 * Size
    BY <1>13, <1>14, <2>1
  <2>3. k = 0 /\ l = 0
    BY <1>1, <1>5, <1>11, <2>2
  <2> QED BY <1>7, <1>8, <2>3
<1>15. ASSUME FullLength(r), FullLength(s) PROVE SignatureOf(OctetsItem(tag, e)) = <<r, s>>
  <2>1. a = r /\ b = s
    BY <1>7, <1>15
  <2>2. e = r \o s
    BY <2>1
  <2>3. Len(e) = 2 * Size
    <3>1. Len(a) = Size /\ Len(b) = Size
      BY <2>1
    <3> HIDE DEF e
    <3> QED BY <1>1, <1>10, <3>1
  <2> HIDE DEF e
  <2>4. Cuts(e, r, s)
    BY <1>2, <2>2, CutParts
  <2>5. SubSeq(e, 1, Size) = r /\ SubSeq(e, Size + 1, 2 * Size) = s
    BY <2>3, <2>4 DEF Cuts
  <2> QED BY <1>13, <2>3, <2>5
<1> HIDE DEF e
<1> QED BY <1>9, <1>10, <1>11, <1>14, <1>15

-----------------------------------------------------------------------------
(* Certificates: the whole *)

CertificateOk(c) ==
    /\ {c.serial, c.publicKey, c.subjectKeyId, c.caKeyHash} \subseteq OctetStrings
    /\ c.issuer \in Names /\ c.subject \in Names
    /\ c.notBefore \in Int /\ c.notAfter \in Int
    /\ c.isCA \in BOOLEAN /\ c.keyUsage \in Nat /\ c.extKeyUsage \in Seq(Nat)
    /\ {c.r, c.s} \subseteq {s \in Seq(Short) : Len(s) = Size}

LEMMA CertificateParts == \A c \in Certificates : CertificateOk(c)
BY CredentialAssumption, Zenon DEF CertificateOk

LEMMA OctetStringReads ==
    ASSUME NEW tag \in Nat, NEW s \in OctetStrings
    PROVE  Lists(EncOctetString(tag, s), <<OctetsItem(tag, s)>>)
<1>1. s \in Seq(Nat) /\ Len(s) < Power[2]
  BY ShortFits DEF OctetStrings
<1> QED BY <1>1, ListsOctets

(* A number of any size in a field of the given width *)
LEMMA ByteReads ==
    ASSUME NEW tag \in Nat, NEW v \in Int
    PROVE  Lists(UInt8(tag, v), <<IntItem(tag, v % Base)>>)
<1>1. Power[1] = Base
  <2>1. Power[0] = 1 /\ Power[0 + 1] = Base * Power[0] /\ Base \in Nat
    BY PowerFacts, TlvAssumption
  <2> QED BY <2>1
<1>2. 4 \in TYPE_UINT /\ UInt8(tag, v) = EncUInt(tag, 4, v)
  BY DEF UInt8, TYPE_UINT
<1> QED BY <1>1, <1>2, Widths, ListsUInt

LEMMA WordReads ==
    ASSUME NEW tag \in Nat, NEW v \in Int
    PROVE  Lists(UInt32(tag, v), <<IntItem(tag, v % Power[4])>>)
<1>1. 6 \in TYPE_UINT /\ UInt32(tag, v) = EncUInt(tag, 6, v)
  BY DEF UInt32, TYPE_UINT
<1> QED BY <1>1, Widths, ListsUInt

(* What the extended key usage is written as, if there is one *)
UsageBytes(c) ==
    IF c.extKeyUsage = <<>> THEN <<>> ELSE Container(3, tArray, <<4, 2, 4, 1>>)

(* The extended key usage a reader finds behind an item *)
UsageOf(item) == [i \in DOMAIN item.list |-> item.list[i].int]

LEMMA UsageReads ==
    ASSUME NEW c \in Certificates
    PROVE  \E m, u : /\ Lists(UsageBytes(c), m) /\ \A tag \in Nat \ {3} : Lacks(m, tag)
                     /\ (Lacks(m, 3) /\ u = NoItem) \/ Offers(m, 3, u)
                     /\ UsageOf(u) = c.extKeyUsage <=> c.extKeyUsage \in {<<>>, <<2, 1>>}
<1>1. CASE c.extKeyUsage = <<>>
  <2>1. UsageBytes(c) = <<>> /\ Lists(<<>>, <<>>)
    BY <1>1, ListsNothing DEF UsageBytes
  <2>2. \A tag : Lacks(<<>>, tag)
    BY DEF Lacks, IsSeq
  <2>3. UsageOf(NoItem) = <<>>
    BY NoItemParts DEF UsageOf
  <2> QED BY <1>1, <2>1, <2>2, <2>3
<1>2. CASE c.extKeyUsage # <<>>
  <2> DEFINE x == IntItem(0, 2)
             y == IntItem(0, 1)
             l == <<x>> \o <<y>>
             u == ListItem(3, l)
             e == <<4, 2>> \o <<4, 1>>
  <2>1. UsageBytes(c) = Container(3, tArray, e)
    <3>1. e = <<4, 2, 4, 1>>
      <4> DEFINE f == <<4, 2>>
                 g == <<4, 1>>
      <4>1. f \in Seq(Nat) /\ g \in Seq(Nat) /\ Len(f) = 2 /\ Len(g) = 2
        OBVIOUS
      <4>2. f[1] = 4 /\ f[2] = 2 /\ g[1] = 4 /\ g[2] = 1
        OBVIOUS
      <4> HIDE DEF f, g
      <4> DEFINE fg == f \o g
      <4>3. /\ fg \in Seq(Nat) /\ Len(fg) = Len(f) + Len(g)
            /\ \A i \in 1 .. Len(f) : fg[i] = f[i]
            /\ \A i \in Len(f) + 1 .. Len(f) + Len(g) : fg[i] = g[i - Len(f)]
            /\ fg = [i \in 1 .. Len(f) + Len(g) |-> fg[i]]
        <5>1. fg \in Seq(Nat) /\ Len(fg) = Len(f) + Len(g)
          BY <4>1, ConcatLength
        <5>2. /\ \A i \in 1 .. Len(f) : fg[i] = f[i]
              /\ \A i \in Len(f) + 1 .. Len(f) + Len(g) : fg[i] = g[i - Len(f)]
              /\ fg = [i \in 1 .. Len(f) + Len(g) |-> fg[i]]
          BY <4>1, ConcatElement
        <5> QED BY <5>1, <5>2
      <4> HIDE DEF fg
      <4>4. /\ Len(fg) = 4
            /\ 1 \in 1 .. Len(f) /\ 2 \in 1 .. Len(f)
            /\ 3 \in Len(f) + 1 .. Len(f) + Len(g) /\ 3 - Len(f) = 1
            /\ 4 \in Len(f) + 1 .. Len(f) + Len(g) /\ 4 - Len(f) = 2
        BY <4>1, <4>3
      <4>5. fg[1] = 4 /\ fg[2] = 2 /\ fg[3] = 4 /\ fg[4] = 1
        BY <4>2, <4>3, <4>4
      <4>6. fg = <<4, 2, 4, 1>>
        <5>1. fg = [i \in 1 .. 4 |-> fg[i]]
          BY <4>1, <4>3
        <5>2. \A i \in 1 .. 4 : fg[i] = <<4, 2, 4, 1>>[i]
          BY <4>5
        <5>3. <<4, 2, 4, 1>> = [i \in 1 .. 4 |-> <<4, 2, 4, 1>>[i]]
          OBVIOUS
        <5> QED BY <5>1, <5>2, <5>3
      <4> QED BY <4>6 DEF fg, f, g
    <3> HIDE DEF e
    <3> QED BY <1>2, <3>1 DEF UsageBytes
  <2>2. x.int = 2 /\ y.int = 1
    BY ItemParts
  <2>3. Lists(<<4, 2>>, <<x>>) /\ Lists(<<4, 1>>, <<y>>)
    BY ListsAnonByte
  <2> HIDE DEF x, y
  <2>4. Lists(e, l)
    BY <2>3, ListsJoin
  <2>5. Len(l) = 2 /\ l[1] = x /\ l[2] = y /\ DOMAIN l = 1 .. 2
    <3> DEFINE f == <<x>>
               g == <<y>>
    <3>1. IsSeq(f) /\ IsSeq(g) /\ Len(f) = 1 /\ Len(g) = 1 /\ f[1] = x /\ g[1] = y
      BY OneIsSeq
    <3> HIDE DEF f, g
    <3> DEFINE fg == f \o g
    <3>2. /\ IsSeq(fg) /\ Len(fg) = Len(f) + Len(g)
          /\ \A i \in 1 .. Len(f) : fg[i] = f[i]
          /\ \A i \in Len(f) + 1 .. Len(f) + Len(g) : fg[i] = g[i - Len(f)]
      BY <3>1, JoinedItems
    <3> HIDE DEF fg
    <3>3. Len(fg) = 2 /\ 1 \in 1 .. Len(f) /\ 2 \in Len(f) + 1 .. Len(f) + Len(g) /\ 2 - Len(f) = 1
      BY <3>1, <3>2
    <3>4. fg[1] = x /\ fg[2] = y
      BY <3>1, <3>2, <3>3
    <3>5. DOMAIN fg = 1 .. 2
      <4>1. DOMAIN fg = 1 .. Len(fg)
        BY <3>2 DEF IsSeq
      <4> QED BY <3>3, <4>1
    <3> QED BY <3>3, <3>4, <3>5 DEF fg, f, g
  <2> HIDE DEF e, l
  <2>6. Lists(Container(3, tArray, e), <<u>>)
    <3>1. tArray \in Containers /\ 3 \in Nat
      BY DEF Containers
    <3> QED BY <2>4, <3>1, ListsContainer
  <2>7. u.tag = 3 /\ u.list = l
    BY ItemParts
  <2> HIDE DEF u
  <2>8. Offers(<<u>>, 3, u) /\ \A tag \in Nat \ {3} : Lacks(<<u>>, tag)
    BY <2>7, OffersOne, LacksOne
  <2>9. UsageOf(u) = <<2, 1>>
    <3>1. UsageOf(u) = [i \in DOMAIN l |-> l[i].int]
      BY <2>7 DEF UsageOf
    <3> QED BY <2>2, <2>5, <3>1
  <2> QED BY <1>2, <2>1, <2>6, <2>8, <2>9
<1> QED BY <1>1, <1>2

(* The extensions: five items, one of them optional *)
ExtensionBytes(c) ==
    Container(1, tStruct, EncBool(1, c.isCA)) \o UInt8(2, c.keyUsage)
    \o UsageBytes(c) \o EncOctetString(4, c.subjectKeyId) \o EncOctetString(5, c.caKeyHash)

LEMMA ExtensionReads ==
    ASSUME NEW c \in Certificates
    PROVE  \E l : /\ Lists(ExtensionBytes(c), l)
                  /\ LET x == ListItem(10, l) IN
                     /\ Child(Child(x, 1), 1) = BoolItem(1, c.isCA)
                     /\ Child(x, 2) = IntItem(2, c.keyUsage % Base)
                     /\ UsageOf(Child(x, 3)) = c.extKeyUsage <=> c.extKeyUsage \in {<<>>, <<2, 1>>}
                     /\ Child(x, 4) = OctetsItem(4, c.subjectKeyId)
                     /\ Child(x, 5) = OctetsItem(5, c.caKeyHash)
<1> DEFINE a == BoolItem(1, c.isCA)
           b == ListItem(1, <<a>>)
           k == IntItem(2, c.keyUsage % Base)
           s == OctetsItem(4, c.subjectKeyId)
           h == OctetsItem(5, c.caKeyHash)
           be == Container(1, tStruct, EncBool(1, c.isCA))
           ke == UInt8(2, c.keyUsage)
           ue == UsageBytes(c)
           se == EncOctetString(4, c.subjectKeyId)
           he == EncOctetString(5, c.caKeyHash)
<1>1. /\ c.isCA \in BOOLEAN /\ c.keyUsage \in Int
      /\ c.subjectKeyId \in OctetStrings /\ c.caKeyHash \in OctetStrings
  BY CertificateParts DEF CertificateOk
<1>2. PICK m, u : /\ Lists(ue, m) /\ \A tag \in Nat \ {3} : Lacks(m, tag)
                  /\ (Lacks(m, 3) /\ u = NoItem) \/ Offers(m, 3, u)
                  /\ UsageOf(u) = c.extKeyUsage <=> c.extKeyUsage \in {<<>>, <<2, 1>>}
  BY UsageReads
<1>3. ExtensionBytes(c) = (((be \o ke) \o ue) \o se) \o he
  BY DEF ExtensionBytes
<1>4. Lists(be, <<b>>)
  <2>1. Lists(EncBool(1, c.isCA), <<a>>) /\ tStruct \in Containers /\ 1 \in Nat
    BY <1>1, ListsBool DEF Containers
  <2> QED BY <2>1, ListsContainer
<1>5. Lists(ke, <<k>>) /\ Lists(se, <<s>>) /\ Lists(he, <<h>>)
  BY <1>1, ByteReads, OctetStringReads
<1>6. a.tag = 1 /\ b.tag = 1 /\ k.tag = 2 /\ s.tag = 4 /\ h.tag = 5
  BY ItemParts
<1>7. Child(b, 1) = a
  BY <1>6, LonelyChild
<1> HIDE DEF a, b, k, s, h, be, ke, ue, se, he
<1> DEFINE bk == <<b>> \o <<k>>
           bkm == bk \o m
           bkms == bkm \o <<s>>
           l == bkms \o <<h>>
<1>8. Lists((((be \o ke) \o ue) \o se) \o he, l)
  BY <1>2, <1>4, <1>5, ListsJoin
<1>9. IsSeq(bk) /\ IsSeq(m) /\ IsSeq(bkm) /\ IsSeq(bkms) /\ IsSeq(<<s>>) /\ IsSeq(<<h>>)
  <2>1. Lists(be \o ke, bk) /\ Lists((be \o ke) \o ue, bkm) /\ Lists(((be \o ke) \o ue) \o se, bkms)
    BY <1>2, <1>4, <1>5, ListsJoin
  <2> HIDE DEF bk, bkm, bkms
  <2> QED BY <1>2, <2>1, OneIsSeq DEF Lists
<1>10. Offers(l, 1, b) /\ Offers(l, 2, k)
  <2>1. Offers(bk, 1, b) /\ Offers(bk, 2, k)
    <3>1. Offers(bk, b.tag, b)
      BY OneIsSeq, OffersFirst
    <3>2. Offers(bk, k.tag, k)
      BY <1>6, LacksOne, OffersLast
    <3> QED BY <1>6, <3>1, <3>2
  <2> HIDE DEF bk
  <2>2. Offers(bkm, 1, b) /\ Offers(bkm, 2, k)
    BY <1>9, <2>1, OffersFront
  <2> HIDE DEF bkm
  <2>3. Offers(bkms, 1, b) /\ Offers(bkms, 2, k)
    BY <1>9, <2>2, OffersFront
  <2> HIDE DEF bkms
  <2> QED BY <1>9, <2>3, OffersFront
<1>11. \A tag \in {3, 4, 5} : Lacks(bk, tag)
  BY <1>6, LacksTwo
<1> HIDE DEF bk
<1>12. Offers(m, 3, u) => Offers(l, 3, u)
  <2> SUFFICES ASSUME Offers(m, 3, u) PROVE Offers(l, 3, u)
    OBVIOUS
  <2>1. Offers(bkm, 3, u)
    BY <1>11, OffersBehind
  <2> HIDE DEF bkm
  <2>2. Offers(bkms, 3, u)
    BY <1>9, <2>1, OffersFront
  <2> HIDE DEF bkms
  <2> QED BY <1>9, <2>2, OffersFront
<1>13. Lacks(m, 3) => Lacks(l, 3)
  <2>1. Lacks(<<s>>, 3) /\ Lacks(<<h>>, 3)
    BY <1>6, LacksOne
  <2> SUFFICES ASSUME Lacks(m, 3) PROVE Lacks(l, 3)
    OBVIOUS
  <2>2. Lacks(bkm, 3)
    BY <1>11, LacksJoin
  <2> HIDE DEF bkm
  <2>3. Lacks(bkms, 3)
    BY <2>1, <2>2, LacksJoin
  <2> HIDE DEF bkms
  <2> QED BY <2>1, <2>3, LacksJoin
<1>14. Offers(l, 4, s) /\ Offers(l, 5, h)
  <2>1. Lacks(m, 4) /\ Lacks(m, 5)
    BY <1>2
  <2>2. Lacks(bkm, 4) /\ Lacks(bkm, 5)
    BY <1>11, <2>1, LacksJoin
  <2> HIDE DEF bkm
  <2>3. Offers(<<s>>, 4, s) /\ Lacks(<<s>>, 5) /\ Offers(<<h>>, 5, h)
    BY <1>6, LacksOne, OffersOne
  <2>4. Offers(bkms, 4, s) /\ Lacks(bkms, 5)
    BY <2>2, <2>3, LacksJoin, OffersBehind
  <2> HIDE DEF bkms
  <2> QED BY <1>9, <2>3, <2>4, OffersFront, OffersBehind
<1> HIDE DEF l
<1> DEFINE x == ListItem(10, l)
<1>15. Child(x, 1) = b /\ Child(x, 2) = k /\ Child(x, 4) = s /\ Child(x, 5) = h
  BY <1>10, <1>14, OffersChild
<1>16. Child(x, 3) = u
  <2>1. CASE Lacks(m, 3) /\ u = NoItem
    BY <1>13, <2>1, LacksChild
  <2>2. CASE Offers(m, 3, u)
    BY <1>12, <2>2, OffersChild
  <2> QED BY <1>2, <2>1, <2>2
<1> HIDE DEF x
<1> QED BY <1>2, <1>3, <1>7, <1>8, <1>15, <1>16 DEF x, a, k, s, h

(* Eleven elements one behind the other *)
Run(e) == e[1] \o e[2] \o e[3] \o e[4] \o e[5] \o e[6] \o e[7] \o e[8] \o e[9] \o e[10] \o e[11]

LEMMA ListsAppend ==
    ASSUME NEW k \in Nat, NEW n, n = k + 1, NEW x, NEW e, NEW f,
           Lists(e, [i \in 1 .. k |-> x[i]]), Lists(f, <<x[n]>>)
    PROVE  Lists(e \o f, [i \in 1 .. n |-> x[i]])
<1>1. [i \in 1 .. k |-> x[i]] \o <<x[k + 1]>> = [i \in 1 .. k + 1 |-> x[i]]
  BY SequenceGrows
<1>2. Lists(e \o f, [i \in 1 .. k |-> x[i]] \o <<x[n]>>)
  BY ListsJoin
<1> QED BY <1>1, <1>2

LEMMA ListsRun ==
    ASSUME NEW x, NEW e, \A i \in 1 .. 11 : Lists(e[i], <<x[i]>>)
    PROVE  Lists(Run(e), [i \in 1 .. 11 |-> x[i]])
<1> DEFINE Upto(f, n) == Lists(f, [i \in 1 .. n |-> x[i]])
<1>0. /\ Lists(e[2], <<x[2]>>) /\ Lists(e[3], <<x[3]>>) /\ Lists(e[4], <<x[4]>>)
      /\ Lists(e[5], <<x[5]>>) /\ Lists(e[6], <<x[6]>>) /\ Lists(e[7], <<x[7]>>)
      /\ Lists(e[8], <<x[8]>>) /\ Lists(e[9], <<x[9]>>) /\ Lists(e[10], <<x[10]>>)
      /\ Lists(e[11], <<x[11]>>)
  OBVIOUS
<1>1. Upto(e[1], 1)
  <2>1. [i \in 1 .. 1 |-> x[i]] = <<x[1]>>
    OBVIOUS
  <2> QED BY <2>1
<1>s. ASSUME NEW k \in Nat, NEW n, n = k + 1, NEW f, Upto(f, k), Lists(e[n], <<x[n]>>) PROVE Upto(f \o e[n], n)
  BY <1>s, ListsAppend
<1> HIDE DEF Upto
<1> DEFINE e2 == e[1] \o e[2]
           e3 == e2 \o e[3]
           e4 == e3 \o e[4]
           e5 == e4 \o e[5]
           e6 == e5 \o e[6]
           e7 == e6 \o e[7]
           e8 == e7 \o e[8]
           e9 == e8 \o e[9]
           e10 == e9 \o e[10]
           e11 == e10 \o e[11]
<1>2. Upto(e2, 2)
  <2>1. 2 = 1 + 1 /\ 1 \in Nat
    OBVIOUS
  <2> QED BY <1>0, <1>1, <1>s, <2>1
<1> HIDE DEF e2
<1>3. Upto(e3, 3)
  <2>1. 3 = 2 + 1 /\ 2 \in Nat
    OBVIOUS
  <2> QED BY <1>0, <1>2, <1>s, <2>1
<1> HIDE DEF e3
<1>4. Upto(e4, 4)
  <2>1. 4 = 3 + 1 /\ 3 \in Nat
    OBVIOUS
  <2> QED BY <1>0, <1>3, <1>s, <2>1
<1> HIDE DEF e4
<1>5. Upto(e5, 5)
  <2>1. 5 = 4 + 1 /\ 4 \in Nat
    OBVIOUS
  <2> QED BY <1>0, <1>4, <1>s, <2>1
<1> HIDE DEF e5
<1>6. Upto(e6, 6)
  <2>1. 6 = 5 + 1 /\ 5 \in Nat
    OBVIOUS
  <2> QED BY <1>0, <1>5, <1>s, <2>1
<1> HIDE DEF e6
<1>7. Upto(e7, 7)
  <2>1. 7 = 6 + 1 /\ 6 \in Nat
    OBVIOUS
  <2> QED BY <1>0, <1>6, <1>s, <2>1
<1> HIDE DEF e7
<1>8. Upto(e8, 8)
  <2>1. 8 = 7 + 1 /\ 7 \in Nat
    OBVIOUS
  <2> QED BY <1>0, <1>7, <1>s, <2>1
<1> HIDE DEF e8
<1>9. Upto(e9, 9)
  <2>1. 9 = 8 + 1 /\ 8 \in Nat
    OBVIOUS
  <2> QED BY <1>0, <1>8, <1>s, <2>1
<1> HIDE DEF e9
<1>10. Upto(e10, 10)
  <2>1. 10 = 9 + 1 /\ 9 \in Nat
    OBVIOUS
  <2> QED BY <1>0, <1>9, <1>s, <2>1
<1> HIDE DEF e10
<1>11. Upto(e11, 11)
  <2>1. 11 = 10 + 1 /\ 10 \in Nat
    OBVIOUS
  <2> QED BY <1>0, <1>10, <1>s, <2>1
<1>12. Run(e) = e11
  BY DEF Run, e2, e3, e4, e5, e6, e7, e8, e9, e10
<1> HIDE DEF e11
<1> QED BY <1>11, <1>12 DEF Upto

(* Items whose tags count them are found at their tags *)
LEMMA NumberedChild ==
    ASSUME NEW l, IsSeq(l), \A i \in 1 .. Len(l) : l[i].tag = i, NEW t, NEW k \in 1 .. Len(l)
    PROVE  Child(ListItem(t, l), k) = l[k]
<1>1. Leads(l, k, k)
  BY DEF Leads
<1> QED BY <1>1, ChildFound

(* The items of a certificate *)
LEMMA CertificateItems ==
    ASSUME NEW c \in Certificates
    PROVE  \E y, i, s, l :
             /\ Decode(SerializeCertificateIntoMatter(c)) = y
             /\ NameItems(c.issuer, Len(c.issuer), i) /\ NameItems(c.subject, Len(c.subject), s)
             /\ Child(y, 1) = OctetsItem(1, c.serial)
             /\ Child(y, 3) = ListItem(3, i) /\ Child(y, 6) = ListItem(6, s)
             /\ Child(y, 4) = IntItem(4, (c.notBefore - Epoch) % Power[4])
             /\ Child(y, 5) = IntItem(5, ((c.notAfter % Power[4]) - Epoch) % Power[4])
             /\ Child(y, 9) = OctetsItem(9, c.publicKey)
             /\ Child(y, 10) = ListItem(10, l)
             /\ Child(y, 11) = OctetsItem(11, Signature(c.r, c.s))
             /\ LET x == ListItem(10, l) IN
                /\ Child(Child(x, 1), 1) = BoolItem(1, c.isCA)
                /\ Child(x, 2) = IntItem(2, c.keyUsage % Base)
                /\ UsageOf(Child(x, 3)) = c.extKeyUsage <=> c.extKeyUsage \in {<<>>, <<2, 1>>}
                /\ Child(x, 4) = OctetsItem(4, c.subjectKeyId)
                /\ Child(x, 5) = OctetsItem(5, c.caKeyHash)
<1>1. /\ c.serial \in OctetStrings /\ c.publicKey \in OctetStrings
      /\ c.issuer \in Names /\ c.subject \in Names /\ c.notBefore \in Int /\ c.notAfter \in Int
      /\ c.r \in Seq(Short) /\ Len(c.r) = Size /\ c.s \in Seq(Short) /\ Len(c.s) = Size
  BY CertificateParts DEF CertificateOk
<1>2. PICK i : Lists(caConvertDN(c.issuer), i) /\ NameItems(c.issuer, Len(c.issuer), i)
  BY <1>1, NameReads
<1>3. PICK s : Lists(caConvertDN(c.subject), s) /\ NameItems(c.subject, Len(c.subject), s)
  BY <1>1, NameReads
<1>4. PICK l :
        /\ Lists(ExtensionBytes(c), l)
        /\ LET x == ListItem(10, l) IN
           /\ Child(Child(x, 1), 1) = BoolItem(1, c.isCA)
           /\ Child(x, 2) = IntItem(2, c.keyUsage % Base)
           /\ UsageOf(Child(x, 3)) = c.extKeyUsage <=> c.extKeyUsage \in {<<>>, <<2, 1>>}
           /\ Child(x, 4) = OctetsItem(4, c.subjectKeyId)
           /\ Child(x, 5) = OctetsItem(5, c.caKeyHash)
  BY ExtensionReads
<1> DEFINE from == c.notBefore - Epoch
           until == (c.notAfter % Power[4]) - Epoch
           sig == Signature(c.r, c.s)
           e1 == EncOctetString(1, c.serial)
           e2 == UInt8(2, 1)
           e3 == Container(3, tList, caConvertDN(c.issuer))
           e4 == UInt32(4, from)
           e5 == UInt32(5, until)
           e6 == Container(6, tList, caConvertDN(c.subject))
           e7 == UInt8(7, 1)
           e8 == UInt8(8, 1)
           e9 == EncOctetString(9, c.publicKey)
           e10 == Container(10, tList, ExtensionBytes(c))
           e11 == EncOctetString(11, sig)
           x1 == OctetsItem(1, c.serial)
           x2 == IntItem(2, 1 % Base)
           x3 == ListItem(3, i)
           x4 == IntItem(4, from % Power[4])
           x5 == IntItem(5, until % Power[4])
           x6 == ListItem(6, s)
           x7 == IntItem(7, 1 % Base)
           x8 == IntItem(8, 1 % Base)
           x9 == OctetsItem(9, c.publicKey)
           x10 == ListItem(10, l)
           x11 == OctetsItem(11, sig)
           e == <<e1, e2, e3, e4, e5, e6, e7, e8, e9, e10, e11>>
           x == <<x1, x2, x3, x4, x5, x6, x7, x8, x9, x10, x11>>
<1>5. from \in Int /\ until \in Int /\ 1 \in Int
  <2>1. Epoch \in Int /\ Power[4] \in Nat \ {0}
    BY CredentialAssumption, PowerFacts
  <2>2. c.notAfter % Power[4] \in Int
    <3>1. Fitting(4) \subseteq Int
      BY DEF Fitting
    <3>2. c.notAfter % Power[4] \in Fitting(4)
      BY <1>1, RemainderFits
    <3> QED BY <3>1, <3>2
  <2> QED BY <1>1, <2>1, <2>2
<1>6. sig \in Seq(Nat) /\ Len(sig) < Power[2]
  BY <1>1, SignatureRestored
<1>7. SerializeCertificateIntoMatter(c) =
        AnonStruct(e1 \o e2 \o e3 \o e4 \o e5 \o e6 \o e7 \o e8 \o e9 \o e10 \o e11)
  BY DEF SerializeCertificateIntoMatter, ExtensionBytes, UsageBytes
<1>8. /\ x1.tag = 1 /\ x2.tag = 2 /\ x3.tag = 3 /\ x4.tag = 4 /\ x5.tag = 5 /\ x6.tag = 6
      /\ x7.tag = 7 /\ x8.tag = 8 /\ x9.tag = 9 /\ x10.tag = 10 /\ x11.tag = 11
  <2> HIDE DEF from, until, sig
  <2> QED BY ItemParts
<1> HIDE DEF from, until, sig
<1>9. /\ Lists(e1, <<x1>>) /\ Lists(e9, <<x9>>)
  BY <1>1, OctetStringReads
<1>10. Lists(e2, <<x2>>) /\ Lists(e7, <<x7>>) /\ Lists(e8, <<x8>>)
  BY <1>5, ByteReads
<1>11. Lists(e4, <<x4>>) /\ Lists(e5, <<x5>>)
  BY <1>5, WordReads
<1>12. Lists(e11, <<x11>>)
  BY <1>6, ListsOctets
<1>13. Lists(e3, <<x3>>) /\ Lists(e6, <<x6>>) /\ Lists(e10, <<x10>>)
  <2>1. tList \in Containers /\ 3 \in Nat /\ 6 \in Nat /\ 10 \in Nat
    BY DEF Containers
  <2> QED BY <1>2, <1>3, <1>4, <2>1, ListsContainer
<1> HIDE DEF e1, e2, e3, e4, e5, e6, e7, e8, e9, e10, e11, x1, x2, x3, x4, x5, x6, x7, x8, x9, x10, x11
<1>14. /\ e[1] = e1 /\ e[2] = e2 /\ e[3] = e3 /\ e[4] = e4 /\ e[5] = e5 /\ e[6] = e6
       /\ e[7] = e7 /\ e[8] = e8 /\ e[9] = e9 /\ e[10] = e10 /\ e[11] = e11
  OBVIOUS
<1>15. /\ x[1] = x1 /\ x[2] = x2 /\ x[3] = x3 /\ x[4] = x4 /\ x[5] = x5 /\ x[6] = x6
       /\ x[7] = x7 /\ x[8] = x8 /\ x[9] = x9 /\ x[10] = x10 /\ x[11] = x11
  OBVIOUS
<1> HIDE DEF e, x
<1>16. \A k \in 1 .. 11 : Lists(e[k], <<x[k]>>) /\ x[k].tag = k
  <2>1. ASSUME NEW k \in 1 .. 11 PROVE Lists(e[k], <<x[k]>>) /\ x[k].tag = k
    <3>1. \/ k = 1 \/ k = 2 \/ k = 3 \/ k = 4 \/ k = 5 \/ k = 6
          \/ k = 7 \/ k = 8 \/ k = 9 \/ k = 10 \/ k = 11
      OBVIOUS
    <3> QED BY <3>1, <1>8, <1>9, <1>10, <1>11, <1>12, <1>13, <1>14, <1>15
  <2> QED BY <2>1
<1> DEFINE list == [k \in 1 .. 11 |-> x[k]]
           y == ListItem(0, list)
<1>17. Lists(Run(e), list)
  BY <1>16, ListsRun
<1>18. SerializeCertificateIntoMatter(c) = AnonStruct(Run(e))
  BY <1>7, <1>14 DEF Run
<1>19. \A k \in 1 .. 11 : Child(y, k) = x[k]
  <2>1. IsSeq(list)
    BY <1>17 DEF Lists
  <2>2. Len(list) = 11 /\ \A k \in 1 .. 11 : list[k] = x[k]
    OBVIOUS
  <2> HIDE DEF list
  <2>3. \A k \in 1 .. Len(list) : list[k].tag = k
    BY <1>16, <2>2
  <2>4. ASSUME NEW k \in 1 .. Len(list) PROVE Child(ListItem(0, list), k) = list[k]
    BY <2>1, <2>3, NumberedChild
  <2>5. \A k \in 1 .. 11 : Child(ListItem(0, list), k) = list[k]
    BY <2>2, <2>4
  <2> QED BY <2>2, <2>5
<1> HIDE DEF list
<1>20. Decode(SerializeCertificateIntoMatter(c)) = y
  <2>1. Lists(AnonStruct(Run(e)), <<y>>)
    BY <1>17, ListsStruct
  <2> HIDE DEF y
  <2> QED BY <1>18, <2>1, DecodeOne
<1> HIDE DEF y
<1>21. /\ Child(y, 1) = x1 /\ Child(y, 3) = x3 /\ Child(y, 4) = x4 /\ Child(y, 5) = x5
       /\ Child(y, 6) = x6 /\ Child(y, 9) = x9 /\ Child(y, 10) = x10 /\ Child(y, 11) = x11
  <2>1. /\ 1 \in 1 .. 11 /\ 3 \in 1 .. 11 /\ 4 \in 1 .. 11 /\ 5 \in 1 .. 11
        /\ 6 \in 1 .. 11 /\ 9 \in 1 .. 11 /\ 10 \in 1 .. 11 /\ 11 \in 1 .. 11
    OBVIOUS
  <2> QED BY <1>15, <1>19, <2>1
<1> QED
  BY <1>2, <1>3, <1>4, <1>20, <1>21 DEF x1, x3, x4, x5, x6, x9, x10, x11, from, until, sig

(* Records of a certificate are equal when their fields are *)
CertificateRecord(sn, is, su, nb, na, pk, ca, ku, eu, sk, ak, sg) ==
    [serial |-> sn, issuer |-> is, subject |-> su, notBefore |-> nb, notAfter |-> na,
     publicKey |-> pk, isCA |-> ca, keyUsage |-> ku, extKeyUsage |-> eu,
     subjectKeyId |-> sk, caKeyHash |-> ak, signature |-> sg]

LEMMA CertificateFields ==
    ASSUME NEW sn, NEW is, NEW su, NEW nb, NEW na, NEW pk, NEW ca, NEW ku, NEW eu, NEW sk, NEW ak,
           NEW sg, NEW sn2, NEW is2, NEW su2, NEW nb2, NEW na2, NEW pk2, NEW ca2, NEW ku2, NEW eu2,
           NEW sk2, NEW ak2, NEW sg2
    PROVE  CertificateRecord(sn, is, su, nb, na, pk, ca, ku, eu, sk, ak, sg)
             = CertificateRecord(sn2, is2, su2, nb2, na2, pk2, ca2, ku2, eu2, sk2, ak2, sg2)
           <=> /\ sn = sn2 /\ is = is2 /\ su = su2 /\ nb = nb2 /\ na = na2 /\ pk = pk2
               /\ ca = ca2 /\ ku = ku2 /\ eu = eu2 /\ sk = sk2 /\ ak = ak2 /\ sg = sg2
BY DEF CertificateRecord

(* The conditions under which a certificate is restored *)
Restorable(c) ==
    /\ FullLength(c.r) /\ FullLength(c.s)
    /\ {c.notBefore, c.notAfter} \subseteq Epoch .. Epoch + Power[4] - 1
    /\ c.keyUsage < Base /\ c.extKeyUsage \in {<<>>, <<2, 1>>}
    /\ Convertible(c.issuer) /\ Convertible(c.subject)

LEMMA CertificateRestored ==
    ASSUME NEW c \in Certificates
    PROVE  ReadCertificate(Decode(SerializeCertificateIntoMatter(c))) = Issued(c) <=> Restorable(c)
<1>1. /\ c.issuer \in Names /\ c.subject \in Names /\ c.notBefore \in Int /\ c.notAfter \in Int
      /\ c.r \in Seq(Short) /\ Len(c.r) = Size /\ c.s \in Seq(Short) /\ Len(c.s) = Size
      /\ c.isCA \in BOOLEAN /\ c.keyUsage \in Nat
  BY CertificateParts DEF CertificateOk
<1>2. PICK y, i, s, l :
             /\ Decode(SerializeCertificateIntoMatter(c)) = y
             /\ NameItems(c.issuer, Len(c.issuer), i) /\ NameItems(c.subject, Len(c.subject), s)
             /\ Child(y, 1) = OctetsItem(1, c.serial)
             /\ Child(y, 3) = ListItem(3, i) /\ Child(y, 6) = ListItem(6, s)
             /\ Child(y, 4) = IntItem(4, (c.notBefore - Epoch) % Power[4])
             /\ Child(y, 5) = IntItem(5, ((c.notAfter % Power[4]) - Epoch) % Power[4])
             /\ Child(y, 9) = OctetsItem(9, c.publicKey)
             /\ Child(y, 10) = ListItem(10, l)
             /\ Child(y, 11) = OctetsItem(11, Signature(c.r, c.s))
             /\ LET x == ListItem(10, l) IN
                /\ Child(Child(x, 1), 1) = BoolItem(1, c.isCA)
                /\ Child(x, 2) = IntItem(2, c.keyUsage % Base)
                /\ UsageOf(Child(x, 3)) = c.extKeyUsage <=> c.extKeyUsage \in {<<>>, <<2, 1>>}
                /\ Child(x, 4) = OctetsItem(4, c.subjectKeyId)
                /\ Child(x, 5) = OctetsItem(5, c.caKeyHash)
  BY CertificateItems
<1> DEFINE x == ListItem(10, l)
           is == DnOf(ListItem(3, i))
           su == DnOf(ListItem(6, s))
           nb == ((c.notBefore - Epoch) % Power[4]) + Epoch
           na == (((c.notAfter % Power[4]) - Epoch) % Power[4]) + Epoch
           ca == BoolItem(1, c.isCA).int = 1
           ku == c.keyUsage % Base
           eu == UsageOf(Child(x, 3))
           sg == SignatureOf(OctetsItem(11, Signature(c.r, c.s)))
<1>3. /\ GetItemRec(y, <<1>>) = OctetsItem(1, c.serial)
      /\ GetItemRec(y, <<3>>) = ListItem(3, i) /\ GetItemRec(y, <<6>>) = ListItem(6, s)
      /\ GetItemRec(y, <<4>>) = IntItem(4, (c.notBefore - Epoch) % Power[4])
      /\ GetItemRec(y, <<5>>) = IntItem(5, ((c.notAfter % Power[4]) - Epoch) % Power[4])
      /\ GetItemRec(y, <<9>>) = OctetsItem(9, c.publicKey)
      /\ GetItemRec(y, <<11>>) = OctetsItem(11, Signature(c.r, c.s))
  BY <1>2, Walk1
<1>4. /\ GetItemRec(y, <<10, 1, 1>>) = BoolItem(1, c.isCA)
      /\ GetItemRec(y, <<10, 2>>) = IntItem(2, c.keyUsage % Base)
      /\ GetItemRec(y, <<10, 3>>) = Child(x, 3)
      /\ GetItemRec(y, <<10, 4>>) = OctetsItem(4, c.subjectKeyId)
      /\ GetItemRec(y, <<10, 5>>) = OctetsItem(5, c.caKeyHash)
  BY <1>2, Walk2, Walk3
<1>5. ReadCertificate(y) =
        CertificateRecord(c.serial, is, su, nb, na, c.publicKey, ca, ku, eu, c.subjectKeyId,
                          c.caKeyHash, sg)
  <2> DEFINE R(sn, a, b, d, e, pk, f, g, h, sk, ak, k) ==
               CertificateRecord(sn, a, b, d, e, pk, f, g, h, sk, ak, k)
             at(path) == GetItemRec(y, path)
  <2>1. ReadCertificate(y) =
          CertificateRecord(at(<<1>>).oct, DnOf(at(<<3>>)), DnOf(at(<<6>>)), at(<<4>>).int + Epoch,
            at(<<5>>).int + Epoch, at(<<9>>).oct, at(<<10, 1, 1>>).int = 1, at(<<10, 2>>).int,
            UsageOf(at(<<10, 3>>)), at(<<10, 4>>).oct, at(<<10, 5>>).oct, SignatureOf(at(<<11>>)))
    BY DEF ReadCertificate, CertificateRecord, UsageOf
  <2>2. /\ at(<<1>>).oct = c.serial /\ at(<<9>>).oct = c.publicKey
        /\ at(<<4>>).int = (c.notBefore - Epoch) % Power[4]
        /\ at(<<5>>).int = ((c.notAfter % Power[4]) - Epoch) % Power[4]
        /\ at(<<10, 2>>).int = c.keyUsage % Base
        /\ at(<<10, 4>>).oct = c.subjectKeyId /\ at(<<10, 5>>).oct = c.caKeyHash
    BY <1>3, <1>4, ItemParts
  <2> QED BY <1>3, <1>4, <2>1, <2>2
<1>6. Issued(c) =
        CertificateRecord(c.serial, c.issuer, c.subject, c.notBefore, c.notAfter, c.publicKey, c.isCA,
                          c.keyUsage, c.extKeyUsage, c.subjectKeyId, c.caKeyHash, <<c.r, c.s>>)
  BY DEF Issued, CertificateRecord
<1>7. (is = c.issuer <=> Convertible(c.issuer)) /\ (su = c.subject <=> Convertible(c.subject))
  BY <1>1, <1>2, NameRestored
<1>8. /\ nb = c.notBefore <=> c.notBefore \in Epoch .. Epoch + Power[4] - 1
      /\ na = c.notAfter <=> c.notAfter \in Epoch .. Epoch + Power[4] - 1
  BY <1>1, DateRestored, LateDateRestored
<1>9. ca = c.isCA
  <2>1. BoolItem(1, c.isCA).int = IF c.isCA THEN 1 ELSE 0
    BY ItemParts
  <2>2. CASE c.isCA
    BY <2>1, <2>2
  <2>3. CASE ~c.isCA
    <3>1. c.isCA = FALSE
      BY <1>1, <2>3
    <3>2. BoolItem(1, c.isCA).int = 0
      BY <2>1, <2>3
    <3>3. BoolItem(1, c.isCA).int # 1
      BY <3>2
    <3> QED BY <3>1, <3>3, Zenon
  <2> QED BY <2>2, <2>3
<1>10. ku = c.keyUsage <=> c.keyUsage < Base
  <2>1. Power[1] = Base
    <3>1. Power[0] = 1 /\ Power[0 + 1] = Base * Power[0] /\ Base \in Nat
      BY PowerFacts, TlvAssumption
    <3> QED BY <3>1
  <2>2. c.keyUsage % Power[1] = c.keyUsage <=> c.keyUsage \in Fitting(1)
    BY <1>1, RemainderFits
  <2>3. c.keyUsage \in Fitting(1) <=> c.keyUsage < Base
    BY <1>1, <2>1, TlvAssumption DEF Fitting
  <2> QED BY <2>1, <2>2, <2>3
<1>11. eu = c.extKeyUsage <=> c.extKeyUsage \in {<<>>, <<2, 1>>}
  BY <1>2
<1>12. sg = <<c.r, c.s>> <=> FullLength(c.r) /\ FullLength(c.s)
  BY <1>1, SignatureRestored
<1> HIDE DEF x, is, su, nb, na, ca, ku, eu, sg
<1>13. ReadCertificate(y) = Issued(c)
         <=> /\ is = c.issuer /\ su = c.subject /\ nb = c.notBefore /\ na = c.notAfter
             /\ ca = c.isCA /\ ku = c.keyUsage /\ eu = c.extKeyUsage /\ sg = <<c.r, c.s>>
  BY <1>5, <1>6, CertificateFields
<1> QED BY <1>2, <1>7, <1>8, <1>9, <1>10, <1>11, <1>12, <1>13 DEF Restorable

(* Sigma3 carries a signature of the same form *)
LEMMA Sigma3Restored ==
    ASSUME NEW c \in Certificates
    PROVE  SignatureOf(GetItemRec(Decode(Sigma3(c.publicKey, c.r, c.s)), <<3>>)) = <<c.r, c.s>>
             <=> FullLength(c.r) /\ FullLength(c.s)
<1> DEFINE sig == Signature(c.r, c.s)
           a == OctetsItem(1, c.publicKey)
           b == OctetsItem(3, sig)
           l == <<a>> \o <<b>>
           y == ListItem(0, l)
           e == EncOctetString(1, c.publicKey) \o EncOctetString(3, sig)
<1>1. /\ c.publicKey \in OctetStrings
      /\ c.r \in Seq(Short) /\ Len(c.r) = Size /\ c.s \in Seq(Short) /\ Len(c.s) = Size
  BY CertificateParts DEF CertificateOk
<1>2. /\ sig \in Seq(Nat) /\ Len(sig) < Power[2]
      /\ SignatureOf(b) = <<c.r, c.s>> <=> FullLength(c.r) /\ FullLength(c.s)
  BY <1>1, SignatureRestored
<1>3. Sigma3(c.publicKey, c.r, c.s) = AnonStruct(e)
  BY DEF Sigma3
<1> HIDE DEF sig
<1>4. Lists(EncOctetString(1, c.publicKey), <<a>>) /\ Lists(EncOctetString(3, sig), <<b>>)
  BY <1>1, <1>2, OctetStringReads, ListsOctets
<1>5. a.tag = 1 /\ b.tag = 3
  BY ItemParts
<1> HIDE DEF a, b
<1>6. Lists(e, l)
  BY <1>4, ListsJoin
<1>7. Offers(l, 3, b)
  BY <1>5, LacksOne, OffersLast
<1> HIDE DEF e, l
<1>8. Lists(AnonStruct(e), <<y>>)
  BY <1>6, ListsStruct
<1>9. Child(y, 3) = b
  BY <1>7, OffersChild
<1> HIDE DEF y
<1>10. GetItemRec(Decode(Sigma3(c.publicKey, c.r, c.s)), <<3>>) = b
  BY <1>3, <1>8, <1>9, DecodeOne, Walk1
<1> QED BY <1>2, <1>10

CertificateInv == certificate \subseteq Certificates

LEMMA CertificateInvReads == CertificateInv => CertificateReadsBack
<1> SUFFICES ASSUME CertificateInv, NEW c \in certificate
             PROVE  /\ ReadCertificate(Decode(SerializeCertificateIntoMatter(c))) = Issued(c) <=>
                         /\ FullLength(c.r) /\ FullLength(c.s)
                         /\ {c.notBefore, c.notAfter} \subseteq Epoch .. Epoch + Power[4] - 1
                         /\ c.keyUsage < Base /\ c.extKeyUsage \in {<<>>, <<2, 1>>}
                         /\ Convertible(c.issuer) /\ Convertible(c.subject)
                    /\ LET s3 == Decode(Sigma3(c.publicKey, c.r, c.s))
                       IN  SignatureOf(GetItemRec(s3, <<3>>)) = <<c.r, c.s>>
                             <=> FullLength(c.r) /\ FullLength(c.s)
  BY DEF CertificateReadsBack
<1>1. c \in Certificates
  BY DEF CertificateInv
<1> QED BY <1>1, CertificateRestored, Sigma3Restored DEF Restorable

(* For every set of certificates and every base: a device restores what    *)
(* was signed exactly when dates, key usage and names are such that the    *)
(* conversion has room for them and neither scalar of the signature lost a *)
(* leading zero byte; and likewise the signature of Sigma3.                *)
THEOREM CertificateTheorem == CredentialSpec => []CertificateReadsBack
<1>1. CredentialInit => CertificateInv
  BY DEF CredentialInit, CertificateInv
<1>2. CertificateInv /\ [CredentialNext]_credentialVars => CertificateInv'
  BY DEF CertificateInv, CredentialNext, SerializeCertificate, HashTranscript, credentialVars
<1> QED BY <1>1, <1>2, CertificateInvReads, PTL DEF CredentialSpec
=============================================================================
