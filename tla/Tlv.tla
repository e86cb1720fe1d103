--------------------------------- MODULE Tlv ---------------------------------
(***************************************************************************)
(* Matter TLV in gomat: the writer (mattertlv/tlvenc.go) as a state        *)
(* machine over its buffer, the decoder (mattertlv/tlvdec.go) as an        *)
(* operator on byte sequences.                                             *)
(*                                                                         *)
(* A byte is a number below Base, 256 in the code; only control octets,    *)
(* which pack a tag form and an element type, keep their real values.  A   *)
(* smaller Base brings the limits of the length fields within reach.       *)
(***************************************************************************)
EXTENDS Digits, SequencesExt

CONSTANTS
    Base,      \* values of a byte
    Tags,      \* tags the writer is called with
    Ints,      \* integers it is called with
    Octets,    \* octet strings it is called with, short enough for the long form
    MaxItems,  \* bound: elements written
    MaxDepth   \* bound: containers open at once

VARIABLES
    data,   \* TLVBuffer.data
    open    \* the containers being written, innermost last, with what they hold

tlvVars == <<data, open>>

(* How many numbers n bytes can hold *)
Power == Powers(Base)

ASSUME TlvAssumption ==
    /\ Base \in Nat \ {0, 1}
    /\ Tags \subseteq 0 .. Base - 1
    /\ Ints \subseteq Nat
    /\ \A s \in Octets : s \in Seq(0 .. Base - 1) /\ Len(s) < Power[2]
    /\ MaxItems \in Nat /\ MaxDepth \in Nat \ {0}

-----------------------------------------------------------------------------
(* Bytes *)

(* binary.Write(..., LittleEndian, v) of an n-byte integer truncates *)
LittleEndian(n, v) == DigitsOf(v, Base, n)

(* ... and binary.Read *)
Number(s) == ValueOf(s, Base)

(* The first octet of an element: anonymous, or with a one-byte tag *)
Control(tagctrl, tp) == tagctrl * 32 + tp
Header(tag, tp) == <<Control(1, tp), tag>>

(* Element types; the integers of 1, 2, 4 and 8 bytes are 4 to 7 *)
TYPE_UINT == 4 .. 7
Width(tp) == <<1, 2, 4, 8>>[(tp % 4) + 1]
tFalse == 8
tTrue == 9
tUtf8 == 12
tOctets1 == 16
tOctets2 == 17
tNull == 20
tStruct == 21
tArray == 22
tList == 23
tEnd == 24
Containers == {tStruct, tArray, tList}

-----------------------------------------------------------------------------
(* What decode makes of an element *)

Item(tag, type, int, oct, list) ==
    [tag |-> tag, type |-> type, int |-> int, oct |-> oct, list |-> list]

IntItem(tag, v) == Item(tag, "int", v, <<>>, <<>>)
BoolItem(tag, b) == Item(tag, "bool", IF b THEN 1 ELSE 0, <<>>, <<>>)
OctetsItem(tag, s) == Item(tag, "octets", 0, s, <<>>)
ListItem(tag, l) == Item(tag, "list", 0, <<>>, l)

NoItem == Item(0, "none", 0, <<>>, <<>>)

-----------------------------------------------------------------------------
(* The writer *)

(* WriteUInt, and WriteUInt8 ... WriteUInt64 *)
EncUInt(tag, tp, v) == Header(tag, tp) \o LittleEndian(Width(tp), v)

EncBool(tag, b) == Header(tag, IF b THEN tTrue ELSE tFalse)

(* Mutant of EncOctetString: the short form is used one byte too long *)
EncOctetStringShort(tag, s) ==
    (IF Len(s) > Base
     THEN Header(tag, tOctets2) \o LittleEndian(2, Len(s))
     ELSE Header(tag, tOctets1) \o LittleEndian(1, Len(s))) \o s

(* WriteOctetString: the long form's length is cut to two bytes *)
EncOctetString(tag, s) ==
    (IF Len(s) > Base - 1
     THEN Header(tag, tOctets2) \o LittleEndian(2, Len(s))
     ELSE Header(tag, tOctets1) \o LittleEndian(1, Len(s))) \o s

Items(l) == FoldLeft(LAMBDA n, c : n + Len(c.list) + 1, 0, l)

(* Append an element, in bytes and as the item it stands for *)
Put(bytes, item) ==
    /\ Len(open) > 1
    /\ Items(open) < MaxItems
    /\ data' = data \o bytes
    /\ open' = [open EXCEPT ![Len(open)].list = Append(@, item)]

WriteUInt(tag, tp, v) == Put(EncUInt(tag, tp, v), IntItem(tag, v % Power[Width(tp)]))
WriteBool(tag, b) == Put(EncBool(tag, b), BoolItem(tag, b))
WriteOctetString(tag, s) == Put(EncOctetString(tag, s), OctetsItem(tag, s))

(* WriteAnonStruct, WriteAnonList, WriteStruct, WriteArray, WriteList *)
Open(bytes, tag) ==
    /\ Len(open) <= MaxDepth
    /\ Len(open) > 1 \/ open[1].list = <<>>
    /\ Items(open) < MaxItems
    /\ data' = data \o bytes
    /\ open' = Append(open, ListItem(tag, <<>>))

WriteAnon(tp) == Open(<<tp>>, 0)
WriteContainer(tag, tp) == Open(Header(tag, tp), tag)

WriteStructEnd ==
    /\ Len(open) > 1
    /\ data' = Append(data, tEnd)
    /\ open' = [Front(open) EXCEPT ![Len(open) - 1].list = Append(@, Last(open))]

TlvInit == data = <<>> /\ open = <<ListItem(0, <<>>)>>

TlvNext ==
    \/ \E t \in Tags : \/ \E tp \in TYPE_UINT, v \in Ints : WriteUInt(t, tp, v)
                       \/ \E b \in BOOLEAN : WriteBool(t, b)
                       \/ \E s \in Octets : WriteOctetString(t, s)
                       \/ \E tp \in Containers : WriteContainer(t, tp)
    \/ \E tp \in Containers \ {tArray} : WriteAnon(tp)
    \/ WriteStructEnd

TlvSpec == TlvInit /\ [][TlvNext]_tlvVars

-----------------------------------------------------------------------------
(* The decoder *)

(* n bytes of b from p on, as far as there are any; binary.Read leaves the *)
(* value 0 when they are too few, buf.Read leaves zeros behind.            *)
Bytes(b, p, n) == SubSeq(b, p, p + n - 1)
ReadNumber(b, p, n) == IF p + n - 1 <= Len(b) THEN Number(Bytes(b, p, n)) ELSE 0
Min2(x, y) == IF x < y THEN x ELSE y
ReadOctets(b, p, n) ==
    [i \in 1 .. n |-> IF p + i - 1 <= Len(b) THEN b[p + i - 1] ELSE 0]

(* Result of decode: the items up to the end of the container, and where   *)
(* it stopped, which is nowhere when it panicked.                          *)
Nowhere == 0
Failed == [items |-> <<>>, next |-> Nowhere]
Parsed(items, p) == [items |-> items, next |-> p]
Before(item, rest) == [items |-> <<item>> \o rest.items, next |-> rest.next]

(* Elements of one byte of content, by readByte, which panics at the end *)
OneByte == {0, 4}
(* Signed integers of several bytes are read into a value, not a pointer:  *)
(* the bytes are skipped and the value stays 0.                            *)
Signed == 1 .. 3

(* `decode` is what decode makes of every later position: the item, and    *)
(* what follows it from position p on                                      *)
Then(b, item, p, decode) == Before(item, decode[Min2(p, Len(b) + 1)])

ThenOctets(b, tag, size, p, decode) ==
    Then(b, OctetsItem(tag, ReadOctets(b, p, size)), p + size, decode)

(* The element of type tp whose content begins at position q *)
DecodeContent(b, tp, tag, q, decode) ==
    CASE tp \in OneByte /\ q <= Len(b) -> Then(b, IntItem(tag, b[q]), q + 1, decode)
      [] tp \in Signed -> Then(b, IntItem(tag, 0), q + Width(tp), decode)
      [] tp \in 5 .. 7 ->
           Then(b, IntItem(tag, ReadNumber(b, q, Width(tp))), q + Width(tp), decode)
      [] tp = tFalse -> Then(b, BoolItem(tag, FALSE), q, decode)
      [] tp = tTrue -> Then(b, BoolItem(tag, TRUE), q, decode)
      [] tp \in {tUtf8, tOctets1} /\ q <= Len(b) -> ThenOctets(b, tag, b[q], q + 1, decode)
      [] tp = tOctets2 -> ThenOctets(b, tag, ReadNumber(b, q, 2), q + 2, decode)
      [] tp = tNull -> Then(b, Item(tag, "null", 0, <<>>, <<>>), q, decode)
      [] tp \in Containers /\ decode[q].next # Nowhere ->
           Before(ListItem(tag, decode[q].items), decode[decode[q].next])
      [] OTHER -> Failed

(* decode from position p to the end of the container or of the buffer *)
DecodeFrom(b, p, decode) ==
    LET tp == b[p] % 32
        tagged == b[p] \div 32 = 1
        q == IF tagged THEN p + 2 ELSE p + 1   \* after the tag
    IN IF p = Len(b) + 1 THEN Parsed(<<>>, p)
       ELSE IF tp = tEnd THEN Parsed(<<>>, p + 1)
       ELSE IF q > Len(b) + 1 THEN Failed
       ELSE DecodeContent(b, tp, IF tagged THEN b[p + 1] ELSE 0, q, decode)

(* What decode makes of every position of b *)
Decoded(b) ==
    LET decode[p \in 1 .. Len(b) + 1] == DecodeFrom(b, p, decode) IN decode

(* Decode returns the first item; without one the index panics *)
Decode(b) ==
    LET r == Decoded(b)[1] IN
    IF r.next # Nowhere /\ r.items # <<>> THEN r.items[1] ELSE NoItem

-----------------------------------------------------------------------------
(* Properties *)

Written == Len(open) = 1 /\ open[1].list # <<>>

(* What a complete sequence of writer calls wrote, Decode reads back:      *)
(* every tag, value, octet string and nesting, at the limits of the short  *)
(* and long length forms too.                                              *)
DecodesWhatWasWritten ==
    Written => Decode(data) = open[1].list[1]
=============================================================================
