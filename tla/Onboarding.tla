----------------------------- MODULE Onboarding -----------------------------
(***************************************************************************)
(* The two codes on the label of a Matter device, as gomat decodes them    *)
(* (onboarding_payload/qr.go and manual.go).  The encoders stand for the   *)
(* manufacturer and follow Matter's format; they are the reference the     *)
(* decoders are checked against.                                           *)
(*                                                                         *)
(* A character of a QR code is its index in the 38-letter alphabet, one of *)
(* a manual code a digit or a dash.  The prefix MT: is left out.           *)
(***************************************************************************)
EXTENDS Digits, SequencesExt

CONSTANT Payloads   \* what labels may say

VARIABLE label      \* the labels being read: none, or one

(* v has room in n bits *)
Fits(v, n) == v \in Nat /\ v < Powers(2)[n]

ASSUME PayloadAssumption ==
    \A p \in Payloads :
        /\ Fits(p.version, 3) /\ Fits(p.vendor, 16) /\ Fits(p.product, 16) /\ Fits(p.flow, 2)
        /\ Fits(p.discovery, 8) /\ Fits(p.discriminator, 12) /\ Fits(p.passcode, 27)

-----------------------------------------------------------------------------
(* The manufacturer *)

(* 84 bits of fields and 4 of padding *)
PayloadBits(p) ==
    DigitsOf(p.version, 2, 3) \o DigitsOf(p.vendor, 2, 16) \o DigitsOf(p.product, 2, 16)
    \o DigitsOf(p.flow, 2, 2) \o DigitsOf(p.discovery, 2, 8)
    \o DigitsOf(p.discriminator, 2, 12) \o DigitsOf(p.passcode, 2, 27) \o DigitsOf(0, 2, 4)

(* Three bytes make five characters, the last two bytes four *)
Characters(bits, n) == DigitsOf(ValueOf(bits, 2), 38, n)

QrText(p) ==
    LET bits == PayloadBits(p)
    IN Characters(SubSeq(bits, 1, 24), 5) \o Characters(SubSeq(bits, 25, 48), 5)
       \o Characters(SubSeq(bits, 49, 72), 5) \o Characters(SubSeq(bits, 73, 88), 4)

Dash == -1

(* v in n decimal digits, as they are printed *)
Decimal(v, n) == Reverse(DigitsOf(v, 10, n))

(* The first digit holds the two upper bits of the discriminator, and 4 in *)
(* the long variant; the last one is a check digit.                        *)
ManualDigits(p, long, check) ==
    LET short == p.discriminator \div 256
    IN Decimal(short \div 4 + (IF long THEN 4 ELSE 0), 1)
       \o Decimal((short % 4) * 16384 + (p.passcode % 16384), 5)
       \o Decimal(p.passcode \div 16384, 4)
       \o (IF long THEN Decimal(p.vendor, 5) \o Decimal(p.product, 5) ELSE <<>>)
       \o <<check>>

(* XXXX-XXX-XXXX *)
ManualCode(p, long, check) ==
    LET digits == ManualDigits(p, long, check)
    IN SubSeq(digits, 1, 4) \o <<Dash>> \o SubSeq(digits, 5, 7) \o <<Dash>>
       \o SubSeq(digits, 8, Len(digits))

-----------------------------------------------------------------------------
(* The decoders *)

(* The i-th piece of five characters; the last one may be shorter *)
Piece(in, i) == SubSeq(in, 5 * i - 4, IF 5 * i < Len(in) THEN 5 * i ELSE Len(in))

(* Mutant of b38_decode: the first character of a piece weighs most *)
b38_decodeReversed(in) ==
    [k \in 1 .. 3 * ((Len(in) + 4) \div 5) |->
        DigitsOf(ValueOf(Reverse(Piece(in, (k + 2) \div 3)), 38), 256, 3)[((k - 1) % 3) + 1]]

(* b38_decode: every piece makes three bytes; the upper ones are 0 when it *)
(* is short.                                                               *)
b38_decode(in) ==
    [k \in 1 .. 3 * ((Len(in) + 4) \div 5) |->
        DigitsOf(ValueOf(Piece(in, (k + 2) \div 3), 38), 256, 3)[((k - 1) % 3) + 1]]

(* bitBuffer.get at bit position q *)
BitAt(bytes, q) == (bytes[q \div 8 + 1] \div Powers(2)[q % 8]) % 2

(* get_number: n bits from bit position q on, the lowest bit first *)
get_number(bytes, q, n) == ValueOf([i \in 1 .. n |-> BitAt(bytes, q + i - 1)], 2)

DecodeQrText(in) ==
    LET bb == b38_decode(in)
    IN [Version |-> get_number(bb, 0, 3),
        Vendor |-> get_number(bb, 3, 16),
        Product |-> get_number(bb, 19, 16),
        Discriminator |-> get_number(bb, 45, 12),
        Passcode |-> get_number(bb, 57, 27)]

(* strings.Replace: the code without dashes *)
Normalized(in) ==
    LET from[i \in 1 .. Len(in) + 1] ==
            IF i > Len(in) THEN <<>>
            ELSE (IF in[i] = Dash THEN <<>> ELSE <<in[i]>>) \o from[i + 1]
    IN from[1]

(* strconv.Atoi of the digits first..last *)
Group(digits, first, last) == ValueOf(Reverse(SubSeq(digits, first, last)), 10)

(* Mutant of ManualContent: the low half is taken one bit short *)
ManualContentNarrow(first, second, third) ==
    [Passcode |-> (second % 8192) + third * 16384,
     Discriminator4 |-> (first % 4) * 1024 + ((second \div 16384) % 4) * 256]

(* second & 0x3fff + third << 14, and first & 3 << 10 + (second >> 6) & 0x300 *)
ManualContent(first, second, third) ==
    [Passcode |-> (second % 16384) + third * 16384,
     Discriminator4 |-> (first % 4) * 1024 + ((second \div 16384) % 4) * 256]

DecodeManualPairingCode(in) ==
    LET digits == Normalized(in)
    IN ManualContent(Group(digits, 1, 1), Group(digits, 2, 6), Group(digits, 7, 10))

ReadLabel == label = {} /\ \E p \in Payloads : label' = {p}

OnboardingSpec == label = {} /\ [][ReadLabel]_label

-----------------------------------------------------------------------------
(* Properties *)

(* The QR code of every payload decodes to its fields, at the limits of    *)
(* every field and across the byte and character boundaries they straddle. *)
QrRoundTrip ==
    \A p \in label :
        DecodeQrText(QrText(p)) =
            [Version |-> p.version, Vendor |-> p.vendor, Product |-> p.product,
             Discriminator |-> p.discriminator, Passcode |-> p.passcode]

(* The manual code of either length decodes to the passcode of the QR code *)
(* and to the upper four bits of its discriminator, whatever the check     *)
(* digit.                                                                  *)
ManualCodeAgreesWithQr ==
    \A p \in label :
        LET qr == DecodeQrText(QrText(p)) IN
        \A long \in BOOLEAN, check \in 0 .. 9 :
            LET manual == DecodeManualPairingCode(ManualCode(p, long, check))
            IN /\ manual.Passcode = qr.Passcode
               /\ manual.Discriminator4 = qr.Discriminator - (qr.Discriminator % 256)
=============================================================================
