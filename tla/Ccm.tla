--------------------------------- MODULE Ccm ---------------------------------
(***************************************************************************)
(* AES-CCM of gomat (ccm/ccm.go): tag, Seal and Open over an abstract      *)
(* block cipher, against the definition of CCM in RFC 3610.                *)
(*                                                                         *)
(* Encrypt stands for the cipher under one key.  Any function on blocks    *)
(* will do to compare the two definitions; that Open refuses what was      *)
(* changed shows that the layout covers every byte, not that AES is good.  *)
(* Additional data longer than 0xfeff bytes does not fit a datagram and is *)
(* left out.                                                               *)
(***************************************************************************)
EXTENDS Digits, SequencesExt

CONSTANTS
    Encrypt(_),  \* block cipher
    Packets      \* what is sealed: nonce, plaintext, additional data, tag size

VARIABLE packet  \* what is sealed, in a set

ccmBlockSize == 16

Byte == 0 .. 255

-----------------------------------------------------------------------------
(* NewCCM accepts even tag sizes from 4 to 16 and nonces of 7 to 13 bytes *)
NewCCM(M, noncesize) ==
    /\ M \in {4, 6, 8, 10, 12, 14, 16}
    /\ 15 - noncesize \in 2 .. 8

L(nonce) == 15 - Len(nonce)
(* The longest plaintext; beyond three length bytes cut to 2^24 - 1, which *)
(* no packet reaches.                                                      *)
MaxLength(nonce) == IF L(nonce) < 3 THEN 256 ^ L(nonce) - 1 ELSE 2 ^ 24 - 1

ASSUME PacketAssumption ==
    \A p \in Packets :
        /\ p.nonce \in Seq(Byte) /\ p.text \in Seq(Byte) /\ p.adata \in Seq(Byte)
        /\ Len(p.text) <= MaxLength(p.nonce) /\ Len(p.adata) <= 65279

BigEndian(n, v) == Reverse(DigitsOf(v, 256, n))
Zeros(n) == [i \in 1 .. n |-> 0]

(* Exclusive or of two bytes, bit by bit *)
Xor(a, b) ==
    LET bit(w) == w * ((a \div w + b \div w) % 2)
    IN bit(1) + bit(2) + bit(4) + bit(8) + bit(16) + bit(32) + bit(64) + bit(128)
Xor2(a, b) == [i \in DOMAIN a |-> Xor(a[i], b[i])]

(* data cut into blocks, the last one filled with zeros *)
Blocks(data) ==
    [k \in 1 .. (Len(data) + ccmBlockSize - 1) \div ccmBlockSize |->
        [i \in 1 .. ccmBlockSize |->
            LET j == (k - 1) * ccmBlockSize + i IN IF j <= Len(data) THEN data[j] ELSE 0]]

cbcRound(mac, block) == Encrypt(Xor2(mac, block))
(* Mutant of cbcData: the bytes behind the last full block are left out *)
cbcDataFull(mac, data) ==
    LET macs[k \in 0 .. Len(data) \div ccmBlockSize] ==
            IF k = 0 THEN mac ELSE cbcRound(macs[k - 1], Blocks(data)[k])
    IN macs[Len(data) \div ccmBlockSize]

cbcData(mac, data) ==
    LET blocks == Blocks(data)
        macs[k \in 0 .. Len(blocks)] == IF k = 0 THEN mac ELSE cbcRound(macs[k - 1], blocks[k])
    IN macs[Len(blocks)]

(* Mutant of firstBlock: the length of the additional data is left out *)
firstBlockNoLength(adata) == SubSeq(adata \o Zeros(ccmBlockSize), 1, ccmBlockSize)

(* The first block of additional data begins with their length *)
firstBlock(adata) ==
    SubSeq(BigEndian(2, Len(adata)) \o adata \o Zeros(ccmBlockSize), 1, ccmBlockSize)

(* tag of the code, beside the tags of Tlv *)
Tag(nonce, plaintext, adata, M) ==
    LET flags == (IF adata # <<>> THEN 64 ELSE 0) + (M - 2) * 4 + (L(nonce) - 1)
        mac0 == Encrypt(<<flags>> \o nonce \o BigEndian(L(nonce), Len(plaintext)))
        rest == SubSeq(adata, ccmBlockSize - 1, Len(adata))
        mac1 == IF adata = <<>> THEN mac0 ELSE cbcData(cbcRound(mac0, firstBlock(adata)), rest)
    IN SubSeq(cbcData(mac1, plaintext), 1, M)

(* iv with the block counter in its last bytes; cipher.NewCTR counts up *)
iv(nonce, n) == <<L(nonce) - 1>> \o nonce \o BigEndian(L(nonce), n)

XORKeyStream(nonce, data) ==
    LET keyStream == [n \in 1 .. Len(Blocks(data)) |-> Encrypt(iv(nonce, n))]
    IN [j \in DOMAIN data |->
           Xor(data[j], keyStream[(j + 15) \div ccmBlockSize][((j - 1) % ccmBlockSize) + 1])]

Seal(nonce, plaintext, adata, M) ==
    XORKeyStream(nonce, plaintext) \o Xor2(Tag(nonce, plaintext, adata, M), Encrypt(iv(nonce, 0)))

Refused == [ok |-> FALSE, text |-> <<>>]

(* Open, called OpenSealed beside the writer's Open of Tlv *)
OpenSealed(nonce, ciphertext, adata, M) ==
    LET size == Len(ciphertext) - M
        plaintext == XORKeyStream(nonce, SubSeq(ciphertext, 1, size))
        received == Xor2(SubSeq(ciphertext, size + 1, Len(ciphertext)), Encrypt(iv(nonce, 0)))
    IN IF /\ size \in 0 .. MaxLength(nonce)
          /\ received = Tag(nonce, plaintext, adata, M)
       THEN [ok |-> TRUE, text |-> plaintext]
       ELSE Refused

SealPacket == packet = {} /\ \E p \in Packets : NewCCM(p.M, Len(p.nonce)) /\ packet' = {p}

CcmInit == packet = {}
CcmSpec == CcmInit /\ [][SealPacket]_packet

-----------------------------------------------------------------------------
(* RFC 3610, section 2: B_0, B_1, ..., X_i, S_i *)

Padded(s) == s \o Zeros((ccmBlockSize - (Len(s) % ccmBlockSize)) % ccmBlockSize)

RfcBlocks(nonce, m, a, M) ==
    LET l == 15 - Len(nonce)
        B0 == <<(IF a = <<>> THEN 0 ELSE 64) + 8 * ((M - 2) \div 2) + (l - 1)>>
              \o nonce \o BigEndian(l, Len(m))
    IN B0 \o (IF a = <<>> THEN <<>> ELSE Padded(BigEndian(2, Len(a)) \o a)) \o Padded(m)

RfcMacs(B) ==
    LET X[i \in 1 .. Len(B) \div 16] ==
            IF i = 1 THEN Encrypt(SubSeq(B, 1, 16))
            ELSE Encrypt(Xor2(X[i - 1], SubSeq(B, 16 * i - 15, 16 * i)))
    IN X

Rfc3610(nonce, m, a, M) ==
    LET B == RfcBlocks(nonce, m, a, M)
        l == 15 - Len(nonce)
        S(i) == Encrypt(<<l - 1>> \o nonce \o BigEndian(l, i))
    IN [j \in DOMAIN m |-> Xor(m[j], S((j + 15) \div 16)[((j - 1) % 16) + 1])]
       \o Xor2(SubSeq(RfcMacs(B)[Len(B) \div 16], 1, M), S(0))

(* Seal is CCM as RFC 3610 defines it, and Open returns the plaintext, for *)
(* texts and additional data on both sides of the block boundaries.        *)
SealConforms ==
    \A p \in packet :
        LET sealed == Seal(p.nonce, p.text, p.adata, p.M)
        IN /\ sealed = Rfc3610(p.nonce, p.text, p.adata, p.M)
           /\ OpenSealed(p.nonce, sealed, p.adata, p.M) = [ok |-> TRUE, text |-> p.text]

(* One byte of s changed *)
Changes(s) == {[s EXCEPT ![i] = (@ + 1) % 256] : i \in DOMAIN s}

(* Open refuses the datagram when a byte of it, of the header it travels   *)
(* under or of the nonce differs, when it is cut short, and when a byte is *)
(* moved between header and text.                                          *)
OpenRefusesChanges ==
    \A p \in packet :
        LET sealed == Seal(p.nonce, p.text, p.adata, p.M)
            opens(nonce, c, a) == OpenSealed(nonce, c, a, p.M).ok
        IN /\ \A c \in Changes(sealed) : ~opens(p.nonce, c, p.adata)
           /\ \A a \in Changes(p.adata) : ~opens(p.nonce, sealed, a)
           /\ \A n \in Changes(p.nonce) : ~opens(n, sealed, p.adata)
           /\ ~opens(p.nonce, Front(sealed), p.adata)
           /\ p.adata # <<>> => /\ ~opens(p.nonce, sealed, Front(p.adata))
                                /\ ~opens(p.nonce, <<Last(p.adata)>> \o sealed, Front(p.adata))
           /\ ~opens(p.nonce, sealed, Append(p.adata, 0))
=============================================================================
