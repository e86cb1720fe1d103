----------------------------- MODULE Credentials -----------------------------
(***************************************************************************)
(* Bytes that a device must find as the controller meant them because a    *)
(* signature or a hash is over them: the Matter form of a certificate      *)
(* (matter-cert.go), the signature of Sigma3 (sigma.go) and the transcript *)
(* of PASE (spake2p.go).                                                   *)
(*                                                                         *)
(* A scalar of the curve is its Size bytes, big endian; 32 in the code.    *)
(***************************************************************************)
EXTENDS Messages

CONSTANTS
    Size,          \* bytes of a scalar
    Epoch,         \* 2000-01-01 in Unix time
    Certificates,  \* X.509 certificates: what the serialisation reads of them
    mbin, nbin,    \* the fixed points M and N
    Transcripts    \* what goes into a transcript: context, X, Y, Z, V, w0

VARIABLES
    certificate,  \* the certificate being serialised, in a set
    transcript    \* the PASE exchange being hashed, in a set

credentialVars == <<certificate, transcript>>

NotHex == -1   \* text of a name that strconv.ParseUint refuses

(* The attributes of a name, in their order; 64 bits each *)
Names == Seq([type : STRING, text : Fitting(8) \cup {NotHex}])

(* Octet strings that fit the long form of an element *)
OctetStrings == {s \in Seq(Short) : Len(s) < Power[2]}

(* Bytes of which there are no more than a length in eight bytes can say *)
Part == {p \in Seq(0 .. Base - 1) : Len(p) < Power[8]}

ASSUME CredentialAssumption ==
    /\ Size \in Nat \ {0} /\ 2 * Size < Power[2] /\ Epoch \in 0 .. Power[4] - 1
    /\ \A c \in Certificates :
         /\ {c.serial, c.publicKey, c.subjectKeyId, c.caKeyHash} \subseteq OctetStrings
         /\ c.issuer \in Names /\ c.subject \in Names
         /\ c.notBefore \in Int /\ c.notAfter \in Int
         /\ c.isCA \in BOOLEAN /\ c.keyUsage \in Nat /\ c.extKeyUsage \in Seq(Nat)
         /\ {c.r, c.s} \subseteq {s \in Seq(Short) : Len(s) = Size}
    /\ mbin \in Part /\ nbin \in Part
    /\ Transcripts \subseteq [context : Part, X : Part, Y : Part, Z : Part, V : Part, w0 : Part]
    /\ \A t \in Transcripts : Len(t.w0) = Size

(* big.Int.Bytes: no leading zeros *)
BigIntBytes(scalar) ==
    LET first == SelectInSeq(scalar, LAMBDA b : b # 0)
    IN IF first = 0 THEN <<>> ELSE SubSeq(scalar, first, Len(scalar))

-----------------------------------------------------------------------------
(* SerializeCertificateIntoMatter *)

caConvertDNValue(text) == IF text = NotHex THEN 0 ELSE text

DnTag == [node |-> 17, rcac |-> 20, fabric |-> 21]

(* The attributes Matter knows are written in the order of the name *)
AttributeBytes(a) ==
    IF a.type \in DOMAIN DnTag THEN EncUInt(DnTag[a.type], 7, caConvertDNValue(a.text)) ELSE <<>>

caConvertDN(name) == Joined([i \in 1 .. Len(name) |-> AttributeBytes(name[i])])

(* Mutant of Signature: S before R *)
SignatureSwapped(r, s) == BigIntBytes(s) \o BigIntBytes(r)

Signature(r, s) == BigIntBytes(r) \o BigIntBytes(s)

(* The usages are written whatever their values are.  The dates are        *)
(* converted to 32 bits after the subtraction, and before it.  caKeyHash   *)
(* is not taken from the certificate: it is the hash of the key of the CA  *)
(* the manager has loaded (matter-cert.go:55-60), the one that signed it.  *)
SerializeCertificateIntoMatter(c) ==
    AnonStruct(
        EncOctetString(1, c.serial) \o UInt8(2, 1)
        \o Container(3, tList, caConvertDN(c.issuer))
        \o UInt32(4, c.notBefore - Epoch) \o UInt32(5, (c.notAfter % Power[4]) - Epoch)
        \o Container(6, tList, caConvertDN(c.subject)) \o UInt8(7, 1) \o UInt8(8, 1)
        \o EncOctetString(9, c.publicKey)
        \o Container(10, tList,
             Container(1, tStruct, EncBool(1, c.isCA)) \o UInt8(2, c.keyUsage)
             \o (IF c.extKeyUsage = <<>> THEN <<>> ELSE Container(3, tArray, <<4, 2, 4, 1>>))
             \o EncOctetString(4, c.subjectKeyId) \o EncOctetString(5, c.caKeyHash))
        \o EncOctetString(11, Signature(c.r, c.s)))

(* The signed part of Sigma3, before its encryption *)
Sigma3(noc, r, s) ==
    AnonStruct(EncOctetString(1, noc) \o EncOctetString(3, Signature(r, s)))

-----------------------------------------------------------------------------
(* createTT: every part behind its length in eight bytes; `rest` is what   *)
(* the calls after this one write                                          *)

(* Mutant of serializeBytes: the length is left out *)
serializeBytesBare(p, rest) == p \o rest

serializeBytes(p, rest) == (LittleEndian(8, Len(p)) \o p) \o rest

createTT(context, a, b, m, n, x, y, z, v, w0) ==
    serializeBytes(context, serializeBytes(a, serializeBytes(b,
        serializeBytes(m, serializeBytes(n, serializeBytes(x, serializeBytes(y,
            serializeBytes(z, serializeBytes(v, serializeBytes(w0, <<>>))))))))))

(* calc_hash *)
Transcript(t, w0) ==
    createTT(t.context, <<>>, <<>>, mbin, nbin, t.X, t.Y, t.Z, t.V, w0)

(* Gen_w keeps W0 as big.Int.Bytes *)
ControllerTranscript(t) == Transcript(t, BigIntBytes(t.w0))
(* The device has it in full length (external) *)
DeviceTranscript(t) == Transcript(t, t.w0)

-----------------------------------------------------------------------------
(* A device reads a certificate and restores what was signed (external) *)

DnOf(item) ==
    [i \in DOMAIN item.list |->
        [type |-> CHOOSE t \in DOMAIN DnTag : DnTag[t] = item.list[i].tag,
         text |-> item.list[i].int]]

(* A signature is two scalars in full length, or none *)
SignatureOf(item) ==
    IF Len(item.oct) = 2 * Size
    THEN <<SubSeq(item.oct, 1, Size), SubSeq(item.oct, Size + 1, 2 * Size)>> ELSE <<>>

ReadCertificate(item) ==
    LET at(path) == GetItemRec(item, path) IN
    [serial |-> at(<<1>>).oct,
     issuer |-> DnOf(at(<<3>>)), subject |-> DnOf(at(<<6>>)),
     notBefore |-> at(<<4>>).int + Epoch, notAfter |-> at(<<5>>).int + Epoch,
     publicKey |-> at(<<9>>).oct, isCA |-> at(<<10, 1, 1>>).int = 1,
     keyUsage |-> at(<<10, 2>>).int,
     extKeyUsage |-> [i \in DOMAIN at(<<10, 3>>).list |-> at(<<10, 3>>).list[i].int],
     subjectKeyId |-> at(<<10, 4>>).oct, caKeyHash |-> at(<<10, 5>>).oct,
     signature |-> SignatureOf(at(<<11>>))]

Issued(c) ==
    [serial |-> c.serial, issuer |-> c.issuer, subject |-> c.subject,
     notBefore |-> c.notBefore, notAfter |-> c.notAfter, publicKey |-> c.publicKey,
     isCA |-> c.isCA, keyUsage |-> c.keyUsage, extKeyUsage |-> c.extKeyUsage,
     subjectKeyId |-> c.subjectKeyId, caKeyHash |-> c.caKeyHash,
     signature |-> <<c.r, c.s>>]

-----------------------------------------------------------------------------
SerializeCertificate == certificate = {} /\ \E c \in Certificates : certificate' = {c}
HashTranscript == transcript = {} /\ \E t \in Transcripts : transcript' = {t}

CredentialInit == certificate = {} /\ transcript = {}

CredentialNext ==
    \/ SerializeCertificate /\ UNCHANGED transcript
    \/ HashTranscript /\ UNCHANGED certificate

CredentialSpec == CredentialInit /\ [][CredentialNext]_credentialVars

FullLength(scalar) == scalar[1] # 0

Convertible(name) == \A i \in DOMAIN name : name[i].type \in DOMAIN DnTag /\ name[i].text # NotHex

(* A device restores the certificate that was signed exactly when the      *)
(* conversion has room for it: dates between 2000 and 2136, a key usage of *)
(* one byte, no extended key usage or just client and server, names of     *)
(* Matter's attributes in hexadecimal, and R and S without a leading zero  *)
(* byte, which the serialisation drops; the same holds of the signature of *)
(* Sigma3.                                                                 *)
CertificateReadsBack ==
    \A c \in certificate :
        /\ (ReadCertificate(Decode(SerializeCertificateIntoMatter(c))) = Issued(c)) <=>
             /\ FullLength(c.r) /\ FullLength(c.s)
             /\ {c.notBefore, c.notAfter} \subseteq Epoch .. Epoch + Power[4] - 1
             /\ c.keyUsage < Base /\ c.extKeyUsage \in {<<>>, <<2, 1>>}
             /\ Convertible(c.issuer) /\ Convertible(c.subject)
        /\ LET s3 == Decode(Sigma3(c.publicKey, c.r, c.s))
           IN (SignatureOf(GetItemRec(s3, <<3>>)) = <<c.r, c.s>>)
                <=> FullLength(c.r) /\ FullLength(c.s)

(* Controller and device hash the same transcript exactly when W0 has no   *)
(* leading zero byte; and exchanges that differ in the context, a share or *)
(* the secret have different transcripts, wherever the bytes that differ   *)
(* lie: no part can pass for the beginning of the next.                    *)
TranscriptsAgree ==
    \A t \in transcript :
        /\ (ControllerTranscript(t) = DeviceTranscript(t)) <=> FullLength(t.w0)
        /\ \A u \in Transcripts \ {t} : ControllerTranscript(u) # ControllerTranscript(t)
=============================================================================
