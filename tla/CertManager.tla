----------------------------- MODULE CertManager -----------------------------
(***************************************************************************)
(* FileCertManager (certmanagerfile.go): the certificate authority of a    *)
(* fabric, kept as PEM files in one directory that several processes (the  *)
(* demo's ca-bootstrap, ca-createuser, commission, ... commands, or a      *)
(* library user) may work on at the same time, and that outlives crashes.  *)
(*                                                                         *)
(* Every os.Stat, os.ReadFile and os.WriteFile is a step of its own;       *)
(* os.WriteFile is two: it truncates (or creates) the file, then fills it. *)
(* A process may crash, or a write may fail, between any two steps.        *)
(*                                                                         *)
(* Keys are numbers, a fresh one for every GenerateKey; a certificate is   *)
(* the key it certifies and the key that signed it.  Names, dates, serial  *)
(* numbers and extensions of certificates are abstracted away.             *)
(***************************************************************************)
EXTENDS Integers, Sequences, FiniteSets

CONSTANTS
    Procs,      \* processes using the directory
    UserIds,    \* UserIds[p]: node ids process p creates users for
    DeviceIds,  \* DeviceIds[p]: node ids process p signs device certificates for
    CaPresent,  \* a complete CA exists at the start
    MaxOps,     \* bound: operations started
    MaxFaults   \* bound: crashes and failed writes

Ids == UNION {UserIds[p] \cup DeviceIds[p] : p \in Procs}

(* Node ids never name the CA's files, whose prefix is "ca". *)
ASSUME CertAssumption ==
    /\ CaPresent \in BOOLEAN
    /\ MaxOps \in Nat /\ MaxFaults \in Nat
    /\ "ca" \notin Ids

VARIABLES
    files,    \* the directory
    proc,     \* state of each process
    nkeys,    \* keys generated so far
    ops,      \* operations started so far
    faults,   \* crashes and failed writes so far
    booted,   \* BootstrapCa has returned nil
    created,  \* ids for which CreateUser has returned nil
    rewrite   \* ids whose CreateUser was cut short after it began to write

vars == <<files, proc, nkeys, ops, faults, booted, created, rewrite>>

-----------------------------------------------------------------------------
(* Files.  key: the private key, the public key's private half, or the key *)
(* a certificate certifies; iss: the key that signed a certificate.        *)

Names == {"ca"} \cup Ids
Files == Names \X {"private", "public", "cert"}

Absent == [st |-> "absent", key |-> 0, iss |-> 0]
Torn == [st |-> "torn", key |-> 0, iss |-> 0]
KeyFile(k) == [st |-> "whole", key |-> k, iss |-> 0]
CertFile(k, i) == [st |-> "whole", key |-> k, iss |-> i]

Private(n) == files[<<n, "private">>]
Public(n) == files[<<n, "public">>]
Cert(n) == files[<<n, "cert">>]
Whole(f) == f.st = "whole"

(* One os.WriteFile still to do *)
Write(n, suffix, content) == [file |-> <<n, suffix>>, content |-> content]

-----------------------------------------------------------------------------
(* Processes.  caKey and caCert are ca_private_key and ca_certificate of   *)
(* its FileCertManager (0: nil); tmp is the key the current operation      *)
(* holds; pair is what GetPrivkey and GetCertificate last returned.        *)

NoCert == [key |-> 0, iss |-> 0]
NoPair == [id |-> "none", key |-> 0, cert |-> NoCert]

Idle == [pc |-> "idle", id |-> "none", todo |-> <<>>, cut |-> FALSE, tmp |-> 0,
         caKey |-> 0, caCert |-> NoCert, pair |-> NoPair]

At(p, l) == proc[p].pc = l /\ proc[p].todo = <<>>

Set(p, r) == proc' = [proc EXCEPT ![p] = r]
Goto(p, l) == Set(p, [proc[p] EXCEPT !.pc = l])
Return(p) == Set(p, [proc[p] EXCEPT !.pc = "idle", !.id = "none", !.tmp = 0])

(* A panic ends the process: its memory is gone, the files stay *)
Panic(p) == Set(p, Idle)

(* ids whose key and certificate the operation p is in replaces *)
Rewriting(p) == IF proc[p].pc \in {"user_sign", "user_done"} THEN {proc[p].id} ELSE {}

Start(p) == At(p, "idle") /\ ops < MaxOps /\ ops' = ops + 1

GenerateKey == nkeys' = nkeys + 1

-----------------------------------------------------------------------------
(* os.WriteFile *)

WriteTruncate(p) ==
    /\ proc[p].todo # <<>> /\ ~proc[p].cut
    /\ files' = [files EXCEPT ![Head(proc[p].todo).file] = Torn]
    /\ Set(p, [proc[p] EXCEPT !.cut = TRUE])
    /\ UNCHANGED <<nkeys, ops, faults, booted, created, rewrite>>

(* Mutant of WriteFill: the file stays open for writing *)
WriteFillStaysOpen(p) ==
    /\ proc[p].todo # <<>> /\ proc[p].cut
    /\ files' = [files EXCEPT ![Head(proc[p].todo).file] = Head(proc[p].todo).content]
    /\ Set(p, [proc[p] EXCEPT !.todo = Tail(@)])
    /\ UNCHANGED <<nkeys, ops, faults, booted, created, rewrite>>

WriteFill(p) ==
    /\ proc[p].todo # <<>> /\ proc[p].cut
    /\ files' = [files EXCEPT ![Head(proc[p].todo).file] = Head(proc[p].todo).content]
    /\ Set(p, [proc[p] EXCEPT !.cut = FALSE, !.todo = Tail(@)])
    /\ UNCHANGED <<nkeys, ops, faults, booted, created, rewrite>>

(* The write fails: a key write makes the operation return the error,      *)
(* storeCertificate panics.                                                *)
WriteFails(p) ==
    /\ proc[p].todo # <<>>
    /\ faults < MaxFaults /\ faults' = faults + 1
    /\ rewrite' = rewrite \cup Rewriting(p)
    /\ IF Head(proc[p].todo).file[2] = "cert"
       THEN Panic(p)
       ELSE Set(p, [proc[p] EXCEPT !.pc = "idle", !.id = "none", !.tmp = 0,
                                   !.todo = <<>>, !.cut = FALSE])
    /\ UNCHANGED <<files, nkeys, ops, booted, created>>

Crash(p) ==
    /\ proc[p] # Idle
    /\ faults < MaxFaults /\ faults' = faults + 1
    /\ rewrite' = rewrite \cup Rewriting(p)
    /\ Panic(p)
    /\ UNCHANGED <<files, nkeys, ops, booted, created>>

-----------------------------------------------------------------------------
(* generateAndStoreKeyEcdsa: the private key file, then the public one *)
StoreKey(n, k) == << Write(n, "private", KeyFile(k)), Write(n, "public", KeyFile(k)) >>

(* BootstrapCa *)

(* Mutant of BootstrapStat: a CA is bootstrapped whether one exists or not *)
BootstrapAlways(p) ==
    /\ Start(p)
    /\ Goto(p, "boot_generate")
    /\ UNCHANGED <<files, nkeys, faults, booted, created, rewrite>>

(* Only the presence of ca-private.pem is looked at *)
BootstrapStat(p) ==
    /\ Start(p)
    /\ IF Private("ca").st # "absent"
       THEN booted' = TRUE /\ UNCHANGED proc
       ELSE UNCHANGED booted /\ Goto(p, "boot_generate")
    /\ UNCHANGED <<files, nkeys, faults, created, rewrite>>

BootstrapGenerate(p) ==
    /\ At(p, "boot_generate")
    /\ GenerateKey
    /\ Set(p, [proc[p] EXCEPT !.pc = "boot_public", !.todo = StoreKey("ca", nkeys')])
    /\ UNCHANGED <<files, ops, faults, booted, created, rewrite>>

(* createCaCert reads both key files back ... *)
CreateCaCertPublic(p) ==
    /\ At(p, "boot_public")
    /\ IF Whole(Public("ca"))
       THEN Set(p, [proc[p] EXCEPT !.pc = "boot_private", !.tmp = Public("ca").key])
       ELSE Panic(p)
    /\ UNCHANGED <<files, nkeys, ops, faults, booted, created, rewrite>>

(* ... and certifies the one with the other, whether or not they match: the *)
(* template is its own parent and names no public key to compare with.     *)
CreateCaCert(p) ==
    /\ At(p, "boot_private")
    /\ IF Whole(Private("ca"))
       THEN Set(p, [proc[p] EXCEPT !.pc = "boot_done",
                      !.todo = << Write("ca", "cert", CertFile(proc[p].tmp, Private("ca").key)) >>])
       ELSE Panic(p)
    /\ UNCHANGED <<files, nkeys, ops, faults, booted, created, rewrite>>

BootstrapReturns(p) ==
    /\ At(p, "boot_done")
    /\ booted' = TRUE
    /\ Return(p)
    /\ UNCHANGED <<files, nkeys, ops, faults, created, rewrite>>

-----------------------------------------------------------------------------
(* Load: without ca-private.pem it returns nil and leaves the CA empty *)
LoadStat(p) ==
    /\ Start(p)
    /\ IF Private("ca").st = "absent" THEN UNCHANGED proc ELSE Goto(p, "load_key")
    /\ UNCHANGED <<files, nkeys, faults, booted, created, rewrite>>

(* pem.Decode yields nil for a truncated file, and the code dereferences it *)
LoadKey(p) ==
    /\ At(p, "load_key")
    /\ IF Whole(Private("ca"))
       THEN Set(p, [proc[p] EXCEPT !.pc = "load_cert", !.caKey = Private("ca").key])
       ELSE Panic(p)
    /\ UNCHANGED <<files, nkeys, ops, faults, booted, created, rewrite>>

LoadCert(p) ==
    /\ At(p, "load_cert")
    /\ CASE Whole(Cert("ca")) ->
              Set(p, [proc[p] EXCEPT !.pc = "idle",
                        !.caCert = [key |-> Cert("ca").key, iss |-> Cert("ca").iss]])
         [] Cert("ca").st = "absent" -> Set(p, [proc[p] EXCEPT !.pc = "idle", !.caCert = NoCert])
         [] Cert("ca").st = "torn" -> Panic(p)
    /\ UNCHANGED <<files, nkeys, ops, faults, booted, created, rewrite>>

-----------------------------------------------------------------------------
(* SignCertificate *)

(* Key and certificate of the CA are dereferenced without a check *)
CanSign(p) == proc[p].caKey # 0 /\ proc[p].caCert # NoCert

(* x509.CreateCertificate refuses a parent certificate of another key *)
Signs(p) == proc[p].caCert.key = proc[p].caKey

(* Mutant of SignedFor: the certificate is signed with the subject's key *)
SignedForItself(p, n, k) == << Write(n, "cert", CertFile(k, k)) >>

SignedFor(p, n, k) == << Write(n, "cert", CertFile(k, proc[p].caKey)) >>

(* Commission: the key in the device's CSR is the device's own *)
SignCertificate(p, n) ==
    /\ Start(p)
    /\ GenerateKey
    /\ CASE ~CanSign(p) -> Panic(p)
         [] CanSign(p) /\ ~Signs(p) -> UNCHANGED proc
         [] CanSign(p) /\ Signs(p) ->
              Set(p, [proc[p] EXCEPT !.pc = "sign_done", !.id = n, !.todo = SignedFor(p, n, nkeys')])
    /\ UNCHANGED <<files, faults, booted, created, rewrite>>

SignReturns(p) ==
    /\ At(p, "sign_done")
    /\ Return(p)
    /\ UNCHANGED <<files, nkeys, ops, faults, booted, created, rewrite>>

(* CreateUser *)
CreateUser(p, n) ==
    /\ Start(p)
    /\ GenerateKey
    /\ Set(p, [proc[p] EXCEPT !.pc = "user_sign", !.id = n, !.tmp = nkeys',
                              !.todo = StoreKey(n, nkeys')])
    /\ UNCHANGED <<files, faults, booted, created, rewrite>>

(* Mutant of CreateUserSign: the certificate that exists is kept *)
CreateUserSignOnce(p) ==
    /\ At(p, "user_sign")
    /\ IF Whole(Cert(proc[p].id)) THEN Goto(p, "user_done")
       ELSE IF ~CanSign(p) THEN Panic(p)
       ELSE Set(p, [proc[p] EXCEPT !.pc = "user_done",
                      !.todo = SignedFor(p, proc[p].id, proc[p].tmp)])
    /\ UNCHANGED <<files, nkeys, ops, faults, booted, created, rewrite>>

(* The error of SignCertificate is not looked at *)
CreateUserSign(p) ==
    /\ At(p, "user_sign")
    /\ CASE ~CanSign(p) -> Panic(p) /\ rewrite' = rewrite \cup {proc[p].id}
         [] CanSign(p) /\ ~Signs(p) -> Goto(p, "user_done") /\ UNCHANGED rewrite
         [] CanSign(p) /\ Signs(p) ->
              /\ Set(p, [proc[p] EXCEPT !.pc = "user_done",
                           !.todo = SignedFor(p, proc[p].id, proc[p].tmp)])
              /\ UNCHANGED rewrite
    /\ UNCHANGED <<files, nkeys, ops, faults, booted, created>>

CreateUserReturns(p) ==
    /\ At(p, "user_done")
    /\ created' = created \cup {proc[p].id}
    /\ rewrite' = rewrite \ {proc[p].id}
    /\ Return(p)
    /\ UNCHANGED <<files, nkeys, ops, faults, booted>>

-----------------------------------------------------------------------------
(* SigmaExchange reads the controller's key, then its certificate, in two   *)
(* steps and without a lock.  Any process reads any id: the one that runs  *)
(* ca-createuser need not be the one that commissions.                     *)

GetPrivkey(p, n) ==
    /\ Start(p)
    /\ CASE Whole(Private(n)) ->
              Set(p, [proc[p] EXCEPT !.pc = "get_cert", !.id = n, !.tmp = Private(n).key])
         [] Private(n).st = "absent" -> UNCHANGED proc
         [] Private(n).st = "torn" -> Panic(p)
    /\ UNCHANGED <<files, nkeys, faults, booted, created, rewrite>>

GetCertificate(p) ==
    /\ At(p, "get_cert")
    /\ CASE Whole(Cert(proc[p].id)) ->
              Set(p, [proc[p] EXCEPT !.pc = "idle", !.id = "none", !.tmp = 0,
                        !.pair = [id |-> proc[p].id, key |-> proc[p].tmp,
                                  cert |-> [key |-> Cert(proc[p].id).key,
                                            iss |-> Cert(proc[p].id).iss]]])
         [] Cert(proc[p].id).st = "absent" -> Return(p)
         [] Cert(proc[p].id).st = "torn" -> Panic(p)
    /\ UNCHANGED <<files, nkeys, ops, faults, booted, created, rewrite>>

-----------------------------------------------------------------------------
Init ==
    /\ files = [f \in Files |->
          IF ~CaPresent \/ f[1] # "ca" THEN Absent
          ELSE IF f[2] = "cert" THEN CertFile(1, 1) ELSE KeyFile(1)]
    /\ proc = [p \in Procs |-> Idle]
    /\ nkeys = IF CaPresent THEN 1 ELSE 0
    /\ ops = 0 /\ faults = 0
    /\ booted = FALSE /\ created = {} /\ rewrite = {}

Step(p) ==
    \/ WriteTruncate(p) \/ WriteFill(p) \/ WriteFails(p) \/ Crash(p)
    \/ BootstrapStat(p) \/ BootstrapGenerate(p)
    \/ CreateCaCertPublic(p) \/ CreateCaCert(p) \/ BootstrapReturns(p)
    \/ LoadStat(p) \/ LoadKey(p) \/ LoadCert(p)
    \/ CreateUserSign(p) \/ CreateUserReturns(p)
    \/ SignReturns(p)
    \/ GetCertificate(p)
    \/ \E n \in UserIds[p] : CreateUser(p, n)
    \/ \E n \in Ids : GetPrivkey(p, n)
    \/ \E n \in DeviceIds[p] : SignCertificate(p, n)

Next == \E p \in Procs : Step(p)

Spec == Init /\ [][Next]_vars

-----------------------------------------------------------------------------
(* Properties *)

(* Type correctness of the directory and of the processes. *)
CertTypeOK ==
    /\ \A f \in Files :
         files[f] \in [st : {"absent", "torn", "whole"}, key : 0 .. nkeys, iss : 0 .. nkeys]
    /\ \A p \in Procs :
         /\ proc[p].caKey \in 0 .. nkeys /\ proc[p].tmp \in 0 .. nkeys
         /\ proc[p].id \in Ids \cup {"none"}
         /\ Len(proc[p].todo) <= 2 /\ (proc[p].cut => proc[p].todo # <<>>)
    /\ ops <= MaxOps /\ faults <= MaxFaults
    /\ created \subseteq Ids /\ rewrite \subseteq Ids

Matches(n) == Whole(Private(n)) /\ Whole(Cert(n)) /\ Cert(n).key = Private(n).key

(* Every certificate in the directory, the CA's own included, is signed    *)
(* with the key in ca-private.pem, through every crash, failed write and   *)
(* repeated bootstrap, as long as one process at a time bootstraps.        *)
CertsChainToCa ==
    \A n \in Names : Whole(Cert(n)) =>
        Whole(Private("ca")) /\ Cert(n).iss = Private("ca").key

(* The key and the certificate SigmaExchange reads one after the other for *)
(* a controller belong together, unless a CreateUser of that id was cut    *)
(* short (the new key then lies next to the old certificate until          *)
(* CreateUser is repeated), is at work, or, in another process, has        *)
(* replaced the key since GetPrivkey read it: nothing locks the directory. *)
PairMismatchNeedsRewrite ==
    [][ \A p \in Procs :
          LET q == proc'[p].pair IN
          q # proc[p].pair =>
              \/ q.key = q.cert.key
              \/ q.id \in rewrite
              \/ \E r \in Procs : q.id \in Rewriting(r)
              \/ Private(q.id) # KeyFile(q.key) ]_vars

(* certmanager.go: after CreateUser "it must be possible to later retrieve *)
(* node keys using GetPrivkey and certificate using GetCertificate": once  *)
(* it returned nil both files are there, belong together and chain to the  *)
(* CA, whatever the other processes do, unless CreateUser is at work on    *)
(* that id again or was cut short there.                                   *)
CreatedUserIsRetrievable ==
    \A n \in created \ rewrite :
        (\A p \in Procs : n \notin Rewriting(p)) =>
            Matches(n) /\ Cert(n).iss = Private("ca").key

Settled == \A p \in Procs : proc[p].pc = "idle"

(* certmanagerfile.go: "BootstrapCa initializes CA - creates CA keys and   *)
(* certificate": after it returned nil, and with nothing under way, the    *)
(* CA's key and its self-signed certificate are there.                     *)
BootstrapNilMeansCa ==
    booted /\ Settled => Matches("ca") /\ Cert("ca").iss = Private("ca").key

(* The directory implements the abstract certificate authority: its key is *)
(* what ca-private.pem holds, a credential what both files of a node hold. *)
Retrievable(n) ==
    IF Matches(n) THEN [key |-> Cert(n).key, iss |-> Cert(n).iss] ELSE [key |-> 0, iss |-> 0]

caKeyOnDisk == Private("ca").key
retrievable == [n \in Ids |-> Retrievable(n)]

CA == INSTANCE CertAuthority WITH Nodes <- Ids, ca <- caKeyOnDisk, cred <- retrievable

ImplementsCertAuthority == CA!Spec
=============================================================================
