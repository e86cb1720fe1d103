-------------------------- MODULE CertManagerProofs --------------------------
(***************************************************************************)
(* Proofs about CertManager, for any number of processes, node ids,        *)
(* operations, crashes and failed writes: type correctness; every          *)
(* certificate in the directory chains to ca-private.pem; the directory    *)
(* implements CertAuthority; and, in the second part, the key and the      *)
(* certificate of a user belong together.                                  *)
(*                                                                         *)
(* The chain and the refinement hold when the CA is there from the start,  *)
(* or when a single process uses the directory (Serial): two processes     *)
(* that bootstrap at the same time may both generate a CA key.             *)
(***************************************************************************)
EXTENDS CertManager, TLAPS

Serial == CaPresent \/ \E p \in Procs : Procs = {p}

-----------------------------------------------------------------------------
(* The inductive invariant *)

Keys == 0 .. nkeys
FileType == [st : {"absent", "torn", "whole"}, key : Keys, iss : Keys]
PairCert == [key : Keys, iss : Keys]

(* What is written is whole and certifies, or is, a generated key *)
WriteType == [file : Files, content : [st : {"whole"}, key : 1 .. nkeys, iss : Keys]]

(* Writes to do: a certificate, or a private key before its public one *)
Todos ==
    {<<>>}
    \cup {<<a>> : a \in {w \in WriteType : w.file[2] \in {"public", "cert"}}}
    \cup {<<a, b>> : a \in {w \in WriteType : w.file[2] = "private"},
                     b \in {w \in WriteType : w.file[2] = "public"}}

PCs == {"idle", "boot_generate", "boot_public", "boot_private", "boot_done", "load_key",
        "load_cert", "sign_done", "user_sign", "user_done", "get_cert"}

ProcType ==
    [pc : PCs, id : Ids \cup {"none"}, todo : Todos, cut : BOOLEAN, tmp : Keys,
     caKey : Keys, caCert : PairCert,
     pair : [id : Ids \cup {"none"}, key : Keys, cert : PairCert]]

(* What an operation needs where it is *)
PlaceOK(r) ==
    /\ r.cut => r.todo # <<>>
    /\ r.pc = "boot_generate" => r.todo = <<>>
    /\ r.pc \in {"boot_private", "user_sign", "user_done"} => r.tmp # 0
    /\ r.pc \in {"user_sign", "user_done", "get_cert"} => r.id \in Ids

TypeInv ==
    /\ files \in [Files -> FileType]
    /\ proc \in [Procs -> ProcType]
    /\ nkeys \in Nat
    /\ ops \in 0 .. MaxOps /\ faults \in 0 .. MaxFaults
    /\ created \subseteq Ids /\ rewrite \subseteq Ids

(* A file holds a key exactly when it is whole *)
ContentInv ==
    /\ \A f \in Files : files[f].st = "whole" <=> files[f].key # 0
    /\ \A p \in Procs : PlaceOK(proc[p])

(* A certificate about to be written, a CA key about to be made or written *)
PendingCert(r) == r.todo # <<>> /\ Head(r.todo).file[2] = "cert"
Founding(r) ==
    \/ r.pc = "boot_generate"
    \/ r.todo # <<>> /\ Head(r.todo).file = <<"ca", "private">>

(* What a process with state r holds of the CA is the directory's key *)
InStep(r) ==
    /\ r.caKey # 0 => Whole(Private("ca")) /\ r.caKey = Private("ca").key
    /\ PendingCert(r) =>
          Whole(Private("ca")) /\ Head(r.todo).content.iss = Private("ca").key
    /\ Founding(r) => ~Whole(Private("ca"))

ChainInv ==
    /\ CertsChainToCa
    /\ \A p \in Procs : InStep(proc[p])
    /\ \A p \in Procs : Founding(proc[p]) => Procs = {p}
    /\ CaPresent => Whole(Private("ca"))

CertInv == TypeInv /\ ContentInv

-----------------------------------------------------------------------------
(* Types *)

LEMMA TypeInit == Init => CertInv
<1> SUFFICES ASSUME Init PROVE CertInv
  OBVIOUS
<1> USE CertAssumption
<1>1. nkeys \in Nat /\ (CaPresent => 1 \in Keys) /\ 0 \in Keys
  BY DEF Init, Keys
<1>2. Idle \in ProcType /\ PlaceOK(Idle)
  BY <1>1 DEF Idle, NoCert, NoPair, ProcType, PCs, PairCert, Todos, PlaceOK
<1>3. files \in [Files -> FileType]
  BY <1>1 DEF Init, Absent, CertFile, KeyFile, FileType
<1>4. \A f \in Files : files[f].st = "whole" <=> files[f].key # 0
  BY DEF Init, Absent, CertFile, KeyFile
<1> QED
  BY <1>1, <1>2, <1>3, <1>4 DEF Init, CertInv, TypeInv, ContentInv

(* Fresh keys only widen the types. *)
LEMMA Widen ==
    ASSUME nkeys \in Nat, nkeys' \in {nkeys, nkeys + 1}
    PROVE  /\ nkeys' \in Nat /\ Keys \subseteq Keys'
           /\ FileType \subseteq FileType' /\ ProcType \subseteq ProcType'
<1>1. nkeys' \in Nat /\ Keys \subseteq Keys' /\ 1 .. nkeys \subseteq (1 .. nkeys)'
  BY DEF Keys
<1>2. FileType \subseteq FileType'
  BY <1>1 DEF FileType
<1>3. PairCert \subseteq PairCert'
  BY <1>1 DEF PairCert
<1>4. WriteType \subseteq WriteType'
  BY <1>1 DEF WriteType
<1>5. Todos \subseteq Todos'
  BY <1>4 DEF Todos
<1>6. ProcType \subseteq ProcType'
  BY <1>1, <1>3, <1>5 DEF ProcType
<1> QED
  BY <1>1, <1>2, <1>6

(* A process's own step keeps the invariant when its new state is one. *)
LEMMA SetKeeps ==
    ASSUME CertInv, NEW p \in Procs, NEW r, proc' = [proc EXCEPT ![p] = r],
           nkeys' \in {nkeys, nkeys + 1}, r \in ProcType', PlaceOK(r),
           files' = files,
           ops' \in 0 .. MaxOps, faults' \in 0 .. MaxFaults,
           created' \subseteq Ids, rewrite' \subseteq Ids
    PROVE  CertInv'
<1>1. /\ nkeys' \in Nat /\ FileType \subseteq FileType' /\ ProcType \subseteq ProcType'
  BY Widen DEF CertInv, TypeInv
<1>2. proc' \in [Procs -> ProcType']
  BY <1>1 DEF CertInv, TypeInv
<1>3. \A q \in Procs : PlaceOK(proc[q])'
  <2> TAKE q \in Procs
  <2>1. proc'[q] = IF q = p THEN r ELSE proc[q]
    BY DEF CertInv, TypeInv
  <2> QED
    BY <2>1 DEF CertInv, ContentInv, PlaceOK
<1>4. files' \in [Files -> FileType']
  BY <1>1 DEF CertInv, TypeInv
<1> QED
  BY <1>1, <1>2, <1>3, <1>4 DEF CertInv, TypeInv, ContentInv

(* The writes an operation may set itself. *)
LEMMA StoreKeyTodo ==
    ASSUME NEW n \in Names, NEW k \in 1 .. nkeys', nkeys' \in Nat
    PROVE  StoreKey(n, k) \in Todos'
<1> DEFINE a == Write(n, "private", KeyFile(k))
           b == Write(n, "public", KeyFile(k))
<1>1. a \in WriteType' /\ a.file[2] = "private" /\ b \in WriteType' /\ b.file[2] = "public"
  BY DEF WriteType, Write, KeyFile, Files, Keys
<1>2. StoreKey(n, k) = <<a, b>>
  BY DEF StoreKey
<1> HIDE DEF a, b
<1> QED
  BY <1>1, <1>2 DEF Todos

LEMMA CertTodo ==
    ASSUME NEW n \in Names, NEW k \in 1 .. nkeys', NEW i \in Keys', nkeys' \in Nat
    PROVE  <<Write(n, "cert", CertFile(k, i))>> \in Todos'
<1> DEFINE a == Write(n, "cert", CertFile(k, i))
<1>1. a \in WriteType' /\ a.file[2] = "cert"
  BY DEF WriteType, Write, CertFile, Files
<1>2. <<Write(n, "cert", CertFile(k, i))>> = <<a>>
  OBVIOUS
<1> HIDE DEF a
<1> QED
  BY <1>1, <1>2 DEF Todos

(* After a write at most the public key is left. *)
LEMMA TodoTail ==
    ASSUME NEW t \in Todos, t # <<>>
    PROVE  /\ Head(t) \in WriteType /\ Tail(t) \in Todos
           /\ Tail(t) # <<>> => Head(Tail(t)).file[2] = "public"
<1>1. CASE t \in {<<a>> : a \in {w \in WriteType : w.file[2] \in {"public", "cert"}}}
  BY <1>1 DEF Todos
<1>2. CASE t \in {<<a, b>> : a \in {w \in WriteType : w.file[2] = "private"},
                             b \in {w \in WriteType : w.file[2] = "public"}}
  <2>1. PICK a \in WriteType, b \in WriteType : t = <<a, b>> /\ b.file[2] = "public"
    BY <1>2
  <2>2. Head(t) = a /\ Tail(t) = <<b>> /\ Head(<<b>>) = b
    BY <2>1
  <2> QED
    BY <2>1, <2>2 DEF Todos
<1> QED
  BY <1>1, <1>2 DEF Todos

(* One file is replaced by content that is whole with a key, or torn. *)
LEMMA FileKeeps ==
    ASSUME CertInv, NEW f \in Files, NEW c \in FileType, c.st = "whole" <=> c.key # 0
    PROVE  /\ [files EXCEPT ![f] = c] \in [Files -> FileType]
           /\ \A g \in Files : [files EXCEPT ![f] = c][g].st = "whole"
                               <=> [files EXCEPT ![f] = c][g].key # 0
  BY DEF CertInv, TypeInv, ContentInv

LEMMA WriteTruncateType ==
    ASSUME CertInv, NEW p \in Procs, WriteTruncate(p)
    PROVE  CertInv'
<1> DEFINE f == Head(proc[p].todo).file
           r == [proc[p] EXCEPT !.cut = TRUE]
<1>1. proc[p] \in ProcType /\ proc[p].todo \in Todos /\ proc[p].todo # <<>> /\ nkeys \in Nat
  BY DEF WriteTruncate, CertInv, TypeInv, ProcType
<1>2. f \in Files
  BY <1>1, TodoTail DEF WriteType
<1>3. Torn \in FileType /\ (Torn.st = "whole" <=> Torn.key # 0)
  BY <1>1 DEF Torn, FileType, Keys
<1>4. r \in ProcType /\ PlaceOK(r)
  BY <1>1 DEF ProcType, PlaceOK, CertInv, ContentInv
<1>5. proc' = [proc EXCEPT ![p] = r] /\ files' = [files EXCEPT ![f] = Torn]
  BY DEF WriteTruncate, Set
<1> HIDE DEF f, r
<1>6. files' \in [Files -> FileType] /\ \A g \in Files : files'[g].st = "whole" <=> files'[g].key # 0
  BY <1>2, <1>3, <1>5, FileKeeps
<1>7. proc' \in [Procs -> ProcType] /\ \A q \in Procs : PlaceOK(proc[q])'
  BY <1>4, <1>5 DEF CertInv, TypeInv, ContentInv, PlaceOK
<1>8. /\ nkeys' = nkeys /\ ops' = ops /\ faults' = faults
      /\ created' = created /\ rewrite' = rewrite
  BY DEF WriteTruncate
<1>9. FileType' = FileType /\ ProcType' = ProcType
  BY <1>8 DEF FileType, Keys, ProcType, PairCert, Todos, WriteType
<1> QED
  BY <1>6, <1>7, <1>8, <1>9 DEF CertInv, TypeInv, ContentInv

LEMMA WriteFillType ==
    ASSUME CertInv, NEW p \in Procs, WriteFill(p)
    PROVE  CertInv'
<1> DEFINE w == Head(proc[p].todo)
           r == [proc[p] EXCEPT !.cut = FALSE, !.todo = Tail(@)]
<1>1. proc[p] \in ProcType /\ proc[p].todo \in Todos /\ proc[p].todo # <<>> /\ nkeys \in Nat
  BY DEF WriteFill, CertInv, TypeInv, ProcType
<1>2. w \in WriteType /\ Tail(proc[p].todo) \in Todos
  BY <1>1, TodoTail
<1>3. w.file \in Files /\ w.content \in FileType /\ (w.content.st = "whole" <=> w.content.key # 0)
  BY <1>1, <1>2 DEF WriteType, FileType, Keys
<1>4. r \in ProcType /\ PlaceOK(r)
  BY <1>1, <1>2 DEF ProcType, PlaceOK, CertInv, ContentInv
<1>5. proc' = [proc EXCEPT ![p] = r] /\ files' = [files EXCEPT ![w.file] = w.content]
  BY DEF WriteFill, Set
<1> HIDE DEF w, r
<1>6. files' \in [Files -> FileType] /\ \A g \in Files : files'[g].st = "whole" <=> files'[g].key # 0
  BY <1>3, <1>5, FileKeeps
<1>7. proc' \in [Procs -> ProcType] /\ \A q \in Procs : PlaceOK(proc[q])'
  BY <1>4, <1>5 DEF CertInv, TypeInv, ContentInv, PlaceOK
<1>8. /\ nkeys' = nkeys /\ ops' = ops /\ faults' = faults
      /\ created' = created /\ rewrite' = rewrite
  BY DEF WriteFill
<1>9. FileType' = FileType /\ ProcType' = ProcType
  BY <1>8 DEF FileType, Keys, ProcType, PairCert, Todos, WriteType
<1> QED
  BY <1>6, <1>7, <1>8, <1>9 DEF CertInv, TypeInv, ContentInv

(* A process that stays as it is keeps the invariant. *)
LEMMA StayKeeps ==
    ASSUME CertInv, proc' = proc, files' = files, nkeys' \in {nkeys, nkeys + 1},
           ops' \in 0 .. MaxOps, faults' \in 0 .. MaxFaults,
           created' \subseteq Ids, rewrite' \subseteq Ids
    PROVE  CertInv'
  BY Widen DEF CertInv, TypeInv, ContentInv, PlaceOK

(* Where nothing is left to write, and what the steps may count. *)
LEMMA StepFacts ==
    ASSUME CertInv, NEW p \in Procs
    PROVE  /\ proc[p] \in ProcType /\ PlaceOK(proc[p])
           /\ proc[p].todo = <<>> => ~proc[p].cut
           /\ Idle \in ProcType /\ PlaceOK(Idle)
           /\ ops \in 0 .. MaxOps /\ faults \in 0 .. MaxFaults
           /\ Start(p) => ops' \in 0 .. MaxOps /\ proc[p].todo = <<>>
           /\ faults < MaxFaults /\ faults' = faults + 1 => faults' \in 0 .. MaxFaults
           /\ Rewriting(p) \subseteq Ids
           /\ created \subseteq Ids /\ rewrite \subseteq Ids
           /\ nkeys \in Nat
<1> USE CertAssumption
<1>1. Idle \in ProcType /\ PlaceOK(Idle)
  BY DEF Idle, NoCert, NoPair, ProcType, PCs, PairCert, Todos, PlaceOK, Keys, CertInv, TypeInv
<1>2. proc[p] \in ProcType /\ PlaceOK(proc[p])
  BY DEF CertInv, TypeInv, ContentInv
<1>3. Rewriting(p) \subseteq Ids
  BY <1>2 DEF Rewriting, PlaceOK
<1> QED
  BY <1>1, <1>2, <1>3 DEF PlaceOK, CertInv, TypeInv, Start, At, ProcType

LEMMA TypeStep == CertInv /\ [Next]_vars => CertInv'
<1> SUFFICES ASSUME CertInv, [Next]_vars PROVE CertInv'
  OBVIOUS
<1> USE CertAssumption
<1>0. CASE UNCHANGED vars
  BY <1>0, StepFacts, StayKeeps DEF vars, CertInv, TypeInv
<1>1. ASSUME NEW p \in Procs, Step(p) PROVE CertInv'
  <2> USE <1>1
  <2>f. /\ proc[p] \in ProcType /\ PlaceOK(proc[p])
        /\ proc[p].todo = <<>> => ~proc[p].cut
        /\ Idle \in ProcType /\ PlaceOK(Idle)
        /\ ops \in 0 .. MaxOps /\ faults \in 0 .. MaxFaults
        /\ Start(p) => ops' \in 0 .. MaxOps /\ proc[p].todo = <<>>
        /\ faults < MaxFaults /\ faults' = faults + 1 => faults' \in 0 .. MaxFaults
        /\ Rewriting(p) \subseteq Ids
        /\ created \subseteq Ids /\ rewrite \subseteq Ids
        /\ nkeys \in Nat
    BY StepFacts
  <2>t. <<>> \in Todos /\ 0 \in Keys
    BY <2>f DEF Todos, Keys
  <2>c. \A n \in Names : /\ Private(n) \in FileType /\ Public(n) \in FileType /\ Cert(n) \in FileType
                         /\ Whole(Private(n)) => Private(n).key # 0
                         /\ Whole(Public(n)) => Public(n).key # 0
                         /\ Whole(Cert(n)) => Cert(n).key # 0
    BY DEF CertInv, TypeInv, ContentInv, Files, Private, Public, Cert, Whole
  <2>n. "ca" \in Names /\ Ids \subseteq Names /\ UserIds[p] \subseteq Ids /\ DeviceIds[p] \subseteq Ids
    BY DEF Names, Ids
  <2>k. nkeys' = nkeys => ProcType' = ProcType /\ Todos' = Todos /\ Keys' = Keys
    BY DEF ProcType, Keys, PairCert, Todos, WriteType
  <2>w. nkeys' = nkeys + 1 => /\ nkeys' \in Nat /\ nkeys' \in 1 .. nkeys' /\ nkeys' \in Keys'
                              /\ Keys \subseteq Keys' /\ ProcType \subseteq ProcType'
    BY <2>f, Widen DEF Keys
  <2>p. ASSUME Set(p, Idle), nkeys' = nkeys, files' = files, ops' \in 0 .. MaxOps,
               faults' \in 0 .. MaxFaults, created' \subseteq Ids, rewrite' \subseteq Ids
        PROVE  CertInv'
    BY <2>f, <2>k, <2>p, SetKeeps DEF Set
  <2>1. CASE WriteTruncate(p)
    BY <2>1, WriteTruncateType
  <2>2. CASE WriteFill(p)
    BY <2>2, WriteFillType
  <2>3. CASE WriteFails(p)
    <3> DEFINE r == [proc[p] EXCEPT !.pc = "idle", !.id = "none", !.tmp = 0,
                                    !.todo = <<>>, !.cut = FALSE]
    <3>1. r \in ProcType /\ PlaceOK(r)
      <4>1. r \in ProcType
        BY <2>f, <2>t DEF ProcType, PCs
      <4>2. PlaceOK(r)
        BY <2>f DEF ProcType, PlaceOK
      <4> QED
        BY <4>1, <4>2
    <3>2. Set(p, Idle) \/ Set(p, r)
      BY <2>3 DEF WriteFails, Panic
    <3> HIDE DEF r
    <3>3. CASE Set(p, r)
      BY <2>3, <2>f, <2>k, <3>1, <3>3, SetKeeps DEF WriteFails, Set
    <3> QED
      BY <2>3, <2>f, <2>p, <3>2, <3>3 DEF WriteFails
  <2>4. CASE Crash(p)
    BY <2>4, <2>f, <2>p DEF Crash, Panic
  <2>5. CASE BootstrapStat(p)
    <3> DEFINE r == [proc[p] EXCEPT !.pc = "boot_generate"]
    <3>1. r \in ProcType /\ (proc[p].todo = <<>> => PlaceOK(r))
      BY <2>f DEF ProcType, PCs, PlaceOK
    <3>2. proc' = proc \/ proc' = [proc EXCEPT ![p] = r]
      BY <2>5 DEF BootstrapStat, Goto, Set
    <3> HIDE DEF r
    <3> QED
      BY <2>5, <2>f, <2>k, <3>1, <3>2, SetKeeps, StayKeeps DEF BootstrapStat
  <2>6. CASE BootstrapGenerate(p)
    <3> DEFINE r == [proc[p] EXCEPT !.pc = "boot_public", !.todo = StoreKey("ca", nkeys')]
    <3>1. nkeys' = nkeys + 1 /\ StoreKey("ca", nkeys') \in Todos'
      BY <2>6, <2>f, <2>n, <2>w, StoreKeyTodo DEF BootstrapGenerate, GenerateKey
    <3>2. r \in ProcType'
      BY <2>f, <2>w, <3>1 DEF ProcType, PCs
    <3>3. PlaceOK(r)
      BY <2>6, <2>f DEF ProcType, PlaceOK, BootstrapGenerate, At
    <3>4. proc' = [proc EXCEPT ![p] = r]
      BY <2>6 DEF BootstrapGenerate, Set
    <3> HIDE DEF r
    <3> QED
      BY <2>6, <2>f, <3>1, <3>2, <3>3, <3>4, SetKeeps DEF BootstrapGenerate
  <2>7. CASE CreateCaCertPublic(p)
    <3> DEFINE r == [proc[p] EXCEPT !.pc = "boot_private", !.tmp = Public("ca").key]
    <3>1. r \in ProcType
      BY <2>f, <2>c, <2>n DEF ProcType, PCs, FileType
    <3>2. (proc' = [proc EXCEPT ![p] = r] /\ PlaceOK(r)) \/ Set(p, Idle)
      BY <2>7, <2>f, <2>c, <2>n DEF CreateCaCertPublic, Set, Panic, PlaceOK, ProcType, At
    <3> HIDE DEF r
    <3> QED
      BY <2>7, <2>f, <2>k, <2>p, <3>1, <3>2, SetKeeps DEF CreateCaCertPublic
  <2>8. CASE CreateCaCert(p)
    <3> DEFINE r == [proc[p] EXCEPT !.pc = "boot_done",
                       !.todo = << Write("ca", "cert", CertFile(proc[p].tmp, Private("ca").key)) >>]
    <3>1. nkeys' = nkeys /\ proc[p].tmp \in 1 .. nkeys' /\ Private("ca").key \in Keys'
      <4>1. nkeys' = nkeys /\ proc[p].tmp # 0
        BY <2>8, <2>f DEF CreateCaCert, At, PlaceOK
      <4>2. proc[p].tmp \in Keys /\ Private("ca").key \in Keys
        BY <2>f, <2>c, <2>n DEF ProcType, FileType
      <4> QED
        BY <2>f, <2>k, <4>1, <4>2 DEF Keys
    <3>2. r.todo \in Todos
      BY <2>f, <2>n, <2>k, <3>1, CertTodo DEF ProcType
    <3>3. r \in ProcType /\ PlaceOK(r)
      BY <2>8, <2>f, <3>2 DEF ProcType, PCs, PlaceOK, CreateCaCert, At
    <3>4. proc' = [proc EXCEPT ![p] = r] \/ Set(p, Idle)
      BY <2>8 DEF CreateCaCert, Set, Panic
    <3> HIDE DEF r
    <3> QED
      BY <2>8, <2>f, <2>k, <2>p, <3>3, <3>4, SetKeeps DEF CreateCaCert
  <2>9. CASE BootstrapReturns(p) \/ SignReturns(p) \/ CreateUserReturns(p)
    <3> DEFINE r == [proc[p] EXCEPT !.pc = "idle", !.id = "none", !.tmp = 0]
    <3>1. r \in ProcType /\ PlaceOK(r)
      <4>1. r \in ProcType
        BY <2>f, <2>t DEF ProcType, PCs
      <4>2. PlaceOK(r)
        BY <2>f DEF ProcType, PlaceOK
      <4> QED
        BY <4>1, <4>2
    <3>2. proc' = [proc EXCEPT ![p] = r]
      BY <2>9 DEF BootstrapReturns, SignReturns, CreateUserReturns, Return, Set
    <3>3. created' \subseteq Ids /\ rewrite' \subseteq Ids
      BY <2>9, <2>f DEF BootstrapReturns, SignReturns, CreateUserReturns, At, PlaceOK
    <3> HIDE DEF r
    <3> QED
      BY <2>9, <2>f, <2>k, <3>1, <3>2, <3>3, SetKeeps
         DEF BootstrapReturns, SignReturns, CreateUserReturns
  <2>10. CASE LoadStat(p)
    <3> DEFINE r == [proc[p] EXCEPT !.pc = "load_key"]
    <3>1. r \in ProcType /\ PlaceOK(r)
      BY <2>f DEF ProcType, PCs, PlaceOK
    <3>2. proc' = proc \/ proc' = [proc EXCEPT ![p] = r]
      BY <2>10 DEF LoadStat, Goto, Set
    <3> HIDE DEF r
    <3> QED
      BY <2>10, <2>f, <2>k, <3>1, <3>2, SetKeeps, StayKeeps DEF LoadStat
  <2>11. CASE LoadKey(p)
    <3> DEFINE r == [proc[p] EXCEPT !.pc = "load_cert", !.caKey = Private("ca").key]
    <3>1. r \in ProcType /\ PlaceOK(r)
      <4>1. Private("ca").key \in Keys
        BY <2>c, <2>n DEF FileType
      <4>2. r \in ProcType
        BY <2>f, <4>1 DEF ProcType, PCs
      <4>3. PlaceOK(r)
        BY <2>f DEF ProcType, PlaceOK
      <4> QED
        BY <4>2, <4>3
    <3>2. proc' = [proc EXCEPT ![p] = r] \/ Set(p, Idle)
      BY <2>11 DEF LoadKey, Set, Panic
    <3> HIDE DEF r
    <3> QED
      BY <2>11, <2>f, <2>k, <2>p, <3>1, <3>2, SetKeeps DEF LoadKey
  <2>12. CASE LoadCert(p)
    <3> DEFINE r(c) == [proc[p] EXCEPT !.pc = "idle", !.caCert = c]
    <3>1. ASSUME NEW c \in PairCert PROVE r(c) \in ProcType /\ PlaceOK(r(c))
      BY <2>f DEF ProcType, PCs, PlaceOK
    <3>2. NoCert \in PairCert /\ [key |-> Cert("ca").key, iss |-> Cert("ca").iss] \in PairCert
      BY <2>c, <2>n, <2>t DEF NoCert, PairCert, FileType
    <3>3. \/ proc' = [proc EXCEPT ![p] = r(NoCert)]
          \/ proc' = [proc EXCEPT ![p] = r([key |-> Cert("ca").key, iss |-> Cert("ca").iss])]
          \/ Set(p, Idle)
      <4>1. Cert("ca").st \in {"absent", "torn", "whole"}
        BY <2>c, <2>n DEF FileType
      <4> QED
        BY <2>12, <4>1 DEF LoadCert, Set, Panic, Whole
    <3> HIDE DEF r
    <3> QED
      BY <2>12, <2>f, <2>k, <2>p, <3>1, <3>2, <3>3, SetKeeps DEF LoadCert
  <2>13. ASSUME NEW n \in DeviceIds[p], SignCertificate(p, n) PROVE CertInv'
    <3> DEFINE r == [proc[p] EXCEPT !.pc = "sign_done", !.id = n, !.todo = SignedFor(p, n, nkeys')]
    <3>1. nkeys' = nkeys + 1 /\ proc[p].caKey \in Keys'
      BY <2>13, <2>f, <2>w DEF SignCertificate, GenerateKey, ProcType
    <3>2. SignedFor(p, n, nkeys') \in Todos'
      BY <2>n, <2>w, <3>1, CertTodo DEF SignedFor
    <3>3. r \in ProcType'
      <4>1. proc[p] \in ProcType' /\ n \in Ids
        BY <2>f, <2>w, <2>n, <3>1
      <4> QED
        BY <3>2, <4>1 DEF ProcType, PCs
    <3>4. PlaceOK(r)
      BY <2>13, <2>f DEF PlaceOK, ProcType, SignCertificate
    <3>5. proc' = [proc EXCEPT ![p] = r] \/ Set(p, Idle) \/ proc' = proc
      BY <2>13 DEF SignCertificate, Set, Panic
    <3>6. Idle \in ProcType' /\ nkeys' \in {nkeys, nkeys + 1}
      BY <2>f, <2>w, <3>1
    <3> HIDE DEF r
    <3> QED
      BY <2>13, <2>f, <3>3, <3>4, <3>5, <3>6, SetKeeps, StayKeeps DEF SignCertificate, Set
  <2>14. ASSUME NEW n \in UserIds[p], CreateUser(p, n) PROVE CertInv'
    <3> DEFINE r == [proc[p] EXCEPT !.pc = "user_sign", !.id = n, !.tmp = nkeys',
                                    !.todo = StoreKey(n, nkeys')]
    <3>1. nkeys' = nkeys + 1 /\ nkeys' # 0
      BY <2>14, <2>f DEF CreateUser, GenerateKey
    <3>2. StoreKey(n, nkeys') \in Todos'
      BY <2>n, <2>w, <3>1, StoreKeyTodo
    <3>3. r \in ProcType'
      <4>1. proc[p] \in ProcType' /\ n \in Ids /\ nkeys' \in Keys'
        BY <2>f, <2>w, <2>n, <3>1
      <4> QED
        BY <3>2, <4>1 DEF ProcType, PCs
    <3>4. PlaceOK(r)
      BY <2>14, <2>f, <2>n, <3>1 DEF PlaceOK, ProcType, CreateUser
    <3>5. proc' = [proc EXCEPT ![p] = r]
      BY <2>14 DEF CreateUser, Set
    <3> HIDE DEF r
    <3> QED
      BY <2>14, <2>f, <3>1, <3>3, <3>4, <3>5, SetKeeps DEF CreateUser
  <2>15. CASE CreateUserSign(p)
    <3> DEFINE g == [proc[p] EXCEPT !.pc = "user_done"]
               r == [proc[p] EXCEPT !.pc = "user_done",
                                    !.todo = SignedFor(p, proc[p].id, proc[p].tmp)]
    <3>1. /\ nkeys' = nkeys /\ nkeys' \in Nat /\ proc[p].tmp \in 1 .. nkeys'
          /\ proc[p].caKey \in Keys' /\ proc[p].id \in Names
      <4>1. nkeys' = nkeys /\ proc[p].tmp # 0 /\ proc[p].id \in Names
        BY <2>15, <2>f, <2>n DEF CreateUserSign, At, PlaceOK
      <4>2. proc[p].tmp \in Keys /\ proc[p].caKey \in Keys
        BY <2>f DEF ProcType
      <4> QED
        BY <2>f, <2>k, <4>1, <4>2 DEF Keys
    <3>2. SignedFor(p, proc[p].id, proc[p].tmp) \in Todos
      BY <2>k, <3>1, CertTodo DEF SignedFor
    <3>3. r \in ProcType /\ g \in ProcType
      BY <2>f, <3>2 DEF ProcType, PCs
    <3>4. PlaceOK(r) /\ PlaceOK(g)
      BY <2>15, <2>f DEF PlaceOK, ProcType, CreateUserSign, At
    <3>5. proc' = [proc EXCEPT ![p] = r] \/ proc' = [proc EXCEPT ![p] = g] \/ Set(p, Idle)
      BY <2>15 DEF CreateUserSign, Set, Goto, Panic
    <3>6. rewrite' \subseteq Ids
      BY <2>15, <2>f DEF CreateUserSign, At, PlaceOK
    <3> HIDE DEF r, g
    <3> QED
      BY <2>15, <2>f, <2>k, <2>p, <3>3, <3>4, <3>5, <3>6, SetKeeps DEF CreateUserSign
  <2>16. ASSUME NEW n \in Ids, GetPrivkey(p, n) PROVE CertInv'
    <3> DEFINE r == [proc[p] EXCEPT !.pc = "get_cert", !.id = n, !.tmp = Private(n).key]
    <3>1. r \in ProcType /\ PlaceOK(r)
      <4>1. Private(n).key \in Keys /\ n \in Ids
        BY <2>c, <2>n DEF FileType
      <4>2. r \in ProcType
        BY <2>f, <4>1 DEF ProcType, PCs
      <4>3. PlaceOK(r)
        BY <2>16, <2>f, <4>1 DEF GetPrivkey, ProcType, PlaceOK
      <4> QED
        BY <4>2, <4>3
    <3>2. proc' = [proc EXCEPT ![p] = r] \/ Set(p, Idle) \/ proc' = proc
      <4>1. Private(n).st \in {"absent", "torn", "whole"}
        BY <2>c, <2>n DEF FileType
      <4> QED
        BY <2>16, <4>1 DEF GetPrivkey, Set, Panic, Whole
    <3> HIDE DEF r
    <3> QED
      BY <2>16, <2>f, <2>k, <2>p, <3>1, <3>2, SetKeeps, StayKeeps DEF GetPrivkey
  <2>17. CASE GetCertificate(p)
    <3> DEFINE n == proc[p].id
               c == [key |-> Cert(n).key, iss |-> Cert(n).iss]
               q == [id |-> n, key |-> proc[p].tmp, cert |-> c]
               g == [proc[p] EXCEPT !.pc = "idle", !.id = "none", !.tmp = 0]
               r == [proc[p] EXCEPT !.pc = "idle", !.id = "none", !.tmp = 0, !.pair = q]
    <3>1. n \in Ids /\ Cert(n) \in FileType
      BY <2>17, <2>f, <2>c, <2>n DEF GetCertificate, At, PlaceOK
    <3>2. q \in [id : Ids \cup {"none"}, key : Keys, cert : PairCert]
      BY <2>f, <3>1 DEF FileType, PairCert, ProcType
    <3>3. proc' = [proc EXCEPT ![p] = r] \/ proc' = [proc EXCEPT ![p] = g] \/ Set(p, Idle)
      <4>1. Cert(n).st \in {"absent", "torn", "whole"}
        BY <3>1 DEF FileType
      <4> QED
        BY <2>17, <4>1 DEF GetCertificate, Set, Return, Panic, Whole
    <3> HIDE DEF q
    <3>4. r \in ProcType /\ g \in ProcType
      <4>1. r \in ProcType
        BY <2>f, <2>t, <3>2 DEF ProcType, PCs
      <4>2. g \in ProcType
        BY <2>f, <2>t DEF ProcType, PCs
      <4> QED
        BY <4>1, <4>2
    <3>5. PlaceOK(r) /\ PlaceOK(g)
      BY <2>f DEF ProcType, PlaceOK
    <3> HIDE DEF r, g
    <3> QED
      BY <2>17, <2>f, <2>k, <2>p, <3>3, <3>4, <3>5, SetKeeps DEF GetCertificate
  <2> QED
    BY <2>1, <2>2, <2>3, <2>4, <2>5, <2>6, <2>7, <2>8, <2>9, <2>10, <2>11, <2>12, <2>13,
       <2>14, <2>15, <2>16, <2>17 DEF Step
<1> QED
  BY <1>0, <1>1 DEF Next

-----------------------------------------------------------------------------
(* The chain *)

LEMMA ChainInit == Serial /\ Init => ChainInv
<1> SUFFICES ASSUME Serial, Init PROVE ChainInv
  OBVIOUS
<1> USE CertAssumption
<1>1. \A p \in Procs : proc[p] = Idle
  BY DEF Init
<1>2. \A p \in Procs : InStep(proc[p]) /\ ~Founding(proc[p])
  BY <1>1 DEF InStep, Founding, PendingCert, Idle
<1>3. \A n \in Names : <<n, "cert">> \in Files /\ <<n, "private">> \in Files
  BY DEF Files
<1>4. CertsChainToCa
  BY <1>3 DEF Init, CertsChainToCa, Whole, Cert, Private, Absent, CertFile, KeyFile, Names
<1>5. CaPresent => Whole(Private("ca"))
  BY <1>3 DEF Init, Whole, Private, KeyFile, Names
<1> QED
  BY <1>2, <1>4, <1>5 DEF ChainInv

(* A step that writes no file. *)
LEMMA QuietStep ==
    ASSUME CertInv, ChainInv, NEW p \in Procs, NEW r, proc' = [proc EXCEPT ![p] = r],
           files' = files, InStep(r), Founding(r) => Procs = {p}
    PROVE  ChainInv'
<1>1. \A q \in Procs : proc'[q] = IF q = p THEN r ELSE proc[q]
  BY DEF CertInv, TypeInv
<1>2. \A n : Private(n)' = Private(n) /\ Cert(n)' = Cert(n)
  BY DEF Private, Cert
<1>3. \A q \in Procs : InStep(proc[q])' /\ (Founding(proc[q])' => Procs = {q})
  <2> TAKE q \in Procs
  <2>1. CASE q = p
    BY <1>1, <1>2, <2>1 DEF InStep, Founding, PendingCert
  <2>2. CASE q # p
    BY <1>1, <1>2, <2>2 DEF InStep, Founding, PendingCert, ChainInv
  <2> QED
    BY <2>1, <2>2
<1> QED
  BY <1>2, <1>3 DEF ChainInv, CertsChainToCa

(* An operation keeps the CA key it holds, and begins or ends no write. *)
LEMMA SameKey ==
    ASSUME NEW p \in Procs, InStep(proc[p]), NEW r, r.caKey = proc[p].caKey, r.todo = <<>>,
           r.pc # "boot_generate"
    PROVE  InStep(r) /\ ~Founding(r)
  BY DEF InStep, Founding, PendingCert

LEMMA ChainQuiet ==
    ASSUME Serial, CertInv, ChainInv, NEW p \in Procs, Step(p),
           ~WriteTruncate(p), ~WriteFill(p)
    PROVE  ChainInv'
<1> USE CertAssumption
<1>f. files' = files
  BY DEF Step, WriteFails, Crash, BootstrapStat, BootstrapGenerate, CreateCaCertPublic,
     CreateCaCert, BootstrapReturns, LoadStat, LoadKey, LoadCert, CreateUserSign,
     CreateUserReturns, SignReturns, GetCertificate, CreateUser, GetPrivkey, SignCertificate
<1>p. proc[p] \in ProcType /\ InStep(proc[p]) /\ (Founding(proc[p]) => Procs = {p})
  BY DEF CertInv, TypeInv, ChainInv
<1>e. proc' = proc => ChainInv'
  BY <1>f, <1>p, QuietStep DEF CertInv, TypeInv
<1>i. Set(p, Idle) => ChainInv'
  <2>1. InStep(Idle) /\ ~Founding(Idle)
    BY DEF InStep, Founding, PendingCert, Idle
  <2> QED
    BY <1>f, <2>1, QuietStep DEF Set
<1>s. ASSUME NEW r, Set(p, r), r.caKey = proc[p].caKey, r.todo = <<>>, r.pc # "boot_generate"
      PROVE  ChainInv'
  BY <1>f, <1>p, <1>s, SameKey, QuietStep DEF Set
<1>1. CASE WriteFails(p)
  BY <1>1, <1>i, <1>s, <1>p DEF WriteFails, Panic, ProcType
<1>2. CASE Crash(p)
  BY <1>2, <1>i DEF Crash, Panic
<1>3. CASE BootstrapStat(p)
  <2>1. CASE proc' = proc
    BY <1>e, <2>1
  <2>2. CASE Private("ca").st = "absent"
    <3> DEFINE r == [proc[p] EXCEPT !.pc = "boot_generate"]
    <3>1. ~Whole(Private("ca")) /\ Procs = {p}
      BY <2>2 DEF Whole, ChainInv, Serial
    <3>2. proc' = [proc EXCEPT ![p] = r]
      BY <1>3, <2>2 DEF BootstrapStat, Goto, Set
    <3>3. InStep(r)
      BY <1>3, <1>p, <3>1 DEF BootstrapStat, Start, At, ProcType, InStep, PendingCert
    <3> QED
      BY <1>f, <3>1, <3>2, <3>3, QuietStep
  <2> QED
    BY <1>3, <2>1, <2>2 DEF BootstrapStat
<1>4. CASE BootstrapGenerate(p)
  <2> DEFINE r == [proc[p] EXCEPT !.pc = "boot_public", !.todo = StoreKey("ca", nkeys')]
  <2>1. ~Whole(Private("ca")) /\ Procs = {p} /\ proc[p].caKey = 0
    BY <1>4, <1>p DEF BootstrapGenerate, At, Founding, InStep
  <2>2. Head(StoreKey("ca", nkeys')).file[2] = "private"
    BY DEF StoreKey, Write
  <2>3. InStep(r)
    BY <1>p, <2>1, <2>2 DEF InStep, PendingCert, ProcType
  <2>4. proc' = [proc EXCEPT ![p] = r]
    BY <1>4 DEF BootstrapGenerate, Set
  <2> QED
    BY <1>f, <2>1, <2>3, <2>4, QuietStep
<1>5. CASE CreateCaCertPublic(p)
  BY <1>5, <1>i, <1>s, <1>p DEF CreateCaCertPublic, Panic, At, ProcType
<1>6. CASE CreateCaCert(p)
  <2> DEFINE w == Write("ca", "cert", CertFile(proc[p].tmp, Private("ca").key))
             r == [proc[p] EXCEPT !.pc = "boot_done", !.todo = <<w>>]
  <2>1. CASE Whole(Private("ca"))
    <3>1. w.content.iss = Private("ca").key /\ w.file[2] = "cert"
      BY DEF Write, CertFile
    <3>2. r.todo # <<>> /\ Head(r.todo) = w /\ r.caKey = proc[p].caKey /\ r.pc = "boot_done"
      BY <1>p DEF ProcType
    <3>3. proc' = [proc EXCEPT ![p] = r]
      BY <1>6, <2>1 DEF CreateCaCert, Set
    <3> HIDE DEF w, r
    <3>4. InStep(r) /\ ~Founding(r)
      BY <1>p, <2>1, <3>1, <3>2 DEF InStep, PendingCert, Founding
    <3> QED
      BY <1>f, <3>3, <3>4, QuietStep
  <2> QED
    BY <1>6, <1>i, <2>1 DEF CreateCaCert, Panic
<1>7. CASE BootstrapReturns(p) \/ SignReturns(p) \/ CreateUserReturns(p)
  BY <1>7, <1>s, <1>p DEF BootstrapReturns, SignReturns, CreateUserReturns, Return, At, ProcType
<1>8. CASE LoadStat(p)
  BY <1>8, <1>e, <1>s, <1>p DEF LoadStat, Goto, Start, At, ProcType
<1>9. CASE LoadKey(p)
  <2> DEFINE r == [proc[p] EXCEPT !.pc = "load_cert", !.caKey = Private("ca").key]
  <2>1. CASE Whole(Private("ca"))
    <3>1. proc' = [proc EXCEPT ![p] = r]
      BY <1>9, <2>1 DEF LoadKey, Set
    <3>2. r.pc = "load_cert" /\ r.todo = <<>> /\ r.caKey = Private("ca").key
      BY <1>9, <1>p DEF LoadKey, At, ProcType
    <3> HIDE DEF r
    <3>3. InStep(r) /\ ~Founding(r)
      BY <2>1, <3>2 DEF InStep, Founding, PendingCert
    <3> QED
      BY <1>f, <3>1, <3>3, QuietStep
  <2> QED
    BY <1>9, <1>i, <2>1 DEF LoadKey, Panic
<1>10. CASE LoadCert(p)
  <2>1. Cert("ca").st \in {"absent", "torn", "whole"}
    BY DEF CertInv, TypeInv, FileType, Files, Cert, Names
  <2> QED
    BY <1>10, <1>i, <1>s, <1>p, <2>1 DEF LoadCert, Whole, Panic, At, ProcType
<1>w. ASSUME NEW n \in Ids, NEW k, NEW r, CanSign(p), Set(p, r), r.caKey = proc[p].caKey,
             r.todo = SignedFor(p, n, k), r.pc # "boot_generate"
      PROVE  ChainInv'
  <2>1. /\ Head(r.todo).file[2] = "cert" /\ r.todo # <<>>
        /\ Head(r.todo).content.iss = proc[p].caKey
    BY <1>w DEF SignedFor, Write, CertFile
  <2>2. Whole(Private("ca")) /\ proc[p].caKey = Private("ca").key
    BY <1>w, <1>p DEF CanSign, InStep
  <2>3. InStep(r) /\ ~Founding(r)
    BY <1>w, <2>1, <2>2 DEF InStep, Founding, PendingCert
  <2> QED
    BY <1>f, <1>w, <2>3, QuietStep DEF Set
<1>11. ASSUME NEW n \in DeviceIds[p], SignCertificate(p, n) PROVE ChainInv'
  <2> DEFINE r == [proc[p] EXCEPT !.pc = "sign_done", !.id = n, !.todo = SignedFor(p, n, nkeys')]
  <2>1. r.caKey = proc[p].caKey /\ r.todo = SignedFor(p, n, nkeys') /\ r.pc # "boot_generate"
    BY <1>p DEF ProcType
  <2>2. Set(p, Idle) \/ proc' = proc \/ (CanSign(p) /\ Set(p, r))
    BY <1>11 DEF SignCertificate, Panic
  <2> HIDE DEF r
  <2>3. n \in Ids
    BY DEF Ids
  <2> QED
    BY <1>i, <1>e, <1>w, <2>1, <2>2, <2>3
<1>12. ASSUME NEW n \in UserIds[p], CreateUser(p, n) PROVE ChainInv'
  <2> DEFINE r == [proc[p] EXCEPT !.pc = "user_sign", !.id = n, !.tmp = nkeys',
                                  !.todo = StoreKey(n, nkeys')]
  <2>1. r.caKey = proc[p].caKey /\ r.todo = StoreKey(n, nkeys') /\ r.pc = "user_sign"
    BY <1>p DEF ProcType
  <2>2. Set(p, r)
    BY <1>12 DEF CreateUser
  <2> HIDE DEF r
  <2>3. n # "ca"
    BY DEF Ids
  <2>4. Head(StoreKey(n, nkeys')).file = <<n, "private">>
    BY DEF StoreKey, Write
  <2>5. InStep(r) /\ ~Founding(r)
    BY <1>p, <2>1, <2>3, <2>4 DEF InStep, Founding, PendingCert
  <2> QED
    BY <1>f, <2>2, <2>5, QuietStep DEF Set
<1>13. CASE CreateUserSign(p)
  <2> DEFINE g == [proc[p] EXCEPT !.pc = "user_done"]
             r == [proc[p] EXCEPT !.pc = "user_done",
                                  !.todo = SignedFor(p, proc[p].id, proc[p].tmp)]
  <2>1. r.caKey = proc[p].caKey /\ r.todo = SignedFor(p, proc[p].id, proc[p].tmp)
        /\ r.pc # "boot_generate"
    BY <1>p DEF ProcType
  <2>2. g.caKey = proc[p].caKey /\ g.todo = <<>> /\ g.pc # "boot_generate"
    BY <1>13, <1>p DEF ProcType, CreateUserSign, At
  <2>3. Set(p, Idle) \/ Set(p, g) \/ (CanSign(p) /\ Set(p, r))
    BY <1>13 DEF CreateUserSign, Panic, Goto
  <2>4. proc[p].id \in Ids
    BY <1>13 DEF CreateUserSign, At, CertInv, ContentInv, PlaceOK
  <2> HIDE DEF r, g
  <2> QED
    BY <1>i, <1>s, <1>w, <2>1, <2>2, <2>3, <2>4
<1>14. ASSUME NEW n \in Ids, GetPrivkey(p, n) PROVE ChainInv'
  <2>1. Private(n).st \in {"absent", "torn", "whole"}
    BY DEF CertInv, TypeInv, FileType, Files, Private, Names, Ids
  <2> QED
    BY <1>14, <1>i, <1>e, <1>s, <1>p, <2>1 DEF GetPrivkey, Whole, Panic, Start, At, ProcType
<1>15. CASE GetCertificate(p)
  <2>1. Cert(proc[p].id).st \in {"absent", "torn", "whole"}
    BY <1>15 DEF GetCertificate, At, CertInv, ContentInv, PlaceOK, TypeInv, FileType, Files,
       Cert, Names
  <2> QED
    BY <1>15, <1>i, <1>s, <1>p, <2>1 DEF GetCertificate, Return, Whole, Panic, At, ProcType
<1> QED
  BY <1>1, <1>2, <1>3, <1>4, <1>5, <1>6, <1>7, <1>8, <1>9, <1>10, <1>11, <1>12, <1>13,
     <1>14, <1>15 DEF Step

(* os.WriteFile truncates: a certificate may go, the CA's key only before *)
(* the CA is founded.                                                      *)
LEMMA ChainTruncate ==
    ASSUME CertInv, ChainInv, NEW p \in Procs, WriteTruncate(p)
    PROVE  ChainInv'
<1> DEFINE f == Head(proc[p].todo).file
           r == [proc[p] EXCEPT !.cut = TRUE]
<1>1. proc[p] \in ProcType /\ proc[p].todo # <<>> /\ InStep(proc[p])
      /\ (Founding(proc[p]) => Procs = {p})
  BY DEF WriteTruncate, CertInv, TypeInv, ChainInv
<1>2. f \in Files
  BY <1>1, TodoTail DEF WriteType, ProcType
<1>3. r.caKey = proc[p].caKey /\ r.todo = proc[p].todo /\ r.pc = proc[p].pc
  BY <1>1 DEF ProcType
<1>4. files' = [files EXCEPT ![f] = Torn] /\ \A q \in Procs : proc'[q] = IF q = p THEN r ELSE proc[q]
  BY DEF WriteTruncate, Set, CertInv, TypeInv
<1>5. \A n \in Names : /\ Cert(n)' = IF f = <<n, "cert">> THEN Torn ELSE Cert(n)
                       /\ Private(n)' = IF f = <<n, "private">> THEN Torn ELSE Private(n)
  BY <1>4 DEF Cert, Private, Files, CertInv, TypeInv
<1>6. f = <<"ca", "private">> => Founding(proc[p])
  BY <1>1 DEF Founding
<1> HIDE DEF f, r
<1>7. \A q \in Procs : /\ proc'[q].caKey = proc[q].caKey /\ proc'[q].todo = proc[q].todo
                       /\ proc'[q].pc = proc[q].pc
  BY <1>3, <1>4
<1>8. "ca" \in Names /\ ~Whole(Torn)
  BY DEF Names, Whole, Torn
<1>9. CASE f = <<"ca", "private">>
  <2>1. ~Whole(Private("ca")) /\ ~Whole(Private("ca")')
    BY <1>1, <1>5, <1>6, <1>8, <1>9 DEF InStep
  <2>2. \A n \in Names : Cert(n)' = Cert(n) /\ ~Whole(Cert(n))
    BY <1>5, <1>9, <2>1 DEF ChainInv, CertsChainToCa
  <2>3. \A q \in Procs : InStep(proc[q])'
    BY <1>7, <2>1 DEF ChainInv, InStep, PendingCert, Founding, Whole
  <2> QED
    BY <1>7, <2>1, <2>2, <2>3 DEF ChainInv, CertsChainToCa, Founding, Whole
<1>10. CASE f # <<"ca", "private">>
  <2>1. Private("ca")' = Private("ca")
    BY <1>5, <1>8, <1>10
  <2>2. \A n \in Names : Whole(Cert(n)) ' => Whole(Cert(n)) /\ Cert(n)' = Cert(n)
    BY <1>5, <1>8 DEF Whole
  <2>3. \A q \in Procs : InStep(proc[q])'
    BY <1>7, <2>1 DEF ChainInv, InStep, PendingCert, Founding, Whole
  <2> QED
    BY <1>7, <2>1, <2>2, <2>3 DEF ChainInv, CertsChainToCa, Founding, Whole
<1> QED
  BY <1>9, <1>10

(* ... and fills: the CA's key founds the chain, a certificate joins it. *)
LEMMA ChainFill ==
    ASSUME CertInv, ChainInv, NEW p \in Procs, WriteFill(p)
    PROVE  ChainInv'
<1> DEFINE w == Head(proc[p].todo)
           r == [proc[p] EXCEPT !.cut = FALSE, !.todo = Tail(@)]
<1>1. proc[p] \in ProcType /\ proc[p].todo # <<>> /\ InStep(proc[p]) /\ PlaceOK(proc[p])
      /\ (Founding(proc[p]) => Procs = {p})
  BY DEF WriteFill, CertInv, TypeInv, ContentInv, ChainInv
<1>2. w \in WriteType /\ (Tail(proc[p].todo) # <<>> => Head(Tail(proc[p].todo)).file[2] = "public")
  BY <1>1, TodoTail DEF ProcType
<1>3. r.caKey = proc[p].caKey /\ r.todo = Tail(proc[p].todo) /\ r.pc = proc[p].pc
  BY <1>1 DEF ProcType
<1>4. files' = [files EXCEPT ![w.file] = w.content]
      /\ \A q \in Procs : proc'[q] = IF q = p THEN r ELSE proc[q]
  BY DEF WriteFill, Set, CertInv, TypeInv
<1>5. \A n \in Names :
        /\ Cert(n)' = IF w.file = <<n, "cert">> THEN w.content ELSE Cert(n)
        /\ Private(n)' = IF w.file = <<n, "private">> THEN w.content ELSE Private(n)
  BY <1>2, <1>4 DEF Cert, Private, Files, CertInv, TypeInv
<1>6. /\ w.file = <<"ca", "private">> => Founding(proc[p])
      /\ w.file[2] = "cert" => PendingCert(proc[p])
  BY <1>1 DEF Founding, PendingCert
<1>7. ~PendingCert(r) /\ ~Founding(r)
  BY <1>1, <1>2, <1>3 DEF PendingCert, Founding, PlaceOK
<1>8. w.file[2] = "cert" => Whole(Private("ca")) /\ w.content.iss = Private("ca").key
  BY <1>1, <1>6 DEF InStep
<1>9. w.content.st = "whole" /\ "ca" \in Names
  BY <1>2 DEF WriteType, Names
<1> HIDE DEF w, r
<1>10. CASE w.file = <<"ca", "private">>
  <2>1. ~Whole(Private("ca")) /\ Whole(Private("ca"))' /\ Procs = {p}
    BY <1>1, <1>5, <1>6, <1>9, <1>10 DEF InStep, Whole
  <2>2. \A n \in Names : ~Whole(Cert(n))'
    BY <1>5, <1>10, <2>1 DEF ChainInv, CertsChainToCa, Whole
  <2>3. proc'[p] = r /\ r.caKey = 0
    BY <1>1, <1>3, <1>4, <2>1 DEF InStep
  <2>4. InStep(proc[p])' /\ ~Founding(proc[p])'
    BY <1>7, <2>3 DEF InStep, PendingCert, Founding
  <2> QED
    BY <2>1, <2>2, <2>4 DEF ChainInv, CertsChainToCa
<1>11. CASE w.file # <<"ca", "private">>
  <2>1. Private("ca")' = Private("ca")
    BY <1>5, <1>9, <1>11
  <2>2. CertsChainToCa'
    <3> SUFFICES ASSUME NEW n \in Names, Whole(Cert(n))'
                 PROVE  Whole(Private("ca")) /\ Cert(n)'.iss = Private("ca").key
      BY <2>1 DEF CertsChainToCa, Whole
    <3>1. CASE w.file = <<n, "cert">>
      BY <1>5, <1>8, <3>1
    <3>2. CASE w.file # <<n, "cert">>
      BY <1>5, <3>2 DEF ChainInv, CertsChainToCa, Whole
    <3> QED
      BY <3>1, <3>2
  <2>3. \A q \in Procs : InStep(proc[q])' /\ (Founding(proc[q])' => Procs = {q})
    <3> TAKE q \in Procs
    <3>1. CASE q = p
      <4>1. proc'[p] = r
        BY <1>4
      <4>2. r.caKey # 0 => Whole(Private("ca")) /\ r.caKey = Private("ca").key
        BY <1>1, <1>3 DEF InStep
      <4> QED
        BY <1>7, <2>1, <3>1, <4>1, <4>2 DEF InStep, PendingCert, Founding, Whole
    <3>2. CASE q # p
      BY <1>4, <2>1, <3>2 DEF ChainInv, InStep, PendingCert, Founding, Whole
    <3> QED
      BY <3>1, <3>2
  <2> QED
    BY <2>1, <2>2, <2>3 DEF ChainInv, Whole
<1> QED
  BY <1>10, <1>11

LEMMA ChainStep == Serial /\ CertInv /\ ChainInv /\ [Next]_vars => ChainInv'
<1> SUFFICES ASSUME Serial, CertInv, ChainInv, [Next]_vars PROVE ChainInv'
  OBVIOUS
<1>1. CASE UNCHANGED vars
  BY <1>1 DEF vars, ChainInv, CertsChainToCa, InStep, PendingCert, Founding, Whole, Cert, Private
<1>2. ASSUME NEW p \in Procs, Step(p) PROVE ChainInv'
  BY <1>2, ChainQuiet, ChainTruncate, ChainFill
<1> QED
  BY <1>1, <1>2 DEF Next

-----------------------------------------------------------------------------
(* The directory as a certificate authority *)

(* The abstract step that replacing one file is. *)
LEMMA FileStep ==
    ASSUME CertInv, CertInv', ChainInv', NEW f \in Files, NEW c,
           files' = [files EXCEPT ![f] = c],
           f = <<"ca", "private">> => ~Whole(Private("ca"))
    PROVE  CA!Next \/ UNCHANGED <<caKeyOnDisk, retrievable>>
<1> USE CertAssumption
<1>1. PICK n \in Names, s \in {"private", "public", "cert"} : f = <<n, s>>
  BY DEF Files
<1>2. \A m \in Names : m # n => Private(m)' = Private(m) /\ Cert(m)' = Cert(m)
  BY <1>1 DEF CertInv, TypeInv, Files, Private, Cert
<1>3. \A m \in Ids : m # n => Retrievable(m)' = Retrievable(m)
  BY <1>2 DEF Retrievable, Matches, Whole, Names
<1>4. CASE n = "ca"
  <2>1. retrievable' = retrievable
    BY <1>3, <1>4 DEF retrievable
  <2>2. CASE s = "private"
    <3>1. Private("ca").key = 0
      BY <1>1, <1>4, <2>2 DEF CertInv, ContentInv, Whole, Private, Files, Names
    <3>2. Private("ca")'.key \in Nat
      BY DEF CertInv, TypeInv, FileType, Keys, Files, Names, Private
    <3> QED
      BY <2>1, <3>1, <3>2 DEF CA!Next, CA!Establish, caKeyOnDisk, retrievable, Retrievable
  <2>3. CASE s # "private"
    BY <1>1, <1>4, <2>1, <2>3 DEF CertInv, TypeInv, Files, Private, Names, caKeyOnDisk
  <2> QED
    BY <2>2, <2>3
<1>5. CASE n # "ca"
  <2>1. n \in Ids /\ Private("ca")' = Private("ca")
    BY <1>2, <1>5 DEF Names
  <2>2. retrievable' = [retrievable EXCEPT ![n] = retrievable'[n]]
    BY <1>3, <2>1 DEF retrievable
  <2>3. CASE Matches(n)'
    <3>1. retrievable'[n].iss = Private("ca").key /\ Whole(Private("ca"))
      BY <2>1, <2>3 DEF caKeyOnDisk, retrievable, Retrievable, Matches, ChainInv, CertsChainToCa, Names, Whole
    <3>2. Private("ca").key # 0
      BY <3>1 DEF CertInv, ContentInv, Whole, Private, Files, Names
    <3>3. CA!Issue(n)
      BY <2>1, <2>2, <3>1, <3>2 DEF CA!Issue, caKeyOnDisk, retrievable, Retrievable
    <3> QED
      BY <2>1, <3>3 DEF CA!Next
  <2>4. CASE ~Matches(n)'
    <3>1. retrievable'[n] = [key |-> 0, iss |-> 0]
      BY <2>1, <2>4 DEF caKeyOnDisk, retrievable, Retrievable
    <3>2. CA!Withdraw(n)
      BY <2>1, <2>2, <3>1 DEF CA!Withdraw, CA!None, caKeyOnDisk, retrievable, Retrievable
    <3> QED
      BY <2>1, <3>2 DEF CA!Next
  <2> QED
    BY <2>3, <2>4
<1> QED
  BY <1>4, <1>5

LEMMA CaInit == CertInv /\ Init => CA!Init
<1> SUFFICES ASSUME CertInv, Init PROVE CA!Init
  OBVIOUS
<1> USE CertAssumption
<1>1. \A n \in Ids : ~Matches(n)
  BY DEF Init, Matches, Whole, Private, Absent, Files, Names
<1>2. Private("ca").key \in Nat
  BY DEF CertInv, TypeInv, FileType, Keys, Files, Names, Private
<1> QED
  BY <1>1, <1>2 DEF CA!Init, CA!None, caKeyOnDisk, retrievable, Retrievable

LEMMA CaStep ==
    CertInv /\ ChainInv /\ CertInv' /\ ChainInv' /\ [Next]_vars
    => [CA!Next]_<<caKeyOnDisk, retrievable>>
<1> SUFFICES ASSUME CertInv, ChainInv, CertInv', ChainInv', [Next]_vars
             PROVE  CA!Next \/ UNCHANGED <<caKeyOnDisk, retrievable>>
  OBVIOUS
<1>1. ASSUME files' = files PROVE UNCHANGED <<caKeyOnDisk, retrievable>>
  BY <1>1 DEF caKeyOnDisk, Private, Cert, retrievable, Retrievable, Matches, Whole
<1>2. CASE UNCHANGED vars
  BY <1>1, <1>2 DEF vars
<1>3. ASSUME NEW p \in Procs, Step(p) PROVE CA!Next \/ UNCHANGED <<caKeyOnDisk, retrievable>>
  <2> DEFINE w == Head(proc[p].todo)
  <2>1. proc[p].todo # <<>> => /\ w.file \in Files
                               /\ w.file = <<"ca", "private">> => ~Whole(Private("ca"))
    BY TodoTail DEF WriteType, CertInv, TypeInv, ProcType, ChainInv, InStep, Founding
  <2>2. CASE WriteTruncate(p)
    <3>1. files' = [files EXCEPT ![w.file] = Torn] /\ proc[p].todo # <<>>
      BY <2>2 DEF WriteTruncate
    <3> HIDE DEF w
    <3> QED
      BY <2>1, <3>1, FileStep
  <2>3. CASE WriteFill(p)
    <3>1. files' = [files EXCEPT ![w.file] = w.content] /\ proc[p].todo # <<>>
      BY <2>3 DEF WriteFill
    <3> HIDE DEF w
    <3> QED
      BY <2>1, <3>1, FileStep
  <2>4. CASE ~WriteTruncate(p) /\ ~WriteFill(p)
    BY <1>1, <1>3, <2>4 DEF Step, WriteFails, Crash, BootstrapStat, BootstrapGenerate,
       CreateCaCertPublic, CreateCaCert, BootstrapReturns, LoadStat, LoadKey, LoadCert,
       CreateUserSign, CreateUserReturns, SignReturns, GetCertificate, CreateUser, GetPrivkey,
       SignCertificate
  <2> QED
    BY <2>2, <2>3, <2>4
<1> QED
  BY <1>2, <1>3 DEF Next

-----------------------------------------------------------------------------
(* Theorems *)

(* The invariant of types and contents holds for any number of processes   *)
(* bootstrapping, signing, crashing and failing to write at the same time. *)
THEOREM CertInvariant == Spec => []CertInv
  BY TypeInit, TypeStep, PTL DEF Spec

(* Type correctness of the directory and of every process. *)
THEOREM CertTypeCorrect == Spec => []CertTypeOK
<1>1. CertInv => CertTypeOK
  <2> SUFFICES ASSUME CertInv PROVE CertTypeOK
    OBVIOUS
  <2> USE CertAssumption
  <2>1. \A f \in Files : files[f] \in [st : {"absent", "torn", "whole"}, key : 0 .. nkeys, iss : 0 .. nkeys]
    BY DEF CertInv, TypeInv, FileType, Keys
  <2>2. ASSUME NEW p \in Procs
        PROVE  /\ proc[p].caKey \in 0 .. nkeys /\ proc[p].tmp \in 0 .. nkeys
               /\ proc[p].id \in Ids \cup {"none"}
               /\ Len(proc[p].todo) <= 2 /\ (proc[p].cut => proc[p].todo # <<>>)
    <3>1. proc[p] \in ProcType /\ PlaceOK(proc[p])
      BY DEF CertInv, TypeInv, ContentInv
    <3>2. Len(proc[p].todo) <= 2
      <4>1. proc[p].todo \in Todos
        BY <3>1 DEF ProcType
      <4>2. CASE proc[p].todo = <<>>
        BY <4>2
      <4>3. CASE \E a \in WriteType : proc[p].todo = <<a>>
        <5>1. PICK a \in WriteType : proc[p].todo = <<a>>
          BY <4>3
        <5> QED
          BY <5>1
      <4>4. CASE \E a \in WriteType, b \in WriteType : proc[p].todo = <<a, b>>
        <5>1. PICK a \in WriteType, b \in WriteType : proc[p].todo = <<a, b>>
          BY <4>4
        <5> QED
          BY <5>1
      <4> QED
        BY <4>1, <4>2, <4>3, <4>4 DEF Todos
    <3> QED
      BY <3>1, <3>2 DEF ProcType, Keys, PlaceOK
  <2>3. ops <= MaxOps /\ faults <= MaxFaults /\ created \subseteq Ids /\ rewrite \subseteq Ids
    BY DEF CertInv, TypeInv
  <2> QED
    BY <2>1, <2>2, <2>3 DEF CertTypeOK
<1> QED
  BY <1>1, CertInvariant, PTL

(* The chain invariant: what every process holds, and is about to write,   *)
(* agrees with ca-private.pem, which is founded once.                      *)
THEOREM ChainInvariant == ASSUME Serial PROVE Spec => [](CertInv /\ ChainInv)
<1>1. Init => CertInv /\ ChainInv
  BY TypeInit, ChainInit
<1>2. (CertInv /\ ChainInv) /\ [Next]_vars => (CertInv /\ ChainInv)'
  BY TypeStep, ChainStep
<1> QED
  BY <1>1, <1>2, PTL DEF Spec

(* Every certificate in the directory is signed with the key in            *)
(* ca-private.pem, for any number of processes when the CA was there from  *)
(* the start, through every crash when there is one process.               *)
THEOREM ChainTheorem == ASSUME Serial PROVE Spec => []CertsChainToCa
<1>1. ChainInv => CertsChainToCa
  BY DEF ChainInv
<1> QED
  BY <1>1, ChainInvariant, PTL

(* The directory implements the abstract authority: its key is established *)
(* once, and what can be retrieved for a node is a matching pair under it. *)
THEOREM CertManagerImplementsAuthority == ASSUME Serial PROVE Spec => ImplementsCertAuthority
<1>1. Init => CA!Init
  BY TypeInit, CaInit
<1>2. (CertInv /\ ChainInv) /\ (CertInv /\ ChainInv)' /\ [Next]_vars
      => [CA!Next]_<<caKeyOnDisk, retrievable>>
  BY CaStep
<1>3. Spec => CA!Init /\ [][CA!Next]_<<caKeyOnDisk, retrievable>>
  BY <1>1, <1>2, ChainInvariant, PTL DEF Spec
<1> QED
  BY <1>3, PTL DEF ImplementsCertAuthority, CA!Spec
-----------------------------------------------------------------------------
(* The key and the certificate of a user belong together.  What            *)
(* SigmaExchange reads for a controller matches unless a CreateUser for it *)
(* was cut short, and a user that CreateUser returned nil for can be       *)
(* retrieved.                                                              *)
(*                                                                         *)
(* Both hold when the CA is there from the start or one process uses the   *)
(* directory (Serial, as for the chain), and when no two processes create  *)
(* the same user and no device has a user's id (OwnUsers): two CreateUsers *)
(* of one id at a time may leave the key of the one next to the            *)
(* certificate of the other.  Nothing is assumed of the readers: every     *)
(* process reads the files of every id at any time.                        *)

Users == UNION {UserIds[p] : p \in Procs}

OwnUsers == \A p, q \in Procs :
    /\ UserIds[p] \cap DeviceIds[q] = {}
    /\ p # q => UserIds[p] \cap UserIds[q] = {}

-----------------------------------------------------------------------------
(* What an operation has left to write where it is *)

KeysLeft(n, k) == {StoreKey(n, k), <<Write(n, "public", KeyFile(k))>>, <<>>}
CertLeft(n, k, i) == {<<Write(n, "cert", CertFile(k, i))>>, <<>>}

Boots(r) == r.pc \in {"boot_generate", "boot_public", "boot_private", "boot_done"}
Rewrites(r) == r.pc \in {"user_sign", "user_done"}

Plan(p, r) ==
    /\ r.pc \in {"idle", "boot_generate", "boot_private", "load_key", "load_cert", "get_cert"}
         => r.todo = <<>>
    /\ r.pc = "boot_public" => \E k \in Nat : r.todo \in KeysLeft("ca", k)
    /\ r.pc = "boot_done" => \E k, i \in Nat : r.todo \in CertLeft("ca", k, i)
    /\ r.pc = "sign_done" =>
         r.id \in DeviceIds[p] /\ \E k, i \in Nat : r.todo \in CertLeft(r.id, k, i)
    /\ r.pc = "user_sign" => r.id \in UserIds[p] /\ r.todo \in KeysLeft(r.id, r.tmp)
    /\ r.pc = "user_done" =>
         /\ r.id \in UserIds[p] /\ \E i \in Nat : r.todo \in CertLeft(r.id, r.tmp, i)
         /\ r.caCert # NoCert
    /\ r.pc = "get_cert" => r.id \in Users
    /\ r.pc = "load_cert" \/ r.caCert # NoCert => r.caKey # 0

PlanInv == \A p \in Procs : Plan(p, proc[p])

-----------------------------------------------------------------------------
(* The CA's three files, and what a process with state r holds of them *)

PrivateWritten(r) == r.todo = <<>> \/ Head(r.todo).file[2] # "private"

Founder(r) ==
    /\ r.pc = "boot_public" /\ PrivateWritten(r) =>
         Whole(Private("ca")) /\ r.todo \in KeysLeft("ca", Private("ca").key)
    /\ r.pc = "boot_private" => Whole(Private("ca")) /\ r.tmp = Private("ca").key
    /\ r.pc = "boot_done" =>
         Whole(Private("ca")) /\ \E i \in Nat : r.todo \in CertLeft("ca", Private("ca").key, i)
    /\ r.caCert # NoCert => Whole(Cert("ca")) /\ r.caCert.key = Private("ca").key
    /\ Boots(r) => r.caKey = 0

FoundInv ==
    /\ Whole(Public("ca")) => Whole(Private("ca")) /\ Public("ca").key = Private("ca").key
    /\ Whole(Cert("ca")) => Cert("ca").key = Private("ca").key
    /\ \A p \in Procs : Founder(proc[p]) /\ (Boots(proc[p]) => Procs = {p})

-----------------------------------------------------------------------------
(* The files of the users of process p, whose state is r *)

Holds(r) ==
    /\ (r.pc = "user_sign" /\ PrivateWritten(r)) \/ r.pc = "user_done" =>
         Whole(Private(r.id)) /\ Private(r.id).key = r.tmp
    /\ r.pc = "user_done" /\ r.todo = <<>> => Whole(Cert(r.id)) /\ Cert(r.id).key = r.tmp

Agree(n) == Whole(Private(n)) /\ Whole(Cert(n)) => Cert(n).key = Private(n).key

Settles(p, n) == n \notin rewrite /\ ~(Rewrites(proc[p]) /\ proc[p].id = n)

UserInv == \A p \in Procs :
    /\ Holds(proc[p])
    /\ \A n \in UserIds[p] : Settles(p, n) => Agree(n) /\ (n \in created => Matches(n))

(* Only a user's private key is in the directory *)
KeysAreUsers == \A n \in Ids \ Users : ~Whole(Private(n))

PairInv == PlanInv /\ FoundInv /\ UserInv /\ KeysAreUsers

-----------------------------------------------------------------------------
(* Writing what is left *)

LEMMA KeysTail ==
    ASSUME NEW n, NEW k, NEW t \in KeysLeft(n, k), t # <<>>
    PROVE  /\ Head(t).file \in {<<n, "private">>, <<n, "public">>} /\ Head(t).content = KeyFile(k)
           /\ Tail(t) \in KeysLeft(n, k)
           /\ Head(t).file[2] = "private" => t = StoreKey(n, k)
           /\ Head(t).file[2] = "public" => Tail(t) = <<>>
           /\ Tail(t) # <<>> => Head(Tail(t)).file[2] = "public"
<1> DEFINE a == Write(n, "private", KeyFile(k))
           b == Write(n, "public", KeyFile(k))
<1>1. /\ a.file = <<n, "private">> /\ a.content = KeyFile(k)
      /\ b.file = <<n, "public">> /\ b.content = KeyFile(k)
  BY DEF Write
<1>2. StoreKey(n, k) = <<a, b>> /\ t \in {<<a, b>>, <<b>>}
  BY DEF StoreKey, KeysLeft
<1>3. KeysLeft(n, k) = {<<a, b>>, <<b>>, <<>>}
  BY DEF StoreKey, KeysLeft
<1> HIDE DEF a, b
<1>4. CASE t = <<a, b>>
  <2>1. Head(t) = a /\ Tail(t) = <<b>> /\ Head(<<b>>) = b
    BY <1>4
  <2> QED
    BY <1>1, <1>2, <1>3, <1>4, <2>1
<1>5. CASE t = <<b>>
  <2>1. Head(t) = b /\ Tail(t) = <<>>
    BY <1>5
  <2> QED
    BY <1>1, <1>2, <1>3, <2>1
<1> QED
  BY <1>2, <1>4, <1>5

LEMMA CertTail ==
    ASSUME NEW n, NEW k, NEW i, NEW t \in CertLeft(n, k, i), t # <<>>
    PROVE  /\ Head(t).file = <<n, "cert">> /\ Head(t).content = CertFile(k, i)
           /\ Tail(t) = <<>>
<1> DEFINE a == Write(n, "cert", CertFile(k, i))
<1>1. a.file = <<n, "cert">> /\ a.content = CertFile(k, i)
  BY DEF Write
<1>2. t = <<a>>
  BY DEF CertLeft
<1> HIDE DEF a
<1>3. Head(t) = a /\ Tail(t) = <<>>
  BY <1>2
<1> QED
  BY <1>1, <1>3

(* A key that is stored is written private part first. *)
LEMMA StoreKeyLeft ==
    ASSUME NEW n, NEW k
    PROVE  /\ StoreKey(n, k) \in KeysLeft(n, k) /\ StoreKey(n, k) # <<>>
           /\ Head(StoreKey(n, k)).file = <<n, "private">>
           /\ Head(StoreKey(n, k)).file[2] = "private"
  BY DEF StoreKey, KeysLeft, Write

-----------------------------------------------------------------------------
(* The plan *)

LEMMA PlanInit == Init => PlanInv
  BY DEF Init, PlanInv, Plan, Idle, NoCert

LEMMA PlanStep == CertInv /\ PlanInv /\ KeysAreUsers /\ [Next]_vars => PlanInv'
<1> SUFFICES ASSUME CertInv, PlanInv, KeysAreUsers, [Next]_vars PROVE PlanInv'
  OBVIOUS
<1>1. CASE UNCHANGED vars
  BY <1>1 DEF vars, PlanInv
<1>2. ASSUME NEW p \in Procs, Step(p) PROVE PlanInv'
  <2> USE <1>2
  <2>f. proc[p] \in ProcType /\ Plan(p, proc[p]) /\ nkeys \in Nat
    BY DEF CertInv, TypeInv, PlanInv
  <2>s. ASSUME NEW r, Set(p, r), Plan(p, r) PROVE PlanInv'
    BY <2>s DEF Set, PlanInv, CertInv, TypeInv
  <2>e. proc' = proc => PlanInv'
    BY DEF PlanInv
  <2>p. Set(p, Idle) => PlanInv'
    <3>1. Plan(p, Idle)
      BY DEF Plan, Idle, NoCert
    <3> QED
      BY <2>s, <3>1
  <2>1. CASE WriteTruncate(p)
    <3> DEFINE r == [proc[p] EXCEPT !.cut = TRUE]
    <3>1. Plan(p, r)
      BY <2>f DEF Plan, ProcType
    <3> QED
      BY <2>1, <2>s, <3>1 DEF WriteTruncate
  <2>2. CASE WriteFill(p)
    <3> DEFINE t == proc[p].todo
               r == [proc[p] EXCEPT !.cut = FALSE, !.todo = Tail(@)]
    <3>1. /\ r.pc = proc[p].pc /\ r.id = proc[p].id /\ r.tmp = proc[p].tmp
          /\ r.caKey = proc[p].caKey /\ r.caCert = proc[p].caCert /\ r.todo = Tail(t)
      BY <2>f DEF ProcType
    <3>2. t # <<>>
      BY <2>2 DEF WriteFill
    <3>3. \A n, k : t \in KeysLeft(n, k) => Tail(t) \in KeysLeft(n, k)
      BY <3>2, KeysTail
    <3>4. \A n, k, i : t \in CertLeft(n, k, i) => Tail(t) \in CertLeft(n, k, i)
      BY <3>2, CertTail DEF CertLeft
    <3>5. Set(p, r)
      BY <2>2 DEF WriteFill
    <3> HIDE DEF r
    <3>6. Plan(p, r)
      BY <2>f, <3>1, <3>2, <3>3, <3>4 DEF Plan
    <3> QED
      BY <2>s, <3>5, <3>6
  <2>i. ASSUME NEW r, Set(p, r), r.pc \in {"idle", "load_key"}, r.todo = <<>>,
               r.caCert # NoCert => r.caKey # 0
        PROVE  PlanInv'
    BY <2>i, <2>s DEF Plan
  <2>3. CASE WriteFails(p)
    BY <2>3, <2>f, <2>i, <2>p DEF WriteFails, Panic, Plan, ProcType
  <2>4. CASE Crash(p)
    BY <2>4, <2>p DEF Crash, Panic
  <2>5. CASE BootstrapStat(p)
    <3> DEFINE r == [proc[p] EXCEPT !.pc = "boot_generate"]
    <3>1. Plan(p, r)
      BY <2>f, <2>5 DEF Plan, ProcType, BootstrapStat, Start, At
    <3> QED
      BY <2>5, <2>s, <2>e, <3>1 DEF BootstrapStat, Goto
  <2>6. CASE BootstrapGenerate(p)
    <3> DEFINE r == [proc[p] EXCEPT !.pc = "boot_public", !.todo = StoreKey("ca", nkeys')]
    <3>1. nkeys' \in Nat /\ StoreKey("ca", nkeys') \in KeysLeft("ca", nkeys')
      BY <2>6, <2>f, StoreKeyLeft DEF BootstrapGenerate, GenerateKey
    <3>2. r.pc = "boot_public" /\ r.todo = StoreKey("ca", nkeys') /\ r.caKey = proc[p].caKey /\ r.caCert = proc[p].caCert
      BY <2>f DEF ProcType
    <3>3. Set(p, r)
      BY <2>6 DEF BootstrapGenerate
    <3> HIDE DEF r
    <3>4. Plan(p, r)
      BY <2>f, <3>1, <3>2 DEF Plan
    <3> QED
      BY <2>s, <3>3, <3>4
  <2>7. CASE CreateCaCertPublic(p)
    <3> DEFINE r == [proc[p] EXCEPT !.pc = "boot_private", !.tmp = Public("ca").key]
    <3>1. Plan(p, r)
      BY <2>f, <2>7 DEF Plan, ProcType, CreateCaCertPublic, At
    <3> QED
      BY <2>7, <2>s, <2>p, <3>1 DEF CreateCaCertPublic, Panic
  <2>8. CASE CreateCaCert(p)
    <3> DEFINE k == proc[p].tmp
               i == Private("ca").key
               r == [proc[p] EXCEPT !.pc = "boot_done", !.todo = << Write("ca", "cert", CertFile(k, i)) >>]
    <3>1. k \in Nat /\ i \in Nat
      BY <2>f DEF ProcType, Keys, CertInv, TypeInv, FileType, Files, Names, Private
    <3>2. r.pc = "boot_done" /\ r.todo \in CertLeft("ca", k, i) /\ r.caKey = proc[p].caKey /\ r.caCert = proc[p].caCert
      BY <2>f DEF ProcType, CertLeft
    <3>3. Set(p, r) \/ Set(p, Idle)
      BY <2>8 DEF CreateCaCert, Panic
    <3> HIDE DEF r
    <3>4. Plan(p, r)
      BY <2>f, <3>1, <3>2 DEF Plan
    <3> QED
      BY <2>s, <2>p, <3>3, <3>4
  <2>9. CASE BootstrapReturns(p) \/ SignReturns(p) \/ CreateUserReturns(p)
    BY <2>9, <2>f, <2>i DEF BootstrapReturns, SignReturns, CreateUserReturns, Return, At, Plan, ProcType
  <2>10. CASE LoadStat(p)
    BY <2>10, <2>f, <2>e, <2>i DEF LoadStat, Goto, Start, At, Plan, ProcType
  <2>11. CASE LoadKey(p)
    <3> DEFINE r == [proc[p] EXCEPT !.pc = "load_cert", !.caKey = Private("ca").key]
    <3>1. Whole(Private("ca")) => Private("ca").key # 0
      BY DEF CertInv, ContentInv, Whole, Private, Files, Names
    <3>2. Whole(Private("ca")) => Plan(p, r)
      BY <2>f, <2>11, <3>1 DEF Plan, ProcType, LoadKey, At
    <3> QED
      BY <2>11, <2>s, <2>p, <3>2 DEF LoadKey, Panic
  <2>12. CASE LoadCert(p)
    <3>1. Cert("ca").st \in {"absent", "torn", "whole"}
      BY DEF CertInv, TypeInv, FileType, Files, Names, Cert
    <3>2. proc[p].caKey # 0 /\ proc[p].todo = <<>>
      BY <2>12, <2>f DEF LoadCert, At, Plan
    <3> QED
      BY <2>12, <2>f, <2>i, <2>p, <3>1, <3>2 DEF LoadCert, Panic, Whole, ProcType
  <2>13. ASSUME NEW n \in DeviceIds[p], SignCertificate(p, n) PROVE PlanInv'
    <3> DEFINE r == [proc[p] EXCEPT !.pc = "sign_done", !.id = n, !.todo = SignedFor(p, n, nkeys')]
    <3>1. nkeys' \in Nat /\ proc[p].caKey \in Nat
      BY <2>13, <2>f DEF SignCertificate, GenerateKey, ProcType, Keys
    <3>2. /\ r.pc = "sign_done" /\ r.id = n /\ r.todo \in CertLeft(n, nkeys', proc[p].caKey)
          /\ r.caKey = proc[p].caKey /\ r.caCert = proc[p].caCert
      BY <2>f DEF ProcType, CertLeft, SignedFor
    <3>3. Set(p, r) \/ Set(p, Idle) \/ proc' = proc
      BY <2>13 DEF SignCertificate, Panic
    <3> HIDE DEF r
    <3>4. Plan(p, r)
      BY <2>f, <3>1, <3>2 DEF Plan
    <3> QED
      BY <2>s, <2>p, <2>e, <3>3, <3>4
  <2>14. ASSUME NEW n \in UserIds[p], CreateUser(p, n) PROVE PlanInv'
    <3> DEFINE r == [proc[p] EXCEPT !.pc = "user_sign", !.id = n, !.tmp = nkeys',
                                    !.todo = StoreKey(n, nkeys')]
    <3>1. /\ r.pc = "user_sign" /\ r.id = n /\ r.tmp = nkeys' /\ r.todo = StoreKey(n, nkeys')
          /\ r.caKey = proc[p].caKey /\ r.caCert = proc[p].caCert
      BY <2>f DEF ProcType
    <3>2. Set(p, r)
      BY <2>14 DEF CreateUser
    <3> HIDE DEF r
    <3>3. Plan(p, r)
      BY <2>f, <3>1, StoreKeyLeft DEF Plan
    <3> QED
      BY <2>s, <3>2, <3>3
  <2>15. CASE CreateUserSign(p)
    <3> DEFINE g == [proc[p] EXCEPT !.pc = "user_done"]
               r == [proc[p] EXCEPT !.pc = "user_done",
                                    !.todo = SignedFor(p, proc[p].id, proc[p].tmp)]
    <3>1. proc[p].caKey \in Nat /\ proc[p].todo = <<>> /\ proc[p].id \in UserIds[p]
      BY <2>15, <2>f DEF CreateUserSign, At, ProcType, Keys, Plan
    <3>2. /\ r.pc = "user_done" /\ r.id = proc[p].id /\ r.tmp = proc[p].tmp
          /\ r.todo \in CertLeft(proc[p].id, proc[p].tmp, proc[p].caKey)
          /\ r.caKey = proc[p].caKey /\ r.caCert = proc[p].caCert
      BY <2>f DEF ProcType, CertLeft, SignedFor
    <3>3. /\ g.pc = "user_done" /\ g.id = proc[p].id /\ g.tmp = proc[p].tmp
          /\ g.todo \in CertLeft(proc[p].id, proc[p].tmp, proc[p].caKey)
          /\ g.caKey = proc[p].caKey /\ g.caCert = proc[p].caCert
      BY <2>f, <3>1 DEF ProcType, CertLeft
    <3>4. ((Set(p, r) \/ Set(p, g)) /\ proc[p].caCert # NoCert) \/ Set(p, Idle)
      BY <2>15 DEF CreateUserSign, Panic, Goto, CanSign
    <3> HIDE DEF r, g
    <3>5. proc[p].caCert # NoCert => Plan(p, r) /\ Plan(p, g)
      BY <2>f, <3>1, <3>2, <3>3 DEF Plan
    <3> QED
      BY <2>s, <2>p, <3>4, <3>5
  <2>16. ASSUME NEW n \in Ids, GetPrivkey(p, n) PROVE PlanInv'
    <3> DEFINE r == [proc[p] EXCEPT !.pc = "get_cert", !.id = n, !.tmp = Private(n).key]
    <3>1. Private(n).st \in {"absent", "torn", "whole"}
      BY DEF CertInv, TypeInv, FileType, Files, Private, Names, Ids
    <3>2. Whole(Private(n)) => Plan(p, r)
      <4>1. Whole(Private(n)) => n \in Users
        BY <2>16 DEF KeysAreUsers
      <4> QED
        BY <2>16, <2>f, <4>1 DEF GetPrivkey, Start, At, Plan, ProcType
    <3>3. (Whole(Private(n)) /\ Set(p, r)) \/ Set(p, Idle) \/ proc' = proc
      BY <2>16, <3>1 DEF GetPrivkey, Panic, Whole
    <3> QED
      BY <2>s, <2>p, <2>e, <3>2, <3>3
  <2>17. CASE GetCertificate(p)
    <3>1. Cert(proc[p].id).st \in {"absent", "torn", "whole"}
      BY <2>17 DEF GetCertificate, At, CertInv, ContentInv, PlaceOK, TypeInv, FileType, Files,
         Cert, Names
    <3> QED
      BY <2>17, <2>f, <2>i, <2>p, <3>1 DEF GetCertificate, At, Return, Panic, Whole, Plan, ProcType
  <2> QED
    BY <2>1, <2>2, <2>3, <2>4, <2>5, <2>6, <2>7, <2>8, <2>9, <2>10, <2>11, <2>12, <2>13,
       <2>14, <2>15, <2>16, <2>17 DEF Step
<1> QED
  BY <1>1, <1>2 DEF Next
-----------------------------------------------------------------------------
(* Founding *)

LEMMA FoundInit == Init => FoundInv
<1> SUFFICES ASSUME Init PROVE FoundInv
  OBVIOUS
<1>1. \A p \in Procs : proc[p] = Idle
  BY DEF Init
<1>2. \A p \in Procs : Founder(proc[p]) /\ ~Boots(proc[p])
  BY <1>1 DEF Founder, Boots, Idle, NoCert
<1>3. \A s \in {"private", "public", "cert"} : <<"ca", s>> \in Files
  BY DEF Files, Names
<1> QED
  BY <1>2, <1>3 DEF Init, FoundInv, Whole, Private, Public, Cert, Absent, KeyFile, CertFile

(* A step that writes no file. *)
LEMMA FoundQuiet ==
    ASSUME CertInv, FoundInv, NEW p \in Procs, NEW r, Set(p, r), files' = files,
           Founder(r), Boots(r) => Procs = {p}
    PROVE  FoundInv'
<1>1. \A q \in Procs : proc'[q] = IF q = p THEN r ELSE proc[q]
  BY DEF Set, CertInv, TypeInv
<1>2. \A n : Private(n)' = Private(n) /\ Public(n)' = Public(n) /\ Cert(n)' = Cert(n)
  BY DEF Private, Public, Cert
<1>3. ASSUME NEW q \in Procs PROVE Founder(proc[q])' /\ (Boots(proc[q])' => Procs = {q})
  <2>1. CASE q = p
    BY <1>1, <1>2, <2>1 DEF Founder, PrivateWritten, Boots, Whole
  <2>2. CASE q # p
    BY <1>1, <1>2, <2>2 DEF Founder, PrivateWritten, Boots, Whole, FoundInv
  <2> QED
    BY <2>1, <2>2
<1> QED
  BY <1>2, <1>3 DEF FoundInv, Whole

(* An operation that founds nothing keeps the certificate it holds. *)
LEMMA SameCert ==
    ASSUME NEW p \in Procs, Founder(proc[p]), NEW r, ~Boots(r),
           r.caCert \in {proc[p].caCert, NoCert}
    PROVE  Founder(r)
  BY DEF Founder, Boots

LEMMA FoundQuietStep ==
    ASSUME Serial, CertInv, ChainInv, PlanInv, FoundInv, NEW p \in Procs, Step(p),
           ~WriteTruncate(p), ~WriteFill(p)
    PROVE  FoundInv'
<1>f. files' = files
  BY DEF Step, WriteFails, Crash, BootstrapStat, BootstrapGenerate, CreateCaCertPublic,
     CreateCaCert, BootstrapReturns, LoadStat, LoadKey, LoadCert, CreateUserSign,
     CreateUserReturns, SignReturns, GetCertificate, CreateUser, GetPrivkey, SignCertificate
<1>p. /\ proc[p] \in ProcType /\ InStep(proc[p]) /\ Plan(p, proc[p]) /\ Founder(proc[p])
      /\ Boots(proc[p]) => Procs = {p}
  BY DEF CertInv, TypeInv, ChainInv, PlanInv, FoundInv
<1>e. proc' = proc => FoundInv'
  BY <1>f, <1>p, FoundQuiet DEF Set, CertInv, TypeInv
<1>i. Set(p, Idle) => FoundInv'
  <2>1. Founder(Idle) /\ ~Boots(Idle)
    BY DEF Founder, Boots, Idle
  <2> QED
    BY <1>f, <2>1, FoundQuiet
<1>s. ASSUME NEW r, Set(p, r), ~Boots(r), r.caCert \in {proc[p].caCert, NoCert} PROVE FoundInv'
  BY <1>f, <1>p, <1>s, SameCert, FoundQuiet
<1>t. \A n \in Names : /\ Private(n).st \in {"absent", "torn", "whole"}
                       /\ Cert(n).st \in {"absent", "torn", "whole"}
  BY DEF CertInv, TypeInv, FileType, Files, Private, Cert
<1>n. "ca" \in Names /\ Ids \subseteq Names /\ UserIds[p] \subseteq Names
  BY DEF Names, Ids
<1>1. CASE WriteFails(p)
  BY <1>1, <1>i, <1>s, <1>p DEF WriteFails, Panic, ProcType, Boots
<1>2. CASE Crash(p)
  BY <1>2, <1>i DEF Crash, Panic
<1>3. CASE BootstrapStat(p)
  <2>1. CASE proc' = proc
    BY <1>e, <2>1
  <2>2. CASE Private("ca").st = "absent"
    <3> DEFINE r == [proc[p] EXCEPT !.pc = "boot_generate"]
    <3>1. ~Whole(Private("ca")) /\ Procs = {p}
      BY <2>2 DEF Whole, ChainInv, Serial
    <3>2. Set(p, r)
      BY <1>3, <2>2 DEF BootstrapStat, Goto
    <3>3. r.pc = "boot_generate" /\ r.caKey = proc[p].caKey /\ r.caCert = proc[p].caCert
      BY <1>p DEF ProcType
    <3> HIDE DEF r
    <3>4. proc[p].caKey = 0
      BY <1>p, <3>1 DEF InStep
    <3>5. Founder(r)
      BY <1>p, <3>3, <3>4 DEF Founder
    <3> QED
      BY <1>f, <3>1, <3>2, <3>5, FoundQuiet
  <2> QED
    BY <1>3, <2>1, <2>2 DEF BootstrapStat
<1>4. CASE BootstrapGenerate(p)
  <2> DEFINE r == [proc[p] EXCEPT !.pc = "boot_public", !.todo = StoreKey("ca", nkeys')]
  <2>1. /\ r.pc = "boot_public" /\ r.caKey = proc[p].caKey /\ r.caCert = proc[p].caCert
        /\ r.todo = StoreKey("ca", nkeys')
    BY <1>p DEF ProcType
  <2>2. Set(p, r) /\ Boots(proc[p])
    BY <1>4 DEF BootstrapGenerate, At, Boots
  <2> HIDE DEF r
  <2>3. ~PrivateWritten(r)
    BY <2>1, StoreKeyLeft DEF PrivateWritten
  <2>4. Founder(r)
    BY <1>p, <2>1, <2>2, <2>3 DEF Founder
  <2> QED
    BY <1>f, <1>p, <2>2, <2>4, FoundQuiet
<1>5. CASE CreateCaCertPublic(p)
  <2> DEFINE r == [proc[p] EXCEPT !.pc = "boot_private", !.tmp = Public("ca").key]
  <2>1. CASE Whole(Public("ca"))
    <3>1. /\ r.pc = "boot_private" /\ r.caKey = proc[p].caKey /\ r.caCert = proc[p].caCert
          /\ r.tmp = Public("ca").key
      BY <1>p DEF ProcType
    <3>2. Set(p, r) /\ Boots(proc[p])
      BY <1>5, <2>1 DEF CreateCaCertPublic, At, Boots
    <3> HIDE DEF r
    <3>3. Founder(r)
      BY <1>p, <2>1, <3>1, <3>2 DEF Founder, FoundInv
    <3> QED
      BY <1>f, <1>p, <3>2, <3>3, FoundQuiet
  <2> QED
    BY <1>5, <1>i, <2>1 DEF CreateCaCertPublic, Panic
<1>6. CASE CreateCaCert(p)
  <2> DEFINE k == Private("ca").key
             r == [proc[p] EXCEPT !.pc = "boot_done",
                     !.todo = << Write("ca", "cert", CertFile(proc[p].tmp, Private("ca").key)) >>]
  <2>1. CASE Whole(Private("ca"))
    <3>1. /\ r.pc = "boot_done" /\ r.caKey = proc[p].caKey /\ r.caCert = proc[p].caCert
          /\ r.todo = << Write("ca", "cert", CertFile(proc[p].tmp, k)) >>
      BY <1>p DEF ProcType
    <3>2. Set(p, r) /\ Boots(proc[p]) /\ proc[p].pc = "boot_private"
      BY <1>6, <2>1 DEF CreateCaCert, At, Boots
    <3>3. k \in Nat
      BY DEF CertInv, TypeInv, FileType, Keys, Files, Names, Private
    <3> HIDE DEF r
    <3>4. proc[p].tmp = k
      BY <1>p, <3>2 DEF Founder
    <3>5. r.todo \in CertLeft("ca", k, k)
      BY <3>1, <3>4 DEF CertLeft
    <3>6. Founder(r)
      BY <1>p, <2>1, <3>1, <3>2, <3>3, <3>5 DEF Founder
    <3> QED
      BY <1>f, <1>p, <3>2, <3>6, FoundQuiet
  <2> QED
    BY <1>6, <1>i, <2>1 DEF CreateCaCert, Panic
<1>7. CASE BootstrapReturns(p) \/ SignReturns(p) \/ CreateUserReturns(p)
  BY <1>7, <1>s, <1>p DEF BootstrapReturns, SignReturns, CreateUserReturns, Return, ProcType, Boots
<1>8. CASE LoadStat(p)
  BY <1>8, <1>e, <1>s, <1>p DEF LoadStat, Goto, ProcType, Boots
<1>9. CASE LoadKey(p)
  BY <1>9, <1>i, <1>s, <1>p DEF LoadKey, Panic, ProcType, Boots
<1>10. CASE LoadCert(p)
  <2> DEFINE c == [key |-> Cert("ca").key, iss |-> Cert("ca").iss]
             r == [proc[p] EXCEPT !.pc = "idle", !.caCert = c]
  <2>1. CASE Whole(Cert("ca"))
    <3>1. r.pc = "idle" /\ r.caCert.key = Cert("ca").key
      BY <1>p DEF ProcType
    <3>2. Set(p, r)
      BY <1>10, <2>1 DEF LoadCert, Whole
    <3> HIDE DEF r
    <3>3. Founder(r) /\ ~Boots(r)
      BY <2>1, <3>1 DEF Founder, Boots, FoundInv
    <3> QED
      BY <1>f, <3>2, <3>3, FoundQuiet
  <2>2. CASE Cert("ca").st = "absent"
    BY <1>10, <1>s, <1>p, <2>2 DEF LoadCert, Whole, ProcType, Boots
  <2>3. CASE Cert("ca").st = "torn"
    BY <1>10, <1>i, <2>3 DEF LoadCert, Whole, Panic
  <2> QED
    BY <1>t, <1>n, <2>1, <2>2, <2>3 DEF Whole
<1>11. ASSUME NEW n \in DeviceIds[p], SignCertificate(p, n) PROVE FoundInv'
  BY <1>11, <1>i, <1>e, <1>s, <1>p DEF SignCertificate, Panic, ProcType, Boots
<1>12. ASSUME NEW n \in UserIds[p], CreateUser(p, n) PROVE FoundInv'
  BY <1>12, <1>s, <1>p DEF CreateUser, ProcType, Boots
<1>13. CASE CreateUserSign(p)
  BY <1>13, <1>i, <1>s, <1>p DEF CreateUserSign, Goto, Panic, ProcType, Boots
<1>14. ASSUME NEW n \in Ids, GetPrivkey(p, n) PROVE FoundInv'
  <2>1. Private(n).st \in {"absent", "torn", "whole"}
    BY <1>t, <1>n
  <2> QED
    BY <1>14, <1>i, <1>e, <1>s, <1>p, <2>1 DEF GetPrivkey, Whole, Panic, ProcType, Boots
<1>15. CASE GetCertificate(p)
  <2>1. Cert(proc[p].id).st \in {"absent", "torn", "whole"}
    BY <1>15, <1>t, <1>n DEF GetCertificate, At, CertInv, ContentInv, PlaceOK
  <2> QED
    BY <1>15, <1>i, <1>s, <1>p, <2>1 DEF GetCertificate, Return, Whole, Panic, ProcType, Boots
<1> QED
  BY <1>1, <1>2, <1>3, <1>4, <1>5, <1>6, <1>7, <1>8, <1>9, <1>10, <1>11, <1>12, <1>13,
     <1>14, <1>15 DEF Step

(* What a write step does: one file, and the state of its process. *)
Written(p, c, cut, t) ==
    /\ proc[p].todo # <<>>
    /\ files' = [files EXCEPT ![Head(proc[p].todo).file] = c]
    /\ Set(p, [proc[p] EXCEPT !.cut = cut, !.todo = t])
    /\ UNCHANGED <<nkeys, created, rewrite, faults>>

LEMMA WriteShape ==
    ASSUME CertInv, NEW p \in Procs, WriteTruncate(p) \/ WriteFill(p)
    PROVE  \/ WriteTruncate(p) /\ Written(p, Torn, TRUE, proc[p].todo)
           \/ WriteFill(p) /\ Written(p, Head(proc[p].todo).content, FALSE, Tail(proc[p].todo))
  BY DEF WriteTruncate, WriteFill, Written, Set, CertInv, TypeInv, ProcType

LEMMA WrittenFiles ==
    ASSUME CertInv, NEW p \in Procs, NEW c, NEW cut, NEW t, Written(p, c, cut, t)
    PROVE  /\ \A n \in Names : LET f == Head(proc[p].todo).file IN
                /\ Private(n)' = IF f = <<n, "private">> THEN c ELSE Private(n)
                /\ Public(n)' = IF f = <<n, "public">> THEN c ELSE Public(n)
                /\ Cert(n)' = IF f = <<n, "cert">> THEN c ELSE Cert(n)
           /\ \A q \in Procs \ {p} : proc'[q] = proc[q]
           /\ proc'[p].pc = proc[p].pc /\ proc'[p].id = proc[p].id /\ proc'[p].tmp = proc[p].tmp
           /\ proc'[p].caKey = proc[p].caKey /\ proc'[p].caCert = proc[p].caCert
           /\ proc'[p].todo = t
           /\ nkeys' = nkeys /\ created' = created /\ rewrite' = rewrite /\ faults' = faults
<1> DEFINE f == Head(proc[p].todo).file
           r == [proc[p] EXCEPT !.cut = cut, !.todo = t]
<1>1. proc[p] \in ProcType /\ proc[p].todo # <<>>
  BY DEF Written, CertInv, TypeInv
<1>2. f \in Files
  BY <1>1, TodoTail DEF WriteType, ProcType
<1>3. files' = [files EXCEPT ![f] = c] /\ proc' = [proc EXCEPT ![p] = r]
  BY DEF Written, Set
<1>4. /\ r.pc = proc[p].pc /\ r.id = proc[p].id /\ r.tmp = proc[p].tmp
      /\ r.caKey = proc[p].caKey /\ r.caCert = proc[p].caCert /\ r.todo = t
  BY <1>1 DEF ProcType
<1> HIDE DEF f, r
<1>5. \A n \in Names : /\ Private(n)' = IF f = <<n, "private">> THEN c ELSE Private(n)
                       /\ Public(n)' = IF f = <<n, "public">> THEN c ELSE Public(n)
                       /\ Cert(n)' = IF f = <<n, "cert">> THEN c ELSE Cert(n)
  BY <1>2, <1>3 DEF Private, Public, Cert, Files, CertInv, TypeInv
<1>6. \A q \in Procs : proc'[q] = IF q = p THEN r ELSE proc[q]
  BY <1>3 DEF CertInv, TypeInv
<1>7. nkeys' = nkeys /\ created' = created /\ rewrite' = rewrite /\ faults' = faults
  BY DEF Written
<1> QED
  BY <1>4, <1>5, <1>6, <1>7 DEF f

(* Whose file is written: the CA's by the process that founds it, a device *)
(* certificate, or a file of the user the process is at work on.           *)
LEMMA WritePlace ==
    ASSUME CertInv, PlanInv, NEW p \in Procs, proc[p].todo # <<>>
    PROVE  LET f == Head(proc[p].todo).file
               pc == proc[p].pc
               id == proc[p].id IN
           /\ pc = "boot_public" => f \in {<<"ca", "private">>, <<"ca", "public">>}
           /\ pc = "boot_done" => f = <<"ca", "cert">>
           /\ pc = "sign_done" => f = <<id, "cert">> /\ id \in DeviceIds[p]
           /\ pc = "user_sign" => f \in {<<id, "private">>, <<id, "public">>} /\ id \in UserIds[p]
           /\ pc = "user_done" => f = <<id, "cert">> /\ id \in UserIds[p]
           /\ pc \in {"boot_public", "boot_done", "sign_done", "user_sign", "user_done"}
<1>1. Plan(p, proc[p]) /\ proc[p].pc \in PCs
  BY DEF PlanInv, CertInv, TypeInv, ProcType
<1>2. \A n, k : proc[p].todo \in KeysLeft(n, k)
                => Head(proc[p].todo).file \in {<<n, "private">>, <<n, "public">>}
  BY KeysTail
<1>3. ASSUME NEW n, NEW k, NEW i, proc[p].todo \in CertLeft(n, k, i)
      PROVE  Head(proc[p].todo).file = <<n, "cert">>
  BY <1>3, CertTail
<1> QED
  BY <1>1, <1>2, <1>3 DEF Plan, PCs

LEMMA FoundWriteStep ==
    ASSUME CertInv, ChainInv, PlanInv, FoundInv, NEW p \in Procs,
           WriteTruncate(p) \/ WriteFill(p)
    PROVE  FoundInv'
<1> USE CertAssumption
<1> DEFINE f == Head(proc[p].todo).file
           t == proc[p].todo
<1>1. PICK c, cut, u :
        /\ Written(p, c, cut, u)
        /\ (WriteTruncate(p) /\ c = Torn /\ u = t) \/ (WriteFill(p) /\ c = Head(t).content /\ u = Tail(t))
  BY WriteShape
<1>2. t # <<>>
  BY <1>1 DEF Written
<1>3. /\ \A n \in Names : /\ Private(n)' = IF f = <<n, "private">> THEN c ELSE Private(n)
                          /\ Public(n)' = IF f = <<n, "public">> THEN c ELSE Public(n)
                          /\ Cert(n)' = IF f = <<n, "cert">> THEN c ELSE Cert(n)
      /\ \A q \in Procs \ {p} : proc'[q] = proc[q]
      /\ proc'[p].pc = proc[p].pc /\ proc'[p].tmp = proc[p].tmp
      /\ proc'[p].caKey = proc[p].caKey /\ proc'[p].caCert = proc[p].caCert
      /\ proc'[p].todo = u
  BY <1>1, WrittenFiles
<1>4. /\ proc[p] \in ProcType /\ Plan(p, proc[p]) /\ Founder(proc[p]) /\ InStep(proc[p])
      /\ Boots(proc[p]) => Procs = {p} /\ proc[p].caKey = 0 /\ proc[p].caCert = NoCert
  BY DEF CertInv, TypeInv, PlanInv, FoundInv, ChainInv, Plan, Founder
<1>5. /\ proc[p].pc = "boot_public" => f \in {<<"ca", "private">>, <<"ca", "public">>}
      /\ proc[p].pc = "boot_done" => f = <<"ca", "cert">>
      /\ proc[p].pc \notin {"boot_public", "boot_done"} =>
           ~Boots(proc[p]) /\ \A s : f # <<"ca", s>>
  <2>1. \A n \in Ids : n # "ca"
    BY DEF Ids
  <2>2. UserIds[p] \subseteq Ids /\ DeviceIds[p] \subseteq Ids
    BY DEF Ids
  <2> QED
    BY <1>2, <2>1, <2>2, WritePlace DEF Boots
<1>6. "ca" \in Names /\ ~Whole(Torn)
  BY DEF Names, Whole, Torn
<1>7. CASE proc[p].pc \notin {"boot_public", "boot_done"}
  <2>1. Private("ca")' = Private("ca") /\ Public("ca")' = Public("ca") /\ Cert("ca")' = Cert("ca")
    BY <1>3, <1>5, <1>6, <1>7
  <2>2. ASSUME NEW q \in Procs PROVE Founder(proc[q])' /\ (Boots(proc[q])' => Procs = {q})
    <3>1. CASE q = p
      BY <1>3, <1>4, <1>5, <1>7, <2>1, <3>1 DEF Founder, Boots, Whole
    <3>2. CASE q # p
      BY <1>3, <2>1, <3>2 DEF Founder, PrivateWritten, Boots, Whole, FoundInv
    <3> QED
      BY <3>1, <3>2
  <2> QED
    BY <2>1, <2>2 DEF FoundInv, Whole
<1>8. CASE proc[p].pc = "boot_public"
  <2>1. Boots(proc[p]) /\ Procs = {p} /\ Cert("ca")' = Cert("ca")
    BY <1>3, <1>4, <1>5, <1>6, <1>8 DEF Boots
  <2>2. CASE f = <<"ca", "private">>
    <3>1. PICK k \in Nat : t \in KeysLeft("ca", k)
      BY <1>4, <1>8 DEF Plan
    <3>2. /\ Head(t).content = KeyFile(k) /\ Tail(t) \in KeysLeft("ca", k)
      <4>1. t \in KeysLeft("ca", k) /\ t # <<>>
        BY <1>2, <3>1
      <4> HIDE DEF t
      <4> QED
        BY <4>1, KeysTail
    <3>3. ~Whole(Private("ca"))
      BY <1>2, <1>4, <2>2 DEF InStep, Founding
    <3>4. ~Whole(Public("ca")) /\ Public("ca")' = Public("ca") /\ ~Whole(Cert("ca"))
      BY <1>3, <1>6, <2>2, <3>3 DEF FoundInv, ChainInv, CertsChainToCa
    <3>5. Private("ca")' = c
      BY <1>3, <1>6, <2>2
    <3>6. CASE c = Torn /\ u = t
      <4>1. ~PrivateWritten(proc[p])' /\ ~PrivateWritten(proc[p])
        BY <1>2, <1>3, <2>2, <3>6 DEF PrivateWritten
      <4>2. Founder(proc[p])'
        BY <1>3, <1>4, <1>8, <4>1, <2>1 DEF Founder, Boots
      <4> QED
        BY <2>1, <3>4, <4>2 DEF FoundInv, Whole
    <3>7. CASE c = Head(t).content /\ u = Tail(t)
      <4>1. Whole(Private("ca"))' /\ Private("ca")'.key = k
        BY <3>2, <3>5, <3>7 DEF Whole, KeyFile
      <4>2. Founder(proc[p])'
        BY <1>3, <1>4, <1>8, <2>1, <3>2, <3>7, <4>1 DEF Founder, Boots
      <4> QED
        BY <2>1, <3>4, <4>2 DEF FoundInv, Whole
    <3> QED
      BY <1>1, <3>6, <3>7
  <2>3. CASE f = <<"ca", "public">>
    <3> DEFINE k == Private("ca").key
    <3>1. Whole(Private("ca")) /\ t \in KeysLeft("ca", k)
      BY <1>4, <1>8, <2>3 DEF Founder, PrivateWritten
    <3>2. Head(t).content = KeyFile(k) /\ Tail(t) \in KeysLeft("ca", k)
      BY <1>2, <3>1, KeysTail
    <3>3. Private("ca")' = Private("ca") /\ Public("ca")' = c
      BY <1>3, <1>6, <2>3
    <3>4. u \in KeysLeft("ca", k)
      BY <1>1, <3>1, <3>2
    <3>5. Founder(proc[p])'
      BY <1>3, <1>4, <1>8, <2>1, <3>1, <3>3, <3>4 DEF Founder, Boots, Whole
    <3>6. Whole(c) => c.key = k
      BY <1>1, <1>6, <3>2 DEF KeyFile
    <3> QED
      BY <2>1, <3>1, <3>3, <3>5, <3>6 DEF FoundInv, Whole
  <2> QED
    BY <1>5, <1>8, <2>2, <2>3
<1>9. CASE proc[p].pc = "boot_done"
  <2>1. Boots(proc[p]) /\ Procs = {p} /\ f = <<"ca", "cert">>
    BY <1>4, <1>5, <1>9 DEF Boots
  <2> DEFINE k == Private("ca").key
  <2>2. PICK i \in Nat : Whole(Private("ca")) /\ t \in CertLeft("ca", k, i)
    BY <1>4, <1>9 DEF Founder
  <2>3. Head(t).content = CertFile(k, i) /\ Tail(t) \in CertLeft("ca", k, i)
    <3> HIDE DEF k, t
    <3>1. Head(t).content = CertFile(k, i) /\ Tail(t) = <<>>
      BY <1>2, <2>2, CertTail
    <3> QED
      BY <3>1 DEF CertLeft
  <2>4. Private("ca")' = Private("ca") /\ Public("ca")' = Public("ca") /\ Cert("ca")' = c
    BY <1>3, <1>6, <2>1
  <2>5. u \in CertLeft("ca", k, i)
    BY <1>1, <2>2, <2>3
  <2>6. Founder(proc[p])'
    BY <1>3, <1>4, <1>9, <2>1, <2>2, <2>4, <2>5 DEF Founder, Boots, Whole
  <2>7. Whole(c) => c.key = k
    BY <1>1, <1>6, <2>3 DEF CertFile
  <2> QED
    BY <2>1, <2>4, <2>6, <2>7 DEF FoundInv, Whole
<1> QED
  BY <1>7, <1>8, <1>9

LEMMA FoundStep ==
    Serial /\ CertInv /\ ChainInv /\ PlanInv /\ FoundInv /\ [Next]_vars => FoundInv'
<1> SUFFICES ASSUME Serial, CertInv, ChainInv, PlanInv, FoundInv, [Next]_vars PROVE FoundInv'
  OBVIOUS
<1>1. CASE UNCHANGED vars
  BY <1>1 DEF vars, FoundInv, Founder, PrivateWritten, Boots, Whole, Private, Public, Cert
<1>2. ASSUME NEW p \in Procs, Step(p) PROVE FoundInv'
  BY <1>2, FoundQuietStep, FoundWriteStep
<1> QED
  BY <1>1, <1>2 DEF Next
-----------------------------------------------------------------------------
(* The users' files *)

LEMMA UserInit == Init => UserInv
<1> SUFFICES ASSUME Init PROVE UserInv
  OBVIOUS
<1> USE CertAssumption
<1>1. \A p \in Procs : Holds(proc[p])
  BY DEF Init, Holds, Idle
<1>2. \A p \in Procs : \A n \in UserIds[p] : ~Whole(Private(n))
  BY DEF Init, Whole, Private, Absent, Files, Names, Ids
<1> QED
  BY <1>1, <1>2 DEF UserInv, Agree, Init

(* What a process read of the CA belongs together, so it signs. *)
LEMMA LoadedSigns ==
    ASSUME ChainInv, FoundInv, NEW p \in Procs, CanSign(p)
    PROVE  Signs(p)
  BY DEF ChainInv, InStep, FoundInv, Founder, CanSign, Signs

(* A step that writes no file. *)
LEMMA UserQuiet ==
    ASSUME OwnUsers, CertInv, UserInv, NEW p \in Procs, NEW r, Set(p, r), files' = files,
           Holds(r),
           created \subseteq created', created' \subseteq created \cup UserIds[p],
           rewrite \subseteq rewrite' \cup UserIds[p],
           \A n \in UserIds[p] : n \notin rewrite' /\ ~(Rewrites(r) /\ r.id = n)
             => Agree(n) /\ (n \in created' => Matches(n))
    PROVE  UserInv'
<1>1. \A q \in Procs : proc'[q] = IF q = p THEN r ELSE proc[q]
  BY DEF Set, CertInv, TypeInv
<1>2. \A n : Private(n)' = Private(n) /\ Cert(n)' = Cert(n)
  BY DEF Private, Cert
<1>3. \A n : (Agree(n)' <=> Agree(n)) /\ (Matches(n)' <=> Matches(n))
  BY <1>2 DEF Agree, Matches, Whole
<1>4. ASSUME NEW q \in Procs
      PROVE  /\ Holds(proc[q])'
             /\ \A n \in UserIds[q] : Settles(q, n)' => Agree(n)' /\ (n \in created => Matches(n))'
  <2>1. CASE q = p
    <3>1. proc'[q] = r
      BY <1>1, <2>1
    <3>2. Holds(proc[q])'
      BY <1>2, <3>1 DEF Holds, PrivateWritten, Whole
    <3>3. \A n : Settles(q, n)' => n \notin rewrite' /\ ~(Rewrites(r) /\ r.id = n)
      BY <3>1 DEF Settles, Rewrites
    <3> QED
      BY <1>3, <2>1, <3>2, <3>3
  <2>2. CASE q # p
    <3>1. proc'[q] = proc[q]
      BY <1>1, <2>2
    <3>2. Holds(proc[q])'
      BY <1>2, <3>1 DEF UserInv, Holds, PrivateWritten, Whole
    <3>3. ASSUME NEW n \in UserIds[q], Settles(q, n)'
          PROVE  Settles(q, n) /\ (n \in created' => n \in created)
      BY <2>2, <3>1, <3>3 DEF OwnUsers, Settles, Rewrites
    <3> QED
      BY <1>3, <3>2, <3>3 DEF UserInv
  <2> QED
    BY <2>1, <2>2
<1> QED
  BY <1>4 DEF UserInv

LEMMA UserQuietStep ==
    ASSUME OwnUsers, CertInv, ChainInv, PlanInv, FoundInv, UserInv, NEW p \in Procs, Step(p),
           ~WriteTruncate(p), ~WriteFill(p)
    PROVE  UserInv'
<1>f. files' = files
  BY DEF Step, WriteFails, Crash, BootstrapStat, BootstrapGenerate, CreateCaCertPublic,
     CreateCaCert, BootstrapReturns, LoadStat, LoadKey, LoadCert, CreateUserSign,
     CreateUserReturns, SignReturns, GetCertificate, CreateUser, GetPrivkey, SignCertificate
<1>p. proc[p] \in ProcType /\ Plan(p, proc[p]) /\ Holds(proc[p])
  BY DEF CertInv, TypeInv, PlanInv, UserInv
<1>t. /\ \A n \in Names : /\ Private(n).st \in {"absent", "torn", "whole"}
                          /\ Cert(n).st \in {"absent", "torn", "whole"}
      /\ "ca" \in Names /\ Ids \subseteq Names /\ UserIds[p] \subseteq Names
  BY DEF CertInv, TypeInv, FileType, Files, Private, Cert, Names, Ids
(* An operation that begins or ends, but does not return a user *)
<1>s. ASSUME NEW r, Set(p, r), Holds(r), created' = created, rewrite \subseteq rewrite',
             Rewrites(proc[p]) => proc[p].id \in rewrite' \/ (Rewrites(r) /\ r.id = proc[p].id)
      PROVE  UserInv'
  <2>1. ASSUME NEW n \in UserIds[p], n \notin rewrite', ~(Rewrites(r) /\ r.id = n)
        PROVE  Settles(p, n)
    BY <1>s, <2>1 DEF Settles
  <2> QED
    BY <1>f, <1>s, <2>1, UserQuiet DEF UserInv
<1>o. ASSUME NEW r, Set(p, r), r.pc \notin {"user_sign", "user_done"},
             created' = created, rewrite' = rewrite, ~Rewrites(proc[p])
      PROVE  UserInv'
  BY <1>o, <1>s DEF Holds
<1>e. ASSUME proc' = proc, created' = created, rewrite' = rewrite PROVE UserInv'
  <2>1. \A n : Private(n)' = Private(n) /\ Cert(n)' = Cert(n)
    BY <1>f DEF Private, Cert
  <2> QED
    BY <1>e, <2>1 DEF UserInv, Holds, PrivateWritten, Settles, Rewrites, Agree, Matches, Whole
<1>i. Idle.pc = "idle"
  BY DEF Idle
<1>1. CASE WriteFails(p)
  <2> DEFINE r == [proc[p] EXCEPT !.pc = "idle", !.id = "none", !.tmp = 0,
                                  !.todo = <<>>, !.cut = FALSE]
  <2>1. r.pc = "idle" /\ (Set(p, Idle) \/ Set(p, r))
    BY <1>1, <1>p DEF WriteFails, Panic, ProcType
  <2>2. Rewrites(proc[p]) => proc[p].id \in rewrite'
    BY <1>1 DEF WriteFails, Rewrites, Rewriting
  <2>3. created' = created /\ rewrite \subseteq rewrite'
    BY <1>1 DEF WriteFails
  <2> HIDE DEF r
  <2> QED
    BY <1>s, <1>i, <2>1, <2>2, <2>3 DEF Holds
<1>2. CASE Crash(p)
  <2>1. Rewrites(proc[p]) => proc[p].id \in rewrite'
    BY <1>2 DEF Crash, Rewrites, Rewriting
  <2> QED
    BY <1>2, <1>s, <1>i, <2>1 DEF Crash, Panic, Holds
<1>3. CASE BootstrapStat(p)
  BY <1>3, <1>p, <1>o, <1>e DEF BootstrapStat, Goto, Start, At, ProcType, Rewrites
<1>4. CASE BootstrapGenerate(p)
  BY <1>4, <1>p, <1>o DEF BootstrapGenerate, At, ProcType, Rewrites
<1>5. CASE CreateCaCertPublic(p)
  BY <1>5, <1>p, <1>o, <1>i DEF CreateCaCertPublic, Panic, At, ProcType, Rewrites
<1>6. CASE CreateCaCert(p)
  BY <1>6, <1>p, <1>o, <1>i DEF CreateCaCert, Panic, At, ProcType, Rewrites
<1>7. CASE BootstrapReturns(p) \/ SignReturns(p)
  BY <1>7, <1>p, <1>o DEF BootstrapReturns, SignReturns, Return, At, ProcType, Rewrites
<1>8. CASE LoadStat(p)
  BY <1>8, <1>p, <1>o, <1>e DEF LoadStat, Goto, Start, At, ProcType, Rewrites
<1>9. CASE LoadKey(p)
  BY <1>9, <1>p, <1>o, <1>i DEF LoadKey, Panic, At, ProcType, Rewrites
<1>10. CASE LoadCert(p)
  <2>1. Cert("ca").st \in {"absent", "torn", "whole"}
    BY <1>t
  <2> QED
    BY <1>10, <1>p, <1>o, <1>i, <2>1 DEF LoadCert, Whole, Panic, At, ProcType, Rewrites
<1>11. ASSUME NEW n \in DeviceIds[p], SignCertificate(p, n) PROVE UserInv'
  BY <1>11, <1>p, <1>o, <1>e, <1>i DEF SignCertificate, Panic, Start, At, ProcType, Rewrites
<1>12. ASSUME NEW n \in UserIds[p], CreateUser(p, n) PROVE UserInv'
  <2> DEFINE r == [proc[p] EXCEPT !.pc = "user_sign", !.id = n, !.tmp = nkeys',
                                  !.todo = StoreKey(n, nkeys')]
  <2>1. r.pc = "user_sign" /\ r.todo = StoreKey(n, nkeys')
    BY <1>p DEF ProcType
  <2>2. Set(p, r) /\ ~Rewrites(proc[p]) /\ created' = created /\ rewrite' = rewrite
    BY <1>12 DEF CreateUser, Start, At, Rewrites
  <2> HIDE DEF r
  <2>3. Holds(r)
    BY <2>1, StoreKeyLeft DEF Holds, PrivateWritten
  <2> QED
    BY <1>s, <2>2, <2>3
<1>13. CASE CreateUserSign(p)
  <2> DEFINE id == proc[p].id
             r == [proc[p] EXCEPT !.pc = "user_done", !.todo = SignedFor(p, id, proc[p].tmp)]
  <2>1. proc[p].pc = "user_sign" /\ proc[p].todo = <<>> /\ created' = created
    BY <1>13 DEF CreateUserSign, At
  <2>2. CASE CanSign(p)
    <3>1. Set(p, r) /\ rewrite' = rewrite
      BY <1>13, <2>2, LoadedSigns DEF CreateUserSign
    <3>2. r.pc = "user_done" /\ r.todo # <<>> /\ r.id = proc[p].id /\ r.tmp = proc[p].tmp
      BY <1>p DEF ProcType, SignedFor
    <3> HIDE DEF r
    <3>3. Holds(r)
      BY <1>p, <2>1, <3>2 DEF Holds, PrivateWritten
    <3> QED
      BY <1>s, <2>1, <3>1, <3>2, <3>3 DEF Rewrites
  <2>3. CASE ~CanSign(p)
    <3>1. Set(p, Idle) /\ id \in rewrite' /\ rewrite \subseteq rewrite'
      BY <1>13, <2>3 DEF CreateUserSign, Panic
    <3> QED
      BY <1>s, <1>i, <2>1, <3>1 DEF Holds
  <2> QED
    BY <2>2, <2>3
<1>14. CASE CreateUserReturns(p)
  <2> DEFINE id == proc[p].id
             r == [proc[p] EXCEPT !.pc = "idle", !.id = "none", !.tmp = 0]
  <2>1. /\ Set(p, r) /\ created' = created \cup {id} /\ rewrite' = rewrite \ {id}
        /\ proc[p].pc = "user_done" /\ proc[p].todo = <<>>
    BY <1>14 DEF CreateUserReturns, Return, At
  <2>2. r.pc = "idle" /\ id \in UserIds[p]
    BY <1>p, <2>1 DEF ProcType, Plan
  <2> HIDE DEF r
  <2>3. Matches(id) /\ Agree(id)
    BY <1>p, <2>1 DEF Holds, Matches, Agree
  <2>4. \A n \in UserIds[p] \ {id} : n \notin rewrite' => Settles(p, n) /\ (n \in created' => n \in created)
    BY <2>1 DEF Settles
  <2>5. \A n \in UserIds[p] : n \notin rewrite' => Agree(n) /\ (n \in created' => Matches(n))
    BY <2>3, <2>4 DEF UserInv
  <2>6. Holds(r)
    BY <2>2 DEF Holds
  <2> QED
    BY <1>f, <2>1, <2>2, <2>5, <2>6, UserQuiet
<1>15. ASSUME NEW n \in Ids, GetPrivkey(p, n) PROVE UserInv'
  <2> DEFINE r == [proc[p] EXCEPT !.pc = "get_cert", !.id = n, !.tmp = Private(n).key]
  <2>1. ~Rewrites(proc[p]) /\ created' = created /\ rewrite' = rewrite
    BY <1>15 DEF GetPrivkey, Start, At, Rewrites
  <2>2. Private(n).st \in {"absent", "torn", "whole"}
    BY <1>t
  <2>3. Set(p, r) \/ Set(p, Idle) \/ proc' = proc
    BY <1>15, <2>2 DEF GetPrivkey, Whole, Panic
  <2>4. r.pc = "get_cert"
    BY <1>p DEF ProcType
  <2> HIDE DEF r
  <2> QED
    BY <1>o, <1>e, <1>i, <2>1, <2>3, <2>4
<1>16. CASE GetCertificate(p)
  <2>1. Cert(proc[p].id).st \in {"absent", "torn", "whole"}
    BY <1>16, <1>t DEF GetCertificate, At, CertInv, ContentInv, PlaceOK
  <2> QED
    BY <1>16, <1>p, <1>o, <1>i, <2>1 DEF GetCertificate, Return, Whole, Panic, At, ProcType, Rewrites
<1> QED
  BY <1>1, <1>2, <1>3, <1>4, <1>5, <1>6, <1>7, <1>8, <1>9, <1>10, <1>11, <1>12, <1>13,
     <1>14, <1>15, <1>16 DEF Step

LEMMA UserWriteStep ==
    ASSUME OwnUsers, CertInv, PlanInv, UserInv, NEW p \in Procs, WriteTruncate(p) \/ WriteFill(p),
           NEW id, id = proc[p].id
    PROVE  UserInv'
<1> USE CertAssumption
<1> DEFINE f == Head(proc[p].todo).file
           t == proc[p].todo
<1>1. PICK c, cut, u :
        /\ Written(p, c, cut, u)
        /\ (WriteTruncate(p) /\ c = Torn /\ u = t) \/ (WriteFill(p) /\ c = Head(t).content /\ u = Tail(t))
  BY WriteShape
<1>2. t # <<>>
  BY <1>1 DEF Written
<1>3. /\ \A n \in Names : /\ Private(n)' = IF f = <<n, "private">> THEN c ELSE Private(n)
                          /\ Cert(n)' = IF f = <<n, "cert">> THEN c ELSE Cert(n)
      /\ \A q \in Procs \ {p} : proc'[q] = proc[q]
      /\ proc'[p].pc = proc[p].pc /\ proc'[p].id = id /\ proc'[p].tmp = proc[p].tmp
      /\ proc'[p].todo = u
      /\ created' = created /\ rewrite' = rewrite
  BY <1>1, WrittenFiles
<1>4. \A q \in Procs : Plan(q, proc[q]) /\ Holds(proc[q])
  BY DEF PlanInv, UserInv
<1>n. \A q \in Procs : UserIds[q] \subseteq Names /\ "ca" \notin UserIds[q]
  BY DEF Names, Ids
(* No other user's file is touched, and none by one who creates no user *)
<1>5. ASSUME NEW q \in Procs, NEW n \in UserIds[q], ~(q = p /\ Rewrites(proc[p]) /\ n = id)
      PROVE  Private(n)' = Private(n) /\ Cert(n)' = Cert(n)
  <2>1. \A s : f # <<n, s>>
    BY <1>2, <1>5, <1>n, WritePlace DEF OwnUsers, Rewrites
  <2> QED
    BY <1>3, <1>n, <2>1
<1>6. ASSUME NEW q \in Procs, NEW n \in UserIds[q], Settles(q, n)'
      PROVE  Agree(n)' /\ (n \in created => Matches(n))'
  <2>1. Settles(q, n)
    BY <1>3, <1>6 DEF Settles, Rewrites
  <2>2. Private(n)' = Private(n) /\ Cert(n)' = Cert(n)
    BY <1>5, <2>1 DEF Settles
  <2> QED
    BY <1>3, <2>1, <2>2 DEF UserInv, Agree, Matches, Whole
<1>7. ASSUME NEW q \in Procs, q # p PROVE Holds(proc[q])'
  <2>1. proc'[q] = proc[q]
    BY <1>3, <1>7
  <2>2. CASE proc[q].pc \in {"user_sign", "user_done"}
    <3>1. proc[q].id \in UserIds[q]
      BY <1>4, <2>2 DEF Plan
    <3>2. PICK n \in UserIds[q] : n = proc[q].id
      BY <3>1
    <3>3. Private(n)' = Private(n) /\ Cert(n)' = Cert(n)
      BY <1>5, <1>7
    <3>4. Private(proc[q].id)' = Private(n)' /\ Cert(proc[q].id)' = Cert(n)'
      BY <2>1, <3>2 DEF Private, Cert
    <3> QED
      BY <1>4, <2>1, <3>2, <3>3, <3>4 DEF Holds, PrivateWritten, Whole
  <2>3. CASE proc[q].pc \notin {"user_sign", "user_done"}
    BY <2>1, <2>3 DEF Holds
  <2> QED
    BY <2>2, <2>3
<1>8. Holds(proc[p])'
  <2>1. CASE proc[p].pc = "user_sign"
    <3>1. id \in UserIds[p] /\ id \in Names /\ t \in KeysLeft(id, proc[p].tmp)
      BY <1>4, <1>n, <2>1 DEF Plan
    <3>2. f \in {<<id, "private">>, <<id, "public">>} /\ Head(t).content = KeyFile(proc[p].tmp)
      BY <1>2, <3>1, KeysTail
    <3>3. CASE f = <<id, "private">>
      <4>1. CASE c = Torn /\ u = t
        BY <1>2, <1>3, <2>1, <3>3, <4>1 DEF Holds, PrivateWritten
      <4>2. CASE c = Head(t).content
        <5>1. Private(id)' = KeyFile(proc[p].tmp)
          BY <1>3, <3>1, <3>2, <3>3, <4>2
        <5>2. Private(proc[p].id)' = Private(id)'
          BY <1>3 DEF Private
        <5> QED
          BY <1>3, <2>1, <5>1, <5>2 DEF Holds, Whole, KeyFile
      <4> QED
        BY <1>1, <4>1, <4>2
    <3>4. CASE f = <<id, "public">>
      <4>1. Private(id)' = Private(id)
        BY <1>3, <3>1, <3>4
      <4>2. Whole(Private(id)) /\ Private(id).key = proc[p].tmp
        BY <1>4, <2>1, <3>4 DEF Holds, PrivateWritten
      <4>3. Private(proc[p].id)' = Private(id)'
        BY <1>3 DEF Private
      <4> QED
        BY <1>3, <2>1, <4>1, <4>2, <4>3 DEF Holds, Whole
    <3> QED
      BY <3>2, <3>3, <3>4
  <2>2. CASE proc[p].pc = "user_done"
    <3>1. PICK i \in Nat : id \in UserIds[p] /\ t \in CertLeft(id, proc[p].tmp, i)
      BY <1>4, <2>2 DEF Plan
    <3>2. f = <<id, "cert">> /\ Head(t).content = CertFile(proc[p].tmp, i)
      <4> DEFINE w == Write(id, "cert", CertFile(proc[p].tmp, i))
      <4>1. w.file = <<id, "cert">> /\ w.content = CertFile(proc[p].tmp, i)
        BY DEF Write
      <4>2. t = <<w>>
        BY <1>2, <3>1 DEF CertLeft
      <4> HIDE DEF w
      <4>3. Head(t) = w
        BY <4>2
      <4> QED
        BY <4>1, <4>3
    <3>3. Private(id)' = Private(id) /\ Cert(id)' = c
      BY <1>3, <1>n, <3>1, <3>2
    <3>4. Whole(Private(id)) /\ Private(id).key = proc[p].tmp
      BY <1>4, <2>2 DEF Holds
    <3>5. u = <<>> => Whole(c) /\ c.key = proc[p].tmp
      BY <1>1, <1>2, <3>2 DEF Whole, CertFile
    <3>6. Private(proc[p].id)' = Private(id)' /\ Cert(proc[p].id)' = Cert(id)'
      BY <1>3 DEF Private, Cert
    <3> QED
      BY <1>3, <2>2, <3>3, <3>4, <3>5, <3>6 DEF Holds, Whole
  <2>3. CASE proc[p].pc \notin {"user_sign", "user_done"}
    BY <1>2, <1>3, <2>3, WritePlace DEF Holds
  <2> QED
    BY <2>1, <2>2, <2>3
<1> QED
  BY <1>6, <1>7, <1>8 DEF UserInv

LEMMA UserStep ==
    OwnUsers /\ CertInv /\ ChainInv /\ PlanInv /\ FoundInv /\ UserInv /\ [Next]_vars => UserInv'
<1> SUFFICES ASSUME OwnUsers, CertInv, ChainInv, PlanInv, FoundInv, UserInv, [Next]_vars
             PROVE  UserInv'
  OBVIOUS
<1>1. CASE UNCHANGED vars
  BY <1>1 DEF vars, UserInv, Holds, PrivateWritten, Settles, Rewrites, Agree, Matches, Whole,
     Private, Cert
<1>2. ASSUME NEW p \in Procs, Step(p) PROVE UserInv'
  BY <1>2, UserQuietStep, UserWriteStep
<1> QED
  BY <1>1, <1>2 DEF Next
-----------------------------------------------------------------------------
(* A step sets the state of its own process. *)
LEMMA OthersStay ==
    ASSUME CertInv, NEW p \in Procs, Step(p), NEW q \in Procs, q # p
    PROVE  proc'[q] = proc[q]
<1>s. ASSUME NEW r, Set(p, r) PROVE proc'[q] = proc[q]
  BY <1>s DEF Set, CertInv, TypeInv
<1>t. \A n \in Names : /\ Private(n).st \in {"absent", "torn", "whole"}
                       /\ Cert(n).st \in {"absent", "torn", "whole"}
  BY DEF CertInv, TypeInv, FileType, Files, Private, Cert
<1>n. "ca" \in Names /\ Ids \subseteq Names /\ UserIds[p] \subseteq Names
  BY DEF Names, Ids
<1>1. CASE WriteTruncate(p) \/ WriteFill(p) \/ WriteFails(p) \/ Crash(p)
  BY <1>1, <1>s DEF WriteTruncate, WriteFill, WriteFails, Crash, Panic
<1>2. CASE BootstrapStat(p) \/ BootstrapGenerate(p) \/ CreateCaCertPublic(p) \/ CreateCaCert(p)
           \/ BootstrapReturns(p)
  BY <1>2, <1>s DEF BootstrapStat, BootstrapGenerate, CreateCaCertPublic, CreateCaCert,
     BootstrapReturns, Goto, Return, Panic
<1>3. CASE LoadStat(p) \/ LoadKey(p)
  BY <1>3, <1>s DEF LoadStat, LoadKey, Goto, Panic
<1>4. CASE LoadCert(p)
  <2>1. Cert("ca").st \in {"absent", "torn", "whole"}
    BY <1>t, <1>n
  <2> QED
    BY <1>4, <1>s, <2>1 DEF LoadCert, Whole, Panic
<1>5. CASE CreateUserSign(p) \/ CreateUserReturns(p) \/ SignReturns(p)
  BY <1>5, <1>s DEF CreateUserSign, CreateUserReturns, SignReturns, Goto, Return, Panic
<1>6. CASE GetCertificate(p)
  <2>1. Cert(proc[p].id).st \in {"absent", "torn", "whole"}
    BY <1>6, <1>t, <1>n DEF GetCertificate, At, CertInv, ContentInv, PlaceOK
  <2> QED
    BY <1>6, <1>s, <2>1 DEF GetCertificate, Return, Whole, Panic
<1>7. ASSUME NEW n \in Ids, CreateUser(p, n) \/ GetPrivkey(p, n) PROVE proc'[q] = proc[q]
  <2>1. Private(n).st \in {"absent", "torn", "whole"}
    BY <1>t, <1>n
  <2> QED
    BY <1>7, <1>s, <2>1 DEF CreateUser, GetPrivkey, Whole, Panic
<1>8. ASSUME NEW n \in DeviceIds[p], SignCertificate(p, n) PROVE proc'[q] = proc[q]
  BY <1>8, <1>s DEF SignCertificate, Panic
<1> QED
  BY <1>1, <1>2, <1>3, <1>4, <1>5, <1>6, <1>7, <1>8 DEF Step, Ids

(* Only a CreateUser that returned makes a user. *)
LEMMA CreatedStep ==
    ASSUME CertInv, PlanInv, NEW p \in Procs, Step(p)
    PROVE  created' = created \/ (created' = created \cup {proc[p].id} /\ proc[p].id \in UserIds[p])
<1>1. proc[p].pc \in {"user_sign", "user_done"} => proc[p].id \in UserIds[p]
  BY DEF PlanInv, Plan
<1>2. CASE CreateUserReturns(p)
  BY <1>1, <1>2 DEF CreateUserReturns, At
<1>3. CASE CreateUserSign(p)
  BY <1>1, <1>3 DEF CreateUserSign, At
<1>4. CASE WriteFails(p) \/ Crash(p)
  BY <1>4 DEF WriteFails, Crash
<1>5. CASE ~CreateUserReturns(p) /\ ~CreateUserSign(p) /\ ~WriteFails(p) /\ ~Crash(p)
  BY <1>5 DEF Step, WriteTruncate, WriteFill, BootstrapStat, BootstrapGenerate, CreateCaCertPublic,
     CreateCaCert, BootstrapReturns, LoadStat, LoadKey, LoadCert, SignReturns, GetCertificate,
     CreateUser, GetPrivkey, SignCertificate
<1> QED
  BY <1>2, <1>3, <1>4, <1>5

(* Every created user is some process's. *)
CreatedInv == created \subseteq Users

LEMMA CreatedInvStep == CertInv /\ PlanInv /\ CreatedInv /\ [Next]_vars => CreatedInv'
<1> SUFFICES ASSUME CertInv, PlanInv, CreatedInv, [Next]_vars PROVE CreatedInv'
  OBVIOUS
<1>1. CASE UNCHANGED vars
  BY <1>1 DEF vars, CreatedInv
<1>2. ASSUME NEW p \in Procs, Step(p) PROVE CreatedInv'
  BY <1>2, CreatedStep DEF CreatedInv, Users
<1> QED
  BY <1>1, <1>2 DEF Next

(* Private keys are written for users only. *)
LEMMA KeysAreUsersInit == Init => KeysAreUsers
<1> SUFFICES ASSUME Init PROVE KeysAreUsers
  OBVIOUS
<1> USE CertAssumption
<1>1. \A n \in Ids : Private(n) = Absent
  BY DEF Init, Private, Files, Names
<1> QED
  BY <1>1 DEF KeysAreUsers, Whole, Absent

LEMMA KeysAreUsersStep == CertInv /\ PlanInv /\ KeysAreUsers /\ [Next]_vars => KeysAreUsers'
<1> SUFFICES ASSUME CertInv, PlanInv, KeysAreUsers, [Next]_vars, NEW n \in Ids \ Users
             PROVE  ~Whole(Private(n))'
  BY DEF KeysAreUsers
<1> USE CertAssumption
<1>1. ~Whole(Private(n)) /\ n \in Names /\ n # "ca"
  BY DEF KeysAreUsers, Names
<1>2. CASE files' = files
  BY <1>1, <1>2 DEF Private, Whole
<1>3. ASSUME NEW p \in Procs, WriteTruncate(p) \/ WriteFill(p) PROVE ~Whole(Private(n))'
  <2> DEFINE f == Head(proc[p].todo).file
  <2>1. PICK c, cut, u : Written(p, c, cut, u)
    BY <1>3, WriteShape
  <2>2. f # <<n, "private">>
    <3>1. proc[p].todo # <<>>
      BY <2>1 DEF Written
    <3> QED
      BY <1>1, <3>1, WritePlace DEF Users
  <2>3. Private(n)' = Private(n)
    BY <1>1, <2>1, <2>2, WrittenFiles
  <2> QED
    BY <1>1, <2>3 DEF Whole
<1>4. ASSUME NEW p \in Procs, Step(p), ~WriteTruncate(p), ~WriteFill(p) PROVE files' = files
  BY <1>4 DEF Step, WriteFails, Crash, BootstrapStat, BootstrapGenerate, CreateCaCertPublic,
     CreateCaCert, BootstrapReturns, LoadStat, LoadKey, LoadCert, CreateUserSign,
     CreateUserReturns, SignReturns, GetCertificate, CreateUser, GetPrivkey, SignCertificate
<1> QED
  BY <1>2, <1>3, <1>4 DEF Next, vars

-----------------------------------------------------------------------------
(* Theorems *)

(* The invariant of the pairs: what each operation still has to write, the *)
(* CA's three files, and the files of every user.                          *)
THEOREM PairInvariant ==
    ASSUME Serial, OwnUsers
    PROVE  Spec => [](CertInv /\ ChainInv /\ PairInv /\ CreatedInv)
<1> DEFINE I == CertInv /\ ChainInv /\ PairInv /\ CreatedInv
<1>1. Init => I
  BY TypeInit, ChainInit, PlanInit, FoundInit, UserInit, KeysAreUsersInit
     DEF PairInv, CreatedInv, Init
<1>2. I /\ [Next]_vars => I'
  BY TypeStep, ChainStep, PlanStep, FoundStep, UserStep, KeysAreUsersStep, CreatedInvStep
     DEF PairInv
<1> QED
  BY <1>1, <1>2, PTL DEF Spec

(* The key and the certificate SigmaExchange reads for a controller, in    *)
(* any process and with any other process at work between the two reads,   *)
(* belong together unless a CreateUser of that id was cut short and not    *)
(* repeated, is at work, or replaced the key between the reads: for every  *)
(* number of crashes, failed writes and panics, when the CA is there from  *)
(* the start or one process uses the directory (Serial), and no two        *)
(* processes create the same user nor a device has a user's id (OwnUsers). *)
THEOREM PairTheorem ==
    ASSUME Serial, OwnUsers
    PROVE  Spec => PairMismatchNeedsRewrite
<1> DEFINE Explained(q) == \/ q.key = q.cert.key
                          \/ q.id \in rewrite
                          \/ \E r \in Procs : q.id \in Rewriting(r)
                          \/ Private(q.id) # KeyFile(q.key)
           A == \A p \in Procs :
                  LET q == proc'[p].pair IN
                  q # proc[p].pair =>
                      \/ q.key = q.cert.key
                      \/ q.id \in rewrite
                      \/ \E r \in Procs : q.id \in Rewriting(r)
                      \/ Private(q.id) # KeyFile(q.key)
<1>1. CertInv /\ PlanInv /\ UserInv /\ [Next]_vars => [A]_vars
  <2> SUFFICES ASSUME CertInv, PlanInv, UserInv, Next PROVE A
    OBVIOUS
  <2>1. ASSUME NEW p \in Procs, Step(p), NEW o \in Procs, proc'[o].pair # proc[o].pair
        PROVE  Explained(proc'[o].pair)
    <3>p. proc[p] \in ProcType
      BY DEF CertInv, TypeInv
    <3>1. NoPair.key = NoPair.cert.key /\ Idle.pair = NoPair
      BY DEF NoPair, NoCert, Idle
    <3>2. \/ proc'[o].pair = NoPair
          \/ GetCertificate(p) /\ o = p /\ Whole(Cert(proc[p].id))
      <4>1. CASE o # p
        BY <2>1, <4>1, OthersStay
      <4>2. CASE o = p
        <5>s. ASSUME NEW r, Set(p, r), r.pair \in {proc[p].pair, NoPair} PROVE proc'[o].pair = NoPair
          BY <2>1, <4>2, <5>s DEF Set, CertInv, TypeInv
        <5>i. Set(p, Idle) => proc'[o].pair = NoPair
          BY <3>1, <5>s
        <5>e. proc' # proc
          BY <2>1
        <5>1. CASE WriteTruncate(p) \/ WriteFill(p) \/ WriteFails(p) \/ Crash(p)
          BY <3>p, <5>1, <5>s, <5>i DEF WriteTruncate, WriteFill, WriteFails, Crash, Panic, ProcType
        <5>2. CASE BootstrapStat(p) \/ BootstrapGenerate(p) \/ CreateCaCertPublic(p)
                   \/ CreateCaCert(p) \/ BootstrapReturns(p)
          BY <3>p, <5>2, <5>s, <5>i, <5>e DEF BootstrapStat, BootstrapGenerate, CreateCaCertPublic,
             CreateCaCert, BootstrapReturns, Goto, Return, Panic, ProcType
        <5>3. CASE LoadStat(p) \/ LoadKey(p)
          BY <3>p, <5>3, <5>s, <5>i, <5>e DEF LoadStat, LoadKey, Goto, Panic, ProcType
        <5>4. CASE LoadCert(p)
          <6>1. Cert("ca").st \in {"absent", "torn", "whole"}
            BY DEF CertInv, TypeInv, FileType, Files, Cert, Names
          <6> QED
            BY <3>p, <5>4, <5>s, <5>i, <6>1 DEF LoadCert, Whole, Panic, ProcType
        <5>5. CASE CreateUserSign(p) \/ CreateUserReturns(p) \/ SignReturns(p)
          BY <3>p, <5>5, <5>s, <5>i DEF CreateUserSign, CreateUserReturns, SignReturns, Goto, Return,
             Panic, ProcType
        <5>6. ASSUME NEW n \in Ids, CreateUser(p, n) \/ GetPrivkey(p, n)
              PROVE  proc'[o].pair = NoPair
          <6>1. Private(n).st \in {"absent", "torn", "whole"}
            BY DEF CertInv, TypeInv, FileType, Files, Private, Names, Ids
          <6> QED
            BY <3>p, <5>6, <5>s, <5>i, <5>e, <6>1 DEF CreateUser, GetPrivkey, Whole, Panic, ProcType
        <5>7. ASSUME NEW n \in DeviceIds[p], SignCertificate(p, n) PROVE proc'[o].pair = NoPair
          BY <3>p, <5>7, <5>s, <5>i, <5>e DEF SignCertificate, Panic, ProcType
        <5>8. CASE GetCertificate(p) /\ ~Whole(Cert(proc[p].id))
          <6>1. Cert(proc[p].id).st \in {"absent", "torn", "whole"}
            BY <5>8 DEF GetCertificate, At, CertInv, ContentInv, PlaceOK, TypeInv, FileType, Files,
               Cert, Names
          <6> QED
            BY <3>p, <5>8, <5>s, <5>i, <6>1 DEF GetCertificate, Whole, Return, Panic, ProcType
        <5> QED
          BY <2>1, <4>2, <5>1, <5>2, <5>3, <5>4, <5>5, <5>6, <5>7, <5>8 DEF Step, Ids
      <4> QED
        BY <4>1, <4>2
    <3>3. CASE GetCertificate(p) /\ o = p /\ Whole(Cert(proc[p].id))
      <4> DEFINE n == proc[p].id
                 c == [key |-> Cert(n).key, iss |-> Cert(n).iss]
                 q == [id |-> n, key |-> proc[p].tmp, cert |-> c]
                 r == [proc[p] EXCEPT !.pc = "idle", !.id = "none", !.tmp = 0, !.pair = q]
      <4>1. Set(p, r)
        BY <3>3 DEF GetCertificate, Whole
      <4>2. proc'[p].pair = q
        BY <3>p, <4>1 DEF Set, ProcType, CertInv, TypeInv
      <4> HIDE DEF r
      <4>3. PICK owner \in Procs : n \in UserIds[owner]
        BY <3>3 DEF GetCertificate, At, PlanInv, Plan, Users
      <4>4. ASSUME n \notin rewrite, \A i \in Procs : n \notin Rewriting(i),
                   Private(n) = KeyFile(proc[p].tmp)
            PROVE  Cert(n).key = proc[p].tmp
        <5>1. Whole(Private(n)) /\ Private(n).key = proc[p].tmp
          BY <4>4 DEF Whole, KeyFile
        <5>2. Settles(owner, n)
          BY <4>4 DEF Settles, Rewrites, Rewriting
        <5> QED
          BY <3>3, <4>3, <5>1, <5>2 DEF UserInv, Agree
      <4>5. q.id = n /\ q.key = proc[p].tmp /\ q.cert.key = Cert(n).key
        OBVIOUS
      <4> HIDE DEF q, n
      <4>6. Explained(q)
        BY <4>4, <4>5
      <4> QED
        BY <3>3, <4>2, <4>6
    <3> QED
      BY <3>1, <3>2, <3>3
  <2> QED
    BY <2>1 DEF Next
<1>2. CertInv /\ ChainInv /\ PairInv /\ CreatedInv /\ [Next]_vars => [A]_vars
  BY <1>1 DEF PairInv
<1> HIDE DEF A
<1>3. Spec => [][A]_vars
  BY <1>2, PairInvariant, PTL DEF Spec
<1> QED
  BY <1>3 DEF A, PairMismatchNeedsRewrite

(* A user that CreateUser returned nil for stays retrievable through every *)
(* crash and failed write, whatever the other processes read, write or     *)
(* sign, until CreateUser is at work on it again or was cut short there:   *)
(* when the CA is there from the start or one process uses the directory,  *)
(* and no two processes create the same user nor a device has its id.      *)
THEOREM CreatedTheorem ==
    ASSUME Serial, OwnUsers
    PROVE  Spec => []CreatedUserIsRetrievable
<1>1. CertInv /\ ChainInv /\ PairInv /\ CreatedInv => CreatedUserIsRetrievable
  <2> SUFFICES ASSUME ChainInv, UserInv, CreatedInv, NEW n \in created, n \notin rewrite,
                      \A p \in Procs : n \notin Rewriting(p)
               PROVE  Matches(n) /\ Cert(n).iss = Private("ca").key
    BY DEF PairInv, CreatedUserIsRetrievable
  <2>1. PICK p \in Procs : n \in UserIds[p]
    BY DEF CreatedInv, Users
  <2>2. Settles(p, n)
    BY DEF Settles, Rewrites, Rewriting
  <2>3. Matches(n)
    BY <2>1, <2>2 DEF UserInv
  <2>4. n \in Names
    BY <2>1 DEF Names, Ids
  <2> QED
    BY <2>3, <2>4 DEF ChainInv, CertsChainToCa, Matches
<1> QED
  BY <1>1, PairInvariant, PTL
=============================================================================
