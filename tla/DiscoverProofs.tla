---------------------------- MODULE DiscoverProofs ----------------------------
(***************************************************************************)
(* Proofs about Discover, for any interfaces, entries, channel capacity    *)
(* and number of answers: type correctness with the bound on the channel,  *)
(* one device per host, and that what was stored in time is reported.      *)
(*                                                                         *)
(* The inductive invariant follows an answer: taken off the channel        *)
(* (ConsInv), stored by the goroutine, read by the caller in spite of the  *)
(* race, copied into the map of all devices (InTimeInv) and returned.      *)
(***************************************************************************)
EXTENDS Discover, TLAPS

-----------------------------------------------------------------------------
(* The inductive invariant *)

TypeInv ==
    /\ DiscoverTypeOK
    /\ call \in Calls \cup {"none"}
    /\ offer \in [Interfaces -> SUBSET Entries]
    /\ chan \in [Interfaces -> Seq(Entries)]
    /\ closed \in [Interfaces -> BOOLEAN]
    /\ cons \in [Interfaces -> [st : {"none", "recv", "store", "ended"},
                                entry : Entries \cup {NoEntry.entry}]]
    /\ ds \in [Interfaces -> SUBSET Devices]
    /\ heard \subseteq Entries
    /\ intime \subseteq Interfaces \X Entries

(* Before the call nothing has happened; Discover visits one interface *)
CallInv ==
    /\ call = "none" <=> pc = "idle"
    /\ pc = "idle" =>
          /\ cur = 0 /\ devices = {} /\ left = {} /\ heard = {} /\ intime = {}
          /\ \A i \in Interfaces : cons[i].st = "none" /\ ds[i] = {}
    /\ call = "Discover" =>
          /\ pc # "copy"
          /\ pc = "next" => cur = 0
          /\ pc = "query" => cur = 1
    /\ pc \in {"query", "copy"} => cur \in Interfaces

(* The answers the call is interested in *)
Relevant == {h \in heard : h.svc = Service}
Known == {Device(h) : h \in Relevant}

(* Whatever is stored anywhere was heard *)
ConsInv ==
    /\ \A i \in Interfaces : cons[i].st = "store" => cons[i].entry \in Relevant
    /\ \A i \in Interfaces : ds[i] \subseteq Known
    /\ left \subseteq Known /\ devices \subseteq Known

OnePerHost(s) == \A d1, d2 \in s : d1.host = d2.host => d1 = d2

HostInv == OnePerHost(devices) /\ OneDevicePerHost

(* e is in s, or another answer of its host took its place *)
Within(e, s) == Shadowed(e) \/ Device(e) \in s

(* Where an answer stored in time is to be found, until it is returned *)
InTimeInv ==
    /\ \A t \in intime :
         /\ t[1] <= cur /\ t[2] \in Relevant
         /\ Within(t[2], ds[t[1]])
         /\ t[1] < cur \/ pc = "next" => Within(t[2], devices)
         /\ t[1] = cur /\ pc = "copy" => Within(t[2], devices \cup left)
    /\ InTimeIsReported

DiscoverInv == TypeInv /\ CallInv /\ ConsInv /\ HostInv /\ InTimeInv

-----------------------------------------------------------------------------
(* What a step of a call leaves alone *)

(* A device is what its entry and the call make of it. *)
LEMMA DeviceFacts ==
    \A e \in Entries : /\ Device(e) \in Devices
                       /\ Device(e).host = e.host /\ Device(e).name = e.name
<1> TAKE e \in Entries
<1>1. Addrs(e) \in SUBSET {"v4", "v6", "nil"}
  BY DEF Addrs
<1> QED
  BY <1>1 DEF Device, Devices

(* A device stored stays within what is known. *)
LEMMA StoreKnown ==
    ASSUME NEW K, NEW s \in SUBSET K, NEW d \in K
    PROVE  StoreByHost(s, d) \subseteq K /\ Store(s, d) \subseteq K
  BY DEF StoreByHost, Store

(* Nothing heard is forgotten, and the call does not change under way. *)
LEMMA Stable ==
    ASSUME call' = call, heard \subseteq heard'
    PROVE  /\ Service' = Service
           /\ \A e : Device(e)' = Device(e)
           /\ \A s, d : Store(s, d)' = Store(s, d)
           /\ Relevant \subseteq Relevant' /\ Known \subseteq Known'
           /\ \A e : Shadowed(e) => Shadowed(e)'
<1>1. Service' = Service
  BY DEF Service
<1>2. \A e : Device(e)' = Device(e)
  BY DEF Device, Addrs
<1>3. \A s, d : Store(s, d)' = Store(s, d)
  BY DEF Store, StoreByHost
<1>4. Relevant \subseteq Relevant'
  BY <1>1 DEF Relevant
<1>5. Known \subseteq Known'
  BY <1>2, <1>4 DEF Known
<1>6. \A e : Shadowed(e) => Shadowed(e)'
  BY DEF Shadowed
<1> QED
  BY <1>1, <1>2, <1>3, <1>4, <1>5, <1>6

(* A store takes a device away only for another answer of its host. *)
LEMMA WithinStore ==
    ASSUME NEW e \in Relevant, NEW h \in Relevant, NEW s, Within(e, s)
    PROVE  /\ Within(e, Store(s, Device(h)))
           /\ call # "Discover" => Within(e, StoreByHost(s, Device(h)))
<1>1. Device(e).host = e.host /\ Device(h).host = h.host
  BY DEF Device
<1>2. e \in heard /\ h \in heard /\ e.svc = h.svc
  BY DEF Relevant
<1>3. ASSUME call # "Discover" PROVE Within(e, StoreByHost(s, Device(h)))
  <2>1. CASE e = h
    BY <2>1 DEF Within, StoreByHost
  <2>2. CASE e # h /\ e.host = h.host
    BY <1>2, <1>3, <2>2 DEF Within, Shadowed
  <2>3. CASE e.host # h.host
    BY <1>1, <2>3 DEF Within, StoreByHost
  <2> QED
    BY <2>1, <2>2, <2>3
<1>4. CASE call = "Discover"
  BY <1>4 DEF Within, Store
<1> QED
  BY <1>3, <1>4 DEF Store

(* Putting a device in its host's place keeps one device per host. *)
LEMMA StoreOnePerHost ==
    ASSUME NEW s, NEW d, OnePerHost(s)
    PROVE  OnePerHost(StoreByHost(s, d))
  BY DEF OnePerHost, StoreByHost

(* The steps of an interface are steps of the call, which stays the same. *)
LEMMA StepStable ==
    ASSUME TypeInv, [Next]_vars, ~\E c \in Calls : Begin(c)
    PROVE  call' = call /\ heard \subseteq heard'
<1>1. CASE Caller
  BY <1>1 DEF Caller, SkipInterface, StartQuery, QueryFails, QueryReturns, CopyOne,
       CopyDetected, CopyEnds, Finish
<1>2. CASE QueryAnswer
  BY <1>2 DEF QueryAnswer, callerVars
<1>3. CASE \E i \in Interfaces : Consumer(i)
  BY <1>3 DEF Consumer, Take, StoreEntry, RangeEnds, callerVars
<1>4. CASE UNCHANGED vars
  BY <1>4 DEF vars, callerVars
<1> QED
  BY <1>1, <1>2, <1>3, <1>4 DEF Next

-----------------------------------------------------------------------------
(* Types *)

LEMMA TypeInit == Init => TypeInv
<1> SUFFICES ASSUME Init PROVE TypeInv
  OBVIOUS
<1> USE DiscoverAssumption
<1>1. NoEntry \in [st : {"none", "recv", "store", "ended"}, entry : Entries \cup {NoEntry.entry}]
      /\ NoEntry.st = "none"
  BY DEF NoEntry
<1>2. \A i \in Interfaces : chan[i] = <<>> /\ Len(chan[i]) = 0
  BY DEF Init
<1>3. DiscoverTypeOK
  BY <1>1, <1>2 DEF Init, DiscoverTypeOK, Interfaces
<1>4. chan \in [Interfaces -> Seq(Entries)]
  BY DEF Init
<1> QED
  BY <1>1, <1>3, <1>4 DEF Init, TypeInv

(* A channel takes an answer only below its capacity. *)
LEMMA TypeStep == TypeInv /\ CallInv /\ ConsInv /\ [Next]_vars => TypeInv'
<1> SUFFICES ASSUME TypeInv, CallInv, ConsInv, [Next]_vars PROVE TypeInv'
  OBVIOUS
<1> USE DiscoverAssumption
<1>r. Receiving \in [st : {"none", "recv", "store", "ended"}, entry : Entries \cup {NoEntry.entry}]
      /\ Receiving.st = "recv"
  BY DEF NoEntry, Receiving
<1>t. ASSUME NEW i \in Interfaces
      PROVE  /\ cons[i].st = "store" => Device(cons[i].entry) \in Devices
             /\ \A s \in Readable(i) : s \subseteq Devices
  <2>1. ds[i] \subseteq Devices
    BY DEF TypeInv
  <2>2. cons[i].st = "store" => Device(cons[i].entry) \in Devices
    BY DeviceFacts DEF ConsInv, Relevant, TypeInv
  <2>3. cons[i].st = "store" => Store(ds[i], Device(cons[i].entry)) \subseteq Devices
    BY <2>1, <2>2, StoreKnown
  <2>4. ASSUME NEW s \in Readable(i) PROVE s \subseteq Devices
    BY <2>1, <2>3, <2>4 DEF Readable
  <2> QED
    BY <2>2, <2>4
<1>1. ASSUME NEW c \in Calls, Begin(c) PROVE TypeInv'
  BY <1>1 DEF Begin, TypeInv, DiscoverTypeOK
<1>2. CASE SkipInterface
  BY <1>2 DEF SkipInterface, TypeInv, DiscoverTypeOK, Interfaces
<1>3. CASE StartQuery
  BY <1>3, <1>r DEF StartQuery, TypeInv, DiscoverTypeOK, Interfaces
<1>4. CASE QueryFails
  BY <1>4 DEF QueryFails, TypeInv, DiscoverTypeOK, CallInv
<1>5. CASE QueryReturns
  BY <1>5, <1>t DEF QueryReturns, TypeInv, DiscoverTypeOK, CallInv
<1>6. CASE CopyOne
  BY <1>6, StoreKnown DEF CopyOne, TypeInv, DiscoverTypeOK
<1>7. CASE CopyDetected \/ CopyEnds
  BY <1>7 DEF CopyDetected, CopyEnds, TypeInv, DiscoverTypeOK
<1>8. CASE Finish
  BY <1>8 DEF Finish, TypeInv, DiscoverTypeOK, Selected
<1>9. CASE QueryAnswer
  <2>1. PICK e \in offer[cur] :
          /\ offer' = [offer EXCEPT ![cur] = @ \ {e}]
          /\ chan' = IF Len(chan[cur]) < Capacity
                     THEN [chan EXCEPT ![cur] = Append(@, e)] ELSE chan
    BY <1>9 DEF QueryAnswer
  <2>2. cur \in Interfaces /\ e \in Entries /\ chan[cur] \in Seq(Entries)
    BY <1>9, <2>1 DEF QueryAnswer, CallInv, TypeInv
  <2>3. Append(chan[cur], e) \in Seq(Entries) /\ Len(Append(chan[cur], e)) = Len(chan[cur]) + 1
        /\ Len(chan[cur]) \in Nat
    BY <2>2
  <2>4. chan' \in [Interfaces -> Seq(Entries)] /\ offer' \in [Interfaces -> SUBSET Entries]
    BY <2>1, <2>2, <2>3 DEF TypeInv
  <2>5. \A i \in Interfaces : Len(chan'[i]) <= Capacity
    <3> TAKE i \in Interfaces
    <3>1. Len(chan[i]) <= Capacity
      BY DEF TypeInv, DiscoverTypeOK
    <3>2. CASE i = cur /\ Len(chan[cur]) < Capacity
      <4>1. chan'[i] = Append(chan[cur], e)
        BY <2>1, <3>2 DEF TypeInv
      <4> QED
        BY <4>1, <2>3, <3>2
    <3>3. CASE i # cur \/ ~(Len(chan[cur]) < Capacity)
      BY <2>1, <3>1, <3>3 DEF TypeInv
    <3> QED
      BY <3>2, <3>3
  <2> QED
    BY <1>9, <2>4, <2>5 DEF QueryAnswer, callerVars, TypeInv, DiscoverTypeOK
<1>10. ASSUME NEW i \in Interfaces, Take(i) PROVE TypeInv'
  <2>1. chan[i] \in Seq(Entries) /\ chan[i] # <<>> /\ Len(chan[i]) <= Capacity
    BY <1>10 DEF Take, TypeInv, DiscoverTypeOK
  <2>2. Head(chan[i]) \in Entries /\ Tail(chan[i]) \in Seq(Entries)
        /\ Len(Tail(chan[i])) <= Capacity
    BY <2>1
  <2>3. chan' \in [Interfaces -> Seq(Entries)] /\ \A k \in Interfaces : Len(chan'[k]) <= Capacity
    BY <1>10, <2>2 DEF Take, TypeInv, DiscoverTypeOK
  <2>4. cons' \in [Interfaces -> [st : {"none", "recv", "store", "ended"},
                                  entry : Entries \cup {NoEntry.entry}]]
    BY <1>10, <2>2, <1>r DEF Take, TypeInv
  <2> QED
    BY <1>10, <2>2, <2>3, <2>4 DEF Take, callerVars, TypeInv, DiscoverTypeOK
<1>11. ASSUME NEW i \in Interfaces, StoreEntry(i) PROVE TypeInv'
  <2> DEFINE d == Device(cons[i].entry)
  <2>0. cons[i].st = "store"
    BY <1>11 DEF StoreEntry
  <2>1. d \in Devices /\ ds[i] \in SUBSET Devices /\ cons[i].entry \in Entries
    BY <1>t, <2>0 DEF ConsInv, Relevant, TypeInv
  <2>2. Store(ds[i], d) \in SUBSET Devices
    BY <2>1 DEF Store, StoreByHost
  <2>3. ds' \in [Interfaces -> SUBSET Devices] /\ left' \subseteq Devices
    BY <1>11, <2>1, <2>2 DEF StoreEntry, TypeInv, DiscoverTypeOK
  <2>4. cons' \in [Interfaces -> [st : {"none", "recv", "store", "ended"},
                                  entry : Entries \cup {NoEntry.entry}]]
    BY <1>11, <1>r DEF StoreEntry, TypeInv
  <2>5. intime' \subseteq Interfaces \X Entries
    BY <1>11, <2>1 DEF StoreEntry, TypeInv
  <2>6. UNCHANGED <<call, pc, cur, devices, out, offer, chan, closed, heard>>
    BY <1>11 DEF StoreEntry
  <2>7. \A k \in Interfaces : cons'[k].st \in {"none", "recv", "store", "ended"} /\ ds'[k] \subseteq Devices
    BY <2>3, <2>4
  <2>8. DiscoverTypeOK'
    BY <2>3, <2>6, <2>7 DEF TypeInv, DiscoverTypeOK
  <2> QED
    BY <2>3, <2>4, <2>5, <2>6, <2>8 DEF TypeInv
<1>12. ASSUME NEW i \in Interfaces, RangeEnds(i) PROVE TypeInv'
  <2>1. cons' \in [Interfaces -> [st : {"none", "recv", "store", "ended"},
                                  entry : Entries \cup {NoEntry.entry}]]
    <3>1. cons[i] \in [st : {"none", "recv", "store", "ended"}, entry : Entries \cup {NoEntry.entry}]
      BY DEF TypeInv
    <3>2. [cons[i] EXCEPT !.st = "ended"]
            \in [st : {"none", "recv", "store", "ended"}, entry : Entries \cup {NoEntry.entry}]
      BY <3>1
    <3>3. cons' = [cons EXCEPT ![i] = [cons[i] EXCEPT !.st = "ended"]]
      BY <1>12 DEF RangeEnds
    <3> QED
      BY <3>2, <3>3 DEF TypeInv
  <2>2. \A k \in Interfaces : cons'[k].st \in {"none", "recv", "store", "ended"}
    BY <2>1
  <2> QED
    BY <1>12, <2>1, <2>2 DEF RangeEnds, callerVars, TypeInv, DiscoverTypeOK
<1>13. CASE UNCHANGED vars
  BY <1>13 DEF vars, callerVars, TypeInv, DiscoverTypeOK
<1> QED
  BY <1>1, <1>2, <1>3, <1>4, <1>5, <1>6, <1>7, <1>8, <1>9, <1>10, <1>11, <1>12, <1>13
     DEF Next, Caller, Consumer

-----------------------------------------------------------------------------
(* The call *)

LEMMA CallInit == Init => CallInv
  BY DiscoverAssumption DEF Init, CallInv, Interfaces, NoEntry

LEMMA CallStep == TypeInv /\ CallInv /\ [Next]_vars => CallInv'
<1> SUFFICES ASSUME TypeInv, CallInv, [Next]_vars PROVE CallInv'
  OBVIOUS
<1> USE DiscoverAssumption
<1>1. ASSUME NEW c \in Calls, Begin(c) PROVE CallInv'
  BY <1>1 DEF Begin, TypeInv, DiscoverTypeOK, CallInv
<1>2. CASE SkipInterface
  BY <1>2 DEF SkipInterface, TypeInv, DiscoverTypeOK, CallInv
<1>3. CASE StartQuery
  BY <1>3 DEF StartQuery, TypeInv, DiscoverTypeOK, CallInv, Interfaces
<1>4. CASE QueryFails
  BY <1>4 DEF QueryFails, CallInv
<1>5. CASE QueryReturns
  BY <1>5 DEF QueryReturns, CallInv
<1>6. CASE CopyOne \/ CopyDetected \/ CopyEnds
  BY <1>6 DEF CopyOne, CopyDetected, CopyEnds, CallInv
<1>7. CASE Finish
  BY <1>7 DEF Finish, CallInv
<1>8. CASE QueryAnswer
  BY <1>8 DEF QueryAnswer, callerVars, CallInv
<1>9. ASSUME NEW i \in Interfaces, Consumer(i) PROVE CallInv'
  BY <1>9 DEF Consumer, Take, StoreEntry, RangeEnds, callerVars, CallInv
<1>10. CASE UNCHANGED vars
  BY <1>10 DEF vars, callerVars, CallInv
<1> QED
  BY <1>1, <1>2, <1>3, <1>4, <1>5, <1>6, <1>7, <1>8, <1>9, <1>10 DEF Next, Caller

-----------------------------------------------------------------------------
(* Whatever is stored was heard *)

LEMMA ConsInit == Init => ConsInv
  BY DEF Init, ConsInv, NoEntry

LEMMA ConsStep == TypeInv /\ CallInv /\ ConsInv /\ [Next]_vars => ConsInv'
<1> SUFFICES ASSUME TypeInv, CallInv, ConsInv, [Next]_vars PROVE ConsInv'
  OBVIOUS
<1>1. ASSUME NEW c \in Calls, Begin(c) PROVE ConsInv'
  BY <1>1 DEF Begin, CallInv, ConsInv
<1>2. CASE ~\E c \in Calls : Begin(c)
  <2>s. Relevant \subseteq Relevant' /\ Known \subseteq Known'
    BY <1>2, StepStable, Stable
  <2>k. \A h \in Relevant : Device(h) \in Known
    BY DEF Known
  <2>1. CASE SkipInterface \/ CopyDetected \/ CopyEnds \/ Finish \/ QueryFails
    BY <2>1, <2>s DEF SkipInterface, CopyDetected, CopyEnds, Finish, QueryFails, ConsInv
  <2>2. CASE StartQuery
    <3>1. \A i \in Interfaces : cons'[i].st = "store" => cons[i].st = "store" /\ cons'[i] = cons[i]
      BY <2>2 DEF StartQuery, Receiving, NoEntry, TypeInv
    <3> QED
      BY <2>2, <2>s, <3>1 DEF StartQuery, ConsInv
  <2>3. CASE QueryReturns
    <3>1. \A s \in Readable(cur) : s \subseteq Known
      <4>1. cur \in Interfaces /\ ds[cur] \subseteq Known
        BY <2>3 DEF QueryReturns, CallInv, ConsInv
      <4>2. cons[cur].st = "store" => Store(ds[cur], Device(cons[cur].entry)) \subseteq Known
        BY <4>1, <2>k, StoreKnown DEF ConsInv
      <4> QED
        BY <4>1, <4>2 DEF Readable
    <3> QED
      BY <2>3, <2>s, <3>1 DEF QueryReturns, ConsInv
  <2>4. CASE CopyOne
    <3>1. devices' \subseteq Known /\ left' \subseteq Known
      BY <2>4, StoreKnown DEF CopyOne, ConsInv
    <3> QED
      BY <2>4, <2>s, <3>1 DEF CopyOne, ConsInv
  <2>5. CASE QueryAnswer
    BY <2>5, <2>s DEF QueryAnswer, callerVars, ConsInv
  <2>6. ASSUME NEW i \in Interfaces, Take(i) PROVE ConsInv'
    <3>1. ASSUME NEW k \in Interfaces, cons'[k].st = "store" PROVE cons'[k].entry \in Relevant'
      <4>1. CASE k # i
        BY <2>6, <2>s, <3>1, <4>1 DEF Take, TypeInv, ConsInv
      <4>2. CASE k = i
        <5>1. Head(chan[i]).svc = Service /\ cons'[i].entry = Head(chan[i])
          BY <2>6, <3>1, <4>2 DEF Take, TypeInv, Receiving, NoEntry
        <5>2. Service' = Service /\ Head(chan[i]) \in heard'
          BY <2>6 DEF Take, callerVars, Service
        <5> QED
          BY <4>2, <5>1, <5>2 DEF Relevant
      <4> QED
        BY <4>1, <4>2
    <3> QED
      BY <2>6, <2>s, <3>1 DEF Take, callerVars, ConsInv
  <2>7. ASSUME NEW i \in Interfaces, StoreEntry(i) PROVE ConsInv'
    <3> DEFINE d == Device(cons[i].entry)
    <3>1. d \in Known
      BY <2>7, <2>k DEF StoreEntry, ConsInv
    <3>2. Store(ds[i], d) \subseteq Known /\ left' \subseteq Known
      BY <2>7, <3>1, StoreKnown DEF StoreEntry, ConsInv
    <3>3. \A k \in Interfaces : ds'[k] \subseteq Known
      BY <2>7, <3>2 DEF StoreEntry, TypeInv, ConsInv
    <3>4. \A k \in Interfaces : cons'[k].st = "store" => cons[k].st = "store" /\ cons'[k] = cons[k]
      BY <2>7 DEF StoreEntry, Receiving, NoEntry, TypeInv
    <3> QED
      BY <2>7, <2>s, <3>2, <3>3, <3>4 DEF StoreEntry, ConsInv
  <2>8. ASSUME NEW i \in Interfaces, RangeEnds(i) PROVE ConsInv'
    <3>1. \A k \in Interfaces : cons'[k].st = "store" => cons[k].st = "store" /\ cons'[k] = cons[k]
      BY <2>8 DEF RangeEnds, TypeInv
    <3> QED
      BY <2>8, <2>s, <3>1 DEF RangeEnds, callerVars, ConsInv
  <2>9. CASE UNCHANGED vars
    BY <2>9, <2>s DEF vars, callerVars, ConsInv
  <2> QED
    BY <1>2, <2>1, <2>2, <2>3, <2>4, <2>5, <2>6, <2>7, <2>8, <2>9 DEF Next, Caller, Consumer
<1> QED
  BY <1>1, <1>2

-----------------------------------------------------------------------------
(* One device per host *)

LEMMA HostInit == Init => HostInv
  BY DEF Init, HostInv, OnePerHost, OneDevicePerHost

LEMMA HostStep == TypeInv /\ CallInv /\ HostInv /\ [Next]_vars => HostInv'
<1> SUFFICES ASSUME TypeInv, CallInv, HostInv, [Next]_vars PROVE HostInv'
  OBVIOUS
<1>1. ASSUME NEW c \in Calls, Begin(c) PROVE HostInv'
  BY <1>1 DEF Begin, HostInv, OnePerHost, OneDevicePerHost
<1>2. CASE SkipInterface \/ StartQuery \/ QueryFails \/ CopyDetected \/ CopyEnds
  BY <1>2 DEF SkipInterface, StartQuery, QueryFails, CopyDetected, CopyEnds, HostInv,
       OnePerHost, OneDevicePerHost
<1>3. CASE QueryReturns
  BY <1>3 DEF QueryReturns, HostInv, OnePerHost, OneDevicePerHost
<1>4. CASE CopyOne
  <2>1. OnePerHost(devices')
    BY <1>4, StoreOnePerHost DEF CopyOne, HostInv
  <2> QED
    BY <1>4, <2>1 DEF CopyOne, HostInv, OnePerHost, OneDevicePerHost
<1>5. CASE Finish
  BY <1>5 DEF Finish, HostInv, OnePerHost, OneDevicePerHost, Selected
<1>6. CASE QueryAnswer
  BY <1>6 DEF QueryAnswer, callerVars, HostInv, OnePerHost, OneDevicePerHost
<1>7. ASSUME NEW i \in Interfaces, Consumer(i) PROVE HostInv'
  BY <1>7 DEF Consumer, Take, StoreEntry, RangeEnds, callerVars, HostInv, OnePerHost,
       OneDevicePerHost
<1>8. CASE UNCHANGED vars
  BY <1>8 DEF vars, callerVars, HostInv, OnePerHost, OneDevicePerHost
<1> QED
  BY <1>1, <1>2, <1>3, <1>4, <1>5, <1>6, <1>7, <1>8 DEF Next, Caller

-----------------------------------------------------------------------------
(* What was stored in time is reported *)

LEMMA InTimeInit == Init => InTimeInv
  BY DEF Init, InTimeInv, InTimeIsReported

LEMMA InTimeStep ==
    TypeInv /\ CallInv /\ ConsInv /\ InTimeInv /\ [Next]_vars => InTimeInv'
<1> SUFFICES ASSUME TypeInv, CallInv, ConsInv, InTimeInv, [Next]_vars PROVE InTimeInv'
  OBVIOUS
<1> USE DiscoverAssumption
<1>1. ASSUME NEW c \in Calls, Begin(c) PROVE InTimeInv'
  BY <1>1 DEF Begin, CallInv, InTimeInv, InTimeIsReported
<1>2. CASE ~\E c \in Calls : Begin(c)
  <2>s. /\ call' = call /\ Relevant \subseteq Relevant'
        /\ \A e : Shadowed(e) => Shadowed(e)'
        /\ \A e : Device(e)' = Device(e)
    BY <1>2, StepStable, Stable
  <2>t. \A t \in intime : t[1] \in Interfaces /\ t[1] \in Nat /\ t[1] <= cur /\ cur \in Nat
    BY DEF TypeInv, DiscoverTypeOK, Interfaces, InTimeInv
  <2>r. InTimeIsReported /\ pc' = "done" /\ pc = "done" /\ out' = out /\ intime' = intime
        => InTimeIsReported'
    BY <2>s DEF InTimeIsReported
  <2>n. pc' # "done" => InTimeIsReported'
    BY DEF InTimeIsReported
  <2>1. CASE SkipInterface \/ StartQuery
    BY <2>1, <2>s, <2>t, <2>n DEF SkipInterface, StartQuery, InTimeInv, Within
  <2>2. CASE QueryFails
    BY <2>2, <2>s, <2>t, <2>n DEF QueryFails, InTimeInv, Within
  <2>3. CASE QueryReturns
    <3>1. PICK s \in Readable(cur) :
            IF call = "Discover" THEN pc' = "done" /\ out' = s /\ UNCHANGED left
            ELSE pc' = "copy" /\ left' = s /\ UNCHANGED out
      BY <2>3 DEF QueryReturns
    <3>2. ASSUME NEW t \in intime, t[1] = cur PROVE Within(t[2], s)
      <4>1. t[2] \in Relevant /\ Within(t[2], ds[cur])
        BY <3>2 DEF InTimeInv
      <4>2. cons[cur].st = "store" => cons[cur].entry \in Relevant
        BY <2>3 DEF QueryReturns, CallInv, ConsInv
      <4>3. cons[cur].st = "store" => Within(t[2], Store(ds[cur], Device(cons[cur].entry)))
        BY <4>1, <4>2, WithinStore
      <4> QED
        BY <4>1, <4>3 DEF Readable
    <3>3. CASE call = "Discover"
      <4>1. \A t \in intime : t[1] = cur
        BY <2>3, <2>t, <3>3 DEF QueryReturns, CallInv, Interfaces
      <4>2. InTimeIsReported'
        BY <2>3, <2>s, <3>1, <3>2, <3>3, <4>1 DEF QueryReturns, InTimeIsReported, Within
      <4> QED
        BY <2>3, <2>s, <2>t, <3>1, <3>3, <4>1, <4>2 DEF QueryReturns, InTimeInv, Within
    <3>4. CASE call # "Discover"
      BY <2>3, <2>s, <2>t, <2>n, <3>1, <3>2, <3>4 DEF QueryReturns, InTimeInv, Within
    <3> QED
      BY <3>3, <3>4
  <2>4. CASE CopyOne
    <3>1. PICK d \in left : left' = left \ {d} /\ devices' = StoreByHost(devices, d)
      BY <2>4 DEF CopyOne
    <3>2. PICK h \in Relevant : d = Device(h)
      BY <3>1 DEF ConsInv, Known
    <3>3. call # "Discover"
      BY <2>4 DEF CopyOne, CallInv
    <3>4. ASSUME NEW t \in intime, Within(t[2], devices) PROVE Within(t[2], StoreByHost(devices, d))
      BY <3>2, <3>3, <3>4, WithinStore DEF InTimeInv
    <3>5. d \in StoreByHost(devices, d)
      BY DEF StoreByHost
    <3>6. ASSUME NEW t \in intime, Within(t[2], devices \cup left)
          PROVE  Within(t[2], StoreByHost(devices, d) \cup (left \ {d}))
      BY <3>4, <3>5, <3>6 DEF Within
    <3> QED
      BY <2>4, <2>s, <2>n, <3>1, <3>4, <3>6 DEF CopyOne, InTimeInv, Within
  <2>5. CASE CopyDetected \/ CopyEnds
    BY <2>5, <2>s, <2>t, <2>n DEF CopyDetected, CopyEnds, InTimeInv, Within
  <2>6. CASE Finish
    <3>1. \A t \in intime : t[2] \in Entries /\ Within(t[2], devices)
      BY <2>6 DEF Finish, InTimeInv, TypeInv
    <3>2. InTimeIsReported'
      BY <2>6, <2>s, <3>1, DeviceFacts DEF Finish, Selected, InTimeIsReported, Within
    <3> QED
      BY <2>6, <2>s, <3>2 DEF Finish, InTimeInv, Within
  <2>7. CASE QueryAnswer
    BY <2>7, <2>s, <2>n, <2>r DEF QueryAnswer, callerVars, InTimeInv, Within
  <2>8. ASSUME NEW i \in Interfaces, Take(i) \/ RangeEnds(i) PROVE InTimeInv'
    BY <2>8, <2>s, <2>n, <2>r DEF Take, RangeEnds, callerVars, InTimeInv, Within
  <2>9. ASSUME NEW i \in Interfaces, StoreEntry(i) PROVE InTimeInv'
    <3> DEFINE e == cons[i].entry
    <3>1. e \in Relevant /\ ds' = [ds EXCEPT ![i] = Store(@, Device(e))]
      BY <2>9 DEF StoreEntry, ConsInv
    <3>2. ASSUME NEW t \in intime PROVE Within(t[2], ds'[t[1]])
      <4>1. t[2] \in Relevant /\ Within(t[2], ds[t[1]]) /\ t[1] \in Interfaces
        BY <2>t DEF InTimeInv
      <4>2. Within(t[2], Store(ds[t[1]], Device(e)))
        BY <3>1, <4>1, WithinStore
      <4> QED
        BY <3>1, <4>1, <4>2 DEF TypeInv
    <3>3. Device(e) \in ds'[i]
      BY <3>1 DEF Store, StoreByHost, TypeInv
    <3>4. left \subseteq left'
      BY <2>9 DEF StoreEntry
    <3>5. ASSUME NEW t \in intime'
          PROVE  /\ t[1] <= cur /\ t[2] \in Relevant
                 /\ Within(t[2], ds'[t[1]])
                 /\ t[1] < cur \/ pc = "next" => Within(t[2], devices)
                 /\ t[1] = cur /\ pc = "copy" => Within(t[2], devices \cup left')
      <4>1. CASE t \in intime
        BY <3>2, <3>4, <4>1 DEF InTimeInv, Within
      <4>2. CASE t \notin intime
        <5>1. pc = "query" /\ cur = i /\ t = <<i, e>>
          BY <2>9, <3>5, <4>2 DEF StoreEntry
        <5> QED
          BY <5>1, <3>1, <3>3, DiscoverAssumption DEF Within, Interfaces
      <4> QED
        BY <4>1, <4>2
    <3>6. InTimeIsReported'
      BY <2>9, <2>n, <2>r DEF StoreEntry, InTimeInv
    <3> QED
      BY <2>9, <2>s, <3>5, <3>6 DEF StoreEntry, InTimeInv, Within
  <2>10. CASE UNCHANGED vars
    BY <2>10, <2>s, <2>n, <2>r DEF vars, callerVars, InTimeInv, Within
  <2> QED
    BY <1>2, <2>1, <2>2, <2>3, <2>4, <2>5, <2>6, <2>7, <2>8, <2>9, <2>10
       DEF Next, Caller, Consumer
<1> QED
  BY <1>1, <1>2

-----------------------------------------------------------------------------
(* Theorems *)

(* The inductive invariant of discovery holds throughout. *)
THEOREM DiscoverInvariant == Spec => []DiscoverInv
<1>1. Init => DiscoverInv
  BY TypeInit, CallInit, ConsInit, HostInit, InTimeInit DEF DiscoverInv
<1>2. DiscoverInv /\ [Next]_vars => DiscoverInv'
  BY TypeStep, CallStep, ConsStep, HostStep, InTimeStep DEF DiscoverInv
<1> QED
  BY <1>1, <1>2, PTL DEF Spec

(* Type correctness: mdns.Query drops an answer rather than let a channel  *)
(* exceed its capacity, and everything stored or returned is a device.     *)
THEOREM DiscoverTypeCorrect == Spec => []DiscoverTypeOK
<1>1. DiscoverInv => DiscoverTypeOK
  BY DEF DiscoverInv, TypeInv
<1> QED
  BY <1>1, DiscoverInvariant, PTL

(* The functions that search all interfaces report a host once, whatever   *)
(* the goroutines they leave behind do meanwhile.                          *)
THEOREM OneDeviceTheorem == Spec => []OneDevicePerHost
<1>1. DiscoverInv => OneDevicePerHost
  BY DEF DiscoverInv, HostInv
<1> QED
  BY <1>1, DiscoverInvariant, PTL

(* An answer stored before its query returned survives the race with the   *)
(* goroutine and the copies from every other interface: its device, or a   *)
(* later answer of the same host, is in the result.                        *)
THEOREM InTimeTheorem == Spec => []InTimeIsReported
<1>1. DiscoverInv => InTimeIsReported
  BY DEF DiscoverInv, InTimeInv
<1> QED
  BY <1>1, DiscoverInvariant, PTL
=============================================================================
