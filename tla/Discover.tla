------------------------------ MODULE Discover ------------------------------
(***************************************************************************)
(* Device discovery of gomat (discover/discover.go).                       *)
(*                                                                         *)
(* The Discover... functions visit the network interfaces one by one.  On  *)
(* each, Discover2 starts a goroutine that takes answers off a channel and *)
(* stores them into a map, runs mdns.Query until it times out, closes the  *)
(* channel and returns the map, which the caller copies into the map of    *)
(* all devices.  Nobody waits for the goroutine: it may still be storing   *)
(* buffered answers while the caller reads the same map.  That data race   *)
(* is modelled by its outcomes: the reader may miss or see the entry being *)
(* stored, or the Go runtime detects the concurrent access and ends the    *)
(* process.                                                                *)
(*                                                                         *)
(* mdns.Query is external: it offers each answer to the channel once, and  *)
(* drops it when the channel is full.                                      *)
(***************************************************************************)
EXTENDS Naturals, Sequences, FiniteSets

CONSTANTS
    N,         \* interfaces ListInterfaces returns, 1 .. N
    Eligible,  \* those that pass isEglible
    Entries,   \* answers devices may give
    Capacity,  \* of the channel of answers: 4
    Wanted,    \* the instance name DiscoverComissioned looks for
    Calls,     \* which functions of the package are called
    MaxAnswers \* bound: answers on one interface

VARIABLES
    call,     \* the function called, "none" before
    pc,       \* where it is
    cur,      \* the interface being visited
    devices,  \* the map of all devices
    left,     \* devices maps.Copy has still to visit
    out,      \* what was returned
    offer,    \* per interface: answers mdns.Query has still to offer
    chan,     \* per interface: the channel of answers
    closed,   \* per interface: the channel was closed
    cons,     \* per interface: the goroutine
    ds,       \* per interface: the goroutine's map (or slice) of devices
    heard,    \* history: answers taken off the channel
    intime    \* history: answers stored before a successful query returned

callerVars == <<call, pc, cur, devices, left, out>>
vars == <<callerVars, offer, chan, closed, cons, ds, heard, intime>>

Interfaces == 1 .. N

ASSUME DiscoverAssumption ==
    /\ N \in Nat /\ Eligible \subseteq Interfaces
    /\ Capacity \in Nat \ {0} /\ MaxAnswers \in Nat
    /\ Calls \subseteq {"Discover", "DiscoverAllComissioned",
                        "DiscoverComissioned", "DiscoverAllComissionable"}

-----------------------------------------------------------------------------
(* The service asked for; entries of other services are skipped *)
Service ==
    IF call \in {"Discover", "DiscoverAllComissionable"} THEN "matterc" ELSE "matter"

(* Discover keeps the addresses an entry has; Discover2 tests AddrV6 where *)
(* it means AddrV4.                                                        *)
Addrs(e) ==
    IF call = "Discover" THEN {a \in {"v4", "v6"} : e[a]}
    ELSE IF e.v6 THEN {"v6", IF e.v4 THEN "v4" ELSE "nil"} ELSE {}

Device(e) == [name |-> e.name, host |-> e.host, addrs |-> Addrs(e)]

(* Devices are stored under their host: a later one replaces an earlier one *)
StoreByHost(s, d) == {x \in s : x.host # d.host} \cup {d}

(* Discover appends to a slice, Discover2 assigns to a map *)
Store(s, d) == IF call = "Discover" THEN s \cup {d} ELSE StoreByHost(s, d)

NoEntry == [st |-> "none", entry |-> CHOOSE e \in Entries : TRUE]
Receiving == [NoEntry EXCEPT !.st = "recv"]

-----------------------------------------------------------------------------
(* The caller *)

Begin(c) ==
    /\ call = "none"
    /\ c \in Calls
    /\ call' = c
    /\ pc' = "next"
    /\ UNCHANGED <<cur, devices, left, out, offer, chan, closed, cons, ds, heard, intime>>

SkipInterface ==
    /\ pc = "next" /\ cur < N
    /\ cur + 1 \notin Eligible /\ call # "Discover"
    /\ cur' = cur + 1
    /\ UNCHANGED <<call, pc, devices, left, out, offer, chan, closed, cons, ds, heard, intime>>

(* Mutant of StartQuery: every interface starts a new map of all devices *)
StartQueryAnew ==
    /\ pc = "next" /\ cur < N
    /\ cur + 1 \in Eligible \/ call = "Discover"
    /\ cur' = cur + 1
    /\ cons' = [cons EXCEPT ![cur + 1] = Receiving]
    /\ pc' = "query"
    /\ devices' = {}
    /\ UNCHANGED <<call, left, out, offer, chan, closed, ds, heard, intime>>

(* Discover2, or Discover: the goroutine starts before anything can fail *)
StartQuery ==
    /\ pc = "next" /\ cur < N
    /\ cur + 1 \in Eligible \/ call = "Discover"
    /\ cur' = cur + 1
    /\ cons' = [cons EXCEPT ![cur + 1] = Receiving]
    /\ pc' = "query"
    /\ UNCHANGED <<call, devices, left, out, offer, chan, closed, ds, heard, intime>>

(* Mutant of QueryFails: the early return does not close the channel *)
QueryFailsOpen ==
    /\ pc = "query"
    /\ pc' = IF call = "Discover" THEN "error" ELSE "next"
    /\ intime' = {e \in intime : e[1] # cur}
    /\ offer' = [offer EXCEPT ![cur] = {}]
    /\ UNCHANGED <<call, cur, devices, left, out, chan, closed, cons, ds, heard>>

(* InterfaceByName or Query fails: the deferred close runs.  Discover      *)
(* returns the error or panics; the callers of Discover2 ignore it.        *)
QueryFails ==
    /\ pc = "query"
    /\ closed' = [closed EXCEPT ![cur] = TRUE]
    /\ pc' = IF call = "Discover" THEN "error" ELSE "next"
    /\ intime' = {e \in intime : e[1] # cur}
    /\ offer' = [offer EXCEPT ![cur] = {}]
    /\ UNCHANGED <<call, cur, devices, left, out, chan, cons, ds, heard>>

(* Mutant of QueryAnswer: the channel has no limit *)
QueryAnswerUnbounded ==
    /\ pc = "query"
    /\ \E e \in offer[cur] :
         /\ offer' = [offer EXCEPT ![cur] = @ \ {e}]
         /\ chan' = [chan EXCEPT ![cur] = Append(@, e)]
    /\ UNCHANGED <<callerVars, closed, cons, ds, heard, intime>>

(* Query offers an answer; it is lost when the channel is full *)
QueryAnswer ==
    /\ pc = "query"
    /\ \E e \in offer[cur] :
         /\ offer' = [offer EXCEPT ![cur] = @ \ {e}]
         /\ chan' = IF Len(chan[cur]) < Capacity
                    THEN [chan EXCEPT ![cur] = Append(@, e)]
                    ELSE chan
    /\ UNCHANGED <<callerVars, closed, cons, ds, heard, intime>>

(* What a reader may find in ds[i]: a store under way may be seen or not *)
Readable(i) ==
    {ds[i]} \cup (IF cons[i].st = "store" THEN {Store(ds[i], Device(cons[i].entry))} ELSE {})

(* Query times out: Discover returns its slice, Discover2 its map *)
QueryReturns ==
    /\ pc = "query"
    /\ closed' = [closed EXCEPT ![cur] = TRUE]
    /\ \E s \in Readable(cur) :
         IF call = "Discover"
         THEN pc' = "done" /\ out' = s /\ UNCHANGED left
         ELSE pc' = "copy" /\ left' = s /\ UNCHANGED out
    /\ offer' = [offer EXCEPT ![cur] = {}]
    /\ UNCHANGED <<call, cur, devices, chan, cons, ds, heard, intime>>

(* Mutant of CopyOne: devices of different interfaces are put side by side *)
CopyOneBeside ==
    /\ pc = "copy"
    /\ \E d \in left : left' = left \ {d} /\ devices' = devices \cup {d}
    /\ UNCHANGED <<call, pc, cur, out, offer, chan, closed, cons, ds, heard, intime>>

(* maps.Copy *)
CopyOne ==
    /\ pc = "copy"
    /\ \E d \in left :
         /\ left' = left \ {d}
         /\ devices' = StoreByHost(devices, d)
    /\ UNCHANGED <<call, pc, cur, out, offer, chan, closed, cons, ds, heard, intime>>

(* The runtime finds the map written while it is iterated *)
CopyDetected ==
    /\ pc = "copy" /\ left # {}
    /\ cons[cur].st = "store"
    /\ pc' = "fatal"
    /\ UNCHANGED <<call, cur, devices, left, out, offer, chan, closed, cons, ds, heard, intime>>

CopyEnds ==
    /\ pc = "copy" /\ left = {}
    /\ pc' = "next"
    /\ UNCHANGED <<call, cur, devices, left, out, offer, chan, closed, cons, ds, heard, intime>>

(* DiscoverComissioned keeps only the instance it looks for *)
Selected(s) ==
    IF call = "DiscoverComissioned" THEN {d \in s : d.name = Wanted} ELSE s

(* Mutant of Finish: it waits for a goroutine per interface, those that    *)
(* were skipped included                                                   *)
FinishAfterAll ==
    /\ pc = "next" /\ cur = N
    /\ \A i \in Interfaces : cons[i].st = "ended"
    /\ pc' = "done"
    /\ out' = Selected(devices)
    /\ UNCHANGED <<call, cur, devices, left, offer, chan, closed, cons, ds, heard, intime>>

Finish ==
    /\ pc = "next" /\ cur = N
    /\ pc' = "done"
    /\ out' = Selected(devices)
    /\ UNCHANGED <<call, cur, devices, left, offer, chan, closed, cons, ds, heard, intime>>

-----------------------------------------------------------------------------
(* The goroutine of interface i: for entry := range entriesCh *)

Running == pc # "fatal"

Take(i) ==
    /\ Running /\ cons[i].st = "recv" /\ chan[i] # <<>>
    /\ chan' = [chan EXCEPT ![i] = Tail(@)]
    /\ cons' = [cons EXCEPT ![i] =
                  IF Head(chan[i]).svc = Service
                  THEN [st |-> "store", entry |-> Head(chan[i])]
                  ELSE Receiving]
    /\ heard' = heard \cup {Head(chan[i])}
    /\ UNCHANGED <<callerVars, offer, closed, ds, intime>>

(* An iteration that is under way may still visit the new entry *)
StoreEntry(i) ==
    /\ Running /\ cons[i].st = "store"
    /\ LET d == Device(cons[i].entry) IN
         /\ ds' = [ds EXCEPT ![i] = Store(@, d)]
         /\ IF pc = "copy" /\ cur = i
            THEN left' \in {left, left \cup {d}}
            ELSE UNCHANGED left
    /\ intime' = IF pc = "query" /\ cur = i
                 THEN intime \cup {<<i, cons[i].entry>>} ELSE intime
    /\ cons' = [cons EXCEPT ![i] = Receiving]
    /\ UNCHANGED <<call, pc, cur, devices, out, offer, chan, closed, heard>>

RangeEnds(i) ==
    /\ Running /\ cons[i].st = "recv" /\ chan[i] = <<>> /\ closed[i]
    /\ cons' = [cons EXCEPT ![i].st = "ended"]
    /\ UNCHANGED <<callerVars, offer, chan, closed, ds, heard, intime>>

-----------------------------------------------------------------------------
Init ==
    /\ call = "none" /\ pc = "idle" /\ cur = 0
    /\ devices = {} /\ left = {} /\ out = {}
    /\ offer \in [Interfaces -> {s \in SUBSET Entries : Cardinality(s) <= MaxAnswers}]
    /\ \A i \in Interfaces \ Eligible : offer[i] = {}
    /\ chan = [i \in Interfaces |-> <<>>]
    /\ closed = [i \in Interfaces |-> FALSE]
    /\ cons = [i \in Interfaces |-> NoEntry]
    /\ ds = [i \in Interfaces |-> {}]
    /\ heard = {} /\ intime = {}

Caller ==
    \/ SkipInterface \/ StartQuery
    \/ QueryFails \/ QueryReturns
    \/ CopyOne \/ CopyDetected \/ CopyEnds
    \/ Finish

Consumer(i) == Take(i) \/ StoreEntry(i) \/ RangeEnds(i)

Next ==
    \/ \E c \in Calls : Begin(c)
    \/ Caller
    \/ QueryAnswer
    \/ \E i \in Interfaces : Consumer(i)

Spec == Init /\ [][Next]_vars

(* Goroutines are scheduled, and mdns.Query returns when its timeout (1 s  *)
(* by default) has passed, whatever the network does.                      *)
FairSpec ==
    /\ Spec
    /\ WF_vars(Caller)
    /\ \A i \in Interfaces : WF_vars(Consumer(i))

-----------------------------------------------------------------------------
(* Properties *)

Devices == {[name |-> e.name, host |-> e.host, addrs |-> a] :
              e \in Entries, a \in SUBSET {"v4", "v6", "nil"}}

(* Type correctness: the channel never holds more than its capacity, and   *)
(* everything stored is a device.                                          *)
DiscoverTypeOK ==
    /\ pc \in {"idle", "next", "query", "copy", "done", "error", "fatal"}
    /\ cur \in 0 .. N
    /\ devices \cup left \cup out \subseteq Devices
    /\ \A i \in Interfaces :
         /\ Len(chan[i]) <= Capacity
         /\ cons[i].st \in {"none", "recv", "store", "ended"}
         /\ ds[i] \subseteq Devices

(* Another instance of the same host was heard of, and may replace e       *)
Shadowed(e) ==
    call # "Discover" /\ \E h \in heard : h.svc = e.svc /\ h.host = e.host /\ h # e

(* A device whose answer was stored before its query returned is reported, *)
(* however late the other goroutines run and whatever the other interfaces *)
(* answer: only an answer of the same host, or an instance that is not the *)
(* wanted one, may be missing from the result.                             *)
InTimeIsReported ==
    pc = "done" =>
        \A t \in intime :
            Shadowed(t[2]) \/ Device(t[2]) \in out
            \/ (call = "DiscoverComissioned" /\ t[2].name # Wanted)

(* A device that answers on several interfaces is reported once by the     *)
(* functions that search all interfaces.                                   *)
OneDevicePerHost ==
    pc = "done" /\ call # "Discover" =>
        \A d1, d2 \in out : d1.host = d2.host => d1 = d2

(* Discovery comes to an end: it returns, fails, or the runtime stops it.  *)
DiscoverEnds == call # "none" ~> pc \in {"done", "error", "fatal"}

(* No goroutine is left behind: once started, each ends, after a failed    *)
(* query too, unless the process was stopped.                              *)
GoroutinesEnd ==
    \A i \in Interfaces : cons[i].st # "none" ~> cons[i].st = "ended" \/ ~Running

(* discover.go: "DiscoverComissioned uses mdns to discover concrete        *)
(* already commissioned matter device": when the wanted instance was heard *)
(* of in time it is reported.                                              *)
WantedIsFound ==
    pc = "done" /\ call = "DiscoverComissioned"
    /\ (\E t \in intime : t[2].svc = "matter" /\ t[2].name = Wanted)
        => \E d \in out : d.name = Wanted
=============================================================================
