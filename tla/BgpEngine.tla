----------------------------- MODULE BgpEngine -----------------------------
(***************************************************************************)
(* The embedded BGP engine of internal/bgpengine/engine.go: Start and Stop *)
(* around GoBGP, and the admission of dynamic neighbours.                  *)
(*                                                                         *)
(* GoBGP accepts any neighbour from the listen ranges and shows its ASN    *)
(* only once the session is established.  sessionPolicy therefore decides  *)
(* after the fact, in the callback onPeerUpdate, from events that may be   *)
(* older than the session they are acted on: by the time an event is       *)
(* handled the neighbour may have left, come back, or come back with       *)
(* another ASN.  ResetPeer names an address and no session.                *)
(***************************************************************************)
EXTENDS Naturals, Sequences, FiniteSets

CONSTANTS
    Addresses,      \* neighbour addresses in ListenRanges
    ASNs,           \* the ASNs neighbours present
    AllowedASNs,    \* Config.AllowedASNs; empty allows every ASN
    MaxSessions,    \* Config.MaxSessions
    NoASN,          \* no session, or no entry in the map
    MaxConnects,    \* bound: sessions that are established
    MaxHandshakes   \* bound: connection attempts that establish nothing

ASSUME ASNAssumption == NoASN \notin ASNs
ASSUME AddressAssumption == IsFiniteSet(Addresses)
ASSUME ValidatedAssumption == MaxSessions \in Nat \ {0}   \* Config.validate
ASSUME EngineBounds == MaxConnects \in Nat /\ MaxHandshakes \in Nat

VARIABLES
    engine,      \* how far Start has come
    sess,        \* GoBGP: the ASN of the established session, per address
    resetting,   \* GoBGP: addresses ResetPeer has been called for
    events,      \* peer events the watcher has not delivered yet
    peers,       \* sessionPolicy.peers
    attempts     \* how much of each bound is used

gobgpVars == <<sess, resetting, events>>
vars == <<engine, gobgpVars, peers, attempts>>

-----------------------------------------------------------------------------
Established == {x \in Addresses : sess[x] # NoASN}    \* Status.Sessions
Admitted == {x \in Addresses : peers[x] # NoASN}
Allowed(asn) == AllowedASNs = {} \/ asn \in AllowedASNs

NoSessions == [x \in Addresses |-> NoASN]
Listening == engine \in {"listening", "running"}

(* GoBGP reports the state an address has come to, once there is a watch. *)
Event(x, asn) ==
    events' = IF engine = "running"
              THEN Append(events, [addr |-> x, asn |-> asn]) ELSE events

Init ==
    /\ engine = "new"
    /\ sess = NoSessions /\ resetting = {} /\ events = <<>>
    /\ peers = NoSessions
    /\ attempts = [connects |-> 0, handshakes |-> 0]

-----------------------------------------------------------------------------
(* Start and Stop.                                                         *)

(* StopBgp closes every session. *)
StopBgp ==
    /\ engine' = "stopped"
    /\ sess' = NoSessions /\ resetting' = {} /\ events' = <<>>

(* StartBgp, the community set, the export policy, the peer group and the  *)
(* dynamic neighbours: from here on GoBGP accepts sessions.                *)
StartGoBGP ==
    /\ engine = "new"
    /\ engine' = "listening"
    /\ UNCHANGED <<gobgpVars, peers, attempts>>

(* One of those calls fails, or WatchEvent does; the deferred StopBgp      *)
(* undoes what had been started.                                           *)
StartFails ==
    /\ engine \in {"new", "listening"}
    /\ StopBgp
    /\ UNCHANGED <<peers, attempts>>

(* WatchEvent: GoBGP first reports the sessions it already has. *)
StartWatch ==
    /\ engine = "listening"
    /\ engine' = "running"
    /\ \E order \in [1..Cardinality(Established) -> Established] :
         /\ \A x \in Established : \E i \in DOMAIN order : order[i] = x
         /\ events' = [i \in DOMAIN order |->
                         [addr |-> order[i], asn |-> sess[order[i]]]]
    /\ UNCHANGED <<sess, resetting, peers, attempts>>

(* Mutant: Stop cancels the watch and leaves GoBGP running. *)
StopWatchOnly ==
    /\ engine = "running"
    /\ engine' = "stopped" /\ events' = <<>> /\ resetting' = {}
    /\ UNCHANGED <<sess, peers, attempts>>

(* Stop: the watch is cancelled before StopBgp, so the events of the       *)
(* closing sessions are never handled.                                     *)
Stop ==
    /\ engine = "running"
    /\ StopBgp
    /\ UNCHANGED <<peers, attempts>>

-----------------------------------------------------------------------------
(* GoBGP and the neighbours.                                               *)

(* A neighbour's session is established. *)
Connect(x, asn) ==
    /\ Listening /\ sess[x] = NoASN
    /\ attempts.connects < MaxConnects
    /\ attempts' = [attempts EXCEPT !.connects = @ + 1]
    /\ sess' = [sess EXCEPT ![x] = asn]
    /\ Event(x, asn)
    /\ UNCHANGED <<engine, resetting, peers>>

(* A connection attempt passes through states that are not ESTABLISHED. *)
Handshake(x) ==
    /\ Listening /\ sess[x] = NoASN
    /\ attempts.handshakes < MaxHandshakes
    /\ attempts' = [attempts EXCEPT !.handshakes = @ + 1]
    /\ Event(x, NoASN)
    /\ UNCHANGED <<engine, sess, resetting, peers>>

(* The neighbour, or its hold timer, ends the session. *)
Close(x) ==
    /\ Listening /\ sess[x] # NoASN
    /\ sess' = [sess EXCEPT ![x] = NoASN]
    /\ Event(x, NoASN)
    /\ UNCHANGED <<engine, resetting, peers, attempts>>

(* GoBGP carries out a reset, on whatever session the address has now. *)
Reset(x) ==
    /\ x \in resetting
    /\ resetting' = resetting \ {x}
    /\ \/ /\ sess[x] # NoASN
          /\ sess' = [sess EXCEPT ![x] = NoASN]
          /\ Event(x, NoASN)
       \/ /\ sess[x] = NoASN
          /\ UNCHANGED <<sess, events>>
    /\ UNCHANGED <<engine, peers, attempts>>

-----------------------------------------------------------------------------
(* sessionPolicy.                                                          *)

(* Mutant: the limit is compared with >, one session too late. *)
AdmitPeerOneOver(x, asn) ==
    IF peers[x] # NoASN THEN peers[x] = asn
    ELSE Allowed(asn) /\ Cardinality(Admitted) <= MaxSessions

(* Mutant: the ASN is not looked at. *)
AdmitPeerAnyASN(x, asn) ==
    IF peers[x] # NoASN THEN peers[x] = asn
    ELSE Cardinality(Admitted) < MaxSessions

(* admitPeer's verdict. *)
AdmitPeer(x, asn) ==
    IF peers[x] # NoASN THEN peers[x] = asn
    ELSE Allowed(asn) /\ Cardinality(Admitted) < MaxSessions

(* Mutant: a session that ends keeps its slot. *)
OnPeerUpdateKeeps ==
    /\ engine = "running" /\ events # <<>>
    /\ events' = Tail(events)
    /\ LET x == Head(events).addr
           asn == Head(events).asn
       IN  \/ asn = NoASN /\ UNCHANGED <<peers, resetting>>
           \/ /\ asn # NoASN /\ AdmitPeer(x, asn)
              /\ peers' = [peers EXCEPT ![x] = asn]
              /\ UNCHANGED resetting
           \/ /\ asn # NoASN /\ ~AdmitPeer(x, asn)
              /\ resetting' = IF sess[x] = NoASN THEN resetting
                              ELSE resetting \cup {x}
              /\ UNCHANGED peers
    /\ UNCHANGED <<engine, sess, attempts>>

(* onPeerUpdate: release a slot, take one, or reset the address.  GoBGP    *)
(* refuses to reset an address that has no session.                        *)
OnPeerUpdate ==
    /\ engine = "running" /\ events # <<>>
    /\ events' = Tail(events)
    /\ LET x == Head(events).addr
           asn == Head(events).asn
       IN  \/ /\ asn = NoASN
              /\ peers' = [peers EXCEPT ![x] = NoASN]
              /\ UNCHANGED resetting
           \/ /\ asn # NoASN /\ AdmitPeer(x, asn)
              /\ peers' = [peers EXCEPT ![x] = asn]
              /\ UNCHANGED resetting
           \/ /\ asn # NoASN /\ ~AdmitPeer(x, asn)
              /\ resetting' = IF sess[x] = NoASN THEN resetting
                              ELSE resetting \cup {x}
              /\ UNCHANGED peers
    /\ UNCHANGED <<engine, sess, attempts>>

-----------------------------------------------------------------------------
Next ==
    \/ StartGoBGP \/ StartFails \/ StartWatch \/ Stop \/ OnPeerUpdate
    \/ \E x \in Addresses :
         \/ \E asn \in ASNs : Connect(x, asn)
         \/ Handshake(x) \/ Close(x) \/ Reset(x)

Spec == Init /\ [][Next]_vars

(* Start runs to its end, GoBGP delivers its events and carries out its    *)
(* resets.  Neighbours need not come or go, and nobody has to call Stop.   *)
Fairness ==
    /\ WF_vars(StartGoBGP) /\ WF_vars(StartWatch)
    /\ WF_vars(OnPeerUpdate) /\ \A x \in Addresses : WF_vars(Reset(x))

FairSpec == Spec /\ Fairness

-----------------------------------------------------------------------------
ASNOrNone == ASNs \cup {NoASN}
PeerEvent == [addr : Addresses, asn : ASNOrNone]

(* The engine's variables keep their types, and nothing is established,    *)
(* pending or reset unless GoBGP listens.                                  *)
TypeOK ==
    /\ engine \in {"new", "listening", "running", "stopped"}
    /\ sess \in [Addresses -> ASNOrNone]
    /\ peers \in [Addresses -> ASNOrNone]
    /\ resetting \subseteq Addresses
    /\ events \in Seq(PeerEvent)
    /\ attempts \in [connects : Nat, handshakes : Nat]
    /\ engine # "running" => events = <<>> /\ resetting = {}
    /\ engine \notin {"running", "stopped"} => peers = NoSessions
    /\ ~Listening => sess = NoSessions

Concerns(x) == {i \in 1..Len(events) : events[i].addr = x}

(* Once the events of an address are handled and no reset is on its way,   *)
(* the map of sessionPolicy says exactly what GoBGP says about it: no slot *)
(* is leaked and no session goes uncounted, however stale the events were. *)
SettledAddress ==
    engine = "running" =>
        \A x \in Addresses :
            Concerns(x) = {} /\ x \notin resetting => peers[x] = sess[x]

(* When GoBGP is quiet, Status reports at most MaxSessions established     *)
(* sessions and all of them with an allowed ASN.                           *)
QuietWithinLimits ==
    engine = "running" /\ events = <<>> /\ resetting = {} =>
        /\ Cardinality(Established) <= MaxSessions
        /\ \A x \in Established : Allowed(sess[x])

(* A neighbour with a foreign ASN, which GoBGP does establish, does not    *)
(* stay: its session is reset or the engine stops.                         *)
ForeignIsClosed ==
    \A x \in Addresses, asn \in ASNs :
        ~Allowed(asn) /\ sess[x] = asn ~> sess[x] # asn

(* Nor does an excess of sessions last. *)
ExcessIsClosed ==
    Cardinality(Established) > MaxSessions
        ~> Cardinality(Established) <= MaxSessions
=============================================================================
