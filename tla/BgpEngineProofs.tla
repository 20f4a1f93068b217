-------------------------- MODULE BgpEngineProofs ---------------------------
(***************************************************************************)
(* Theorems about BgpEngine, for any set of addresses and ASNs, any limit  *)
(* and any number of sessions: stale events never leave the map of         *)
(* sessionPolicy wrong.                                                    *)
(***************************************************************************)
EXTENDS BgpEngine, TLAPS, FiniteSetTheorems

NoneAfter(i) == \A j \in 1..Len(events) : j > i => events[j].addr # events[i].addr

(* The newest event about an address says what GoBGP has there now. *)
NewestIsTrue ==
    engine = "running" =>
        \A i \in 1..Len(events) : NoneAfter(i) => events[i].asn = sess[events[i].addr]

(* An address without events is in the map as it is in GoBGP, or is about  *)
(* to be reset.                                                            *)
HandledIsMapped ==
    engine = "running" =>
        \A x \in Addresses :
            Concerns(x) = {} => \/ peers[x] = sess[x]
                                \/ x \in resetting /\ sess[x] # NoASN

(* The slots of the map. *)
SlotsWithinLimits ==
    /\ Cardinality(Admitted) <= MaxSessions
    /\ \A x \in Admitted : Allowed(peers[x])

EngineInv == TypeOK /\ NewestIsTrue /\ HandledIsMapped /\ SlotsWithinLimits

-----------------------------------------------------------------------------
(* Appending and dropping the oldest event, index by index. *)
LEMMA AppendFacts ==
  ASSUME NEW s \in Seq(PeerEvent), NEW e \in PeerEvent
  PROVE  /\ Append(s, e) \in Seq(PeerEvent)
         /\ Len(Append(s, e)) = Len(s) + 1
         /\ Append(s, e)[Len(s) + 1] = e
         /\ \A i \in 1..Len(s) : Append(s, e)[i] = s[i]
  OBVIOUS

LEMMA TailFacts ==
  ASSUME NEW s \in Seq(PeerEvent), s # <<>>
  PROVE  /\ Len(s) \in Nat /\ Len(s) > 0
         /\ Head(s) \in PeerEvent /\ Head(s) = s[1]
         /\ Tail(s) \in Seq(PeerEvent)
         /\ Len(Tail(s)) = Len(s) - 1
         /\ \A i \in 1..Len(Tail(s)) : Tail(s)[i] = s[i + 1]
  OBVIOUS

(* GoBGP's state of one address changes and the event about it is queued,  *)
(* or nobody watches yet.                                                  *)
LEMMA EventKeeps ==
  ASSUME EngineInv, NEW x \in Addresses, NEW asn \in ASNOrNone,
         Event(x, asn), UNCHANGED engine,
         sess' = [sess EXCEPT ![x] = asn]
  PROVE  /\ events' \in Seq(PeerEvent)
         /\ engine # "running" => events' = <<>>
         /\ NewestIsTrue'
         /\ engine = "running" =>
              \A y \in Addresses : Concerns(y)' = {} => /\ y # x /\ Concerns(y) = {}
                                                        /\ sess'[y] = sess[y]
<1> DEFINE e == [addr |-> x, asn |-> asn]
<1>1. events \in Seq(PeerEvent) /\ e \in PeerEvent /\ sess \in [Addresses -> ASNOrNone]
  BY DEF EngineInv, TypeOK, PeerEvent
<1>2. CASE engine # "running"
  BY <1>1, <1>2 DEF Event, EngineInv, TypeOK, NewestIsTrue
<1>3. CASE engine = "running"
  <2>1. events' = Append(events, e)
    BY <1>3 DEF Event
  <2>2. /\ events' \in Seq(PeerEvent) /\ Len(events') = Len(events) + 1
        /\ events'[Len(events) + 1] = e /\ Len(events) \in Nat
        /\ \A i \in 1..Len(events) : events'[i] = events[i]
    BY <1>1, <2>1, AppendFacts
  <2>3. ASSUME NEW i \in 1..Len(events'), NoneAfter(i)'
        PROVE  events'[i].asn = sess'[events'[i].addr]
    <3>1. CASE i = Len(events) + 1
      BY <1>1, <2>2, <3>1
    <3>2. CASE i \in 1..Len(events)
      <4>1. events[i].addr # x
        BY <2>2, <2>3, <3>2 DEF NoneAfter
      <4>2. NoneAfter(i)
        BY <2>2, <2>3, <3>2 DEF NoneAfter
      <4>3. events[i].asn = sess[events[i].addr]
        BY <1>3, <3>2, <4>2 DEF EngineInv, NewestIsTrue
      <4>4. events[i].addr \in Addresses
        <5>1. events[i] \in PeerEvent
          BY <1>1, <3>2
        <5> QED
          BY <5>1 DEF PeerEvent
      <4> QED
        BY <1>1, <2>2, <3>2, <4>1, <4>3, <4>4
    <3> QED
      BY <2>2, <3>1, <3>2
  <2>4. ASSUME NEW y \in Addresses, Concerns(y)' = {}
        PROVE  y # x /\ Concerns(y) = {} /\ sess'[y] = sess[y]
    <3>1. y # x
      BY <2>2, <2>4 DEF Concerns
    <3>2. Concerns(y) = {}
      BY <2>2, <2>4 DEF Concerns
    <3> QED
      BY <1>1, <3>1, <3>2
  <2> QED
    BY <1>3, <2>2, <2>3, <2>4 DEF NewestIsTrue
<1> QED
  BY <1>2, <1>3

-----------------------------------------------------------------------------
(* The first state has no session, no event and no slot taken. *)
LEMMA EngineInit == Init => EngineInv
<1> SUFFICES ASSUME Init
             PROVE  EngineInv
  OBVIOUS
<1>1. TypeOK
  BY DEF Init, TypeOK, NoSessions, ASNOrNone, Listening
<1>2. Admitted = {}
  BY DEF Init, Admitted, NoSessions
<1>3. SlotsWithinLimits
  BY <1>2, FS_EmptySet, ValidatedAssumption DEF SlotsWithinLimits
<1> QED
  BY <1>1, <1>3 DEF Init, EngineInv, NewestIsTrue, HandledIsMapped

(* Where the map does not change, neither do its slots. *)
LEMMA SlotsKept == SlotsWithinLimits /\ UNCHANGED peers => SlotsWithinLimits'
  BY DEF SlotsWithinLimits, Admitted, Allowed

(* Start and Stop. *)
LEMMA LifeStep ==
  ASSUME EngineInv, StartGoBGP \/ StartFails \/ StartWatch \/ Stop
  PROVE  EngineInv'
<1> USE DEF EngineInv
<1>1. SlotsWithinLimits'
  BY SlotsKept DEF StartGoBGP, StartFails, StartWatch, Stop
<1>2. CASE StartGoBGP
  BY <1>1, <1>2 DEF StartGoBGP, gobgpVars, TypeOK, NewestIsTrue, HandledIsMapped, Listening
<1>3. CASE StartFails \/ Stop
  <2>1. sess' \in [Addresses -> ASNOrNone]
    BY <1>3 DEF StartFails, Stop, StopBgp, NoSessions, ASNOrNone
  <2>2. TypeOK'
    <3>1. /\ engine' = "stopped" /\ events' = <<>> /\ resetting' = {}
          /\ sess' = NoSessions /\ UNCHANGED <<peers, attempts>>
      BY <1>3 DEF StartFails, Stop, StopBgp
    <3>2. NoSessions' = NoSessions
      BY DEF NoSessions
    <3>3. events' \in Seq(PeerEvent)
      BY <3>1
    <3> QED
      BY <2>1, <3>1, <3>2, <3>3 DEF TypeOK, Listening
  <2> QED
    BY <1>1, <1>3, <2>2 DEF StartFails, Stop, StopBgp, NewestIsTrue, HandledIsMapped
<1>4. CASE StartWatch
  <2> DEFINE n == Cardinality(Established)
  <2>1. IsFiniteSet(Established) /\ n \in Nat
    BY AddressAssumption, FS_Subset, FS_CardinalityType DEF Established
  <2>2. PICK order \in [1..n -> Established] :
          /\ \A x \in Established : \E i \in 1..n : order[i] = x
          /\ events' = [i \in 1..n |-> [addr |-> order[i], asn |-> sess[order[i]]]]
    BY <1>4 DEF StartWatch
  <2>3. sess \in [Addresses -> ASNOrNone] /\ Established \subseteq Addresses
    BY DEF TypeOK, Established
  <2>4. /\ events' \in Seq(PeerEvent) /\ Len(events') = n
        /\ \A i \in 1..n : events'[i] = [addr |-> order[i], asn |-> sess[order[i]]]
    <3>1. \A i \in 1..n : [addr |-> order[i], asn |-> sess[order[i]]] \in PeerEvent
      BY <2>2, <2>3 DEF PeerEvent
    <3>2. events' \in [1..n -> PeerEvent]
      BY <2>2, <3>1
    <3> HIDE DEF n
    <3> QED
      BY <2>1, <2>2, <3>2
  <2>5. TypeOK'
    BY <1>4, <2>4 DEF StartWatch, TypeOK, Listening
  <2>6. NewestIsTrue'
    BY <1>4, <2>4 DEF StartWatch, NewestIsTrue
  <2>7. ASSUME NEW x \in Addresses, Concerns(x)' = {}
        PROVE  peers'[x] = sess'[x]
    <3>1. x \notin Established
      BY <2>2, <2>4, <2>7 DEF Concerns
    <3>2. peers = NoSessions
      BY <1>4 DEF StartWatch, TypeOK
    <3> QED
      BY <1>4, <3>1, <3>2 DEF StartWatch, Established, NoSessions
  <2> QED
    BY <1>1, <2>5, <2>6, <2>7 DEF HandledIsMapped
<1> QED
  BY <1>2, <1>3, <1>4

(* Neighbours come and go, and GoBGP resets them. *)
LEMMA PeerStep ==
  ASSUME EngineInv, NEW x \in Addresses,
         \/ \E asn \in ASNs : Connect(x, asn)
         \/ Handshake(x) \/ Close(x) \/ Reset(x)
  PROVE  EngineInv'
<1> USE DEF EngineInv
<1>1. SlotsWithinLimits'
  BY SlotsKept DEF Connect, Handshake, Close, Reset
<1>2. sess \in [Addresses -> ASNOrNone] /\ NoASN \in ASNOrNone /\ ASNs \subseteq ASNOrNone
  BY DEF TypeOK, ASNOrNone
<1>3. CASE \E asn \in ASNs : Connect(x, asn)
  <2>1. PICK asn \in ASNs : Connect(x, asn)
    BY <1>3
  <2>2. /\ events' \in Seq(PeerEvent) /\ (engine # "running" => events' = <<>>)
        /\ NewestIsTrue'
        /\ engine = "running" =>
             \A y \in Addresses : Concerns(y)' = {} => /\ y # x /\ Concerns(y) = {}
                                                       /\ sess'[y] = sess[y]
    BY <1>2, <2>1, EventKeeps DEF Connect
  <2>3. TypeOK'
    <3>1. sess' \in [Addresses -> ASNOrNone]
      BY <1>2, <2>1 DEF Connect
    <3>2. attempts' \in [connects : Nat, handshakes : Nat]
      BY <2>1 DEF Connect, TypeOK
    <3>3. UNCHANGED <<engine, resetting, peers>> /\ Listening /\ NoSessions' = NoSessions
      BY <2>1 DEF Connect, NoSessions
    <3> QED
      BY <2>2, <3>1, <3>2, <3>3 DEF TypeOK, Listening
  <2> QED
    BY <1>1, <2>1, <2>2, <2>3 DEF Connect, HandledIsMapped
<1>4. CASE Handshake(x)
  <2>1. sess' = [sess EXCEPT ![x] = NoASN]
    BY <1>2, <1>4 DEF Handshake
  <2>2. /\ events' \in Seq(PeerEvent) /\ (engine # "running" => events' = <<>>)
        /\ NewestIsTrue'
        /\ engine = "running" =>
             \A y \in Addresses : Concerns(y)' = {} => /\ y # x /\ Concerns(y) = {}
                                                       /\ sess'[y] = sess[y]
    BY <1>2, <1>4, <2>1, EventKeeps DEF Handshake
  <2>3. TypeOK'
    <3>1. sess' \in [Addresses -> ASNOrNone]
      BY <1>2, <1>4 DEF Handshake
    <3>2. attempts' \in [connects : Nat, handshakes : Nat]
      BY <1>4 DEF Handshake, TypeOK
    <3>3. UNCHANGED <<engine, resetting, peers>> /\ Listening /\ NoSessions' = NoSessions
      BY <1>4 DEF Handshake, NoSessions
    <3> QED
      BY <2>2, <3>1, <3>2, <3>3 DEF TypeOK, Listening
  <2> QED
    BY <1>1, <1>4, <2>2, <2>3 DEF Handshake, HandledIsMapped
<1>5. CASE Close(x)
  <2>2. /\ events' \in Seq(PeerEvent) /\ (engine # "running" => events' = <<>>)
        /\ NewestIsTrue'
        /\ engine = "running" =>
             \A y \in Addresses : Concerns(y)' = {} => /\ y # x /\ Concerns(y) = {}
                                                       /\ sess'[y] = sess[y]
    BY <1>2, <1>5, EventKeeps DEF Close
  <2>3. TypeOK'
    <3>1. sess' \in [Addresses -> ASNOrNone]
      BY <1>2, <1>5 DEF Close
    <3>2. attempts' \in [connects : Nat, handshakes : Nat]
      BY <1>5 DEF Close, TypeOK
    <3>3. UNCHANGED <<engine, resetting, peers>> /\ Listening /\ NoSessions' = NoSessions
      BY <1>5 DEF Close, NoSessions
    <3> QED
      BY <2>2, <3>1, <3>2, <3>3 DEF TypeOK, Listening
  <2> QED
    BY <1>1, <1>5, <2>2, <2>3 DEF Close, HandledIsMapped
<1>6. CASE Reset(x) /\ sess[x] # NoASN
  <2>2. /\ events' \in Seq(PeerEvent) /\ (engine # "running" => events' = <<>>)
        /\ NewestIsTrue'
        /\ engine = "running" =>
             \A y \in Addresses : Concerns(y)' = {} => /\ y # x /\ Concerns(y) = {}
                                                       /\ sess'[y] = sess[y]
    BY <1>2, <1>6, EventKeeps DEF Reset
  <2>3. engine = "running"
    BY <1>6 DEF Reset, TypeOK
  <2>4. TypeOK'
    <3>1. sess' \in [Addresses -> ASNOrNone] /\ resetting' \subseteq Addresses
      BY <1>2, <1>6 DEF Reset, TypeOK
    <3>2. UNCHANGED <<engine, peers, attempts>> /\ NoSessions' = NoSessions
      BY <1>6 DEF Reset, NoSessions
    <3> QED
      BY <2>2, <2>3, <3>1, <3>2 DEF TypeOK, Listening
  <2> QED
    BY <1>1, <1>6, <2>2, <2>4 DEF Reset, HandledIsMapped
<1>7. CASE Reset(x) /\ sess[x] = NoASN
  <2>1. UNCHANGED <<engine, sess, events, peers, attempts>> /\ resetting' = resetting \ {x}
    BY <1>7 DEF Reset
  <2>2. TypeOK'
    BY <2>1 DEF TypeOK, Listening
  <2>3. NewestIsTrue' /\ \A y \in Addresses : Concerns(y)' = Concerns(y)
    BY <2>1 DEF NewestIsTrue, NoneAfter, Concerns
  <2> QED
    BY <1>1, <1>7, <2>1, <2>2, <2>3 DEF HandledIsMapped
<1> QED
  BY <1>3, <1>4, <1>5, <1>6, <1>7

(* onPeerUpdate handles the oldest event. *)
LEMMA UpdateStep ==
  ASSUME EngineInv, OnPeerUpdate
  PROVE  EngineInv'
<1> DEFINE x == Head(events).addr
           asn == Head(events).asn
<1> USE DEF EngineInv
<1>1. /\ engine = "running" /\ engine' = "running" /\ events # <<>>
      /\ events' = Tail(events) /\ UNCHANGED <<sess, attempts>>
  BY DEF OnPeerUpdate
<1>2. /\ events \in Seq(PeerEvent) /\ sess \in [Addresses -> ASNOrNone]
      /\ peers \in [Addresses -> ASNOrNone] /\ resetting \subseteq Addresses
      /\ NoASN \in ASNOrNone
  BY DEF TypeOK, ASNOrNone
<1>3. /\ Len(events) \in Nat /\ Len(events) > 0
      /\ Head(events) \in PeerEvent /\ Head(events) = events[1]
      /\ events' \in Seq(PeerEvent) /\ Len(events') = Len(events) - 1
      /\ \A i \in 1..Len(events') : events'[i] = events[i + 1]
  BY <1>1, <1>2, TailFacts
<1>4. x \in Addresses /\ asn \in ASNOrNone
  BY <1>3 DEF PeerEvent
<1>5. \/ asn = NoASN /\ peers' = [peers EXCEPT ![x] = NoASN] /\ UNCHANGED resetting
      \/ asn # NoASN /\ AdmitPeer(x, asn) /\ peers' = [peers EXCEPT ![x] = asn]
         /\ UNCHANGED resetting
      \/ asn # NoASN /\ ~AdmitPeer(x, asn) /\ UNCHANGED peers
         /\ resetting' = IF sess[x] = NoASN THEN resetting ELSE resetting \cup {x}
  BY DEF OnPeerUpdate
<1>6. TypeOK'
  <2>1. peers' \in [Addresses -> ASNOrNone] /\ resetting' \subseteq Addresses
    BY <1>2, <1>4, <1>5
  <2> QED
    BY <1>1, <1>3, <2>1 DEF TypeOK, Listening
<1>7. NewestIsTrue'
  <2> SUFFICES ASSUME NEW i \in 1..Len(events'), NoneAfter(i)'
               PROVE  events'[i].asn = sess'[events'[i].addr]
    BY DEF NewestIsTrue
  <2>1. i + 1 \in 1..Len(events) /\ events'[i] = events[i + 1]
    BY <1>3
  <2>2. NoneAfter(i + 1)
    <3> SUFFICES ASSUME NEW j \in 1..Len(events), j > i + 1
                 PROVE  events[j].addr # events[i + 1].addr
      BY DEF NoneAfter
    <3>1. j - 1 \in 1..Len(events') /\ j - 1 > i /\ events'[j - 1] = events[j]
      BY <1>3
    <3> QED
      BY <2>1, <3>1 DEF NoneAfter
  <2> QED
    BY <1>1, <2>1, <2>2 DEF NewestIsTrue
<1>8. HandledIsMapped'
  <2> SUFFICES ASSUME NEW y \in Addresses, Concerns(y)' = {}
               PROVE  peers'[y] = sess'[y] \/ (y \in resetting' /\ sess'[y] # NoASN)
    BY DEF HandledIsMapped
  <2>1. \A j \in 1..Len(events) : j > 1 => events[j].addr # y
    <3> SUFFICES ASSUME NEW j \in 1..Len(events), j > 1
                 PROVE  events[j].addr # y
      OBVIOUS
    <3>1. j - 1 \in 1..Len(events') /\ events'[j - 1] = events[j]
      BY <1>3
    <3> QED
      BY <3>1 DEF Concerns
  <2>2. CASE y = x
    <3>1. NoneAfter(1)
      BY <1>3, <2>1, <2>2 DEF NoneAfter
    <3>2. asn = sess[x]
      BY <1>1, <1>3, <3>1 DEF NewestIsTrue
    <3> QED
      BY <1>1, <1>2, <1>4, <1>5, <2>2, <3>2
  <2>3. CASE y # x
    <3>1. Concerns(y) = {}
      <4>1. ASSUME NEW j \in 1..Len(events)
            PROVE  events[j].addr # y
        BY <1>3, <2>1, <2>3, <4>1
      <4> QED
        BY <4>1 DEF Concerns
    <3>2. peers'[y] = peers[y] /\ (y \in resetting => y \in resetting')
      BY <1>2, <1>4, <1>5, <2>3
    <3> QED
      BY <1>1, <3>1, <3>2 DEF HandledIsMapped
  <2> QED
    BY <2>2, <2>3
<1>9. SlotsWithinLimits'
  <2>1. IsFiniteSet(Admitted) /\ Cardinality(Admitted) \in Nat
    BY AddressAssumption, FS_Subset, FS_CardinalityType DEF Admitted
  <2>2. CASE asn = NoASN
    <3>1. peers' = [peers EXCEPT ![x] = NoASN]
      BY <1>5, <2>2
    <3>2. Admitted' \subseteq Admitted /\ \A y \in Admitted' : peers'[y] = peers[y]
      BY <1>2, <1>4, <3>1 DEF Admitted
    <3>3. Cardinality(Admitted') <= Cardinality(Admitted) /\ Cardinality(Admitted') \in Nat
      BY <2>1, <3>2, FS_Subset, FS_CardinalityType
    <3> QED
      BY <2>1, <3>2, <3>3, ValidatedAssumption DEF SlotsWithinLimits, Allowed
  <2>3. CASE asn # NoASN /\ AdmitPeer(x, asn)
    <3>1. peers' = [peers EXCEPT ![x] = asn]
      BY <1>5, <2>3
    <3>2. CASE peers[x] # NoASN
      <4>1. peers' = peers
        BY <1>2, <1>4, <2>3, <3>1, <3>2 DEF AdmitPeer
      <4> QED
        BY <4>1, SlotsKept
    <3>3. CASE peers[x] = NoASN
      <4>1. Allowed(asn) /\ Cardinality(Admitted) < MaxSessions
        BY <2>3, <3>3 DEF AdmitPeer
      <4>2. Admitted' = Admitted \cup {x} /\ x \notin Admitted
        BY <1>2, <1>4, <2>3, <3>1, <3>3 DEF Admitted
      <4>3. Cardinality(Admitted') = Cardinality(Admitted) + 1
        BY <2>1, <4>2, FS_AddElement
      <4>4. \A y \in Admitted' : Allowed(peers'[y])
        BY <1>2, <1>4, <3>1, <4>1, <4>2 DEF SlotsWithinLimits, Admitted
      <4> QED
        BY <2>1, <4>1, <4>3, <4>4, ValidatedAssumption DEF SlotsWithinLimits, Allowed
    <3> QED
      BY <3>2, <3>3
  <2>4. CASE asn # NoASN /\ ~AdmitPeer(x, asn)
    BY <1>5, <2>4, SlotsKept
  <2> QED
    BY <2>2, <2>3, <2>4
<1> QED
  BY <1>6, <1>7, <1>8, <1>9

(* EngineInv is inductive. *)
LEMMA EngineInvariant == Spec => []EngineInv
<1>1. EngineInv /\ UNCHANGED vars => EngineInv'
  BY DEF vars, gobgpVars, EngineInv, TypeOK, NewestIsTrue, NoneAfter, HandledIsMapped,
         Concerns, SlotsWithinLimits, Admitted, Allowed, Listening
<1>2. EngineInv /\ [Next]_vars => EngineInv'
  BY <1>1, LifeStep, PeerStep, UpdateStep DEF Next
<1> QED
  BY <1>2, EngineInit, PTL DEF Spec

-----------------------------------------------------------------------------
(* The engine's variables keep their types, and GoBGP has sessions, events *)
(* and resets only while it runs.                                          *)
THEOREM EngineTypeCorrect == Spec => []TypeOK
<1>1. EngineInv => TypeOK
  BY DEF EngineInv
<1> QED
  BY <1>1, EngineInvariant, PTL

(* Whatever sessions have come and gone, an address whose events are       *)
(* handled and that is not being reset has its slot in sessionPolicy's map *)
(* exactly if GoBGP has a session with it, with that ASN.                  *)
THEOREM SettledAddressHolds == Spec => []SettledAddress
<1>1. EngineInv => SettledAddress
  BY DEF EngineInv, HandledIsMapped, SettledAddress
<1> QED
  BY <1>1, EngineInvariant, PTL

(* With all events handled and all resets done, at most MaxSessions        *)
(* sessions are left, each with an allowed ASN.                            *)
THEOREM QuietWithinLimitsHolds == Spec => []QuietWithinLimits
<1>1. EngineInv => QuietWithinLimits
  <2> SUFFICES ASSUME EngineInv, engine = "running", events = <<>>, resetting = {}
               PROVE  /\ Cardinality(Established) <= MaxSessions
                      /\ \A x \in Established : Allowed(sess[x])
    BY DEF QuietWithinLimits
  <2>1. \A x \in Addresses : Concerns(x) = {}
    BY DEF Concerns
  <2>2. \A x \in Addresses : peers[x] = sess[x]
    BY <2>1 DEF EngineInv, HandledIsMapped
  <2>3. Established = Admitted
    BY <2>2 DEF Established, Admitted
  <2> QED
    BY <2>2, <2>3 DEF EngineInv, SlotsWithinLimits, Admitted
<1> QED
  BY <1>1, EngineInvariant, PTL
=============================================================================
