---------------------------- MODULE AgentSession ----------------------------
(***************************************************************************)
(* internal/agentrpc/session.go: the cursor arithmetic of a policy-sync    *)
(* session, as operators on the value of a Session.  The framing, the JSON *)
(* codec and the three mutexes are left out: a session of this program has *)
(* one reader and one writer, and each operator below is one critical      *)
(* section of stateMu.  PolicySync uses the server's half and the agent's  *)
(* half of a session; the connection between them is modelled there.       *)
(***************************************************************************)
EXTENDS Naturals, FiniteSets

(* The fields of Session that stateMu guards. *)
Session == [next : Nat, applied : Nat, peer : Nat, pending : SUBSET Nat]

(* NewSession: the next outbound sequence defaults to PeerCursor + 1, and  *)
(* nothing is pending on a new connection.                                 *)
NewSession(appliedCursor, peerCursor) ==
    [next |-> peerCursor + 1, applied |-> appliedCursor,
     peer |-> peerCursor, pending |-> {}]

(* The backpressure test of SendPolicy. *)
Backpressure(s, maxInFlight) == Cardinality(s.pending) >= maxInFlight

(* SendPolicy numbers the change and registers it as pending. *)
SendPolicy(s) == [s EXCEPT !.next = @ + 1, !.pending = @ \cup {s.next}]

(* Mutant: the acknowledged sequence itself stays pending. *)
ReceiveAckKeepsLast(s, cursor) ==
    IF cursor > s.peer
    THEN [s EXCEPT !.peer = cursor, !.pending = {n \in @ : n >= cursor}]
    ELSE s

(* Receive, case ACK: only a cursor above the last one acknowledged moves  *)
(* peerCursor and clears the pending sequences it covers.                  *)
ReceiveAck(s, cursor) ==
    IF cursor > s.peer
    THEN [s EXCEPT !.peer = cursor, !.pending = {n \in @ : n > cursor}]
    ELSE s

(* Receive, case POLICY: an applied sequence is acknowledged again and     *)
(* skipped, the next one is delivered, anything later is a gap.            *)
Replayed(s, sequence) == sequence <= s.applied
Deliverable(s, sequence) == sequence = s.applied + 1
Gap(s, sequence) == sequence > s.applied + 1

(* Ack advances appliedCursor before it writes the ACK. *)
Ack(s, sequence) == [s EXCEPT !.applied = sequence]
=============================================================================
