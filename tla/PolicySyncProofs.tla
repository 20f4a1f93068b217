-------------------------- MODULE PolicySyncProofs --------------------------
(***************************************************************************)
(* Theorems about PolicySync, for every number of connections, mutations,  *)
(* restarts and faults.                                                    *)
(***************************************************************************)
EXTENDS PolicySync, TLAPS

(* The types of the sequence operators used for queues and connections. *)
LEMMA HeadTail ==
    ASSUME NEW S, NEW s \in Seq(S), s # <<>>
    PROVE  Head(s) \in S /\ Tail(s) \in Seq(S)
OBVIOUS

LEMMA AppendType ==
    ASSUME NEW S, NEW s \in Seq(S), NEW e \in S
    PROVE  Append(s, e) \in Seq(S) /\ Append(s, e) # <<>>
<1>1. Append(s, e) \in Seq(S)
  OBVIOUS
<1>2. Len(Append(s, e)) = Len(s) + 1 /\ Len(s) \in Nat
  OBVIOUS
<1> QED
  BY <1>1, <1>2

(* Overwriting one value of a function keeps its type. *)
LEMMA ExceptType ==
    ASSUME NEW D, NEW R, NEW f \in [D -> R], NEW d, NEW r \in R
    PROVE  [f EXCEPT ![d] = r] \in [D -> R]
OBVIOUS

(* Counting a fault keeps the counters natural. *)
LEMMA UsageType ==
    ASSUME NEW u \in Usage
    PROVE  /\ [u EXCEPT !.serverRestarts = @ + 1] \in Usage
           /\ [u EXCEPT !.agentRestarts = @ + 1] \in Usage
           /\ [u EXCEPT !.breaks = @ + 1] \in Usage
           /\ [u EXCEPT !.fileFaults = @ + 1] \in Usage
BY DEF Usage

(* What policyStoreAdapter.Apply makes of a store is a store. *)
LEMMA EffectType ==
    ASSUME NEW s \in Store, NEW c \in Change
    PROVE  Effect(s, c) \in Store
BY DEF Effect, Store, Change, Ops

(* A new session is a session. *)
LEMMA NewSessionType ==
    ASSUME NEW x \in Nat, NEW y \in Nat
    PROVE  NewSession(x, y) \in Session
BY DEF NewSession, Session

(* The idle handler and the idle agent have their types. *)
LEMMA SendPolicyType ==
    ASSUME NEW s \in Session
    PROVE  SendPolicy(s) \in Session /\ s.next \in Nat /\ s.applied \in Nat
<1>1. s.next \in Nat /\ s.applied \in Nat /\ s.next + 1 \in Nat
  BY DEF Session
<1>2. s.pending \cup {s.next} \in SUBSET Nat
  BY <1>1 DEF Session
<1> DEFINE t == [s EXCEPT !.next = s.next + 1]
<1>3. t \in Session /\ t.pending = s.pending
  BY <1>1 DEF Session
<1>4. [t EXCEPT !.pending = s.pending \cup {s.next}] \in Session
  <2> HIDE DEF t
  <2> QED
    BY <1>2, <1>3 DEF Session
<1>5. SendPolicy(s) = [t EXCEPT !.pending = s.pending \cup {s.next}]
  BY <1>3 DEF SendPolicy
<1> QED
  BY <1>1, <1>4, <1>5

LEMMA IdleType ==
    /\ NoHandler \in [pc : {"none", "next", "wait", "send", "recv", "save", "commit"},
                      conn : Conns \cup {NoConn}, sess : Session,
                      change : Change \cup {NoChange}, seq : Nat, ack : Nat]
    /\ NoHandler.pc = "none" /\ NoHandler.conn = NoConn
    /\ Dialing \in [pc : {"dial", "recv", "apply", "save", "ack"},
                    conn : Conns \cup {NoConn}, sess : Session, msg : Message]
    /\ Dialing.pc = "dial" /\ Dialing.conn = NoConn
BY NewSessionType DEF NoHandler, Dialing, NoMessage, Message

(* Every variable of the stream keeps its type, and the program counters   *)
(* of handleSync and consume agree with what each holds.                   *)
THEOREM TypeCorrect == Spec => []TypeOK
<1>1. Init => TypeOK
  <2> SUFFICES ASSUME Init PROVE TypeOK
    OBVIOUS
  <2>1. EmptyStore \in Store
    BY DEF EmptyStore, Store
  <2> QED
    BY <2>1, IdleType DEF Init, QueueInit, TypeOK, HandlerType, AgentType, Usage
<1>2. TypeOK /\ [Next]_vars => TypeOK'
  <2> SUFFICES ASSUME TypeOK, [Next]_vars PROVE TypeOK'
    OBVIOUS
  <2> USE DEF TypeOK
  <2>1. CASE Publish
    <3>1. PICK op \in Ops, item \in Items :
            LET change == [id |-> Published + 1, op |-> op, item |-> item]
            IN  /\ PublishAppend(change)
                /\ versions' = Append(versions, Effect(Version(Published), change))
      BY <2>1 DEF Publish
    <3> DEFINE change == [id |-> Published + 1, op |-> op, item |-> item]
    <3>2. change \in Change
      BY DEF Change, Published
    <3>3. Version(Published) \in Store
      BY DEF Version, Published
    <3>4. versions' \in Seq(Store) /\ versions' # <<>>
      <4>1. Effect(Version(Published), change) \in Store
        BY <3>2, <3>3, EffectType
      <4> QED
        BY <3>1, <4>1, AppendType
    <3>5. pending' \in Seq(Change) /\ publisher' = "signal" /\ notify' = notify
      BY <3>1, <3>2, AppendType DEF PublishAppend
    <3> QED
      BY <2>1, <3>4, <3>5 DEF Publish, serverVars, agentVars, netVars,
         HandlerType, AgentType
  <2>2. CASE Signal
    BY <2>2 DEF Signal, PublishSignal, serverVars, agentVars, netVars,
       HandlerType, AgentType
  <2>3. CASE Accept
    <3>1. accepting' \in Conns /\ backlog' \in Seq(Conns)
      BY <2>3, HeadTail DEF Accept
    <3> QED
      BY <2>3, <3>1 DEF Accept, ServerOnly, queueVars, agentVars, HandlerType,
         AgentType
  <2>4. CASE StartHandler
    <3>1. NewSession(0, sCursor) \in Session
      BY NewSessionType
    <3>2. HandlerType'
      BY <2>4, <3>1, IdleType, ConnAssumption DEF StartHandler, Cancelled, HandlerType, NoHandler
    <3> QED
      BY <2>4, <3>2 DEF StartHandler, ServerOnly, queueVars, agentVars, AgentType
  <2>5. CASE HandlerNext
    <3>1. HandlerType'
      <4>1. CASE pending = <<>>
        BY <2>5, <4>1 DEF HandlerNext, HandlerType
      <4>2. CASE pending # <<>>
        <5>1. Head(pending) \in Change
          BY <4>2, HeadTail
        <5> QED
          BY <2>5, <4>2, <5>1 DEF HandlerNext, HandlerType
      <4> QED
        BY <4>1, <4>2
    <3> QED
      BY <2>5, <3>1 DEF HandlerNext, HandlerOnly, ServerOnly, queueVars,
         agentVars, AgentType
  <2>6. CASE HandlerWait
    <3>1. HandlerType'
      BY <2>6, IdleType DEF HandlerWait, HandlerReturn, HandlerType
    <3> QED
      BY <2>6, <3>1 DEF HandlerWait, TakeToken, HandlerOnly, ServerOnly,
         queueVars, agentVars, AgentType
  <2>7. CASE HandlerSend
    <3>0. h.sess \in Session /\ h.change \in Change /\ h.conn \in Conns
      BY <2>7 DEF HandlerSend, HandlerType
    <3>1. SendPolicy(h.sess) \in Session /\ h.sess.next \in Nat
      BY <3>0, SendPolicyType
    <3>2. HandlerType'
      BY <2>7, <3>0, <3>1 DEF HandlerSend, HandlerType
    <3>3. [seq |-> h.sess.next, change |-> h.change] \in Frame
      BY <3>0, <3>1 DEF Frame
    <3>4. toAgent' \in [Conns -> Seq(Frame)]
      <4>1. toAgent[h.conn] \in Seq(Frame)
        BY <3>0
      <4>2. Append(toAgent[h.conn], [seq |-> h.sess.next, change |-> h.change])
              \in Seq(Frame)
        BY <4>1, <3>3, AppendType
      <4> QED
        BY <2>7, <4>2, ExceptType DEF HandlerSend
    <3> QED
      BY <2>7, <3>2, <3>4 DEF HandlerSend, HandlerOnly, ServerOnly, queueVars,
         agentVars, AgentType
  <2>8. CASE HandlerSendFails
    <3>1. HandlerType'
      BY <2>8, IdleType DEF HandlerSendFails, HandlerReturn, HandlerType
    <3> QED
      BY <2>8, <3>1 DEF HandlerSendFails, HandlerOnly, ServerOnly, queueVars,
         agentVars, AgentType
  <2>9. CASE HandlerReceive
    <3> DEFINE cursor == Head(toServer[h.conn])
    <3>1. h.conn \in Conns
      BY <2>9 DEF HandlerReceive, HandlerType
    <3>2. cursor \in Nat /\ Tail(toServer[h.conn]) \in Seq(Nat)
      <4>1. toServer[h.conn] \in Seq(Nat) /\ toServer[h.conn] # <<>>
        BY <2>9, <3>1 DEF HandlerReceive
      <4> QED
        BY <4>1, HeadTail
    <3>3. ReceiveAck(h.sess, cursor) \in Session
      BY <3>2 DEF HandlerType, Session, ReceiveAck
    <3>4. HandlerType'
      BY <2>9, <3>1, <3>2, <3>3, IdleType DEF HandlerReceive, HandlerReturn, HandlerType
    <3>5. toServer' \in [Conns -> Seq(Nat)]
      BY <2>9, <3>2, ExceptType DEF HandlerReceive
    <3> QED
      BY <2>9, <3>4, <3>5 DEF HandlerReceive, HandlerOnly, ServerOnly, queueVars,
         agentVars, AgentType
  <2>10. CASE HandlerReceiveFails
    <3>1. HandlerType'
      BY <2>10, IdleType DEF HandlerReceiveFails, HandlerReturn, HandlerType
    <3> QED
      BY <2>10, <3>1 DEF HandlerReceiveFails, HandlerOnly, ServerOnly, queueVars,
         agentVars, AgentType
  <2>11. CASE HandlerSave
    <3>1. HandlerType' /\ sFile' \in Nat
      BY <2>11 DEF HandlerSave, HandlerType, CursorIfFile
    <3> QED
      BY <2>11, <3>1 DEF HandlerSave, HandlerOnly, ServerOnly, queueVars,
         agentVars, AgentType
  <2>12. CASE HandlerSaveFails
    <3>1. HandlerType'
      BY <2>12, IdleType DEF HandlerSaveFails, HandlerReturn, HandlerType
    <3>2. sFile' \in Nat
      BY <2>12 DEF HandlerSaveFails, SaveFails, HandlerType
    <3>3. used' \in Usage
      BY <2>12, UsageType DEF HandlerSaveFails, SaveFails, FileFault
    <3> QED
      BY <2>12, <3>1, <3>2, <3>3 DEF HandlerSaveFails, HandlerOnly, ServerOnly,
         queueVars, agentVars, AgentType
  <2>13. CASE HandlerCommit
    <3>1. HandlerType' /\ sCursor' \in Nat
      BY <2>13 DEF HandlerCommit, HandlerType
    <3>2. pending' \in Seq(Change)
      BY <2>13 DEF HandlerCommit, Commit
    <3>3. lost' \subseteq Nat
      BY <2>13 DEF HandlerCommit, HandlerType, Change
    <3> QED
      BY <2>13, <3>1, <3>2, <3>3 DEF HandlerCommit, Commit, HandlerOnly,
         ServerOnly, agentVars, AgentType
  <2>14. CASE Dial
    <3>1. PICK c \in Conns :
            /\ a' = [Dialing EXCEPT !.pc = "recv", !.conn = c,
                                    !.sess = NewSession(aCursor, 0)]
            /\ backlog' = Append(backlog, c)
            /\ toAgent' = [toAgent EXCEPT ![c] = <<>>]
            /\ toServer' = [toServer EXCEPT ![c] = <<>>]
            /\ broken' = broken \ {c}
      BY <2>14 DEF Dial
    <3>2. NewSession(aCursor, 0) \in Session
      BY NewSessionType
    <3>3. AgentType'
      BY <3>1, <3>2, IdleType, ConnAssumption DEF AgentType, Dialing
    <3>4. /\ toAgent' \in [Conns -> Seq(Frame)]
          /\ toServer' \in [Conns -> Seq(Nat)]
          /\ backlog' \in Seq(Conns)
          /\ broken' \subseteq Conns
      <4>1. <<>> \in Seq(Frame) /\ <<>> \in Seq(Nat)
        OBVIOUS
      <4> QED
        BY <3>1, <4>1, ExceptType, AppendType
    <3> QED
      BY <2>14, <3>3, <3>4 DEF Dial, AgentOnly, queueVars, HandlerType
  <2>15. CASE AgentReceive
    <3> DEFINE message == Head(toAgent[a.conn])
    <3>1. a.conn \in Conns
      BY <2>15 DEF AgentReceive, AgentType
    <3>2. /\ message \in Frame
          /\ Tail(toAgent[a.conn]) \in Seq(Frame)
      <4>1. toAgent[a.conn] \in Seq(Frame) /\ toAgent[a.conn] # <<>>
        BY <2>15, <3>1 DEF AgentReceive
      <4> QED
        BY <4>1, HeadTail
    <3>3. toAgent' \in [Conns -> Seq(Frame)]
      BY <2>15, <3>2, ExceptType DEF AgentReceive
    <3>4. a.sess.applied \in Nat
      BY DEF AgentType, Session
    <3>5. toServer' \in [Conns -> Seq(Nat)]
      <4>1. Append(toServer[a.conn], a.sess.applied) \in Seq(Nat)
        BY <3>1, <3>4, AppendType
      <4> QED
        BY <2>15, <4>1, ExceptType DEF AgentReceive
    <3>6. AgentType'
      <4>1. CASE a' = [a EXCEPT !.pc = "apply", !.msg = message]
        <5>1. message \in Message /\ message.change \in Change
          BY <3>2 DEF Frame, Message
        <5> QED
          BY <4>1, <3>1, <5>1, ConnAssumption DEF AgentType
      <4>2. CASE UNCHANGED a
        BY <4>2 DEF AgentType
      <4>3. CASE Disconnect
        BY <4>3, IdleType DEF AgentType, Disconnect
      <4> QED
        BY <2>15, <4>1, <4>2, <4>3 DEF AgentReceive
    <3> QED
      BY <2>15, <3>3, <3>5, <3>6 DEF AgentReceive, AgentOnly, queueVars, HandlerType
  <2>16. CASE AgentReceiveFails
    <3>1. AgentType'
      BY <2>16, IdleType DEF AgentReceiveFails, Disconnect, AgentType
    <3> QED
      BY <2>16, <3>1 DEF AgentReceiveFails, AgentOnly, queueVars, netVars, HandlerType
  <2>17. CASE AgentApply
    <3>1. AgentType' /\ a.msg.change \in Change /\ a.msg \in Message
      BY <2>17 DEF AgentApply, AgentType
    <3>2. aStore' \in Store /\ aDisk' \in Store
      BY <2>17, <3>1, EffectType DEF AgentApply
    <3>3. appliedIds' \in Seq(Nat)
      <4>1. a.msg.seq \in Nat /\ a.msg.change.id \in Nat
        BY <3>1 DEF Message, Change
      <4>2. Append(appliedIds, a.msg.change.id) \in Seq(Nat)
        BY <4>1, AppendType
      <4>3. [appliedIds EXCEPT ![a.msg.seq] = a.msg.change.id] \in Seq(Nat)
        <5>1. appliedIds \in [1..Len(appliedIds) -> Nat]
          OBVIOUS
        <5>2. [appliedIds EXCEPT ![a.msg.seq] = a.msg.change.id]
                \in [1..Len(appliedIds) -> Nat]
          BY <4>1, <5>1, ExceptType
        <5>3. Len(appliedIds) \in Nat
          OBVIOUS
        <5> QED
          BY <5>2, <5>3
      <4> QED
        BY <2>17, <4>2, <4>3 DEF AgentApply
    <3> QED
      BY <2>17, <3>1, <3>2, <3>3 DEF AgentApply, AgentOnly, queueVars, netVars,
         HandlerType
  <2>18. CASE AgentApplyFails
    <3>1. AgentType' /\ a.msg.change \in Change
      BY <2>18, IdleType DEF AgentApplyFails, Disconnect, AgentType
    <3>2. aDisk' \in Store
      BY <2>18, <3>1, EffectType DEF AgentApplyFails
    <3>3. used' \in Usage
      BY <2>18, UsageType DEF AgentApplyFails, FileFault
    <3> QED
      BY <2>18, <3>1, <3>2, <3>3 DEF AgentApplyFails, AgentOnly, queueVars,
         netVars, HandlerType
  <2>19. CASE AgentObserve
    <3>1. AgentType'
      BY <2>19, IdleType DEF AgentObserve, Disconnect, AgentType
    <3> QED
      BY <2>19, <3>1 DEF AgentObserve, AgentOnly, queueVars, netVars, HandlerType
  <2>20. CASE AgentSave
    <3>1. AgentType' /\ aFile' \in Nat
      BY <2>20 DEF AgentSave, AgentType, Message, CursorIfFile
    <3> QED
      BY <2>20, <3>1 DEF AgentSave, AgentOnly, queueVars, netVars, HandlerType
  <2>21. CASE AgentSaveFails
    <3>1. AgentType'
      BY <2>21, IdleType DEF AgentSaveFails, Disconnect, AgentType
    <3>2. aFile' \in Nat
      BY <2>21 DEF AgentSaveFails, SaveFails, AgentType, Message
    <3>3. used' \in Usage
      BY <2>21, UsageType DEF AgentSaveFails, SaveFails, FileFault
    <3> QED
      BY <2>21, <3>1, <3>2, <3>3 DEF AgentSaveFails, AgentOnly, queueVars,
         netVars, HandlerType
  <2>22. CASE AgentAck
    <3>1. a.conn \in Conns /\ a.msg.seq \in Nat
      BY <2>22 DEF AgentAck, AgentType, Message
    <3>2. Ack(a.sess, a.msg.seq) \in Session
      BY <3>1 DEF AgentType, Ack, Session
    <3>3. AgentType'
      <4>1. NoMessage \in Message
        BY DEF NoMessage, Message
      <4> QED
        BY <2>22, <3>1, <3>2, <4>1, IdleType, ConnAssumption
           DEF AgentAck, Disconnect, AgentType
    <3>4. toServer' \in [Conns -> Seq(Nat)] /\ aCursor' \in Nat
      <4>1. Append(toServer[a.conn], a.msg.seq) \in Seq(Nat)
        BY <3>1, AppendType
      <4>2. [toServer EXCEPT ![a.conn] = Append(@, a.msg.seq)]
              \in [Conns -> Seq(Nat)]
        BY <4>1, ExceptType
      <4> QED
        BY <2>22, <3>1, <4>2 DEF AgentAck
    <3> QED
      BY <2>22, <3>3, <3>4 DEF AgentAck, AgentOnly, queueVars, HandlerType
  <2>23. CASE Break
    <3>1. broken' \subseteq Conns
      BY <2>23 DEF Break, AgentType
    <3>2. used' \in Usage
      BY <2>23, UsageType DEF Break
    <3> QED
      BY <2>23, <3>1, <3>2 DEF Break, queueVars, serverVars, agentVars, HandlerType, AgentType
  <2>24. CASE ServerRestart
    <3>1. HandlerType'
      BY <2>24, IdleType DEF ServerRestart, HandlerReturn, HandlerType
    <3>2. used' \in Usage
      BY <2>24, UsageType DEF ServerRestart
    <3>3. pending' \in Seq(Change) /\ backlog' \in Seq(Conns)
      BY <2>24 DEF ServerRestart
    <3> QED
      BY <2>24, <3>1, <3>2, <3>3 DEF ServerRestart, ServerOnly, CursorIfFile, agentVars, AgentType
  <2>25. CASE AgentRestart
    <3>1. AgentType'
      BY <2>25, IdleType DEF AgentRestart, Disconnect, AgentType
    <3>2. aStore' \in Store
      BY <2>25 DEF AgentRestart, EmptyStore, Store
    <3>3. used' \in Usage
      BY <2>25, UsageType DEF AgentRestart
    <3> QED
      BY <2>25, <3>1, <3>2, <3>3 DEF AgentRestart, AgentOnly, CursorIfFile, queueVars,
         netVars, HandlerType
  <2>26. CASE UNCHANGED vars
    BY <2>26 DEF vars, queueVars, serverVars, agentVars, netVars, HandlerType, AgentType
  <2> QED
    BY <2>1, <2>2, <2>3, <2>4, <2>5, <2>6, <2>7, <2>8, <2>9, <2>10, <2>11,
       <2>12, <2>13, <2>14, <2>15, <2>16, <2>17, <2>18, <2>19, <2>20, <2>21,
       <2>22, <2>23, <2>24, <2>25, <2>26 DEF Next, Handler, Agent
<1> QED
  BY <1>1, <1>2, PTL DEF Spec
-----------------------------------------------------------------------------
(* What the agent has acknowledged.  With a cursor file it never           *)
(* acknowledges more than Run's cursor, which a restart does not lower;    *)
(* without one a restart forgets the cursor, and what bounds an ACK is the *)
(* number of sequences the agent has ever applied.                         *)

Applied == Len(appliedIds)
Acked == IF AgentCursorFile THEN aCursor ELSE Applied

(* The cursors against the sequences applied; none of the server's is      *)
(* ahead of what was acknowledged.                                         *)
CountInv ==
    /\ aCursor <= Applied /\ aFile <= Applied
    /\ AgentCursorFile => aCursor <= aFile /\ Applied <= aCursor + 1
    /\ sCursor <= Acked /\ sFile <= Acked

(* Every ACK under way, or in the handler's hands, was really given. *)
AckWireInv == toServer \in [Conns -> Seq(0..Acked)]
AckHeldInv == h.pc \in {"save", "commit"} => h.ack <= Acked

(* consume works on the sequence after Run's cursor, and saves and         *)
(* acknowledges it only after it has been applied.                         *)
AgentInv ==
    /\ a.pc # "dial" => a.sess.applied = aCursor
    /\ a.pc \in {"apply", "save", "ack"} => a.msg.seq = aCursor + 1
    /\ a.pc \in {"save", "ack"} => a.msg.seq <= Applied
    /\ a.pc = "ack" /\ AgentCursorFile => a.msg.seq <= aFile

(* An ACK is only ever of something applied, whatever is configured and    *)
(* whichever process restarts.                                             *)
AckInv == CountInv /\ AckWireInv /\ AckHeldInv /\ AgentInv

(* A sequence over a set is one over a larger set. *)
LEMMA SeqMonotone ==
    ASSUME NEW S, NEW T, S \subseteq T, NEW D, NEW f \in [D -> Seq(S)]
    PROVE  f \in [D -> Seq(T)]
<1>1. \A s \in Seq(S) : s \in Seq(T)
  OBVIOUS
<1> QED
  BY <1>1

(* The types the arithmetic below rests on. *)
LEMMA CursorTypes ==
    ASSUME TypeOK
    PROVE  /\ sCursor \in Nat /\ sFile \in Nat /\ aCursor \in Nat /\ aFile \in Nat
           /\ h.seq \in Nat /\ h.ack \in Nat
           /\ h.sess \in Session /\ h.sess.next \in Nat /\ h.sess.peer \in Nat
           /\ a.sess \in Session /\ a.sess.applied \in Nat /\ a.msg.seq \in Nat
           /\ used.serverRestarts \in Nat /\ Applied \in Nat /\ Acked \in Nat
<1>1. h.sess \in Session /\ h.seq \in Nat /\ h.ack \in Nat
  BY DEF TypeOK, HandlerType
<1>2. a.sess \in Session /\ a.msg \in Message
  BY DEF TypeOK, AgentType
<1>3. used.serverRestarts \in Nat
  BY DEF TypeOK, Usage
<1>4. a.msg.seq \in Nat
  BY <1>2 DEF Message
<1>5. h.sess.next \in Nat /\ h.sess.peer \in Nat /\ a.sess.applied \in Nat
  BY <1>1, <1>2 DEF Session
<1>6. Applied \in Nat
  BY DEF TypeOK, Applied
<1> QED
  BY <1>1, <1>2, <1>3, <1>4, <1>5, <1>6 DEF TypeOK, Acked

(* The ACKs under way stay acknowledged when more is acknowledged. *)
LEMMA AckWireGrows ==
    ASSUME TypeOK, AckWireInv, NEW x \in Nat, Acked <= x
    PROVE  toServer \in [Conns -> Seq(0..x)]
<1>1. 0..Acked \subseteq 0..x
  BY CursorTypes
<1> QED
  BY <1>1, SeqMonotone DEF AckWireInv

(* Steps that neither touch the cursors nor hand the handler an ACK. *)
LEMMA AckFrame ==
    ASSUME AckInv, h'.pc \in {"save", "commit"} => h' = h,
           UNCHANGED <<a, aCursor, aFile, appliedIds, sCursor, sFile, toServer>>
    PROVE  AckInv'
BY DEF AckInv, CountInv, AckWireInv, AckHeldInv, AgentInv, Applied, Acked

(* The agent hangs up and keeps its cursors. *)
LEMMA HangUpFrame ==
    ASSUME AckInv, Disconnect,
           UNCHANGED <<h, aCursor, aFile, appliedIds, sCursor, sFile, toServer>>
    PROVE  AckInv'
<1>1. AgentInv'
  BY IdleType DEF Disconnect, AgentInv
<1> QED
  BY <1>1 DEF AckInv, CountInv, AckWireInv, AckHeldInv, Applied, Acked

(* What the operators of AgentSession do to the fields the invariants      *)
(* name.                                                                   *)
LEMMA SessionSteps ==
    ASSUME NEW s \in Session, NEW n \in Nat
    PROVE  /\ NewSession(0, n).next = n + 1 /\ NewSession(0, n).pending = {}
           /\ NewSession(0, n).peer = n /\ NewSession(n, 0).applied = n
           /\ SendPolicy(s).next = s.next + 1 /\ SendPolicy(s).peer = s.peer
           /\ SendPolicy(s).pending = s.pending \cup {s.next}
           /\ n > s.peer => /\ ReceiveAck(s, n).next = s.next
                            /\ ReceiveAck(s, n).peer = n
                            /\ ReceiveAck(s, n).pending = {m \in s.pending : m > n}
           /\ Ack(s, n).applied = n
BY DEF Session, NewSession, SendPolicy, ReceiveAck, Ack

(* A step of the stream keeps the invariant. *)
LEMMA AckStep ==
    ASSUME TypeOK, TypeOK', AckInv, [Next]_vars
    PROVE  AckInv'
<1>t. /\ sCursor \in Nat /\ sFile \in Nat /\ aCursor \in Nat /\ aFile \in Nat
      /\ h.ack \in Nat /\ a.sess \in Session /\ a.msg.seq \in Nat
      /\ Applied \in Nat /\ Acked \in Nat
  BY CursorTypes
<1>i. CountInv /\ AckWireInv /\ AckHeldInv /\ AgentInv
  BY DEF AckInv
<1>c. AgentCursorFile \in BOOLEAN /\ ServerCursorFile \in BOOLEAN
  BY ConfigAssumption
<1>n. NoHandler.pc = "none" /\ Dialing.pc = "dial"
  BY IdleType
<1>1. CASE Publish
  BY <1>1, AckFrame DEF Publish, serverVars, agentVars, netVars
<1>2. CASE Signal
  BY <1>2, AckFrame DEF Signal, serverVars, agentVars, netVars
<1>3. CASE Accept
  BY <1>3, AckFrame DEF Accept, ServerOnly, agentVars
<1>4. CASE Break
  BY <1>4, AckFrame DEF Break, serverVars, agentVars
<1>5. CASE UNCHANGED vars
  BY <1>5, AckFrame DEF vars, serverVars, agentVars, netVars
<1>6. CASE StartHandler
  <2>1. h'.pc = "next"
    BY <1>6, IdleType DEF StartHandler
  <2> QED
    BY <1>6, <2>1, AckFrame DEF StartHandler, ServerOnly, agentVars
<1>7. CASE HandlerNext
  <2>1. h'.pc \in {"send", "wait"}
    BY <1>7 DEF HandlerNext, TypeOK, HandlerType
  <2> QED
    BY <1>7, <2>1, AckFrame DEF HandlerNext, HandlerOnly, ServerOnly, agentVars
<1>8. CASE HandlerWait
  <2>1. h'.pc \in {"next", "none"}
    BY <1>8, <1>n DEF HandlerWait, HandlerReturn, TypeOK, HandlerType
  <2> QED
    BY <1>8, <2>1, AckFrame DEF HandlerWait, HandlerOnly, ServerOnly, agentVars
<1>9. CASE HandlerSend
  <2>1. h'.pc = "recv"
    BY <1>9 DEF HandlerSend, TypeOK, HandlerType
  <2> QED
    BY <1>9, <2>1, AckFrame DEF HandlerSend, HandlerOnly, ServerOnly, agentVars
<1>10. CASE HandlerSendFails
  BY <1>10, <1>n, AckFrame DEF HandlerSendFails, HandlerReturn, HandlerOnly,
     ServerOnly, agentVars
<1>11. CASE HandlerReceive
  <2>1. UNCHANGED <<sCursor, sFile, a, aCursor, aFile, appliedIds>>
    BY <1>11 DEF HandlerReceive, HandlerOnly, ServerOnly, agentVars
  <2> DEFINE cursor == Head(toServer[h.conn])
  <2>2. h.conn \in Conns /\ toServer[h.conn] # <<>>
    BY <1>11 DEF HandlerReceive, TypeOK, HandlerType
  <2>3. cursor \in 0..Acked /\ Tail(toServer[h.conn]) \in Seq(0..Acked)
    <3>1. toServer[h.conn] \in Seq(0..Acked)
      BY <2>2, <1>i DEF AckWireInv
    <3> QED
      BY <2>2, <3>1, HeadTail
  <2>4. Acked' = Acked /\ CountInv' /\ AgentInv'
    BY <2>1, <1>i DEF CountInv, AgentInv, Acked, Applied
  <2>5. AckWireInv'
    <3>1. toServer' = [toServer EXCEPT ![h.conn] = Tail(toServer[h.conn])]
      BY <1>11 DEF HandlerReceive
    <3>2. toServer' \in [Conns -> Seq(0..Acked)]
      BY <2>3, <3>1, <1>i, ExceptType DEF AckWireInv
    <3> QED
      BY <2>4, <3>2 DEF AckWireInv
  <2>6. AckHeldInv'
    <3>1. CASE HandlerReturn
      BY <3>1, <1>n DEF AckHeldInv, HandlerReturn
    <3>2. CASE h' = [h EXCEPT !.pc = "save", !.ack = cursor,
                              !.sess = ReceiveAck(h.sess, cursor)]
      <4>1. h'.ack = cursor
        BY <3>2 DEF TypeOK, HandlerType
      <4> QED
        BY <2>3, <2>4, <4>1 DEF AckHeldInv
    <3> QED
      BY <1>11, <3>1, <3>2 DEF HandlerReceive
  <2> QED
    BY <2>4, <2>5, <2>6 DEF AckInv
<1>12. CASE HandlerReceiveFails
  BY <1>12, <1>n, AckFrame DEF HandlerReceiveFails, HandlerReturn, HandlerOnly,
     ServerOnly, agentVars
<1>13. CASE HandlerSave
  <2>1. UNCHANGED <<sCursor, a, aCursor, aFile, appliedIds, toServer>>
    BY <1>13 DEF HandlerSave, HandlerOnly, ServerOnly, agentVars
  <2>2. h.pc = "save" /\ h'.ack = h.ack /\ sFile' \in {0, h.ack}
    BY <1>13 DEF HandlerSave, CursorIfFile, TypeOK, HandlerType
  <2> QED
    BY <2>1, <2>2, <1>i, <1>t
       DEF AckInv, CountInv, AckWireInv, AckHeldInv, AgentInv, Applied, Acked
<1>14. CASE HandlerSaveFails
  <2>1. UNCHANGED <<sCursor, a, aCursor, aFile, appliedIds, toServer>>
    BY <1>14 DEF HandlerSaveFails, HandlerOnly, ServerOnly, agentVars
  <2>2. h.pc = "save" /\ h'.pc = "none" /\ sFile' \in {sFile, h.ack}
    BY <1>14, <1>n DEF HandlerSaveFails, HandlerReturn, SaveFails
  <2> QED
    BY <2>1, <2>2, <1>i, <1>t
       DEF AckInv, CountInv, AckWireInv, AckHeldInv, AgentInv, Applied, Acked
<1>15. CASE HandlerCommit
  <2>1. UNCHANGED <<sFile, a, aCursor, aFile, appliedIds, toServer>>
    BY <1>15 DEF HandlerCommit, HandlerOnly, ServerOnly, agentVars
  <2>2. h.pc = "commit" /\ h'.pc = "next" /\ sCursor' = h.ack
    BY <1>15 DEF HandlerCommit, TypeOK, HandlerType
  <2> QED
    BY <2>1, <2>2, <1>i, <1>t
       DEF AckInv, CountInv, AckWireInv, AckHeldInv, AgentInv, Applied, Acked
<1>16. CASE ServerRestart
  <2>1. UNCHANGED <<sFile, a, aCursor, aFile, appliedIds, toServer>>
    BY <1>16 DEF ServerRestart, ServerOnly, agentVars
  <2>2. h'.pc = "none" /\ sCursor' \in {0, sFile}
    BY <1>16, <1>n DEF ServerRestart, HandlerReturn, CursorIfFile
  <2> QED
    BY <2>1, <2>2, <1>i, <1>t
       DEF AckInv, CountInv, AckWireInv, AckHeldInv, AgentInv, Applied, Acked
<1>17. CASE Dial
  <2>1. UNCHANGED <<h, sCursor, sFile, aCursor, aFile, appliedIds>>
    BY <1>17 DEF Dial, AgentOnly
  <2>2. PICK c \in Conns :
          /\ a' = [Dialing EXCEPT !.pc = "recv", !.conn = c,
                                  !.sess = NewSession(aCursor, 0)]
          /\ toServer' = [toServer EXCEPT ![c] = <<>>]
    BY <1>17 DEF Dial
  <2>3. AgentInv'
    <3>1. a'.pc = "recv" /\ a'.sess = NewSession(aCursor, 0)
      BY <2>2, IdleType
    <3> QED
      BY <2>1, <3>1, <1>t, SessionSteps DEF AgentInv
  <2>4. toServer' \in [Conns -> Seq(0..Acked)]
    <3>1. <<>> \in Seq(0..Acked)
      OBVIOUS
    <3> QED
      BY <2>2, <3>1, <1>i, ExceptType DEF AckWireInv
  <2> QED
    BY <2>1, <2>3, <2>4, <1>i
       DEF AckInv, CountInv, AckWireInv, AckHeldInv, Applied, Acked
<1>18. CASE AgentReceive
  <2>1. UNCHANGED <<h, sCursor, sFile, aCursor, aFile, appliedIds>>
    BY <1>18 DEF AgentReceive, AgentOnly
  <2> DEFINE message == Head(toAgent[a.conn])
  <2>2. a.pc = "recv" /\ a.conn \in Conns
    BY <1>18 DEF AgentReceive, TypeOK, AgentType
  <2>3. a.sess.applied = aCursor /\ aCursor \in 0..Acked
    BY <2>2, <1>i, <1>t DEF AgentInv, CountInv, Acked
  <2>4. toServer' \in [Conns -> Seq(0..Acked)]
    <3>1. Append(toServer[a.conn], a.sess.applied) \in Seq(0..Acked)
      BY <2>2, <2>3, <1>i, AppendType DEF AckWireInv
    <3>2. [toServer EXCEPT ![a.conn] = Append(@, a.sess.applied)]
            \in [Conns -> Seq(0..Acked)]
      BY <3>1, <1>i, ExceptType DEF AckWireInv
    <3> QED
      BY <1>18, <3>2, <1>i DEF AgentReceive, AckWireInv
  <2>5. AgentInv'
    <3>1. CASE /\ Deliverable(a.sess, message.seq)
               /\ a' = [a EXCEPT !.pc = "apply", !.msg = message]
      <4>1. a'.pc = "apply" /\ a'.msg = message /\ a'.sess = a.sess
        BY <3>1 DEF TypeOK, AgentType
      <4>2. message.seq = aCursor + 1
        BY <2>3, <3>1 DEF Deliverable
      <4> HIDE DEF message
      <4> QED
        BY <2>1, <2>3, <4>1, <4>2 DEF AgentInv
    <3>2. CASE UNCHANGED a
      BY <2>1, <3>2, <1>i DEF AgentInv, Applied
    <3>3. CASE Disconnect
      BY <3>3, <1>n DEF Disconnect, AgentInv
    <3> QED
      BY <1>18, <3>1, <3>2, <3>3 DEF AgentReceive
  <2> QED
    BY <2>1, <2>4, <2>5, <1>i
       DEF AckInv, CountInv, AckWireInv, AckHeldInv, Applied, Acked
<1>19. CASE AgentReceiveFails
  BY <1>19, HangUpFrame DEF AgentReceiveFails, AgentOnly, netVars
<1>20. CASE AgentApplyFails
  BY <1>20, HangUpFrame DEF AgentApplyFails, AgentOnly, netVars
<1>21. CASE AgentObserve
  BY <1>21, HangUpFrame DEF AgentObserve, AgentOnly, netVars
<1>22. CASE AgentApply
  <2>1. UNCHANGED <<h, sCursor, sFile, aCursor, aFile, toServer>>
    BY <1>22 DEF AgentApply, AgentOnly, netVars
  <2>2. a.pc = "apply" /\ a'.pc = "save" /\ a'.sess = a.sess /\ a'.msg = a.msg
    BY <1>22 DEF AgentApply, TypeOK, AgentType
  <2>3. a.msg.seq = aCursor + 1 /\ aCursor <= Applied
    BY <2>2, <1>i DEF AgentInv, CountInv
  <2>4. Applied' = IF a.msg.seq <= Applied THEN Applied ELSE Applied + 1
    <3>1. appliedIds \in Seq(Nat)
      BY DEF TypeOK
    <3> QED
      BY <1>22, <3>1 DEF AgentApply, Applied
  <2>5. Acked <= Acked' /\ Acked' \in Nat
    BY <2>1, <2>4, <1>t, <1>c DEF Acked
  <2>6. AckWireInv'
    BY <2>1, <2>5, <1>i, AckWireGrows DEF AckWireInv
  <2>7. CountInv'
    BY <2>1, <2>3, <2>4, <2>5, <1>i, <1>t DEF CountInv
  <2>8. AgentInv'
    BY <2>1, <2>2, <2>3, <2>4, <1>i, <1>t DEF AgentInv
  <2>9. AckHeldInv'
    BY <2>1, <2>5, <1>i, <1>t DEF AckHeldInv
  <2> QED
    BY <2>6, <2>7, <2>8, <2>9 DEF AckInv
<1>23. CASE AgentSave
  <2>1. UNCHANGED <<h, sCursor, sFile, aCursor, appliedIds, toServer>>
    BY <1>23 DEF AgentSave, AgentOnly, netVars
  <2>2. /\ a.pc = "save" /\ a'.pc = "ack" /\ a'.sess = a.sess /\ a'.msg = a.msg
        /\ IF AgentCursorFile THEN aFile' = a.msg.seq ELSE aFile' = 0
    BY <1>23 DEF AgentSave, TypeOK, AgentType, CursorIfFile
  <2>3. CountInv' /\ AgentInv'
    BY <2>1, <2>2, <1>i, <1>t, <1>c DEF CountInv, AgentInv, Applied, Acked
  <2> QED
    BY <2>1, <2>3, <1>i DEF AckInv, AckWireInv, AckHeldInv, Applied, Acked
<1>24. CASE AgentSaveFails
  <2>1. UNCHANGED <<h, sCursor, sFile, aCursor, appliedIds, toServer>>
    BY <1>24 DEF AgentSaveFails, AgentOnly, netVars
  <2>2. a.pc = "save" /\ a'.pc = "dial" /\ aFile' \in {aFile, a.msg.seq}
    BY <1>24, <1>n DEF AgentSaveFails, SaveFails, Disconnect
  <2>3. CountInv' /\ AgentInv'
    BY <2>1, <2>2, <1>i, <1>t, <1>c DEF CountInv, AgentInv, Applied, Acked
  <2> QED
    BY <2>1, <2>3, <1>i DEF AckInv, AckWireInv, AckHeldInv, Applied, Acked
<1>25. CASE AgentAck
  <2>1. UNCHANGED <<h, sCursor, sFile, aFile, appliedIds>>
    BY <1>25 DEF AgentAck, AgentOnly
  <2>2. a.pc = "ack" /\ a.conn \in Conns /\ aCursor' = a.msg.seq
    BY <1>25 DEF AgentAck, TypeOK, AgentType
  <2>3. /\ a.msg.seq = aCursor + 1 /\ a.msg.seq <= Applied
        /\ AgentCursorFile => a.msg.seq <= aFile
    BY <2>2, <1>i DEF AgentInv
  <2>4. Acked <= Acked' /\ Acked' \in Nat /\ a.msg.seq \in 0..Acked'
    BY <2>1, <2>2, <2>3, <1>t, <1>c DEF Acked, Applied
  <2>5. CountInv' /\ AckHeldInv'
    BY <2>1, <2>2, <2>3, <2>4, <1>i, <1>t DEF CountInv, AckHeldInv, Applied
  <2>6. AgentInv'
    <3>1. CASE Disconnect
      BY <3>1, <1>n DEF Disconnect, AgentInv
    <3>2. CASE a' = [a EXCEPT !.pc = "recv", !.msg = NoMessage,
                              !.sess = Ack(a.sess, a.msg.seq)]
      <4>1. a'.pc = "recv" /\ a'.sess = Ack(a.sess, a.msg.seq)
        BY <3>2 DEF TypeOK, AgentType
      <4> QED
        BY <2>2, <4>1, <1>t, SessionSteps DEF AgentInv
    <3> QED
      BY <1>25, <3>1, <3>2 DEF AgentAck
  <2>7. AckWireInv'
    <3>1. toServer \in [Conns -> Seq(0..Acked')]
      BY <2>4, <1>i, AckWireGrows
    <3> DEFINE A == Acked'
    <3>2. toServer \in [Conns -> Seq(0..A)] /\ a.msg.seq \in 0..A
      BY <2>4, <3>1
    <3>3. toServer' \in [Conns -> Seq(0..A)]
      <4> HIDE DEF A
      <4>1. Append(toServer[a.conn], a.msg.seq) \in Seq(0..A)
        BY <2>2, <3>2, AppendType
      <4>2. [toServer EXCEPT ![a.conn] = Append(@, a.msg.seq)]
              \in [Conns -> Seq(0..A)]
        BY <3>2, <4>1, ExceptType
      <4> QED
        BY <1>25, <3>2, <4>2 DEF AgentAck
    <3> QED
      BY <3>3 DEF AckWireInv
  <2> QED
    BY <2>5, <2>6, <2>7 DEF AckInv
<1>26. CASE AgentRestart
  <2>1. UNCHANGED <<h, sCursor, sFile, aFile, appliedIds, toServer>>
    BY <1>26 DEF AgentRestart, AgentOnly, netVars
  <2>2. /\ a'.pc = "dial"
        /\ IF AgentCursorFile THEN aCursor' = aFile ELSE aCursor' = 0
    BY <1>26, <1>n DEF AgentRestart, Disconnect, CursorIfFile
  <2>3. Acked <= Acked' /\ Acked' \in Nat
    BY <2>1, <2>2, <1>i, <1>t, <1>c DEF Acked, Applied, CountInv
  <2>4. CountInv' /\ AckHeldInv'
    BY <2>1, <2>2, <2>3, <1>i, <1>t, <1>c DEF CountInv, AckHeldInv, Applied
  <2>5. AgentInv'
    BY <2>2 DEF AgentInv
  <2>6. AckWireInv'
    BY <2>1, <2>3, <1>i, AckWireGrows DEF AckWireInv
  <2> QED
    BY <2>4, <2>5, <2>6 DEF AckInv
<1> QED
  BY <1>1, <1>2, <1>3, <1>4, <1>5, <1>6, <1>7, <1>8, <1>9, <1>10, <1>11,
     <1>12, <1>13, <1>14, <1>15, <1>16, <1>17, <1>18, <1>19, <1>20, <1>21,
     <1>22, <1>23, <1>24, <1>25, <1>26 DEF Next, Handler, Agent

(* No ACK, on the wire or saved, is ahead of what the agent has applied. *)
THEOREM AckInvariant == Spec => []AckInv
<1>1. Init => AckInv
  BY IdleType, ConfigAssumption DEF Init, AckInv, CountInv, AckWireInv,
     AckHeldInv, AgentInv, Applied, Acked
<1>2. TypeOK /\ TypeOK' /\ AckInv /\ [Next]_vars => AckInv'
  BY AckStep
<1> QED
  BY <1>1, <1>2, TypeCorrect, PTL DEF Spec
-----------------------------------------------------------------------------
(* The server's side: its cursor meets the agent's when it survives a      *)
(* restart of the server, in a file or because there was none.             *)

ServerKept == ServerCursorFile \/ used.serverRestarts = 0

(* The agent is at most one sequence ahead of the server. *)
WindowInv ==
    /\ Applied <= sCursor + 1
    /\ IF ServerCursorFile THEN sCursor <= sFile ELSE sFile = 0

(* Nothing is sent, or being applied, beyond the next sequence. *)
FrameInv ==
    /\ toAgent \in [Conns -> Seq({m \in Frame : m.seq <= sCursor + 1})]
    /\ a.pc = "apply" => a.msg.seq <= sCursor + 1

(* The handler works on the sequence after the server's cursor. *)
HandlerInv ==
    /\ h.pc \in {"next", "wait", "send"} =>
         h.sess.next = sCursor + 1 /\ h.sess.pending = {} /\ h.sess.peer <= sCursor
    /\ h.pc \in {"recv", "save", "commit"} =>
         h.sess.next = sCursor + 2 /\ h.seq = sCursor + 1
    /\ h.pc = "recv" => h.sess.pending = {sCursor + 1} /\ h.sess.peer <= sCursor
    /\ h.pc \in {"save", "commit"} =>
         h.ack = sCursor + 1 /\ h.sess.pending = {} /\ h.sess.peer = h.ack
    /\ h.pc = "commit" /\ ServerCursorFile => h.ack <= sFile

CursorInv == ServerKept => WindowInv /\ FrameInv /\ HandlerInv

(* The frames stay inside the window when the window moves up. *)
LEMMA WindowMoves ==
    ASSUME TypeOK, FrameInv, NEW y \in Nat, sCursor <= y
    PROVE  toAgent \in [Conns -> Seq({m \in Frame : m.seq <= y + 1})]
<1>1. {m \in Frame : m.seq <= sCursor + 1} \subseteq {m \in Frame : m.seq <= y + 1}
  BY DEF TypeOK, Frame
<1> HIDE DEF TypeOK
<1> QED
  BY <1>1, SeqMonotone DEF FrameInv

(* The idle handler is in no place HandlerInv speaks of. *)
LEMMA IdleInv == HandlerReturn => HandlerInv'
BY IdleType DEF HandlerReturn, HandlerInv

(* Steps of others: the window, the frames and the handler are as before,  *)
(* and the agent does not begin to apply.                                  *)
LEMMA CursorFrame ==
    ASSUME WindowInv, FrameInv, HandlerInv, a'.pc = "apply" => a' = a,
           UNCHANGED <<h, sCursor, sFile, appliedIds, toAgent>>
    PROVE  WindowInv' /\ FrameInv' /\ HandlerInv'
BY DEF WindowInv, FrameInv, HandlerInv, Applied

(* Restarts of the server only add up, so what survived them until now did *)
(* so before.                                                              *)
LEMMA RestartsGrow ==
    ASSUME TypeOK, [Next]_vars
    PROVE  /\ used.serverRestarts \in Nat
           /\ \/ used'.serverRestarts = used.serverRestarts
              \/ ServerRestart /\ used'.serverRestarts = used.serverRestarts + 1
<1>1. used.serverRestarts \in Nat /\ used \in Usage
  BY CursorTypes DEF TypeOK
<1>2. \/ used' = used
      \/ \E f \in {"agentRestarts", "breaks", "fileFaults"} :
           used' = [used EXCEPT ![f] = @ + 1]
      \/ ServerRestart
  BY DEF Next, Publish, Signal, Accept, StartHandler, Handler, HandlerNext,
     HandlerWait, HandlerSend, HandlerSendFails, HandlerReceive,
     HandlerReceiveFails, HandlerSave, HandlerSaveFails, HandlerCommit, Agent,
     Dial, AgentReceive, AgentReceiveFails, AgentApply, AgentApplyFails,
     AgentObserve, AgentSave, AgentSaveFails, AgentAck, Break, AgentRestart,
     SaveFails, FileFault, vars
<1>3. CASE used' = used
  BY <1>1, <1>3
<1>4. CASE \E f \in {"agentRestarts", "breaks", "fileFaults"} :
             used' = [used EXCEPT ![f] = @ + 1]
  BY <1>1, <1>4 DEF Usage
<1>5. CASE ServerRestart
  <2>1. used' = [used EXCEPT !.serverRestarts = @ + 1]
    BY <1>5 DEF ServerRestart
  <2>2. used'.serverRestarts = used.serverRestarts + 1
    BY <2>1, <1>1 DEF Usage
  <2> QED
    BY <2>2, <1>1, <1>5
<1> QED
  BY <1>1, <1>2, <1>3, <1>4, <1>5

(* A step of the stream keeps the invariant. *)
LEMMA CursorStep ==
    ASSUME TypeOK, TypeOK', AckInv, CursorInv, [Next]_vars
    PROVE  CursorInv'
<1> SUFFICES ASSUME ServerKept'
             PROVE  WindowInv' /\ FrameInv' /\ HandlerInv'
  BY DEF CursorInv
<1>t. /\ sCursor \in Nat /\ sFile \in Nat /\ aCursor \in Nat
      /\ h.seq \in Nat /\ h.ack \in Nat
      /\ h.sess \in Session /\ h.sess.next \in Nat /\ h.sess.peer \in Nat
      /\ a.sess \in Session /\ a.msg.seq \in Nat /\ Applied \in Nat /\ Acked \in Nat
  BY CursorTypes
<1>k. ServerKept
  BY RestartsGrow DEF ServerKept
<1>i. WindowInv /\ FrameInv /\ HandlerInv
  BY <1>k DEF CursorInv
<1>a. CountInv /\ AckWireInv /\ AckHeldInv /\ AgentInv
  BY DEF AckInv
<1>c. AgentCursorFile \in BOOLEAN /\ ServerCursorFile \in BOOLEAN
  BY ConfigAssumption
<1>n. Dialing.pc = "dial"
  BY IdleType
<1>1. CASE Publish
  BY <1>1, <1>i, CursorFrame DEF Publish, serverVars, agentVars, netVars
<1>2. CASE Signal
  BY <1>2, <1>i, CursorFrame DEF Signal, serverVars, agentVars, netVars
<1>3. CASE Accept
  BY <1>3, <1>i, CursorFrame DEF Accept, ServerOnly, agentVars
<1>4. CASE Break
  BY <1>4, <1>i, CursorFrame DEF Break, serverVars, agentVars
<1>5. CASE UNCHANGED vars
  BY <1>5, <1>i, CursorFrame DEF vars, serverVars, agentVars, netVars
<1>6. CASE StartHandler
  <2>1. UNCHANGED <<sCursor, sFile, a, appliedIds, toAgent>>
    BY <1>6 DEF StartHandler, ServerOnly, agentVars
  <2>2. HandlerInv'
    <3>1. h' = [NoHandler EXCEPT !.pc = "next", !.conn = accepting,
                                 !.sess = NewSession(0, sCursor)]
      BY <1>6 DEF StartHandler
    <3>2. h'.pc = "next" /\ h'.sess = NewSession(0, sCursor)
      BY <3>1, IdleType
    <3> QED
      BY <2>1, <3>2, <1>t, SessionSteps DEF HandlerInv
  <2> QED
    BY <2>1, <2>2, <1>i DEF WindowInv, FrameInv, Applied
<1>7. CASE HandlerNext
  <2>1. UNCHANGED <<sCursor, sFile, a, appliedIds, toAgent>>
    BY <1>7 DEF HandlerNext, HandlerOnly, ServerOnly, agentVars
  <2>2. HandlerInv'
    <3>1. h'.pc \in {"send", "wait"} /\ h'.sess = h.sess /\ h.pc = "next"
      BY <1>7 DEF HandlerNext, TypeOK, HandlerType
    <3> QED
      BY <2>1, <3>1, <1>i DEF HandlerInv
  <2> QED
    BY <2>1, <2>2, <1>i DEF WindowInv, FrameInv, Applied
<1>8. CASE HandlerWait
  <2>1. UNCHANGED <<sCursor, sFile, a, appliedIds, toAgent>>
    BY <1>8 DEF HandlerWait, HandlerOnly, ServerOnly, agentVars
  <2>2. HandlerInv'
    <3>1. CASE HandlerReturn
      BY <3>1, IdleInv
    <3>2. CASE h' = [h EXCEPT !.pc = "next"]
      <4>1. h'.pc = "next" /\ h'.sess = h.sess /\ h.pc = "wait"
        BY <1>8, <3>2 DEF HandlerWait, TypeOK, HandlerType
      <4> QED
        BY <2>1, <4>1, <1>i DEF HandlerInv
    <3> QED
      BY <1>8, <3>1, <3>2 DEF HandlerWait
  <2> QED
    BY <2>1, <2>2, <1>i DEF WindowInv, FrameInv, Applied
<1>9. CASE HandlerSend
  <2>1. UNCHANGED <<sCursor, sFile, a, appliedIds>>
    BY <1>9 DEF HandlerSend, HandlerOnly, ServerOnly, agentVars
  <2>2. h.pc = "send" /\ h.conn \in Conns /\ h.change \in Change
    BY <1>9 DEF HandlerSend, TypeOK, HandlerType
  <2>3. h.sess.next = sCursor + 1 /\ h.sess.pending = {} /\ h.sess.peer <= sCursor
    BY <2>2, <1>i DEF HandlerInv
  <2>4. HandlerInv'
    <3>1. h' = [h EXCEPT !.pc = "recv", !.seq = h.sess.next,
                         !.sess = SendPolicy(h.sess)]
      BY <1>9 DEF HandlerSend
    <3>2. h'.pc = "recv" /\ h'.seq = h.sess.next /\ h'.sess = SendPolicy(h.sess)
      BY <3>1 DEF TypeOK, HandlerType
    <3>3. /\ h'.sess.next = h.sess.next + 1 /\ h'.sess.peer = h.sess.peer
          /\ h'.sess.pending = h.sess.pending \cup {h.sess.next}
      BY <3>2, <1>t, SessionSteps
    <3> QED
      BY <2>1, <2>3, <3>2, <3>3, <1>t DEF HandlerInv
  <2>5. FrameInv'
    <3> DEFINE W == {m \in Frame : m.seq <= sCursor + 1}
    <3> DEFINE frame == [seq |-> h.sess.next, change |-> h.change]
    <3>1. frame \in W
      BY <2>2, <2>3, <1>t DEF Frame
    <3>2. toAgent \in [Conns -> Seq(W)]
      BY <1>i DEF FrameInv
    <3>3. toAgent' = [toAgent EXCEPT ![h.conn] = Append(toAgent[h.conn], frame)]
      BY <1>9 DEF HandlerSend
    <3> HIDE DEF W, frame
    <3>4. Append(toAgent[h.conn], frame) \in Seq(W)
      BY <2>2, <3>1, <3>2, AppendType
    <3>5. toAgent' \in [Conns -> Seq(W)]
      BY <3>2, <3>3, <3>4, ExceptType
    <3> QED
      BY <2>1, <3>5, <1>i DEF FrameInv, W
  <2> QED
    BY <2>1, <2>4, <2>5, <1>i DEF WindowInv, Applied
<1>10. CASE HandlerSendFails
  <2>1. UNCHANGED <<sCursor, sFile, a, appliedIds, toAgent>>
    BY <1>10 DEF HandlerSendFails, HandlerOnly, ServerOnly, agentVars
  <2>2. HandlerInv'
    BY <1>10, IdleInv DEF HandlerSendFails
  <2> QED
    BY <2>1, <2>2, <1>i DEF WindowInv, FrameInv, Applied
<1>11. CASE HandlerReceive
  <2>1. UNCHANGED <<sCursor, sFile, a, appliedIds, toAgent>>
    BY <1>11 DEF HandlerReceive, HandlerOnly, ServerOnly, agentVars
  <2> DEFINE cursor == Head(toServer[h.conn])
  <2>2. h.pc = "recv" /\ h.conn \in Conns /\ toServer[h.conn] # <<>>
    BY <1>11 DEF HandlerReceive, TypeOK, HandlerType
  <2>3. cursor \in 0..Acked
    <3>1. toServer[h.conn] \in Seq(0..Acked)
      BY <2>2, <1>a DEF AckWireInv
    <3> QED
      BY <2>2, <3>1, HeadTail
  <2>4. cursor <= sCursor + 1 /\ cursor \in Nat
    BY <2>3, <1>i, <1>a, <1>t, <1>c DEF WindowInv, CountInv, Acked
  <2>5. HandlerInv'
    <3>1. CASE HandlerReturn
      BY <3>1, IdleInv
    <3>2. CASE /\ cursor >= h.seq
               /\ h' = [h EXCEPT !.pc = "save", !.ack = cursor,
                                 !.sess = ReceiveAck(h.sess, cursor)]
      <4>1. /\ h'.pc = "save" /\ h'.ack = cursor /\ h'.seq = h.seq
            /\ h'.sess = ReceiveAck(h.sess, cursor)
        BY <3>2 DEF TypeOK, HandlerType
      <4>2. /\ h.seq = sCursor + 1 /\ h.sess.next = sCursor + 2
            /\ h.sess.pending = {sCursor + 1} /\ h.sess.peer <= sCursor
        BY <2>2, <1>i DEF HandlerInv
      <4>3. cursor = sCursor + 1
        BY <2>4, <3>2, <4>2, <1>t
      <4> HIDE DEF cursor
      <4>a. cursor \in Nat /\ cursor > h.sess.peer /\ h.sess \in Session
        BY <2>4, <4>2, <4>3, <1>t DEF Session
      <4>4. /\ h'.sess.next = h.sess.next /\ h'.sess.peer = cursor
            /\ h'.sess.pending = {m \in h.sess.pending : m > cursor}
        BY <4>1, <4>a, SessionSteps
      <4>5. h'.sess.pending = {}
        BY <4>2, <4>3, <4>4, <1>t
      <4> QED
        BY <2>1, <4>1, <4>2, <4>3, <4>4, <4>5 DEF HandlerInv
    <3> QED
      BY <1>11, <3>1, <3>2 DEF HandlerReceive
  <2> QED
    BY <2>1, <2>5, <1>i DEF WindowInv, FrameInv, Applied
<1>12. CASE HandlerReceiveFails
  <2>1. UNCHANGED <<sCursor, sFile, a, appliedIds, toAgent>>
    BY <1>12 DEF HandlerReceiveFails, HandlerOnly, ServerOnly, agentVars
  <2>2. HandlerInv'
    BY <1>12, IdleInv DEF HandlerReceiveFails
  <2> QED
    BY <2>1, <2>2, <1>i DEF WindowInv, FrameInv, Applied
<1>13. CASE HandlerSave
  <2>1. UNCHANGED <<sCursor, a, appliedIds, toAgent>>
    BY <1>13 DEF HandlerSave, HandlerOnly, ServerOnly, agentVars
  <2>2. /\ h.pc = "save" /\ h'.pc = "commit" /\ h'.sess = h.sess
        /\ h'.seq = h.seq /\ h'.ack = h.ack
    BY <1>13 DEF HandlerSave, TypeOK, HandlerType
  <2>3. IF ServerCursorFile THEN sFile' = h.ack ELSE sFile' = 0
    BY <1>13 DEF HandlerSave, CursorIfFile
  <2>4. HandlerInv'
    BY <2>1, <2>2, <2>3, <1>i, <1>t DEF HandlerInv
  <2>5. WindowInv'
    BY <2>1, <2>2, <2>3, <1>i, <1>t, <1>c DEF WindowInv, HandlerInv, Applied
  <2> QED
    BY <2>1, <2>4, <2>5, <1>i DEF FrameInv
<1>14. CASE HandlerSaveFails
  <2>1. UNCHANGED <<sCursor, a, appliedIds, toAgent>>
    BY <1>14 DEF HandlerSaveFails, HandlerOnly, ServerOnly, agentVars
  <2>2. HandlerInv'
    BY <1>14, IdleInv DEF HandlerSaveFails
  <2>3. h.pc = "save" /\ ServerCursorFile /\ (sFile' = sFile \/ sFile' = h.ack)
    BY <1>14 DEF HandlerSaveFails, SaveFails
  <2>4. h.ack = sCursor + 1
    BY <2>3, <1>i DEF HandlerInv
  <2>5. WindowInv'
    BY <2>1, <2>3, <2>4, <1>i, <1>t, <1>c DEF WindowInv, Applied
  <2> QED
    BY <2>1, <2>2, <2>5, <1>i DEF FrameInv
<1>15. CASE HandlerCommit
  <2>1. UNCHANGED <<sFile, a, appliedIds, toAgent>>
    BY <1>15 DEF HandlerCommit, HandlerOnly, ServerOnly, agentVars
  <2>2. h.pc = "commit" /\ sCursor' = h.ack /\ h'.pc = "next" /\ h'.sess = h.sess
    BY <1>15 DEF HandlerCommit, TypeOK, HandlerType
  <2>3. /\ h.ack = sCursor + 1 /\ h.sess.next = sCursor + 2
        /\ h.sess.pending = {} /\ h.sess.peer = h.ack
        /\ ServerCursorFile => h.ack <= sFile
    BY <2>2, <1>i DEF HandlerInv
  <2>4. WindowInv'
    BY <2>1, <2>2, <2>3, <1>i, <1>t, <1>c DEF WindowInv, Applied
  <2>5. HandlerInv'
    BY <2>2, <2>3, <1>t DEF HandlerInv
  <2>6. FrameInv'
    <3>1. h.ack \in Nat /\ sCursor <= h.ack
      BY <2>3, <1>t
    <3>2. toAgent \in [Conns -> Seq({m \in Frame : m.seq <= h.ack + 1})]
      BY <3>1, <1>i, WindowMoves
    <3>3. a'.pc = "apply" => a'.msg.seq <= h.ack + 1
      BY <2>1, <2>3, <1>i, <1>t DEF FrameInv
    <3> QED
      BY <2>1, <2>2, <3>2, <3>3 DEF FrameInv
  <2> QED
    BY <2>4, <2>5, <2>6
<1>16. CASE ServerRestart
  <2>1. UNCHANGED <<sFile, a, appliedIds, toAgent>>
    BY <1>16 DEF ServerRestart, ServerOnly, agentVars
  <2>2. HandlerInv'
    BY <1>16, IdleInv DEF ServerRestart
  <2>3. ServerCursorFile
    <3>1. used'.serverRestarts = used.serverRestarts + 1
      BY <1>16 DEF ServerRestart, TypeOK, Usage
    <3> QED
      BY <3>1, CursorTypes DEF ServerKept
  <2>4. sCursor' = sFile /\ sCursor <= sFile
    BY <1>16, <2>3, <1>i DEF ServerRestart, CursorIfFile, WindowInv
  <2>5. WindowInv'
    BY <2>1, <2>3, <2>4, <1>i, <1>t DEF WindowInv, Applied
  <2>6. FrameInv'
    <3>1. toAgent \in [Conns -> Seq({m \in Frame : m.seq <= sFile + 1})]
      BY <2>4, <1>i, <1>t, WindowMoves
    <3>2. a'.pc = "apply" => a'.msg.seq <= sFile + 1
      BY <2>1, <2>4, <1>i, <1>t DEF FrameInv
    <3> QED
      BY <2>1, <2>4, <3>1, <3>2 DEF FrameInv
  <2> QED
    BY <2>2, <2>5, <2>6
<1>17. CASE Dial
  <2>1. UNCHANGED <<h, sCursor, sFile, appliedIds>>
    BY <1>17 DEF Dial, AgentOnly
  <2>2. PICK c \in Conns :
          /\ a' = [Dialing EXCEPT !.pc = "recv", !.conn = c,
                                  !.sess = NewSession(aCursor, 0)]
          /\ toAgent' = [toAgent EXCEPT ![c] = <<>>]
    BY <1>17 DEF Dial
  <2>3. a'.pc = "recv"
    BY <2>2, IdleType
  <2>4. FrameInv'
    <3> DEFINE W == {m \in Frame : m.seq <= sCursor + 1}
    <3>1. toAgent \in [Conns -> Seq(W)]
      BY <1>i DEF FrameInv
    <3> HIDE DEF W
    <3>2. <<>> \in Seq(W)
      OBVIOUS
    <3>3. toAgent' \in [Conns -> Seq(W)]
      BY <2>2, <3>1, <3>2, ExceptType
    <3> QED
      BY <2>1, <2>3, <3>3 DEF FrameInv, W
  <2> QED
    BY <2>1, <2>4, <1>i DEF WindowInv, HandlerInv, Applied
<1>18. CASE AgentReceive
  <2>1. UNCHANGED <<h, sCursor, sFile, appliedIds>>
    BY <1>18 DEF AgentReceive, AgentOnly
  <2> DEFINE W == {m \in Frame : m.seq <= sCursor + 1}
  <2> DEFINE message == Head(toAgent[a.conn])
  <2>2. a.pc = "recv" /\ a.conn \in Conns /\ toAgent[a.conn] # <<>>
    BY <1>18 DEF AgentReceive, TypeOK, AgentType
  <2>3. toAgent \in [Conns -> Seq(W)]
    BY <1>i DEF FrameInv
  <2>4. message \in W /\ Tail(toAgent[a.conn]) \in Seq(W)
    <3> HIDE DEF W
    <3> QED
      BY <2>2, <2>3, HeadTail
  <2>5. toAgent' \in [Conns -> Seq(W)]
    <3>1. toAgent' = [toAgent EXCEPT ![a.conn] = Tail(toAgent[a.conn])]
      BY <1>18 DEF AgentReceive
    <3> HIDE DEF W
    <3> QED
      BY <2>3, <2>4, <3>1, ExceptType
  <2>6. a'.pc = "apply" => a'.msg.seq <= sCursor + 1
    <3>1. CASE a' = [a EXCEPT !.pc = "apply", !.msg = message]
      <4>1. a'.msg = message
        BY <3>1 DEF TypeOK, AgentType
      <4> QED
        BY <2>4, <4>1
    <3>2. CASE UNCHANGED a
      BY <2>2, <3>2
    <3>3. CASE Disconnect
      BY <3>3, <1>n DEF Disconnect
    <3> QED
      BY <1>18, <3>1, <3>2, <3>3 DEF AgentReceive
  <2> QED
    BY <2>1, <2>5, <2>6, <1>i DEF WindowInv, HandlerInv, FrameInv, Applied
<1>19. CASE AgentReceiveFails
  BY <1>19, <1>i, <1>n, CursorFrame DEF AgentReceiveFails, Disconnect, AgentOnly, netVars
<1>20. CASE AgentApplyFails
  BY <1>20, <1>i, <1>n, CursorFrame DEF AgentApplyFails, Disconnect, AgentOnly, netVars
<1>21. CASE AgentObserve
  BY <1>21, <1>i, <1>n, CursorFrame DEF AgentObserve, Disconnect, AgentOnly, netVars
<1>22. CASE AgentApply
  <2>1. UNCHANGED <<h, sCursor, sFile, toAgent>>
    BY <1>22 DEF AgentApply, AgentOnly, netVars
  <2>2. a.pc = "apply" /\ a'.pc = "save"
    BY <1>22 DEF AgentApply, TypeOK, AgentType
  <2>3. /\ a.msg.seq = aCursor + 1 /\ aCursor <= Applied
        /\ a.msg.seq <= sCursor + 1 /\ Applied <= sCursor + 1
    BY <2>2, <1>a, <1>i DEF AgentInv, CountInv, FrameInv, WindowInv
  <2>4. Applied' = IF a.msg.seq <= Applied THEN Applied ELSE Applied + 1
    <3>1. appliedIds \in Seq(Nat)
      BY DEF TypeOK
    <3> QED
      BY <1>22, <3>1 DEF AgentApply, Applied
  <2>5. WindowInv'
    BY <2>1, <2>3, <2>4, <1>i, <1>t DEF WindowInv
  <2> QED
    BY <2>1, <2>2, <2>5, <1>i DEF FrameInv, HandlerInv
<1>23. CASE AgentSave
  <2>1. a'.pc = "ack"
    BY <1>23 DEF AgentSave, TypeOK, AgentType
  <2> QED
    BY <1>23, <2>1, <1>i, CursorFrame DEF AgentSave, AgentOnly, netVars
<1>24. CASE AgentSaveFails
  BY <1>24, <1>i, <1>n, CursorFrame DEF AgentSaveFails, Disconnect, AgentOnly, netVars
<1>25. CASE AgentAck
  <2>1. a'.pc \in {"recv", "dial"}
    BY <1>25, <1>n DEF AgentAck, Disconnect, TypeOK, AgentType
  <2> QED
    BY <1>25, <2>1, <1>i, CursorFrame DEF AgentAck, AgentOnly
<1>26. CASE AgentRestart
  BY <1>26, <1>i, <1>n, CursorFrame DEF AgentRestart, Disconnect, AgentOnly, netVars
<1> QED
  BY <1>1, <1>2, <1>3, <1>4, <1>5, <1>6, <1>7, <1>8, <1>9, <1>10, <1>11,
     <1>12, <1>13, <1>14, <1>15, <1>16, <1>17, <1>18, <1>19, <1>20, <1>21,
     <1>22, <1>23, <1>24, <1>25, <1>26 DEF Next, Handler, Agent

(* While the server keeps its cursor, handleSync and consume work on the   *)
(* sequence after it, and nothing further has been sent or applied.        *)
THEOREM CursorInvariant == Spec => []CursorInv
<1>1. Init => CursorInv
  <2> SUFFICES ASSUME Init PROVE WindowInv /\ FrameInv /\ HandlerInv
    BY DEF CursorInv
  <2>1. WindowInv /\ HandlerInv
    BY IdleType, ConfigAssumption DEF Init, WindowInv, HandlerInv, Applied
  <2>2. FrameInv
    BY IdleType DEF Init, FrameInv
  <2> QED
    BY <2>1, <2>2
<1>2. TypeOK /\ TypeOK' /\ AckInv /\ CursorInv /\ [Next]_vars => CursorInv'
  BY CursorStep
<1> QED
  BY <1>1, <1>2, TypeCorrect, AckInvariant, PTL DEF Spec

(* Cursors that meet are kept by the server. *)
LEMMA KeptByServer == CursorsKept => ServerKept /\ AgentCursorFile
BY DEF CursorsKept, ServerKept

(* The server's cursor is never ahead of what the agent has saved and at   *)
(* most one behind: handleSync and consume move their cursors in step      *)
(* however often either process restarts and whatever writes fail.         *)
THEOREM CursorWindowHolds == Spec => []CursorWindow
<1>1. TypeOK /\ AckInv /\ CursorInv => CursorWindow
  <2> SUFFICES ASSUME TypeOK, AckInv, CursorInv, CursorsKept
               PROVE  sCursor <= aFile /\ aFile <= sCursor + 1
    BY DEF CursorWindow
  <2>1. /\ sCursor \in Nat /\ aCursor \in Nat /\ aFile \in Nat /\ Applied \in Nat
    BY CursorTypes
  <2>2. CountInv /\ WindowInv /\ AgentCursorFile
    BY KeptByServer DEF AckInv, CursorInv
  <2> QED
    BY <2>1, <2>2 DEF CountInv, WindowInv, Acked
<1> QED
  BY <1>1, TypeCorrect, AckInvariant, CursorInvariant, PTL

(* handleSync never has more than one sequence in flight, so SendPolicy    *)
(* never returns ErrBackpressure, for any MaxInFlight.                     *)
THEOREM StopAndWaitHolds == Spec => []StopAndWait
<1>1. CursorInv => StopAndWait
  BY KeptByServer DEF CursorInv, StopAndWait, HandlerInv
<1> QED
  BY <1>1, CursorInvariant, PTL

(* The rollback error of saveCursor is unreachable on both sides: the file *)
(* is never ahead of the cursor that handleSync or consume saves.          *)
THEOREM SaveNeverRefused ==
    Spec => [](CursorsKept => /\ h.pc = "save" => h.ack >= sFile
                              /\ a.pc = "save" => a.msg.seq >= aFile)
<1>1. TypeOK /\ AckInv /\ CursorInv =>
        (CursorsKept => /\ h.pc = "save" => h.ack >= sFile
                        /\ a.pc = "save" => a.msg.seq >= aFile)
  <2> SUFFICES ASSUME TypeOK, AckInv, CursorInv, CursorsKept
               PROVE  /\ h.pc = "save" => h.ack >= sFile
                      /\ a.pc = "save" => a.msg.seq >= aFile
    OBVIOUS
  <2>1. /\ sCursor \in Nat /\ sFile \in Nat /\ aCursor \in Nat /\ aFile \in Nat
        /\ Applied \in Nat
    BY CursorTypes
  <2>2. CountInv /\ AgentInv /\ WindowInv /\ HandlerInv /\ AgentCursorFile
    BY KeptByServer DEF AckInv, CursorInv
  <2> QED
    BY <2>1, <2>2 DEF CountInv, WindowInv, AgentInv, HandlerInv, Acked
<1> QED
  BY <1>1, TypeCorrect, AckInvariant, CursorInvariant, PTL
-----------------------------------------------------------------------------
(* queue.next never sleeps on a queue that holds a change while nothing is *)
(* under way to wake it: between its look at pending and its wait on       *)
(* notify, a publish leaves a token there or is about to.                  *)
THEOREM NoLostWakeupHolds == Spec => []NoLostWakeup
<1>1. Init => NoLostWakeup
  BY DEF Init, QueueInit, NoLostWakeup
<1>2. TypeOK /\ TypeOK' /\ NoLostWakeup /\ [Next]_vars => NoLostWakeup'
  <2> SUFFICES ASSUME TypeOK, TypeOK', NoLostWakeup, [Next]_vars
               PROVE  NoLostWakeup'
    OBVIOUS
  <2>n. NoHandler.pc = "none"
    BY IdleType
  <2>1. CASE Publish
    BY <2>1 DEF Publish, PublishAppend, NoLostWakeup
  <2>2. CASE Signal
    BY <2>2 DEF Signal, PublishSignal, NoLostWakeup
  <2>3. CASE HandlerNext
    <3>1. CASE pending = <<>>
      BY <2>3, <3>1 DEF HandlerNext, queueVars, NoLostWakeup
    <3>2. CASE pending # <<>>
      <4>1. h'.pc = "send"
        BY <2>3, <3>2 DEF HandlerNext, TypeOK, HandlerType
      <4> QED
        BY <4>1 DEF NoLostWakeup
    <3> QED
      BY <3>1, <3>2
  <2>4. CASE StartHandler \/ HandlerWait \/ HandlerSend \/ HandlerSendFails
             \/ HandlerReceive \/ HandlerReceiveFails \/ HandlerSave
             \/ HandlerSaveFails \/ HandlerCommit \/ ServerRestart
    <3>1. h'.pc # "wait"
      BY <2>4, <2>n, IdleType DEF StartHandler, HandlerWait, HandlerSend,
         HandlerSendFails, HandlerReceive, HandlerReceiveFails, HandlerSave,
         HandlerSaveFails, HandlerCommit, ServerRestart, HandlerReturn, TypeOK,
         HandlerType
    <3> QED
      BY <3>1 DEF NoLostWakeup
  <2>5. CASE Accept \/ Agent \/ Break \/ AgentRestart \/ UNCHANGED vars
    <3>1. UNCHANGED <<h, queueVars>>
      BY <2>5 DEF Accept, Agent, Break, AgentRestart, vars, Dial, AgentReceive,
         AgentReceiveFails, AgentApply, AgentApplyFails, AgentObserve,
         AgentSave, AgentSaveFails, AgentAck, AgentOnly, serverVars
    <3> QED
      BY <3>1 DEF NoLostWakeup, queueVars
  <2> QED
    BY <2>1, <2>2, <2>3, <2>4, <2>5 DEF Next, Handler
<1> QED
  BY <1>1, <1>2, TypeCorrect, PTL DEF Spec
=============================================================================
