------------------------- MODULE PolicyStreamProofs -------------------------
(***************************************************************************)
(* What reaches the agent's store.  PolicySyncProofs bounds the cursors;   *)
(* here the changes themselves are followed: through the queue, over the   *)
(* one connection that matters, into the store and its file.               *)
(***************************************************************************)
EXTENDS PolicySyncProofs, FiniteSetTheorems

-----------------------------------------------------------------------------
(* The agent's connection.  It is the last one dialled, so the server      *)
(* reaches it after every other; until it is served nothing is written on  *)
(* it, and from then on a frame, the message the agent works on, and the   *)
(* ACK are one token that handleSync hands over and waits for.             *)

Queued ==
    /\ backlog # <<>> /\ a.conn = backlog[Len(backlog)]
    /\ \A i \in 1..(Len(backlog) - 1) : backlog[i] # a.conn
    /\ a.conn # accepting /\ a.conn # h.conn
Accepted == backlog = <<>> /\ a.conn = accepting /\ a.conn # h.conn
Served == backlog = <<>> /\ accepting = NoConn /\ h.conn \in {NoConn, a.conn}

Quiet == a.pc = "recv" /\ toAgent[a.conn] = <<>> /\ toServer[a.conn] = <<>>
OneToken ==
    \/ a.pc = "recv" /\ Len(toAgent[a.conn]) = 1 /\ toServer[a.conn] = <<>>
    \/ a.pc # "recv" /\ toAgent[a.conn] = <<>> /\ toServer[a.conn] = <<>>
    \/ a.pc = "recv" /\ toAgent[a.conn] = <<>> /\ Len(toServer[a.conn]) = 1

ConnInv ==
    a.conn # NoConn =>
        \/ (Queued \/ Accepted \/ Served) /\ Quiet
        \/ Served /\ h.pc \in {"none", "recv"} /\ OneToken

(* What the steps below need to know of the types. *)
LEMMA ConnTypes ==
    ASSUME TypeOK
    PROVE  /\ backlog \in Seq(Conns) /\ accepting \in Conns \cup {NoConn}
           /\ h.pc = "none" <=> h.conn = NoConn
           /\ a.pc = "dial" <=> a.conn = NoConn
           /\ h.conn \in Conns \cup {NoConn} /\ a.conn \in Conns \cup {NoConn}
           /\ toAgent \in [Conns -> Seq(Frame)] /\ toServer \in [Conns -> Seq(Nat)]
BY DEF TypeOK, HandlerType, AgentType

(* Steps that leave the connections alone. *)
LEMMA ConnFrame ==
    ASSUME ConnInv, a'.conn = a.conn, a'.pc = a.pc, h'.conn = h.conn, h'.pc = h.pc,
           UNCHANGED <<backlog, accepting, toAgent, toServer>>
    PROVE  ConnInv'
BY DEF ConnInv, Queued, Accepted, Served, Quiet, OneToken

(* Steps of a handler that owes the agent nothing: it stays, or returns.   *)
LEMMA HandlerFrame ==
    ASSUME ConnInv, h.pc \notin {"none", "recv"}, h'.conn \in {h.conn, NoConn},
           UNCHANGED <<a, backlog, accepting, toAgent, toServer>>
    PROVE  ConnInv'
BY DEF ConnInv, Queued, Accepted, Served, Quiet

(* The agent hangs up. *)
LEMMA HangUpConn == Disconnect => ConnInv'
BY IdleType DEF Disconnect, ConnInv

(* A sequence of length one is left empty by Tail. *)
LEMMA OneElement ==
    ASSUME NEW S, NEW s \in Seq(S), Len(s) = 1
    PROVE  Tail(s) = <<>> /\ s # <<>>
<1>1. Tail(s) \in Seq(S) /\ Len(Tail(s)) = 0 /\ s # <<>>
  OBVIOUS
<1>2. \A t \in Seq(S) : Len(t) = 0 => t = <<>>
  OBVIOUS
<1> QED
  BY <1>1, <1>2

LEMMA AppendToEmpty ==
    ASSUME NEW S, NEW e \in S
    PROVE  Len(Append(<<>>, e)) = 1 /\ Head(Append(<<>>, e)) = e
OBVIOUS

(* The last element of a sequence after Tail and after Append. *)
LEMMA LastOf ==
    ASSUME NEW S, NEW s \in Seq(S)
    PROVE  /\ \A e \in S : /\ Len(Append(s, e)) = Len(s) + 1
                           /\ Append(s, e)[Len(s) + 1] = e
                           /\ \A i \in 1..Len(s) : Append(s, e)[i] = s[i]
           /\ s # <<>> => /\ Len(s) \in Nat \ {0} /\ Len(Tail(s)) = Len(s) - 1
                          /\ Head(s) = s[1]
                          /\ \A i \in 1..(Len(s) - 1) : Tail(s)[i] = s[i + 1]
OBVIOUS

(* A step of the stream keeps the invariant. *)
LEMMA ConnStep ==
    ASSUME TypeOK, TypeOK', ConnInv, [Next]_vars
    PROVE  ConnInv'
<1>t. /\ backlog \in Seq(Conns) /\ accepting \in Conns \cup {NoConn}
      /\ h.pc = "none" <=> h.conn = NoConn
      /\ a.pc = "dial" <=> a.conn = NoConn
      /\ h.conn \in Conns \cup {NoConn} /\ a.conn \in Conns \cup {NoConn}
      /\ toAgent \in [Conns -> Seq(Frame)] /\ toServer \in [Conns -> Seq(Nat)]
  BY ConnTypes
<1>n. NoHandler.pc = "none" /\ NoHandler.conn = NoConn
  BY IdleType
<1>1. CASE Publish
  BY <1>1, ConnFrame DEF Publish, serverVars, agentVars, netVars
<1>2. CASE Signal
  BY <1>2, ConnFrame DEF Signal, serverVars, agentVars, netVars
<1>3. CASE Accept
  <2>1. /\ backlog # <<>> /\ accepting' = Head(backlog) /\ backlog' = Tail(backlog)
        /\ UNCHANGED <<a, h, toAgent, toServer>>
    BY <1>3 DEF Accept, ServerOnly, agentVars
  <2> SUFFICES ASSUME a.conn # NoConn PROVE ConnInv'
    BY <2>1 DEF ConnInv
  <2>2. Queued /\ Quiet
    BY <2>1 DEF ConnInv, Accepted, Served
  <2>3. /\ Len(backlog) \in Nat \ {0} /\ Len(backlog') = Len(backlog) - 1
        /\ accepting' = backlog[1]
        /\ \A i \in 1..(Len(backlog) - 1) : backlog'[i] = backlog[i + 1]
    BY <2>1, <1>t, LastOf
  <2>4. backlog' \in Seq(Conns)
    BY DEF TypeOK
  <2>5. CASE Len(backlog) = 1
    <3>1. backlog' = <<>> /\ accepting' = a.conn
      BY <2>2, <2>3, <2>4, <2>5 DEF Queued
    <3> QED
      BY <2>1, <2>2, <3>1 DEF ConnInv, Accepted, Quiet, Queued
  <2>6. CASE Len(backlog) # 1
    <3>1. backlog' # <<>> /\ backlog'[Len(backlog')] = a.conn
      BY <2>2, <2>3, <2>4, <2>6 DEF Queued
    <3>2. \A i \in 1..(Len(backlog') - 1) : backlog'[i] # a.conn
      BY <2>2, <2>3 DEF Queued
    <3>3. a.conn # accepting'
      BY <2>2, <2>3, <2>6 DEF Queued
    <3> QED
      BY <2>1, <2>2, <3>1, <3>2, <3>3 DEF ConnInv, Queued, Quiet
  <2> QED
    BY <2>5, <2>6
<1>4. CASE Break
  BY <1>4, ConnFrame DEF Break, serverVars, agentVars
<1>5. CASE UNCHANGED vars
  BY <1>5, ConnFrame DEF vars, serverVars, agentVars, netVars
<1>6. CASE StartHandler
  <2>1. /\ accepting # NoConn /\ accepting' = NoConn
        /\ UNCHANGED <<a, backlog, toAgent, toServer>>
    BY <1>6 DEF StartHandler, Cancelled, ServerOnly, agentVars
  <2>2. h'.conn = accepting
    BY <1>6, IdleType DEF StartHandler, NoHandler
  <2> QED
    BY <2>1, <2>2 DEF ConnInv, Queued, Accepted, Served, Quiet
<1>7. CASE HandlerNext
  <2>1. h.pc = "next" /\ h'.conn = h.conn
    BY <1>7 DEF HandlerNext, TypeOK, HandlerType
  <2> QED
    BY <1>7, <2>1, HandlerFrame DEF HandlerNext, HandlerOnly, ServerOnly, agentVars
<1>8. CASE HandlerWait
  <2>1. h.pc = "wait" /\ h'.conn \in {h.conn, NoConn}
    BY <1>8, <1>n DEF HandlerWait, HandlerReturn, TypeOK, HandlerType
  <2> QED
    BY <1>8, <2>1, HandlerFrame DEF HandlerWait, HandlerOnly, ServerOnly, agentVars
<1>9. CASE HandlerSend
  <2> DEFINE frame == [seq |-> h.sess.next, change |-> h.change]
  <2>1. /\ UNCHANGED <<a, backlog, accepting, toServer>>
        /\ toAgent' = [toAgent EXCEPT ![h.conn] = Append(toAgent[h.conn], frame)]
    BY <1>9 DEF HandlerSend, HandlerOnly, ServerOnly, agentVars
  <2>2. /\ h.pc = "send" /\ h'.conn = h.conn /\ h'.pc = "recv" /\ h.conn \in Conns
        /\ h.sess \in Session /\ h.change \in Change
    BY <1>9 DEF HandlerSend, TypeOK, HandlerType
  <2>3. frame \in Frame
    BY <2>2, SendPolicyType DEF Frame
  <2> HIDE DEF frame
  <2>4. CASE a.conn = h.conn
    <3>1. Served /\ Quiet
      BY <2>2, <2>4, <1>t, ConnAssumption DEF ConnInv, Queued, Accepted
    <3>2. Len(toAgent'[a.conn]) = 1
      BY <2>1, <2>2, <2>3, <2>4, <3>1, <1>t, AppendToEmpty DEF Quiet
    <3> QED
      BY <2>1, <2>2, <3>1, <3>2 DEF ConnInv, Served, Quiet, OneToken
  <2>5. CASE a.conn # h.conn
    <3>1. toAgent'[a.conn] = toAgent[a.conn] \/ a.conn = NoConn
      BY <2>1, <2>5, <1>t
    <3> QED
      BY <2>1, <2>2, <3>1 DEF ConnInv, Queued, Accepted, Served, Quiet
  <2> QED
    BY <2>4, <2>5
<1>10. CASE HandlerSendFails
  <2>1. h.pc = "send" /\ h'.conn = NoConn
    BY <1>10, <1>n DEF HandlerSendFails, HandlerReturn
  <2> QED
    BY <1>10, <2>1, HandlerFrame DEF HandlerSendFails, HandlerOnly, ServerOnly,
       agentVars
<1>11. CASE HandlerReceive
  <2>1. /\ UNCHANGED <<a, backlog, accepting, toAgent>>
        /\ toServer' = [toServer EXCEPT ![h.conn] = Tail(toServer[h.conn])]
        /\ toServer[h.conn] # <<>>
    BY <1>11 DEF HandlerReceive, HandlerOnly, ServerOnly, agentVars
  <2>2. h.pc = "recv" /\ h'.conn \in {h.conn, NoConn} /\ h.conn \in Conns
    <3>1. CASE HandlerReturn
      BY <1>11, <3>1, <1>n DEF HandlerReceive, HandlerReturn, TypeOK, HandlerType
    <3>2. CASE ~HandlerReturn
      BY <1>11, <3>2 DEF HandlerReceive, TypeOK, HandlerType
    <3> QED
      BY <3>1, <3>2
  <2>3. CASE a.conn = h.conn
    <3>1. Served /\ Len(toServer[a.conn]) = 1 /\ toAgent[a.conn] = <<>> /\ a.pc = "recv"
      BY <2>1, <2>2, <2>3, ConnAssumption
         DEF ConnInv, Queued, Accepted, Quiet, OneToken
    <3>2. toServer'[a.conn] = <<>>
      BY <2>1, <2>2, <2>3, <3>1, <1>t, OneElement
    <3> QED
      BY <2>1, <2>2, <2>3, <3>1, <3>2 DEF ConnInv, Served, Quiet
  <2>4. CASE a.conn # h.conn
    <3>1. toServer'[a.conn] = toServer[a.conn] \/ a.conn = NoConn
      BY <2>1, <2>4, <1>t
    <3>2. ~Served
      BY <2>2, <2>4, ConnAssumption DEF Served
    <3> QED
      BY <2>1, <2>2, <3>1, <3>2 DEF ConnInv, Queued, Accepted, Quiet
  <2> QED
    BY <2>3, <2>4
<1>12. CASE HandlerReceiveFails
  <2>1. /\ UNCHANGED <<a, backlog, accepting, toAgent, toServer>>
        /\ h'.conn = NoConn /\ h'.pc = "none"
    BY <1>12, <1>n DEF HandlerReceiveFails, HandlerReturn, HandlerOnly,
       ServerOnly, agentVars
  <2> QED
    BY <2>1 DEF ConnInv, Queued, Accepted, Served, Quiet, OneToken
<1>13. CASE HandlerSave
  <2>1. h.pc = "save" /\ h'.conn = h.conn
    BY <1>13 DEF HandlerSave, TypeOK, HandlerType
  <2> QED
    BY <1>13, <2>1, HandlerFrame DEF HandlerSave, HandlerOnly, ServerOnly, agentVars
<1>14. CASE HandlerSaveFails
  <2>1. h.pc = "save" /\ h'.conn = NoConn
    BY <1>14, <1>n DEF HandlerSaveFails, HandlerReturn
  <2> QED
    BY <1>14, <2>1, HandlerFrame DEF HandlerSaveFails, HandlerOnly, ServerOnly,
       agentVars
<1>15. CASE HandlerCommit
  <2>1. h.pc = "commit" /\ h'.conn = h.conn
    BY <1>15 DEF HandlerCommit, TypeOK, HandlerType
  <2> QED
    BY <1>15, <2>1, HandlerFrame DEF HandlerCommit, HandlerOnly, ServerOnly, agentVars
<1>16. CASE ServerRestart
  <2>1. /\ UNCHANGED <<a, toAgent, toServer>>
        /\ backlog' = <<>> /\ accepting' = NoConn
        /\ h'.conn = NoConn /\ h'.pc = "none"
    BY <1>16, <1>n DEF ServerRestart, HandlerReturn, ServerOnly, agentVars
  <2> QED
    BY <2>1 DEF ConnInv, Served, Quiet, OneToken
<1>17. CASE Dial
  <2>1. UNCHANGED <<h, accepting>>
    BY <1>17 DEF Dial, AgentOnly
  <2>2. PICK c \in Conns :
          /\ c # h.conn /\ c # accepting /\ ~Backlogged(c)
          /\ a' = [Dialing EXCEPT !.pc = "recv", !.conn = c,
                                  !.sess = NewSession(aCursor, 0)]
          /\ backlog' = Append(backlog, c)
          /\ toAgent' = [toAgent EXCEPT ![c] = <<>>]
          /\ toServer' = [toServer EXCEPT ![c] = <<>>]
    BY <1>17 DEF Dial
  <2>3. a'.pc = "recv" /\ a'.conn = c
    BY <2>2, IdleType DEF Dialing
  <2>4. Quiet'
    BY <2>2, <2>3, <1>t DEF Quiet
  <2>5. Queued'
    <3>1. /\ Len(backlog') = Len(backlog) + 1 /\ backlog'[Len(backlog) + 1] = c
          /\ \A i \in 1..Len(backlog) : backlog'[i] = backlog[i]
          /\ Len(backlog) \in Nat
      BY <2>2, <1>t, LastOf
    <3>2. backlog' # <<>>
      BY <2>2, <1>t, AppendType
    <3> QED
      BY <2>1, <2>2, <2>3, <3>1, <3>2 DEF Queued, Backlogged
  <2> QED
    BY <2>4, <2>5 DEF ConnInv
<1>18. CASE AgentReceive
  <2>1. /\ UNCHANGED <<h, accepting, backlog>>
        /\ toAgent' = [toAgent EXCEPT ![a.conn] = Tail(toAgent[a.conn])]
        /\ toAgent[a.conn] # <<>> /\ a.pc = "recv" /\ a.conn \in Conns
    BY <1>18 DEF AgentReceive, AgentOnly, TypeOK, AgentType
  <2>2. /\ Served /\ h.pc \in {"none", "recv"}
        /\ Len(toAgent[a.conn]) = 1 /\ toServer[a.conn] = <<>>
    BY <2>1, ConnAssumption DEF ConnInv, Quiet, OneToken
  <2>3. toAgent'[a.conn] = <<>>
    BY <2>1, <2>2, <1>t, OneElement
  <2>4. CASE a' = [a EXCEPT !.pc = "apply", !.msg = Head(toAgent[a.conn])]
             /\ UNCHANGED toServer
    <3>1. a'.pc = "apply" /\ a'.conn = a.conn
      BY <2>4 DEF TypeOK, AgentType
    <3> QED
      BY <2>1, <2>2, <2>3, <2>4, <3>1 DEF ConnInv, Served, OneToken
  <2>5. CASE /\ toServer' = [toServer EXCEPT ![a.conn] = Append(@, a.sess.applied)]
             /\ UNCHANGED a
    <3>1. a.sess.applied \in Nat
      BY CursorTypes
    <3>2. Len(toServer'[a.conn]) = 1
      BY <2>1, <2>2, <2>5, <3>1, <1>t, AppendToEmpty
    <3> QED
      BY <2>1, <2>2, <2>3, <2>5, <3>2 DEF ConnInv, Served, OneToken
  <2>6. CASE Disconnect
    BY <2>6, HangUpConn
  <2> QED
    BY <1>18, <2>4, <2>5, <2>6 DEF AgentReceive
<1>19. CASE AgentReceiveFails \/ AgentApplyFails \/ AgentObserve \/ AgentSaveFails
            \/ AgentRestart
  BY <1>19, HangUpConn DEF AgentReceiveFails, AgentApplyFails, AgentObserve,
     AgentSaveFails, AgentRestart
<1>20. CASE AgentApply
  <2>1. /\ a.pc = "apply" /\ a'.pc = "save" /\ a'.conn = a.conn
        /\ UNCHANGED <<h, accepting, backlog, toAgent, toServer>>
    BY <1>20 DEF AgentApply, AgentOnly, netVars, TypeOK, AgentType
  <2> QED
    BY <2>1 DEF ConnInv, Queued, Accepted, Served, Quiet, OneToken
<1>21. CASE AgentSave
  <2>1. /\ a.pc = "save" /\ a'.pc = "ack" /\ a'.conn = a.conn
        /\ UNCHANGED <<h, accepting, backlog, toAgent, toServer>>
    BY <1>21 DEF AgentSave, AgentOnly, netVars, TypeOK, AgentType
  <2> QED
    BY <2>1 DEF ConnInv, Queued, Accepted, Served, Quiet, OneToken
<1>22. CASE AgentAck
  <2>1. CASE Disconnect
    BY <2>1, HangUpConn
  <2>2. CASE ~Disconnect
    <3>1. /\ a.pc = "ack" /\ a.conn \in Conns
          /\ UNCHANGED <<h, accepting, backlog, toAgent>>
          /\ toServer' = [toServer EXCEPT ![a.conn] = Append(@, a.msg.seq)]
          /\ a'.pc = "recv" /\ a'.conn = a.conn
      BY <1>22, <2>2 DEF AgentAck, AgentOnly, TypeOK, AgentType
    <3>2. /\ Served /\ h.pc \in {"none", "recv"}
          /\ toAgent[a.conn] = <<>> /\ toServer[a.conn] = <<>>
      BY <3>1, ConnAssumption DEF ConnInv, Quiet, OneToken
    <3>3. a.msg.seq \in Nat
      BY CursorTypes
    <3>4. Len(toServer'[a.conn]) = 1
      BY <3>1, <3>2, <3>3, <1>t, AppendToEmpty
    <3> QED
      BY <3>1, <3>2, <3>4 DEF ConnInv, Served, OneToken
  <2> QED
    BY <2>1, <2>2
<1> QED
  BY <1>1, <1>2, <1>3, <1>4, <1>5, <1>6, <1>7, <1>8, <1>9, <1>10, <1>11,
     <1>12, <1>13, <1>14, <1>15, <1>16, <1>17, <1>18, <1>19, <1>20, <1>21,
     <1>22 DEF Next, Handler, Agent

(* At any time the agent's connection carries at most one frame or ACK,    *)
(* and none while handleSync does not wait on it: what an older handler    *)
(* still does with an ACK never overlaps with the agent at work.           *)
THEOREM OneTokenPerConnection == Spec => []ConnInv
<1>1. Init => ConnInv
  BY IdleType DEF Init, ConnInv
<1>2. TypeOK /\ TypeOK' /\ ConnInv /\ [Next]_vars => ConnInv'
  BY ConnStep
<1> QED
  BY <1>1, <1>2, TypeCorrect, PTL DEF Spec
-----------------------------------------------------------------------------
(* The queue.  Changes are numbered when they are published, and the queue *)
(* holds the last ones without a gap; the rest were dropped, by a commit   *)
(* or by a restart of the server.  The handler works on the head.          *)

Dropped == Published - Len(pending)

QueueInv ==
    /\ Len(pending) <= Published
    /\ \A i \in 1..Len(pending) : pending[i].id = Dropped + i
    /\ h.pc \in {"send", "recv", "save", "commit"} =>
         pending # <<>> /\ h.change = Head(pending)

(* The arithmetic of the queue. *)
LEMMA QueueFacts ==
    ASSUME TypeOK, QueueInv
    PROVE  /\ Dropped \in Nat /\ Published \in Nat /\ Len(pending) \in Nat
           /\ Dropped + Len(pending) = Published
           /\ pending # <<>> => Head(pending).id = Dropped + 1 /\ Dropped < Published
<1>1. Published \in Nat /\ Len(pending) \in Nat
  BY DEF TypeOK, Published
<1>2. Dropped \in Nat /\ Dropped + Len(pending) = Published
  BY <1>1 DEF QueueInv, Dropped
<1>3. ASSUME pending # <<>>
      PROVE  Head(pending).id = Dropped + 1 /\ Dropped < Published
  <2>1. Len(pending) \in Nat \ {0} /\ Head(pending) = pending[1]
    BY <1>3, LastOf DEF TypeOK
  <2> QED
    BY <1>1, <1>2, <2>1 DEF QueueInv
<1> QED
  BY <1>1, <1>2, <1>3

(* queue.commit drops the change that the handler sent: nobody else takes  *)
(* from the queue, so its head is still the same.                          *)
LEMMA CommitDrops ==
    ASSUME TypeOK, QueueInv, HandlerCommit
    PROVE  /\ pending # <<>> /\ pending' = Tail(pending) /\ h.change.id = Dropped + 1
           /\ Published' = Published /\ Dropped' = Dropped + 1
<1>1. pending # <<>> /\ h.change = Head(pending)
  BY DEF QueueInv, HandlerCommit
<1>2. pending' = Tail(pending) /\ Published' = Published
  BY <1>1 DEF HandlerCommit, Commit, HandlerOnly, ServerOnly, Published
<1>3. Len(Tail(pending)) = Len(pending) - 1
  BY <1>1, LastOf DEF TypeOK
<1>4. /\ Published \in Nat /\ Len(pending) \in Nat /\ Head(pending).id = Dropped + 1
  BY <1>1, QueueFacts
<1> QED
  BY <1>1, <1>2, <1>3, <1>4 DEF Dropped

(* A publish adds one version and one change, with the next number. *)
LEMMA PublishAdds ==
    ASSUME TypeOK, QueueInv, Publish
    PROVE  \E c \in Change :
             /\ c.id = Published + 1 /\ pending' = Append(pending, c)
             /\ versions' = Append(versions, Effect(Version(Published), c))
             /\ Effect(Version(Published), c) \in Store
             /\ Published' = Published + 1 /\ Dropped' = Dropped
<1>1. PICK op \in Ops, item \in Items :
        LET change == [id |-> Published + 1, op |-> op, item |-> item]
        IN  /\ PublishAppend(change)
            /\ versions' = Append(versions, Effect(Version(Published), change))
  BY DEF Publish
<1> DEFINE c == [id |-> Published + 1, op |-> op, item |-> item]
<1>2. c \in Change /\ c.id = Published + 1
  BY QueueFacts DEF Change
<1>3. Version(Published) \in Store
  BY DEF TypeOK, Version, Published
<1>4. Effect(Version(Published), c) \in Store
  BY <1>2, <1>3, EffectType
<1>5. pending' = Append(pending, c)
  BY <1>1 DEF PublishAppend
<1>6. versions' = Append(versions, Effect(Version(Published), c))
  BY <1>1
<1> HIDE DEF c
<1>7. Len(versions') = Len(versions) + 1 /\ Len(versions) \in Nat
  BY <1>4, <1>6, LastOf DEF TypeOK
<1>8. Len(pending') = Len(pending) + 1 /\ Len(pending) \in Nat
  BY <1>2, <1>5, LastOf DEF TypeOK
<1>9. Published' = Published + 1 /\ Dropped' = Dropped
  BY <1>7, <1>8 DEF Published, Dropped
<1> QED
  BY <1>2, <1>4, <1>5, <1>6, <1>9

(* Steps that leave the queue alone and do not hand the handler a change. *)
LEMMA QueueFrame ==
    ASSUME QueueInv, UNCHANGED <<pending, versions>>,
           h'.pc \in {"send", "recv", "save", "commit"} =>
             /\ h.pc \in {"send", "recv", "save", "commit"} /\ h'.change = h.change
    PROVE  QueueInv'
BY DEF QueueInv, Dropped, Published

(* A step of the stream keeps the invariant. *)
LEMMA QueueStep ==
    ASSUME TypeOK, TypeOK', QueueInv, [Next]_vars
    PROVE  QueueInv'
<1>n. NoHandler.pc = "none"
  BY IdleType
<1>1. CASE Publish
  <2>1. PICK c \in Change :
          /\ c.id = Published + 1 /\ pending' = Append(pending, c)
          /\ Published' = Published + 1 /\ Dropped' = Dropped
    BY <1>1, PublishAdds
  <2>2. /\ Len(pending') = Len(pending) + 1 /\ pending'[Len(pending) + 1] = c
        /\ \A i \in 1..Len(pending) : pending'[i] = pending[i]
    BY <2>1, LastOf DEF TypeOK
  <2>3. /\ Dropped \in Nat /\ Published \in Nat /\ Len(pending) \in Nat
        /\ Dropped + Len(pending) = Published
    BY QueueFacts
  <2>4. /\ Len(pending') <= Published'
        /\ \A i \in 1..Len(pending') : pending'[i].id = Dropped' + i
    <3>1. \A i \in 1..Len(pending) : pending'[i].id = Dropped' + i
      BY <2>1, <2>2 DEF QueueInv
    <3>2. pending'[Len(pending) + 1].id = Dropped' + (Len(pending) + 1)
      BY <2>1, <2>2, <2>3
    <3>3. \A i \in 1..Len(pending') : i \in 1..Len(pending) \/ i = Len(pending) + 1
      BY <2>2, <2>3
    <3> QED
      BY <2>1, <2>2, <2>3, <3>1, <3>2, <3>3
  <2>5. pending # <<>> => pending' # <<>> /\ Head(pending') = Head(pending)
    <3> SUFFICES ASSUME pending # <<>>
                 PROVE  pending' # <<>> /\ Head(pending') = Head(pending)
      OBVIOUS
    <3>1. pending' # <<>> /\ pending \in Seq(Change) /\ pending' \in Seq(Change)
      BY <2>1, AppendType DEF TypeOK
    <3>2. 1 \in 1..Len(pending) /\ Head(pending) = pending[1]
      BY <3>1, LastOf
    <3>3. Head(pending') = pending'[1]
      BY <3>1, LastOf
    <3> QED
      BY <2>2, <3>1, <3>2, <3>3
  <2>6. h' = h
    BY <1>1 DEF Publish, serverVars
  <2> QED
    BY <2>4, <2>5, <2>6 DEF QueueInv
<1>2. CASE HandlerNext
  <2>1. UNCHANGED <<pending, versions>>
    BY <1>2 DEF HandlerNext, HandlerOnly, ServerOnly, queueVars
  <2>2. \/ h'.pc = "wait"
        \/ h'.pc = "send" /\ pending # <<>> /\ h'.change = Head(pending)
    BY <1>2 DEF HandlerNext, TypeOK, HandlerType
  <2> QED
    BY <2>1, <2>2 DEF QueueInv, Dropped, Published
<1>3. CASE HandlerSend \/ HandlerSave
  <2>1. UNCHANGED <<pending, versions>> /\ h.pc \in {"send", "save"} /\ h'.change = h.change
    BY <1>3 DEF HandlerSend, HandlerSave, HandlerOnly, ServerOnly, queueVars,
       TypeOK, HandlerType
  <2> QED
    BY <2>1, QueueFrame
<1>4. CASE HandlerReceive
  <2>1. UNCHANGED <<pending, versions>> /\ h.pc = "recv"
    BY <1>4 DEF HandlerReceive, HandlerOnly, ServerOnly, queueVars
  <2>2. h'.pc = "none" \/ h'.change = h.change
    <3>1. CASE HandlerReturn
      BY <3>1, <1>n DEF HandlerReturn
    <3>2. CASE ~HandlerReturn
      BY <1>4, <3>2 DEF HandlerReceive, TypeOK, HandlerType
    <3> QED
      BY <3>1, <3>2
  <2> QED
    BY <2>1, <2>2, QueueFrame
<1>5. CASE HandlerCommit
  <2>1. /\ pending # <<>> /\ pending' = Tail(pending)
        /\ Published' = Published /\ Dropped' = Dropped + 1
    BY <1>5, CommitDrops
  <2>2. /\ Len(pending') = Len(pending) - 1
        /\ \A i \in 1..(Len(pending) - 1) : pending'[i] = pending[i + 1]
    BY <2>1, LastOf DEF TypeOK
  <2>3. /\ Dropped \in Nat /\ Published \in Nat /\ Len(pending) \in Nat
        /\ Dropped + Len(pending) = Published
    BY QueueFacts
  <2>4. h'.pc = "next"
    BY <1>5 DEF HandlerCommit, TypeOK, HandlerType
  <2> QED
    BY <2>1, <2>2, <2>3, <2>4 DEF QueueInv
<1>6. CASE ServerRestart
  <2>1. pending' = <<>> /\ h'.pc = "none" /\ versions' = versions
    BY <1>6, <1>n DEF ServerRestart, HandlerReturn, ServerOnly
  <2>2. Len(pending') = 0 /\ Published' = Published /\ Published \in Nat
    BY <2>1, QueueFacts DEF Published
  <2> QED
    BY <2>1, <2>2 DEF QueueInv
<1>7. CASE StartHandler \/ HandlerWait \/ HandlerSendFails \/ HandlerReceiveFails
           \/ HandlerSaveFails
  <2>1. h'.pc \in {"next", "none"}
    BY <1>7, <1>n, IdleType DEF StartHandler, HandlerWait, HandlerSendFails,
       HandlerReceiveFails, HandlerSaveFails, HandlerReturn, TypeOK, HandlerType
  <2>2. UNCHANGED <<pending, versions>>
    BY <1>7 DEF StartHandler, HandlerWait, TakeToken, HandlerSendFails,
       HandlerReceiveFails, HandlerSaveFails, HandlerOnly, ServerOnly, queueVars
  <2> QED
    BY <2>1, <2>2, QueueFrame
<1>8. CASE Signal \/ Accept \/ Agent \/ Break \/ AgentRestart \/ UNCHANGED vars
  <2>1. UNCHANGED <<h, pending, versions>>
    BY <1>8 DEF Signal, PublishSignal, Accept, ServerOnly, Agent, Break,
       AgentRestart, vars, Dial, AgentReceive, AgentReceiveFails, AgentApply,
       AgentApplyFails, AgentObserve, AgentSave, AgentSaveFails, AgentAck,
       AgentOnly, serverVars, queueVars
  <2> QED
    BY <2>1, QueueFrame
<1> QED
  BY <1>1, <1>2, <1>3, <1>4, <1>5, <1>6, <1>7, <1>8 DEF Next, Handler

(* The queue holds the latest changes in the order they were published,    *)
(* and the handler's change is its head until the handler commits it.      *)
THEOREM QueueInvariant == Spec => []QueueInv
<1>1. Init => QueueInv
  BY IdleType DEF Init, QueueInit, QueueInv, Published
<1>2. TypeOK /\ TypeOK' /\ QueueInv /\ [Next]_vars => QueueInv'
  BY QueueStep
<1> QED
  BY <1>1, <1>2, TypeCorrect, PTL DEF Spec
-----------------------------------------------------------------------------
(* The order of what is applied.  A sequence number may be used for two    *)
(* changes, when the server restarts and numbers anew; the numbers of the  *)
(* changes still only go up, because whatever the server can send is newer *)
(* than what its cursor, or its session, has passed.                       *)

IdsInv ==
    \A j \in 1..Applied :
        /\ appliedIds[j] <= Dropped + 1 /\ appliedIds[j] <= Published
        /\ j <= sCursor => appliedIds[j] <= Dropped

NextInv ==
    h.pc \in {"next", "wait", "send"} =>
        \A j \in 1..Applied : j < h.sess.next => appliedIds[j] <= Dropped

(* A message carries a newer change than every sequence below its own. *)
InOrder(m) ==
    /\ m.change.id <= Dropped + 1 /\ m.change.id <= Published
    /\ \A j \in 1..Applied : j < m.seq => appliedIds[j] < m.change.id

FramesInv ==
    /\ a.conn # NoConn /\ toAgent[a.conn] # <<>> => InOrder(Head(toAgent[a.conn]))
    /\ a.pc = "apply" => InOrder(a.msg)

OrderInv == AgentCursorFile => IdsInv /\ NextInv /\ FramesInv /\ AppliedInOrder

(* The types of what OrderInv compares. *)
LEMMA OrderTypes ==
    ASSUME TypeOK
    PROVE  /\ \A j \in 1..Applied : appliedIds[j] \in Nat
           /\ a.conn # NoConn /\ toAgent[a.conn] # <<>> =>
                /\ Head(toAgent[a.conn]) \in Frame
                /\ Head(toAgent[a.conn]).change.id \in Nat
                /\ Head(toAgent[a.conn]).seq \in Nat
           /\ a.pc = "apply" => a.msg.change \in Change /\ a.msg.change.id \in Nat
<1>1. \A j \in 1..Applied : appliedIds[j] \in Nat
  BY DEF TypeOK, Applied
<1>2. ASSUME a.conn # NoConn, toAgent[a.conn] # <<>>
      PROVE  /\ Head(toAgent[a.conn]) \in Frame
             /\ Head(toAgent[a.conn]).change.id \in Nat
             /\ Head(toAgent[a.conn]).seq \in Nat
  <2>1. toAgent[a.conn] \in Seq(Frame)
    BY <1>2, ConnTypes
  <2>2. Head(toAgent[a.conn]) \in Frame
    BY <1>2, <2>1, HeadTail
  <2> QED
    BY <2>2 DEF Frame, Change
<1>3. a.pc = "apply" => a.msg.change \in Change
  BY DEF TypeOK, AgentType
<1>4. a.pc = "apply" => a.msg.change.id \in Nat
  BY <1>3 DEF Change
<1> QED
  BY <1>1, <1>2, <1>3, <1>4

(* AgentApply records the change under its sequence, and nothing else. *)
LEMMA ApplyRecords ==
    ASSUME TypeOK, AckInv, AgentApply
    PROVE  /\ a.msg.seq \in 1..(Applied + 1) /\ a.msg.seq = aCursor + 1
           /\ Applied' = IF a.msg.seq <= Applied THEN Applied ELSE Applied + 1
           /\ appliedIds'[a.msg.seq] = a.msg.change.id
           /\ \A j \in 1..Applied : j # a.msg.seq => appliedIds'[j] = appliedIds[j]
           /\ AgentCursorFile => Applied <= a.msg.seq
<1>1. a.pc = "apply" /\ appliedIds \in Seq(Nat) /\ a.msg.change \in Change
  BY DEF AgentApply, TypeOK, AgentType
<1>2. a.msg.change.id \in Nat
  BY <1>1 DEF Change
<1>3. a.msg.seq = aCursor + 1 /\ aCursor <= Applied /\ aCursor \in Nat /\ Applied \in Nat
  BY <1>1, CursorTypes DEF AckInv, AgentInv, CountInv
<1>4. AgentCursorFile => Applied <= a.msg.seq
  BY <1>3 DEF AckInv, CountInv
<1>5. CASE a.msg.seq <= Applied
  <2>1. appliedIds' = [appliedIds EXCEPT ![a.msg.seq] = a.msg.change.id]
    BY <1>5 DEF AgentApply, Applied
  <2>2. a.msg.seq \in 1..Len(appliedIds)
    BY <1>3, <1>5 DEF Applied
  <2>3. Len(appliedIds') = Len(appliedIds)
    BY <1>1, <1>2, <2>1, <2>2
  <2> QED
    BY <1>1, <1>3, <1>4, <1>5, <2>1, <2>2, <2>3 DEF Applied
<1>6. CASE ~(a.msg.seq <= Applied)
  <2>1. appliedIds' = Append(appliedIds, a.msg.change.id)
    BY <1>6 DEF AgentApply, Applied
  <2>2. a.msg.seq = Len(appliedIds) + 1
    BY <1>3, <1>6 DEF Applied
  <2>3. /\ Len(appliedIds') = Len(appliedIds) + 1
        /\ appliedIds'[Len(appliedIds) + 1] = a.msg.change.id
        /\ \A j \in 1..Len(appliedIds) : appliedIds'[j] = appliedIds[j]
    BY <1>1, <1>2, <2>1, LastOf
  <2> QED
    BY <1>3, <1>4, <1>6, <2>2, <2>3 DEF Applied
<1> QED
  BY <1>5, <1>6

(* Steps after which the server may only send newer changes, and the agent *)
(* has the same ones in its hands, or none.                                *)
LEMMA OrderFrame ==
    ASSUME TypeOK, QueueInv, QueueInv', TypeOK', AgentCursorFile,
           IdsInv, NextInv, FramesInv, AppliedInOrder,
           UNCHANGED <<appliedIds, sCursor>>,
           Dropped <= Dropped', Published <= Published',
           h'.pc \in {"next", "wait", "send"} =>
             h.pc \in {"next", "wait", "send"} /\ h'.sess.next = h.sess.next,
           a'.conn # NoConn /\ toAgent'[a'.conn] # <<>> =>
             a'.conn = a.conn /\ toAgent'[a'.conn] = toAgent[a.conn],
           a'.pc = "apply" => a' = a
    PROVE  IdsInv' /\ NextInv' /\ FramesInv' /\ AppliedInOrder'
<1>1. Dropped \in Nat /\ Published \in Nat /\ Dropped' \in Nat /\ Published' \in Nat
  <2>1. Dropped \in Nat /\ Published \in Nat
    BY QueueFacts
  <2>2. Dropped' \in Int /\ Published' \in Int
    BY DEF TypeOK, Published, Dropped
  <2> QED
    BY <2>1, <2>2
<1>2. /\ Applied' = Applied
      /\ \A j \in 1..Applied : appliedIds[j] \in Nat /\ appliedIds'[j] = appliedIds[j]
  BY OrderTypes DEF Applied
<1>3. IdsInv'
  BY <1>1, <1>2 DEF IdsInv
<1>4. NextInv'
  BY <1>1, <1>2 DEF NextInv
<1>5. FramesInv'
  <2>1. ASSUME a'.conn # NoConn, toAgent'[a'.conn] # <<>>
        PROVE  InOrder(Head(toAgent[a.conn]))'
    <3>1. a'.conn = a.conn /\ toAgent'[a'.conn] = toAgent[a.conn]
      BY <2>1
    <3>2. InOrder(Head(toAgent[a.conn])) /\ Head(toAgent[a.conn]).change.id \in Nat
      BY <2>1, <3>1, OrderTypes DEF FramesInv
    <3> QED
      BY <1>1, <1>2, <3>1, <3>2 DEF InOrder
  <2>2. ASSUME a'.pc = "apply"
        PROVE  InOrder(a.msg)'
    <3>1. a' = a /\ InOrder(a.msg) /\ a.msg.change.id \in Nat
      BY <2>2, OrderTypes DEF FramesInv
    <3> QED
      BY <1>1, <1>2, <3>1 DEF InOrder
  <2> QED
    BY <2>1, <2>2 DEF FramesInv
<1>6. AppliedInOrder'
  BY <1>2 DEF AppliedInOrder
<1> QED
  BY <1>3, <1>4, <1>5, <1>6

(* A step of the stream keeps the invariant. *)
LEMMA OrderStep ==
    ASSUME TypeOK, TypeOK', AckInv, ConnInv, QueueInv, QueueInv', OrderInv,
           [Next]_vars
    PROVE  OrderInv'
<1> SUFFICES ASSUME AgentCursorFile
             PROVE  IdsInv' /\ NextInv' /\ FramesInv' /\ AppliedInOrder'
  BY DEF OrderInv
<1>i. IdsInv /\ NextInv /\ FramesInv /\ AppliedInOrder
  BY DEF OrderInv
<1>n. NoHandler.pc = "none" /\ Dialing.pc = "dial" /\ Dialing.conn = NoConn
  BY IdleType
<1>q. Dropped \in Nat /\ Published \in Nat /\ Dropped <= Published
  BY QueueFacts
<1>t. \A j \in 1..Applied : appliedIds[j] \in Nat
  BY OrderTypes
<1>u. UNCHANGED <<pending, versions>> => Dropped' = Dropped /\ Published' = Published
  BY DEF Dropped, Published
<1>1. CASE Publish
  <2>1. Dropped' = Dropped /\ Published' = Published + 1
    BY <1>1, PublishAdds
  <2>2. UNCHANGED <<h, a, toAgent, appliedIds, sCursor>>
    BY <1>1 DEF Publish, serverVars, agentVars, netVars
  <2>3. Dropped <= Dropped' /\ Published <= Published'
    BY <2>1, <1>q
  <2> QED
    BY <2>2, <2>3, <1>i, OrderFrame
<1>2. CASE Signal \/ Accept \/ Break \/ UNCHANGED vars
  <2>1. UNCHANGED <<h, a, toAgent, appliedIds, sCursor, pending, versions>>
    BY <1>2 DEF Signal, PublishSignal, Accept, ServerOnly, Break, vars,
       serverVars, agentVars, netVars, queueVars
  <2>2. Dropped <= Dropped' /\ Published <= Published'
    BY <2>1, <1>q, <1>u
  <2> QED
    BY <2>1, <2>2, <1>i, OrderFrame
<1>3. CASE StartHandler
  <2>1. UNCHANGED <<a, toAgent, appliedIds, sCursor, pending, versions>>
    BY <1>3 DEF StartHandler, ServerOnly, agentVars, queueVars
  <2>2. h'.sess = NewSession(0, sCursor)
    BY <1>3, IdleType DEF StartHandler
  <2>3. h'.sess.next = sCursor + 1
    BY <2>2, CursorTypes, SessionSteps
  <2>4. NextInv'
    <3>1. sCursor \in Nat /\ Applied \in Nat
      BY CursorTypes
    <3> QED
      BY <2>1, <2>3, <3>1, <1>i, <1>u DEF NextInv, IdsInv, Applied
  <2> QED
    BY <2>1, <2>4, <1>i, <1>u DEF IdsInv, FramesInv, InOrder, AppliedInOrder, Applied
<1>4. CASE HandlerNext \/ HandlerWait \/ HandlerSendFails \/ HandlerReceiveFails
           \/ HandlerSave \/ HandlerSaveFails
  <2>1. UNCHANGED <<a, toAgent, appliedIds, sCursor, pending, versions>>
    BY <1>4 DEF HandlerNext, HandlerWait, TakeToken, HandlerSendFails,
       HandlerReceiveFails, HandlerSave, HandlerSaveFails, HandlerOnly,
       ServerOnly, agentVars, queueVars
  <2>2. h'.pc \in {"next", "wait", "send"} =>
          h.pc \in {"next", "wait", "send"} /\ h'.sess = h.sess
    BY <1>4, <1>n DEF HandlerNext, HandlerWait, HandlerSendFails,
       HandlerReceiveFails, HandlerSave, HandlerSaveFails, HandlerReturn, TypeOK,
       HandlerType
  <2>3. Dropped <= Dropped' /\ Published <= Published'
    BY <2>1, <1>q, <1>u
  <2> QED
    BY <2>1, <2>2, <2>3, <1>i, OrderFrame
<1>5. CASE HandlerReceive
  <2>1. UNCHANGED <<a, toAgent, appliedIds, sCursor, pending, versions>>
    BY <1>5 DEF HandlerReceive, HandlerOnly, ServerOnly, agentVars, queueVars
  <2>2. h'.pc \in {"none", "save"}
    <3>1. CASE HandlerReturn
      BY <3>1, <1>n DEF HandlerReturn
    <3>2. CASE ~HandlerReturn
      BY <1>5, <3>2 DEF HandlerReceive, TypeOK, HandlerType
    <3> QED
      BY <3>1, <3>2
  <2>3. Dropped <= Dropped' /\ Published <= Published'
    BY <2>1, <1>q, <1>u
  <2> QED
    BY <2>1, <2>2, <2>3, <1>i, OrderFrame
<1>6. CASE HandlerSend
  <2> DEFINE frame == [seq |-> h.sess.next, change |-> h.change]
  <2>1. /\ UNCHANGED <<a, appliedIds, sCursor, pending, versions>>
        /\ toAgent' = [toAgent EXCEPT ![h.conn] = Append(toAgent[h.conn], frame)]
    BY <1>6 DEF HandlerSend, HandlerOnly, ServerOnly, agentVars, queueVars
  <2>2. /\ h.pc = "send" /\ h.conn \in Conns /\ h'.pc = "recv"
        /\ h.sess \in Session /\ h.change \in Change
    BY <1>6 DEF HandlerSend, TypeOK, HandlerType
  <2>3. frame \in Frame /\ frame.seq = h.sess.next /\ frame.change = h.change
    BY <2>2, SendPolicyType DEF Frame
  <2>4. h.change.id = Dropped + 1 /\ Dropped < Published
    BY <2>2, QueueFacts DEF QueueInv
  <2>5. Dropped' = Dropped /\ Published' = Published /\ Applied' = Applied
    BY <2>1, <1>u DEF Applied
  <2> HIDE DEF frame
  <2>6. FramesInv'
    <3>1. a.pc = "apply" => InOrder(a.msg)'
      BY <2>1, <2>5, <1>i DEF FramesInv, InOrder
    <3>2. ASSUME a.conn # NoConn, toAgent'[a.conn] # <<>>
          PROVE  InOrder(Head(toAgent[a.conn]))'
      <4>1. CASE a.conn # h.conn
        <5>1. toAgent'[a.conn] = toAgent[a.conn]
          BY <2>1, <3>2, <4>1, ConnTypes
        <5> QED
          BY <2>1, <2>5, <3>2, <5>1, <1>i DEF FramesInv, InOrder
      <4>2. CASE a.conn = h.conn
        <5>1. toAgent[a.conn] = <<>>
          BY <2>2, <3>2, <4>2, ConnTypes DEF ConnInv, Queued, Accepted, Quiet
        <5>2. Head(toAgent'[a.conn]) = frame
          BY <2>1, <2>2, <2>3, <4>2, <5>1, ConnTypes, AppendToEmpty
        <5>3. \A j \in 1..Applied : j < h.sess.next => appliedIds[j] <= Dropped
          BY <2>2, <1>i DEF NextInv
        <5>4. \A j \in 1..Applied : j < frame.seq => appliedIds[j] < frame.change.id
          BY <2>3, <2>4, <5>3, <1>q, <1>t
        <5>5. frame.change.id <= Dropped + 1 /\ frame.change.id <= Published
          BY <2>3, <2>4, <1>q
        <5> QED
          BY <2>1, <2>5, <5>2, <5>4, <5>5 DEF InOrder
      <4> QED
        BY <4>1, <4>2
    <3> QED
      BY <2>1, <3>1, <3>2 DEF FramesInv
  <2>7. NextInv'
    BY <2>2 DEF NextInv
  <2> QED
    BY <2>1, <2>5, <2>6, <2>7, <1>i DEF IdsInv, AppliedInOrder
<1>7. CASE HandlerCommit
  <2>1. Published' = Published /\ Dropped' = Dropped + 1
    BY <1>7, CommitDrops
  <2>2. UNCHANGED <<a, toAgent, appliedIds>>
    BY <1>7 DEF HandlerCommit, HandlerOnly, ServerOnly, agentVars
  <2>3. Applied' = Applied
    BY <2>2 DEF Applied
  <2>4. \A j \in 1..Applied : appliedIds[j] <= Dropped'
    BY <2>1, <1>i, <1>q, <1>t DEF IdsInv
  <2>5. IdsInv'
    <3>1. \A j \in 1..Applied : appliedIds[j] <= Dropped' + 1
      BY <2>1, <2>4, <1>q, <1>t
    <3> QED
      BY <2>1, <2>2, <2>3, <2>4, <3>1, <1>i DEF IdsInv
  <2>6. NextInv'
    BY <2>2, <2>3, <2>4 DEF NextInv
  <2>7. FramesInv'
    <3>1. ASSUME a.conn # NoConn, toAgent[a.conn] # <<>>
          PROVE  InOrder(Head(toAgent[a.conn]))'
      BY <2>1, <2>2, <2>3, <3>1, <1>i, <1>q, OrderTypes DEF FramesInv, InOrder
    <3>2. a.pc = "apply" => InOrder(a.msg)'
      BY <2>1, <2>2, <2>3, <1>i, <1>q, OrderTypes DEF FramesInv, InOrder
    <3> QED
      BY <2>2, <3>1, <3>2 DEF FramesInv
  <2> QED
    BY <2>2, <2>5, <2>6, <2>7, <1>i DEF AppliedInOrder
<1>8. CASE ServerRestart
  <2>1. UNCHANGED <<a, toAgent, appliedIds, versions>> /\ pending' = <<>>
    BY <1>8 DEF ServerRestart, ServerOnly, agentVars
  <2>2. Published' = Published /\ Dropped' = Published /\ Applied' = Applied
    BY <2>1, <1>q DEF Published, Dropped, Applied
  <2>3. IdsInv'
    BY <2>1, <2>2, <1>i, <1>q, <1>t DEF IdsInv
  <2>4. NextInv'
    BY <1>8, <1>n DEF NextInv, ServerRestart, HandlerReturn
  <2>5. FramesInv'
    <3>1. ASSUME a.conn # NoConn, toAgent[a.conn] # <<>>
          PROVE  InOrder(Head(toAgent[a.conn]))'
      BY <2>1, <2>2, <3>1, <1>i, <1>q, OrderTypes DEF FramesInv, InOrder
    <3>2. a.pc = "apply" => InOrder(a.msg)'
      BY <2>1, <2>2, <1>i, <1>q, OrderTypes DEF FramesInv, InOrder
    <3> QED
      BY <2>1, <3>1, <3>2 DEF FramesInv
  <2> QED
    BY <2>1, <2>3, <2>4, <2>5, <1>i DEF AppliedInOrder
<1>9. CASE Dial
  <2>1. UNCHANGED <<h, appliedIds, sCursor, pending, versions>>
    BY <1>9 DEF Dial, AgentOnly, queueVars
  <2>2. PICK c \in Conns :
          /\ a' = [Dialing EXCEPT !.pc = "recv", !.conn = c,
                                  !.sess = NewSession(aCursor, 0)]
          /\ toAgent' = [toAgent EXCEPT ![c] = <<>>]
    BY <1>9 DEF Dial
  <2>3. a'.pc = "recv" /\ a'.conn = c /\ toAgent'[c] = <<>>
    BY <2>2, IdleType, ConnTypes DEF Dialing
  <2>4. Dropped <= Dropped' /\ Published <= Published'
    BY <2>1, <1>q, <1>u
  <2> QED
    BY <2>1, <2>3, <2>4, <1>i, OrderFrame
<1>10. CASE AgentReceive
  <2> DEFINE message == Head(toAgent[a.conn])
  <2>1. /\ UNCHANGED <<h, appliedIds, sCursor, pending, versions>>
        /\ toAgent' = [toAgent EXCEPT ![a.conn] = Tail(toAgent[a.conn])]
        /\ toAgent[a.conn] # <<>> /\ a.pc = "recv" /\ a.conn \in Conns
    BY <1>10 DEF AgentReceive, AgentOnly, queueVars, TypeOK, AgentType
  <2>2. Len(toAgent[a.conn]) = 1
    BY <2>1, ConnAssumption DEF ConnInv, Quiet, OneToken
  <2>3. toAgent'[a.conn] = <<>>
    BY <2>1, <2>2, ConnTypes, OneElement
  <2>4. Dropped' = Dropped /\ Published' = Published /\ Applied' = Applied
    BY <2>1, <1>u DEF Applied
  <2>5. InOrder(message)
    BY <2>1, <1>i, ConnAssumption DEF FramesInv
  <2>6. a'.conn \in {a.conn, NoConn} /\ (a'.pc = "apply" => a'.msg = message)
    BY <1>10, <2>1, <1>n DEF AgentReceive, Disconnect, TypeOK, AgentType
  <2> HIDE DEF message
  <2>7. FramesInv'
    BY <2>1, <2>3, <2>4, <2>5, <2>6 DEF FramesInv, InOrder
  <2> QED
    BY <2>1, <2>4, <2>7, <1>i DEF IdsInv, NextInv, AppliedInOrder
<1>11. CASE AgentApply
  <2> DEFINE q == a.msg.seq
  <2>1. UNCHANGED <<h, sCursor, pending, versions, toAgent>>
    BY <1>11 DEF AgentApply, AgentOnly, netVars, queueVars
  <2>2. a.pc = "apply" /\ a'.pc = "save" /\ a'.conn = a.conn /\ a.conn # NoConn
    BY <1>11 DEF AgentApply, TypeOK, AgentType
  <2>3. /\ q \in {Applied, Applied + 1} /\ q \in Nat \ {0} /\ Applied' = q
        /\ q = aCursor + 1 /\ appliedIds'[q] = a.msg.change.id
        /\ \A j \in 1..Applied : j # q => appliedIds'[j] = appliedIds[j]
    BY <1>11, ApplyRecords, CursorTypes
  <2>4. sCursor < q
    <3>1. sCursor <= aCursor /\ sCursor \in Nat /\ aCursor \in Nat
      BY CursorTypes DEF AckInv, CountInv, Acked
    <3> QED
      BY <2>3, <3>1
  <2>5. InOrder(a.msg) /\ a.msg.change.id \in Nat
    BY <2>2, <1>i, OrderTypes DEF FramesInv
  <2>6. Served /\ h.pc \in {"none", "recv"} /\ toAgent[a.conn] = <<>>
    BY <2>2 DEF ConnInv, Quiet, OneToken
  <2>7. Dropped' = Dropped /\ Published' = Published
    BY <2>1, <1>u
  <2> DEFINE id == a.msg.change.id
  <2>8. /\ id <= Dropped + 1 /\ id <= Published /\ id \in Nat
        /\ \A j \in 1..Applied : j < q => appliedIds[j] < id
    BY <2>5 DEF InOrder
  <2>9. appliedIds'[q] = id
    BY <2>3
  <2> HIDE DEF q, id
  <2>10. \A j \in 1..Applied' :
           j = q \/ (j \in 1..Applied /\ j < q /\ appliedIds'[j] = appliedIds[j])
    BY <2>3, CursorTypes
  <2>11. IdsInv'
    <3> SUFFICES ASSUME NEW j \in 1..Applied'
                 PROVE  /\ appliedIds'[j] <= Dropped + 1 /\ appliedIds'[j] <= Published
                        /\ j <= sCursor => appliedIds'[j] <= Dropped
      BY <2>1, <2>7 DEF IdsInv
    <3>1. CASE j = q
      BY <2>3, <2>4, <2>8, <2>9, <3>1, CursorTypes
    <3>2. CASE j # q
      BY <2>10, <3>2, <1>i DEF IdsInv
    <3> QED
      BY <3>1, <3>2
  <2>12. AppliedInOrder'
    <3> SUFFICES ASSUME NEW i \in 1..Applied', NEW j \in 1..Applied', i < j
                 PROVE  appliedIds'[i] < appliedIds'[j]
      BY DEF AppliedInOrder, Applied
    <3>1. i \in 1..Applied /\ i < q /\ appliedIds'[i] = appliedIds[i]
      BY <2>3, <2>10
    <3>2. CASE j = q
      BY <2>8, <2>9, <3>1, <3>2
    <3>3. CASE j # q
      BY <2>10, <3>1, <3>3, <1>i DEF AppliedInOrder, Applied
    <3> QED
      BY <3>2, <3>3
  <2>13. NextInv'
    BY <2>1, <2>6 DEF NextInv
  <2>14. FramesInv'
    BY <2>1, <2>2, <2>6 DEF FramesInv
  <2> QED
    BY <2>11, <2>12, <2>13, <2>14
<1>12. CASE AgentSave \/ AgentAck \/ AgentReceiveFails \/ AgentApplyFails
            \/ AgentObserve \/ AgentSaveFails \/ AgentRestart
  <2>1. UNCHANGED <<h, appliedIds, sCursor, pending, versions, toAgent>>
    BY <1>12 DEF AgentSave, AgentAck, AgentReceiveFails, AgentApplyFails,
       AgentObserve, AgentSaveFails, AgentRestart, AgentOnly, netVars, queueVars
  <2>2. a'.conn \in {a.conn, NoConn} /\ a'.pc # "apply"
    BY <1>12, <1>n DEF AgentSave, AgentAck, AgentReceiveFails, AgentApplyFails,
       AgentObserve, AgentSaveFails, AgentRestart, Disconnect, TypeOK, AgentType
  <2>3. Dropped <= Dropped' /\ Published <= Published'
    BY <2>1, <1>q, <1>u
  <2> QED
    BY <2>1, <2>2, <2>3, <1>i, OrderFrame
<1> QED
  BY <1>1, <1>2, <1>3, <1>4, <1>5, <1>6, <1>7, <1>8, <1>9, <1>10, <1>11, <1>12
     DEF Next, Handler, Agent

(* Every frame and every change in the agent's hands is newer than what    *)
(* was applied under a lower sequence, and the queue newer still.          *)
THEOREM OrderInvariant == Spec => []OrderInv
<1>1. Init => OrderInv
  BY IdleType DEF Init, OrderInv, IdsInv, NextInv, FramesInv, AppliedInOrder, Applied
<1>2. TypeOK /\ TypeOK' /\ AckInv /\ ConnInv /\ QueueInv /\ QueueInv' /\ OrderInv
        /\ [Next]_vars => OrderInv'
  BY OrderStep
<1> QED
  BY <1>1, <1>2, TypeCorrect, AckInvariant, OneTokenPerConnection,
     QueueInvariant, PTL DEF Spec

(* The agent applies the changes in the order in which they were           *)
(* published, even when the server loses its cursor and its queue in a     *)
(* restart and numbers its frames from the beginning.                      *)
THEOREM AppliedInOrderHolds == Spec => []AppliedInOrder
<1>1. OrderInv => AppliedInOrder
  BY DEF OrderInv, AppliedInOrder
<1> QED
  BY <1>1, OrderInvariant, PTL
-----------------------------------------------------------------------------
(* The changes that are lost.  The server can commit a change the agent    *)
(* skipped only if the sequence it bears was applied with an older change; *)
(* that is a debt one restart of the server leaves, in the agent's cursor  *)
(* or in a frame still on its way, and the next commit settles.            *)

Stale(m) == m.seq = sCursor + 1 /\ m.change.id <= Dropped

Debt ==
    \/ Applied = sCursor + 1 /\ appliedIds[Applied] <= Dropped
    \/ a.conn # NoConn /\ toAgent[a.conn] # <<>> /\ Stale(Head(toAgent[a.conn]))
    \/ a.pc = "apply" /\ Stale(a.msg)

LossInv ==
    CursorsKept =>
        /\ IsFiniteSet(lost) /\ Cardinality(lost) <= used.serverRestarts
        /\ Debt => Cardinality(lost) < used.serverRestarts

(* Steps that put nothing new into the agent's hands leave no debt. *)
LEMMA DebtFrame ==
    ASSUME UNCHANGED <<appliedIds, sCursor>>, Dropped' = Dropped,
           a'.conn # NoConn /\ toAgent'[a'.conn] # <<>> =>
             a'.conn = a.conn /\ toAgent'[a'.conn] = toAgent[a.conn],
           a'.pc = "apply" => a' = a,
           Debt'
    PROVE  Debt
BY DEF Debt, Stale, Applied

(* Only a restart of the server can leave a debt; a commit settles it, and *)
(* loses a change only if there was one.                                   *)
LEMMA DebtStep ==
    ASSUME TypeOK, TypeOK', AckInv, CursorInv, ConnInv, QueueInv, OrderInv,
           CursorsKept, [Next]_vars
    PROVE  \/ lost' = lost /\ (Debt' => Debt)
           \/ ServerRestart /\ lost' = lost
           \/ ~Debt' /\ Debt /\ \E x \in Nat : lost' = lost \cup {x}
<1>k. AgentCursorFile /\ WindowInv /\ FrameInv /\ HandlerInv
  BY KeptByServer DEF CursorInv
<1>i. IdsInv /\ NextInv /\ FramesInv
  BY <1>k DEF OrderInv
<1>a. CountInv /\ AckHeldInv /\ AgentInv
  BY DEF AckInv
<1>t. /\ sCursor \in Nat /\ aCursor \in Nat /\ aFile \in Nat /\ Applied \in Nat
      /\ h.ack \in Nat
  BY CursorTypes
<1>n. NoHandler.pc = "none" /\ Dialing.pc = "dial" /\ Dialing.conn = NoConn
  BY IdleType
<1>q. Dropped \in Nat /\ Published \in Nat
  BY QueueFacts
<1>u. UNCHANGED <<pending, versions>> => Dropped' = Dropped
  BY DEF Dropped, Published
<1>1. CASE Publish
  <2>1. Dropped' = Dropped
    BY <1>1, PublishAdds
  <2>2. UNCHANGED <<a, toAgent, appliedIds, sCursor, lost>>
    BY <1>1 DEF Publish, serverVars, agentVars, netVars
  <2> QED
    BY <2>1, <2>2, DebtFrame
<1>2. CASE Signal \/ Accept \/ Break \/ UNCHANGED vars
  <2>1. UNCHANGED <<a, toAgent, appliedIds, sCursor, pending, versions, lost>>
    BY <1>2 DEF Signal, PublishSignal, Accept, ServerOnly, Break, vars,
       serverVars, agentVars, netVars, queueVars
  <2> QED
    BY <2>1, <1>u, DebtFrame
<1>3. CASE StartHandler \/ HandlerNext \/ HandlerWait \/ HandlerSendFails
           \/ HandlerReceive \/ HandlerReceiveFails \/ HandlerSave \/ HandlerSaveFails
  <2>1. UNCHANGED <<a, toAgent, appliedIds, sCursor, pending, versions, lost>>
    BY <1>3 DEF StartHandler, HandlerNext, HandlerWait, TakeToken,
       HandlerSendFails, HandlerReceive, HandlerReceiveFails, HandlerSave,
       HandlerSaveFails, HandlerOnly, ServerOnly, agentVars, queueVars
  <2> QED
    BY <2>1, <1>u, DebtFrame
<1>4. CASE HandlerSend
  <2> DEFINE frame == [seq |-> h.sess.next, change |-> h.change]
  <2>1. /\ UNCHANGED <<a, appliedIds, sCursor, pending, versions, lost>>
        /\ toAgent' = [toAgent EXCEPT ![h.conn] = Append(toAgent[h.conn], frame)]
    BY <1>4 DEF HandlerSend, HandlerOnly, ServerOnly, agentVars, queueVars
  <2>2. /\ h.pc = "send" /\ h.conn \in Conns
        /\ h.sess \in Session /\ h.change \in Change
    BY <1>4 DEF HandlerSend, TypeOK, HandlerType
  <2>3. frame \in Frame /\ frame.change = h.change
    BY <2>2, SendPolicyType DEF Frame
  <2>4. h.change.id = Dropped + 1 /\ Dropped' = Dropped
    BY <2>1, <2>2, <1>u, QueueFacts DEF QueueInv
  <2> HIDE DEF frame
  <2>5. Debt' => Debt
    <3>1. CASE a.conn = h.conn
      <4>1. toAgent[a.conn] = <<>> /\ a.pc = "recv"
        BY <2>2, <3>1, ConnTypes DEF ConnInv, Queued, Accepted, Quiet
      <4>2. Head(toAgent'[a.conn]) = frame
        BY <2>1, <2>2, <2>3, <3>1, <4>1, ConnTypes, AppendToEmpty
      <4>3. ~(Head(toAgent'[a.conn]).change.id <= Dropped)
        BY <2>3, <2>4, <4>2, <1>q
      <4> QED
        BY <2>1, <2>4, <4>1, <4>3 DEF Debt, Stale, Applied
    <3>2. CASE a.conn # h.conn
      <4>1. a.conn # NoConn => toAgent'[a.conn] = toAgent[a.conn]
        BY <2>1, <3>2, ConnTypes
      <4> QED
        BY <2>1, <2>4, <4>1, DebtFrame
    <3> QED
      BY <3>1, <3>2
  <2> QED
    BY <2>1, <2>5
<1>5. CASE HandlerCommit
  <2>1. h.change.id = Dropped + 1 /\ Dropped' = Dropped + 1
    BY <1>5, CommitDrops
  <2>2. UNCHANGED <<a, toAgent, appliedIds>> /\ h.pc = "commit" /\ sCursor' = h.ack
    BY <1>5 DEF HandlerCommit, HandlerOnly, ServerOnly, agentVars
  <2>3. h.ack = sCursor + 1 /\ Applied = sCursor + 1
    BY <2>2, <1>k, <1>a, <1>t
       DEF HandlerInv, WindowInv, CountInv, AckHeldInv, Acked
  <2>4. a.pc # "apply" /\ (a.conn # NoConn => toAgent[a.conn] = <<>>)
    BY <2>2, ConnTypes DEF ConnInv, Quiet
  <2>5. ~Debt'
    <3>1. Applied' # sCursor' + 1
      BY <2>2, <2>3, <1>t DEF Applied
    <3> QED
      BY <2>2, <2>4, <3>1 DEF Debt
  <2>6. CASE \E j \in 1..Len(appliedIds) : appliedIds[j] = h.change.id
    BY <1>5, <2>5, <2>6 DEF HandlerCommit
  <2>7. CASE ~\E j \in 1..Len(appliedIds) : appliedIds[j] = h.change.id
    <3>1. Applied \in 1..Applied /\ appliedIds[Applied] # Dropped + 1
      BY <2>1, <2>3, <2>7, <1>t DEF Applied
    <3>2. appliedIds[Applied] <= Dropped + 1 /\ appliedIds[Applied] \in Nat
      BY <3>1, <1>i, OrderTypes DEF IdsInv
    <3>3. Debt
      BY <2>3, <3>1, <3>2, <1>q DEF Debt
    <3>4. lost' = lost \cup {h.change.id} /\ h.change.id \in Nat
      BY <1>5, <2>1, <2>7, <1>q DEF HandlerCommit
    <3> QED
      BY <2>5, <3>3, <3>4
  <2> QED
    BY <2>6, <2>7
<1>6. CASE ServerRestart
  BY <1>6 DEF ServerRestart
<1>7. CASE Dial
  <2>1. UNCHANGED <<appliedIds, sCursor, pending, versions, lost>>
    BY <1>7 DEF Dial, AgentOnly, queueVars
  <2>2. PICK c \in Conns :
          /\ a' = [Dialing EXCEPT !.pc = "recv", !.conn = c,
                                  !.sess = NewSession(aCursor, 0)]
          /\ toAgent' = [toAgent EXCEPT ![c] = <<>>]
    BY <1>7 DEF Dial
  <2>3. a'.pc = "recv" /\ a'.conn = c /\ toAgent'[c] = <<>>
    BY <2>2, IdleType, ConnTypes DEF Dialing
  <2> QED
    BY <2>1, <2>3, <1>u, DebtFrame
<1>8. CASE AgentReceive
  <2> DEFINE message == Head(toAgent[a.conn])
  <2>1. /\ UNCHANGED <<appliedIds, sCursor, pending, versions, lost>>
        /\ toAgent' = [toAgent EXCEPT ![a.conn] = Tail(toAgent[a.conn])]
        /\ toAgent[a.conn] # <<>> /\ a.pc = "recv" /\ a.conn \in Conns
    BY <1>8 DEF AgentReceive, AgentOnly, queueVars, TypeOK, AgentType
  <2>2. Len(toAgent[a.conn]) = 1
    BY <2>1, ConnAssumption DEF ConnInv, Quiet, OneToken
  <2>3. toAgent'[a.conn] = <<>>
    BY <2>1, <2>2, ConnTypes, OneElement
  <2>4. a'.conn \in {a.conn, NoConn} /\ (a'.pc = "apply" => a'.msg = message)
    BY <1>8, <2>1, <1>n DEF AgentReceive, Disconnect, TypeOK, AgentType
  <2>5. Stale(message) => Debt
    BY <2>1, ConnAssumption DEF Debt
  <2> HIDE DEF message
  <2>6. Debt' => Debt
    BY <2>1, <2>3, <2>4, <2>5, <1>u DEF Debt, Stale, Applied
  <2> QED
    BY <2>1, <2>6
<1>9. CASE AgentApply
  <2>1. UNCHANGED <<sCursor, pending, versions, toAgent, lost>>
    BY <1>9 DEF AgentApply, AgentOnly, netVars, queueVars
  <2>2. a.pc = "apply" /\ a'.pc = "save" /\ a'.conn = a.conn /\ a.conn # NoConn
    BY <1>9 DEF AgentApply, TypeOK, AgentType
  <2>3. /\ a.msg.seq = aCursor + 1 /\ appliedIds'[a.msg.seq] = a.msg.change.id
        /\ Applied' = IF a.msg.seq <= Applied THEN Applied ELSE Applied + 1
        /\ a.msg.seq \in 1..(Applied + 1)
    BY <1>9, ApplyRecords
  <2>4. a.msg.seq = sCursor + 1 /\ Applied' = sCursor + 1
    <3>1. /\ a.msg.seq <= sCursor + 1 /\ sCursor <= aCursor /\ Applied <= sCursor + 1
      BY <2>2, <1>k, <1>a DEF FrameInv, WindowInv, CountInv, Acked
    <3> QED
      BY <2>3, <3>1, <1>t
  <2>5. toAgent[a.conn] = <<>>
    BY <2>2 DEF ConnInv, Quiet, OneToken
  <2>6. Debt' => a.msg.change.id <= Dropped
    BY <2>1, <2>2, <2>3, <2>4, <2>5, <1>u DEF Debt
  <2>7. Debt' => Debt
    BY <2>2, <2>4, <2>6 DEF Debt, Stale
  <2> QED
    BY <2>1, <2>7
<1>10. CASE AgentSave \/ AgentAck \/ AgentReceiveFails \/ AgentApplyFails
            \/ AgentObserve \/ AgentSaveFails \/ AgentRestart
  <2>1. UNCHANGED <<appliedIds, sCursor, pending, versions, toAgent, lost>>
    BY <1>10 DEF AgentSave, AgentAck, AgentReceiveFails, AgentApplyFails,
       AgentObserve, AgentSaveFails, AgentRestart, AgentOnly, netVars, queueVars
  <2>2. a'.conn \in {a.conn, NoConn} /\ a'.pc # "apply"
    BY <1>10, <1>n DEF AgentSave, AgentAck, AgentReceiveFails, AgentApplyFails,
       AgentObserve, AgentSaveFails, AgentRestart, Disconnect, TypeOK, AgentType
  <2> QED
    BY <2>1, <2>2, <1>u, DebtFrame
<1> QED
  BY <1>1, <1>2, <1>3, <1>4, <1>5, <1>6, <1>7, <1>8, <1>9, <1>10
     DEF Next, Handler, Agent

(* A step of the stream keeps the account. *)
LEMMA LossStep ==
    ASSUME TypeOK, TypeOK', AckInv, CursorInv, ConnInv, QueueInv, OrderInv,
           LossInv, [Next]_vars
    PROVE  LossInv'
<1> SUFFICES ASSUME CursorsKept'
             PROVE  /\ IsFiniteSet(lost') /\ Cardinality(lost') <= used'.serverRestarts
                    /\ Debt' => Cardinality(lost') < used'.serverRestarts
  BY DEF LossInv
<1>1. /\ used.serverRestarts \in Nat
      /\ \/ used'.serverRestarts = used.serverRestarts
         \/ ServerRestart /\ used'.serverRestarts = used.serverRestarts + 1
  BY RestartsGrow
<1>2. CursorsKept
  BY <1>1 DEF CursorsKept
<1>3. /\ IsFiniteSet(lost) /\ Cardinality(lost) <= used.serverRestarts
      /\ Debt => Cardinality(lost) < used.serverRestarts
  BY <1>2 DEF LossInv
<1>4. Cardinality(lost) \in Nat
  BY <1>3, FS_CardinalityType
<1>5. \/ lost' = lost /\ (Debt' => Debt)
      \/ ServerRestart /\ lost' = lost
      \/ ~Debt' /\ Debt /\ \E x \in Nat : lost' = lost \cup {x}
  BY <1>2, DebtStep
<1>6. CASE lost' = lost /\ (Debt' => Debt)
  BY <1>1, <1>3, <1>4, <1>6
<1>7. CASE ServerRestart /\ lost' = lost
  <2>1. used'.serverRestarts = used.serverRestarts + 1
    BY <1>7 DEF ServerRestart, TypeOK, Usage
  <2> QED
    BY <1>1, <1>3, <1>4, <1>7, <2>1
<1>8. CASE ~Debt' /\ Debt /\ \E x \in Nat : lost' = lost \cup {x}
  <2>1. PICK x \in Nat : lost' = lost \cup {x}
    BY <1>8
  <2>2. /\ IsFiniteSet(lost \cup {x})
        /\ Cardinality(lost \cup {x}) = IF x \in lost THEN Cardinality(lost)
                                        ELSE Cardinality(lost) + 1
    BY <1>3, FS_AddElement
  <2>3. /\ IsFiniteSet(lost') /\ Cardinality(lost') \in Nat
        /\ Cardinality(lost') <= Cardinality(lost) + 1
    BY <2>1, <2>2, <1>4
  <2> QED
    BY <1>1, <1>3, <1>4, <1>8, <2>3
<1> QED
  BY <1>5, <1>6, <1>7, <1>8

(* A change skipped unread is paid for by a restart of the server, and     *)
(* while another one may still be skipped, a restart is left to pay for it.*)
THEOREM LossInvariant == Spec => []LossInv
<1>1. Init => LossInv
  <2> SUFFICES ASSUME Init
               PROVE  /\ IsFiniteSet(lost) /\ Cardinality(lost) <= used.serverRestarts
                      /\ ~Debt
    BY DEF LossInv
  <2>1. lost = {} /\ used.serverRestarts = 0 /\ appliedIds = <<>> /\ sCursor = 0
    BY DEF Init
  <2>2. ~Debt
    BY <2>1, IdleType DEF Init, Debt, Applied
  <2> QED
    BY <2>1, <2>2, FS_EmptySet
<1>2. TypeOK /\ TypeOK' /\ AckInv /\ CursorInv /\ ConnInv /\ QueueInv /\ OrderInv
        /\ LossInv /\ [Next]_vars => LossInv'
  BY LossStep
<1> QED
  BY <1>1, <1>2, TypeCorrect, AckInvariant, CursorInvariant,
     OneTokenPerConnection, QueueInvariant, OrderInvariant, PTL DEF Spec

(* However long the stream runs, each restart of the server makes          *)
(* handleSync commit at most one change that consume acknowledged unread.  *)
THEOREM SilentLossBounded == Spec => []SilentLossBound
<1>1. LossInv => SilentLossBound
  BY DEF LossInv, SilentLossBound
<1> QED
  BY <1>1, LossInvariant, PTL
-----------------------------------------------------------------------------
(* The policies.  While the server stays up, sequences and changes are     *)
(* numbered alike, and every change on its way makes the version of its    *)
(* number out of the one before, so applying it once or twice on top of    *)
(* that version has the same outcome.                                      *)

(* Change c turned version c.id - 1 of the log into version c.id. *)
Makes(log, c) ==
    c.id \in 1..(Len(log) - 1) /\ log[c.id + 1] = Effect(log[c.id], c)

(* The message in flight is the next one for the server's cursor. *)
Current(m) ==
    m.seq = sCursor + 1 /\ m.change.id = m.seq /\ Makes(versions, m.change)

PendingVersions ==
    Dropped = sCursor /\ \A i \in 1..Len(pending) : Makes(versions, pending[i])

FlightInv ==
    /\ a.conn # NoConn /\ toAgent[a.conn] # <<>> => Current(Head(toAgent[a.conn]))
    /\ a.pc = "apply" => Current(a.msg)

NumbersInv == Applied <= Published /\ \A j \in 1..Applied : appliedIds[j] = j

StreamInv ==
    used.serverRestarts = 0 => PendingVersions /\ FlightInv /\ NumbersInv

(* A later version does not disturb the earlier ones. *)
LEMMA MakesLater ==
    ASSUME NEW log \in Seq(Store), NEW s \in Store, NEW c \in Change, Makes(log, c)
    PROVE  Makes(Append(log, s), c)
<1>1. c.id \in Nat \ {0} /\ c.id + 1 \in 1..Len(log) /\ c.id \in 1..Len(log)
  BY DEF Makes, Change
<1>2. Append(log, s)[c.id] = log[c.id] /\ Append(log, s)[c.id + 1] = log[c.id + 1]
  BY <1>1, LastOf
<1>3. Len(Append(log, s)) = Len(log) + 1 /\ Len(log) \in Nat
  BY LastOf
<1> QED
  BY <1>1, <1>2, <1>3 DEF Makes

(* A publish appends the version its change makes. *)
LEMMA MakesNew ==
    ASSUME NEW log \in Seq(Store), log # <<>>, NEW c \in Change, c.id = Len(log)
    PROVE  Makes(Append(log, Effect(log[Len(log)], c)), c)
<1>1. Len(log) \in Nat \ {0} /\ log[Len(log)] \in Store
  BY LastOf
<1>2. Effect(log[Len(log)], c) \in Store
  BY <1>1, EffectType
<1> DEFINE e == Effect(log[Len(log)], c)
<1> HIDE DEF e
<1>3. /\ Len(Append(log, e)) = Len(log) + 1 /\ Append(log, e)[Len(log) + 1] = e
      /\ Append(log, e)[Len(log)] = log[Len(log)]
  BY <1>1, <1>2, LastOf DEF e
<1> QED
  BY <1>1, <1>3 DEF Makes, e

(* policyStoreAdapter.Apply is idempotent. *)
LEMMA EffectIdempotent ==
    ASSUME NEW s \in Store, NEW c \in Change
    PROVE  Effect(Effect(s, c), c) = Effect(s, c)
<1>1. c.item \in Items /\ c.op \in {"add", "addUntil", "remove"}
  BY DEF Change, Ops
<1>2. CASE c.op = "add"
  BY <1>1, <1>2 DEF Effect, Store
<1>3. CASE c.op = "addUntil"
  BY <1>1, <1>3 DEF Effect, Store
<1>4. CASE c.op = "remove"
  BY <1>1, <1>4 DEF Effect, Store
<1> QED
  BY <1>1, <1>2, <1>3, <1>4

(* Steps that neither number nor deliver anything. *)
LEMMA StreamFrame ==
    ASSUME PendingVersions, FlightInv, NumbersInv,
           UNCHANGED <<pending, versions, appliedIds, sCursor>>,
           a'.conn # NoConn /\ toAgent'[a'.conn] # <<>> =>
             a'.conn = a.conn /\ toAgent'[a'.conn] = toAgent[a.conn],
           a'.pc = "apply" => a' = a
    PROVE  PendingVersions' /\ FlightInv' /\ NumbersInv'
<1>1. Dropped' = Dropped /\ Published' = Published /\ Applied' = Applied
  BY DEF Dropped, Published, Applied
<1>2. PendingVersions'
  BY <1>1 DEF PendingVersions
<1>3. FlightInv'
  BY DEF FlightInv, Current
<1>4. NumbersInv'
  BY <1>1 DEF NumbersInv
<1> QED
  BY <1>2, <1>3, <1>4

(* A step of the stream keeps the invariant. *)
LEMMA StreamStep ==
    ASSUME TypeOK, TypeOK', AckInv, CursorInv, ConnInv, QueueInv, StreamInv,
           [Next]_vars
    PROVE  StreamInv'
<1> SUFFICES ASSUME used'.serverRestarts = 0
             PROVE  PendingVersions' /\ FlightInv' /\ NumbersInv'
  BY DEF StreamInv
<1>r. used.serverRestarts = 0 /\ ~ServerRestart
  <2>1. /\ used.serverRestarts \in Nat
        /\ \/ used'.serverRestarts = used.serverRestarts
           \/ used'.serverRestarts = used.serverRestarts + 1
    BY RestartsGrow
  <2>2. ServerRestart => used'.serverRestarts = used.serverRestarts + 1
    BY DEF ServerRestart, TypeOK, Usage
  <2> QED
    BY <2>1, <2>2
<1>i. PendingVersions /\ FlightInv /\ NumbersInv
  BY <1>r DEF StreamInv
<1>k. WindowInv /\ FrameInv /\ HandlerInv
  BY <1>r DEF CursorInv, ServerKept
<1>t. sCursor \in Nat /\ Applied \in Nat
  BY CursorTypes
<1>v. /\ versions \in Seq(Store) /\ versions # <<>> /\ pending \in Seq(Change)
      /\ Len(versions) \in Nat \ {0} /\ Published = Len(versions) - 1
  BY LastOf DEF TypeOK, Published
<1>n. NoHandler.pc = "none" /\ Dialing.pc = "dial" /\ Dialing.conn = NoConn
  BY IdleType
<1>q. Dropped \in Nat /\ Published \in Nat
  BY QueueFacts
<1>1. CASE Publish
  <2>1. PICK c \in Change :
          /\ c.id = Published + 1 /\ pending' = Append(pending, c)
          /\ versions' = Append(versions, Effect(Version(Published), c))
          /\ Effect(Version(Published), c) \in Store
          /\ Published' = Published + 1 /\ Dropped' = Dropped
    BY <1>1, PublishAdds
  <2>2. UNCHANGED <<h, a, toAgent, appliedIds, sCursor>>
    BY <1>1 DEF Publish, serverVars, agentVars, netVars
  <2>3. \A d \in Change : Makes(versions, d) => Makes(versions', d)
    BY <2>1, <1>v, MakesLater
  <2>4. Makes(versions', c)
    <3>1. c.id = Len(versions) /\ Version(Published) = versions[Len(versions)]
      BY <2>1, <1>v DEF Version
    <3> QED
      BY <2>1, <3>1, <1>v, MakesNew
  <2>5. PendingVersions'
    <3>1. /\ Len(pending') = Len(pending) + 1 /\ pending'[Len(pending) + 1] = c
          /\ \A i \in 1..Len(pending) : pending'[i] = pending[i]
      BY <2>1, <1>v, LastOf
    <3>2. \A i \in 1..Len(pending) : pending[i] \in Change
      BY <1>v
    <3>3. \A i \in 1..Len(pending) : Makes(versions', pending'[i])
      BY <2>3, <3>1, <3>2, <1>i DEF PendingVersions
    <3>4. \A i \in 1..Len(pending') : i \in 1..Len(pending) \/ i = Len(pending) + 1
      BY <3>1, <1>v
    <3>5. \A i \in 1..Len(pending') : Makes(versions', pending'[i])
      BY <2>4, <3>1, <3>3, <3>4
    <3> QED
      BY <2>1, <2>2, <3>5, <1>i DEF PendingVersions
  <2>6. FlightInv'
    <3>1. ASSUME a.conn # NoConn, toAgent[a.conn] # <<>>
          PROVE  Current(Head(toAgent[a.conn]))'
      <4>1. Head(toAgent[a.conn]).change \in Change
        BY <3>1, OrderTypes DEF Frame
      <4> QED
        BY <2>2, <2>3, <3>1, <4>1, <1>i DEF FlightInv, Current
    <3>2. ASSUME a.pc = "apply"
          PROVE  Current(a.msg)'
      <4>1. a.msg.change \in Change
        BY <3>2, OrderTypes
      <4> QED
        BY <2>2, <2>3, <3>2, <4>1, <1>i DEF FlightInv, Current
    <3> QED
      BY <2>2, <3>1, <3>2 DEF FlightInv
  <2>7. NumbersInv'
    BY <2>1, <2>2, <1>i, <1>t, <1>q DEF NumbersInv, Applied
  <2> QED
    BY <2>5, <2>6, <2>7
<1>2. CASE Signal \/ Accept \/ Break \/ UNCHANGED vars
  <2>1. UNCHANGED <<a, toAgent, appliedIds, sCursor, pending, versions>>
    BY <1>2 DEF Signal, PublishSignal, Accept, ServerOnly, Break, vars,
       serverVars, agentVars, netVars, queueVars
  <2> QED
    BY <2>1, <1>i, StreamFrame
<1>3. CASE StartHandler \/ HandlerNext \/ HandlerWait \/ HandlerSendFails
           \/ HandlerReceive \/ HandlerReceiveFails \/ HandlerSave \/ HandlerSaveFails
  <2>1. UNCHANGED <<a, toAgent, appliedIds, sCursor, pending, versions>>
    BY <1>3 DEF StartHandler, HandlerNext, HandlerWait, TakeToken,
       HandlerSendFails, HandlerReceive, HandlerReceiveFails, HandlerSave,
       HandlerSaveFails, HandlerOnly, ServerOnly, agentVars, queueVars
  <2> QED
    BY <2>1, <1>i, StreamFrame
<1>4. CASE HandlerSend
  <2> DEFINE frame == [seq |-> h.sess.next, change |-> h.change]
  <2>1. /\ UNCHANGED <<a, appliedIds, sCursor, pending, versions>>
        /\ toAgent' = [toAgent EXCEPT ![h.conn] = Append(toAgent[h.conn], frame)]
    BY <1>4 DEF HandlerSend, HandlerOnly, ServerOnly, agentVars, queueVars
  <2>2. /\ h.pc = "send" /\ h.conn \in Conns
        /\ h.sess \in Session /\ h.change \in Change
    BY <1>4 DEF HandlerSend, TypeOK, HandlerType
  <2>3. frame \in Frame /\ frame.change = h.change /\ frame.seq = sCursor + 1
    BY <2>2, <1>k, SendPolicyType DEF Frame, HandlerInv
  <2>4. pending # <<>> /\ h.change = Head(pending) /\ h.change.id = Dropped + 1
    BY <2>2, QueueFacts DEF QueueInv
  <2>5. Makes(versions, h.change)
    <3>1. Head(pending) = pending[1] /\ 1 \in 1..Len(pending)
      BY <2>4, <1>v, LastOf
    <3> QED
      BY <2>4, <3>1, <1>i DEF PendingVersions
  <2>6. Current(frame)
    BY <2>3, <2>4, <2>5, <1>i DEF Current, PendingVersions
  <2> HIDE DEF frame
  <2>7. FlightInv'
    <3>1. a.pc = "apply" => Current(a.msg)'
      BY <2>1, <1>i DEF FlightInv, Current
    <3>2. ASSUME a.conn # NoConn, toAgent'[a.conn] # <<>>
          PROVE  Current(Head(toAgent[a.conn]))'
      <4>1. CASE a.conn # h.conn
        <5>1. toAgent'[a.conn] = toAgent[a.conn]
          BY <2>1, <3>2, <4>1, ConnTypes
        <5> QED
          BY <2>1, <3>2, <5>1, <1>i DEF FlightInv, Current
      <4>2. CASE a.conn = h.conn
        <5>1. toAgent[a.conn] = <<>>
          BY <2>2, <3>2, <4>2, ConnTypes DEF ConnInv, Queued, Accepted, Quiet
        <5>2. Head(toAgent'[a.conn]) = frame
          BY <2>1, <2>2, <2>3, <4>2, <5>1, ConnTypes, AppendToEmpty
        <5> QED
          BY <2>1, <2>6, <5>2 DEF Current
      <4> QED
        BY <4>1, <4>2
    <3> QED
      BY <2>1, <3>1, <3>2 DEF FlightInv
  <2>8. Dropped' = Dropped /\ Published' = Published /\ Applied' = Applied
    BY <2>1 DEF Dropped, Published, Applied
  <2> QED
    BY <2>1, <2>7, <2>8, <1>i DEF PendingVersions, NumbersInv
<1>5. CASE HandlerCommit
  <2>1. /\ pending # <<>> /\ pending' = Tail(pending)
        /\ Published' = Published /\ Dropped' = Dropped + 1
    BY <1>5, CommitDrops
  <2>2. /\ UNCHANGED <<a, toAgent, appliedIds, versions>>
        /\ h.pc = "commit" /\ sCursor' = h.ack
    BY <1>5 DEF HandlerCommit, HandlerOnly, ServerOnly, agentVars
  <2>3. h.ack = sCursor + 1
    BY <2>2, <1>k DEF HandlerInv
  <2>4. PendingVersions'
    <3>1. /\ Len(pending') = Len(pending) - 1 /\ Len(pending) \in Nat
          /\ \A i \in 1..(Len(pending) - 1) : pending'[i] = pending[i + 1]
      BY <2>1, <1>v, LastOf
    <3>2. \A i \in 1..Len(pending') :
            i + 1 \in 1..Len(pending) /\ pending'[i] = pending[i + 1]
      BY <3>1
    <3>3. \A i \in 1..Len(pending') : Makes(versions, pending'[i])
      BY <3>2, <1>i DEF PendingVersions
    <3> QED
      BY <2>1, <2>2, <2>3, <3>3, <1>i DEF PendingVersions
  <2>5. a.pc # "apply" /\ (a.conn # NoConn => toAgent[a.conn] = <<>>)
    BY <2>2, ConnTypes DEF ConnInv, Quiet
  <2>6. FlightInv'
    BY <2>2, <2>5 DEF FlightInv
  <2>7. NumbersInv'
    BY <2>1, <2>2, <1>i DEF NumbersInv, Applied
  <2> QED
    BY <2>4, <2>6, <2>7
<1>6. CASE Dial
  <2>1. UNCHANGED <<appliedIds, sCursor, pending, versions>>
    BY <1>6 DEF Dial, AgentOnly, queueVars
  <2>2. PICK c \in Conns :
          /\ a' = [Dialing EXCEPT !.pc = "recv", !.conn = c,
                                  !.sess = NewSession(aCursor, 0)]
          /\ toAgent' = [toAgent EXCEPT ![c] = <<>>]
    BY <1>6 DEF Dial
  <2>3. a'.pc = "recv" /\ a'.conn = c /\ toAgent'[c] = <<>>
    BY <2>2, IdleType, ConnTypes DEF Dialing
  <2> QED
    BY <2>1, <2>3, <1>i, StreamFrame
<1>7. CASE AgentReceive
  <2> DEFINE message == Head(toAgent[a.conn])
  <2>1. /\ UNCHANGED <<appliedIds, sCursor, pending, versions>>
        /\ toAgent' = [toAgent EXCEPT ![a.conn] = Tail(toAgent[a.conn])]
        /\ toAgent[a.conn] # <<>> /\ a.pc = "recv" /\ a.conn \in Conns
    BY <1>7 DEF AgentReceive, AgentOnly, queueVars, TypeOK, AgentType
  <2>2. Len(toAgent[a.conn]) = 1
    BY <2>1, ConnAssumption DEF ConnInv, Quiet, OneToken
  <2>3. toAgent'[a.conn] = <<>>
    BY <2>1, <2>2, ConnTypes, OneElement
  <2>4. a'.conn \in {a.conn, NoConn} /\ (a'.pc = "apply" => a'.msg = message)
    BY <1>7, <2>1, <1>n DEF AgentReceive, Disconnect, TypeOK, AgentType
  <2>5. Current(message)
    BY <2>1, <1>i, ConnAssumption DEF FlightInv
  <2> HIDE DEF message
  <2>6. FlightInv'
    BY <2>1, <2>3, <2>4, <2>5 DEF FlightInv, Current
  <2>7. Dropped' = Dropped /\ Published' = Published /\ Applied' = Applied
    BY <2>1 DEF Dropped, Published, Applied
  <2> QED
    BY <2>1, <2>6, <2>7, <1>i DEF PendingVersions, NumbersInv
<1>8. CASE AgentApply
  <2>1. UNCHANGED <<sCursor, pending, versions, toAgent>>
    BY <1>8 DEF AgentApply, AgentOnly, netVars, queueVars
  <2>2. a.pc = "apply" /\ a'.pc = "save" /\ a'.conn = a.conn /\ a.conn # NoConn
    BY <1>8 DEF AgentApply, TypeOK, AgentType
  <2>3. /\ a.msg.seq \in 1..(Applied + 1)
        /\ Applied' = IF a.msg.seq <= Applied THEN Applied ELSE Applied + 1
        /\ appliedIds'[a.msg.seq] = a.msg.change.id
        /\ \A j \in 1..Applied : j # a.msg.seq => appliedIds'[j] = appliedIds[j]
    BY <1>8, ApplyRecords
  <2>4. a.msg.change.id = a.msg.seq /\ a.msg.seq <= Published
    BY <2>2, <1>i, <1>v DEF FlightInv, Current, Makes
  <2>5. toAgent[a.conn] = <<>>
    BY <2>2 DEF ConnInv, Quiet, OneToken
  <2>6. FlightInv'
    BY <2>1, <2>2, <2>5 DEF FlightInv
  <2>7. Published' = Published /\ Dropped' = Dropped
    BY <2>1 DEF Published, Dropped
  <2>8. \A j \in 1..Applied' : appliedIds'[j] = j
    <3> SUFFICES ASSUME NEW j \in 1..Applied' PROVE appliedIds'[j] = j
      OBVIOUS
    <3>1. CASE j = a.msg.seq
      BY <2>3, <2>4, <3>1
    <3>2. CASE j # a.msg.seq
      <4>1. j \in 1..Applied
        BY <2>3, <3>2, <1>t
      <4> QED
        BY <2>3, <3>2, <4>1, <1>i DEF NumbersInv
    <3> QED
      BY <3>1, <3>2
  <2>9. Applied' <= Published'
    BY <2>3, <2>4, <2>7, <1>i, <1>t, <1>q DEF NumbersInv
  <2> QED
    BY <2>1, <2>6, <2>7, <2>8, <2>9, <1>i DEF PendingVersions, NumbersInv
<1>9. CASE AgentSave \/ AgentAck \/ AgentReceiveFails \/ AgentApplyFails
            \/ AgentObserve \/ AgentSaveFails \/ AgentRestart
  <2>1. UNCHANGED <<appliedIds, sCursor, pending, versions, toAgent>>
    BY <1>9 DEF AgentSave, AgentAck, AgentReceiveFails, AgentApplyFails,
       AgentObserve, AgentSaveFails, AgentRestart, AgentOnly, netVars, queueVars
  <2>2. a'.conn \in {a.conn, NoConn} /\ a'.pc # "apply"
    BY <1>9, <1>n DEF AgentSave, AgentAck, AgentReceiveFails, AgentApplyFails,
       AgentObserve, AgentSaveFails, AgentRestart, Disconnect, TypeOK, AgentType
  <2> QED
    BY <2>1, <2>2, <1>i, StreamFrame
<1> QED
  BY <1>r, <1>1, <1>2, <1>3, <1>4, <1>5, <1>6, <1>7, <1>8, <1>9
     DEF Next, Handler, Agent

(* While the server stays up, handleSync's cursor counts the changes that  *)
(* left the queue, and what is on its way to the agent makes the version   *)
(* its sequence names.                                                     *)
THEOREM StreamInvariant == Spec => []StreamInv
<1>1. Init => StreamInv
  <2> SUFFICES ASSUME Init PROVE PendingVersions /\ FlightInv /\ NumbersInv
    BY DEF StreamInv
  <2>1. Published = 0 /\ Len(pending) = 0 /\ Applied = 0 /\ sCursor = 0
    BY DEF Init, QueueInit, Published, Applied
  <2> QED
    BY <2>1, IdleType DEF Init, PendingVersions, FlightInv, NumbersInv, Dropped
<1>2. TypeOK /\ TypeOK' /\ AckInv /\ CursorInv /\ ConnInv /\ QueueInv
        /\ StreamInv /\ [Next]_vars => StreamInv'
  BY StreamStep
<1> QED
  BY <1>1, <1>2, TypeCorrect, AckInvariant, CursorInvariant,
     OneTokenPerConnection, QueueInvariant, PTL DEF Spec

(* While the server has not restarted, a sequence the agent has applied    *)
(* comes again only with the change it was applied with, so Receive loses  *)
(* nothing by acknowledging it unread.                                     *)
THEOREM SequenceNamesOnePayloadHolds ==
    Spec => [](used.serverRestarts = 0 => SequenceNamesOnePayload)
<1>1. TypeOK /\ ConnInv /\ StreamInv =>
        (used.serverRestarts = 0 => SequenceNamesOnePayload)
  <2> SUFFICES ASSUME TypeOK, ConnInv, StreamInv, used.serverRestarts = 0,
                      a.conn # NoConn, NEW i \in 1..Len(toAgent[a.conn]),
                      toAgent[a.conn][i].seq <= Len(appliedIds)
               PROVE  appliedIds[toAgent[a.conn][i].seq] = toAgent[a.conn][i].change.id
    BY DEF SequenceNamesOnePayload
  <2>1. FlightInv /\ NumbersInv
    BY DEF StreamInv
  <2>2. toAgent[a.conn] \in Seq(Frame) /\ toAgent[a.conn] # <<>>
    BY ConnTypes
  <2>3. Len(toAgent[a.conn]) = 1
    BY <2>2 DEF ConnInv, Quiet, OneToken
  <2>4. toAgent[a.conn][i] = Head(toAgent[a.conn])
    BY <2>2, <2>3, LastOf
  <2>5. Current(toAgent[a.conn][i])
    BY <2>1, <2>2, <2>4 DEF FlightInv
  <2>6. toAgent[a.conn][i].seq \in 1..Applied
    BY <2>5, CursorTypes DEF Current, Applied
  <2> QED
    BY <2>1, <2>5, <2>6 DEF Current, NumbersInv
<1> QED
  BY <1>1, TypeCorrect, OneTokenPerConnection, StreamInvariant, PTL

-----------------------------------------------------------------------------
(* The agent's store.  It is the version of the last sequence applied, or, *)
(* once a write that failed had reached the disk all the same, already the *)
(* next one.                                                               *)

Held(s) ==
    \/ s = Version(Applied)
    \/ /\ Applied = sCursor /\ Applied < Published /\ used.fileFaults > 0
       /\ s = Version(Applied + 1)

HeldInv ==
    used.serverRestarts = 0 /\ (AgentStoreFile \/ used.agentRestarts = 0) =>
        Held(aStore) /\ (AgentStoreFile => Held(aDisk))

BoundsInv ==
    /\ used.serverRestarts <= MaxServerRestarts
    /\ used.agentRestarts <= MaxAgentRestarts
    /\ used.fileFaults <= MaxFileFaults

(* Faults and restarts only add up, and stay within their bounds. *)
LEMMA UsageGrows ==
    ASSUME TypeOK, [Next]_vars
    PROVE  /\ used.agentRestarts \in Nat /\ used.fileFaults \in Nat
           /\ used'.agentRestarts \in Nat /\ used'.fileFaults \in Nat
           /\ used.agentRestarts <= used'.agentRestarts
           /\ used.fileFaults <= used'.fileFaults
           /\ AgentRestart => used'.agentRestarts = used.agentRestarts + 1
           /\ AgentApplyFails => used'.fileFaults = used.fileFaults + 1
           /\ BoundsInv => BoundsInv'
<1>1. used \in Usage
  BY DEF TypeOK
<1>2. \/ used' = used
      \/ used' = [used EXCEPT !.breaks = @ + 1]
      \/ FileFault \/ AgentRestart \/ ServerRestart
  BY DEF Next, Publish, Signal, Accept, StartHandler, Handler, HandlerNext,
     HandlerWait, HandlerSend, HandlerSendFails, HandlerReceive,
     HandlerReceiveFails, HandlerSave, HandlerSaveFails, HandlerCommit, Agent,
     Dial, AgentReceive, AgentReceiveFails, AgentApply, AgentApplyFails,
     AgentObserve, AgentSave, AgentSaveFails, AgentAck, Break, SaveFails, vars
<1>3. AgentRestart => used'.agentRestarts = used.agentRestarts + 1
  BY <1>1 DEF AgentRestart, Usage
<1>4. AgentApplyFails => used'.fileFaults = used.fileFaults + 1
  BY <1>1 DEF AgentApplyFails, FileFault, Usage
<1>5. CASE used' = used
  BY <1>1, <1>3, <1>4, <1>5 DEF BoundsInv, Usage
<1>6. CASE used' = [used EXCEPT !.breaks = @ + 1]
  BY <1>1, <1>3, <1>4, <1>6 DEF BoundsInv, Usage
<1>7. CASE FileFault
  BY <1>1, <1>3, <1>4, <1>7, BoundAssumption DEF BoundsInv, Usage, FileFault
<1>8. CASE AgentRestart
  <2>1. /\ used' = [used EXCEPT !.agentRestarts = @ + 1]
        /\ used.agentRestarts < MaxAgentRestarts
    BY <1>8 DEF AgentRestart
  <2> QED
    BY <1>1, <1>3, <1>4, <2>1, BoundAssumption DEF BoundsInv, Usage
<1>9. CASE ServerRestart
  <2>1. /\ used' = [used EXCEPT !.serverRestarts = @ + 1]
        /\ used.serverRestarts < MaxServerRestarts
    BY <1>9 DEF ServerRestart
  <2> QED
    BY <1>1, <1>3, <1>4, <2>1, BoundAssumption DEF BoundsInv, Usage
<1> QED
  BY <1>2, <1>5, <1>6, <1>7, <1>8, <1>9

(* Applying the message in flight makes the next version of any store the  *)
(* agent may hold, applied for the first time or again.                    *)
LEMMA ApplyMakes ==
    ASSUME TypeOK, CountInv, WindowInv, FlightInv, a.pc = "apply",
           NEW s \in Store, Held(s)
    PROVE  /\ a.msg.seq = sCursor + 1 /\ sCursor + 1 <= Published
           /\ Applied \in {sCursor, sCursor + 1}
           /\ Effect(s, a.msg.change) = Version(sCursor + 1)
<1>1. sCursor \in Nat /\ Applied \in Nat /\ aCursor \in Nat /\ Acked \in Nat
  BY CursorTypes
<1>2. Applied \in {sCursor, sCursor + 1}
  BY <1>1, ConfigAssumption DEF CountInv, WindowInv, Acked
<1>3. /\ versions \in Seq(Store) /\ Len(versions) \in Nat
      /\ Published = Len(versions) - 1
  BY LastOf DEF TypeOK, Published
<1> DEFINE c == a.msg.change
<1>4. c \in Change /\ Current(a.msg)
  BY OrderTypes DEF FlightInv
<1> HIDE DEF c
<1>5. /\ a.msg.seq = sCursor + 1 /\ sCursor + 1 \in 1..Published
      /\ Version(sCursor + 1) = Effect(Version(sCursor), c)
  BY <1>1, <1>3, <1>4 DEF Current, Makes, Version, c
<1>6. Version(sCursor) \in Store
  BY <1>1, <1>3, <1>5 DEF Version
<1>7. s = Version(sCursor) \/ s = Version(sCursor + 1)
  BY <1>1, <1>2 DEF Held
<1>8. Effect(s, c) = Version(sCursor + 1)
  BY <1>4, <1>5, <1>6, <1>7, EffectIdempotent
<1> QED
  BY <1>1, <1>2, <1>5, <1>8 DEF c

(* Steps that leave versions and cursors alone. *)
LEMMA HeldFrame ==
    ASSUME TypeOK, [Next]_vars, Held(aStore), AgentStoreFile => Held(aDisk),
           UNCHANGED <<versions, appliedIds, sCursor, aDisk>>,
           aStore' = aStore \/ (AgentStoreFile /\ aStore' = aDisk)
    PROVE  Held(aStore)' /\ (AgentStoreFile => Held(aDisk)')
<1>1. /\ used.fileFaults \in Nat /\ used'.fileFaults \in Nat
      /\ used.fileFaults <= used'.fileFaults
  BY UsageGrows
<1>2. /\ Published' = Published /\ Applied' = Applied
      /\ \A k : Version(k)' = Version(k)
  BY DEF Published, Applied, Version
<1>3. Held(aStore)'
  BY <1>1, <1>2 DEF Held
<1>4. AgentStoreFile => Held(aDisk)'
  BY <1>1, <1>2 DEF Held
<1> QED
  BY <1>3, <1>4

(* A step of the stream keeps the agent's store and its file on a version. *)
LEMMA HeldStep ==
    ASSUME TypeOK, TypeOK', AckInv, CursorInv, QueueInv, StreamInv, HeldInv,
           [Next]_vars
    PROVE  HeldInv'
<1> SUFFICES ASSUME used'.serverRestarts = 0,
                    AgentStoreFile \/ used'.agentRestarts = 0
             PROVE  Held(aStore)' /\ (AgentStoreFile => Held(aDisk)')
  BY DEF HeldInv
<1>r. used.serverRestarts = 0 /\ ~ServerRestart
  <2>1. /\ used.serverRestarts \in Nat
        /\ \/ used'.serverRestarts = used.serverRestarts
           \/ used'.serverRestarts = used.serverRestarts + 1
    BY RestartsGrow
  <2>2. ServerRestart => used'.serverRestarts = used.serverRestarts + 1
    BY DEF ServerRestart, TypeOK, Usage
  <2> QED
    BY <2>1, <2>2
<1>g. AgentStoreFile \/ (used.agentRestarts = 0 /\ ~AgentRestart)
  BY UsageGrows
<1>h. Held(aStore) /\ (AgentStoreFile => Held(aDisk))
  BY <1>r, <1>g DEF HeldInv
<1>k. /\ WindowInv /\ HandlerInv /\ FlightInv /\ NumbersInv
      /\ CountInv /\ AckHeldInv /\ AgentInv
  BY <1>r DEF CursorInv, ServerKept, StreamInv, AckInv
<1>t. sCursor \in Nat /\ Applied \in Nat /\ aCursor \in Nat /\ Acked \in Nat
  BY CursorTypes
<1>v. /\ versions \in Seq(Store) /\ versions # <<>>
      /\ Len(versions) \in Nat \ {0} /\ Published = Len(versions) - 1
  BY LastOf DEF TypeOK, Published
<1>s. aStore \in Store /\ aDisk \in Store
  BY DEF TypeOK
<1>1. CASE Publish
  <2>1. PICK c \in Change :
          /\ versions' = Append(versions, Effect(Version(Published), c))
          /\ Effect(Version(Published), c) \in Store
          /\ Published' = Published + 1
    BY <1>1, PublishAdds
  <2>2. UNCHANGED <<aStore, aDisk, appliedIds, sCursor, used>>
    BY <1>1 DEF Publish, serverVars, agentVars
  <2> DEFINE e == Effect(Version(Published), c)
  <2>3. e \in Store /\ versions' = Append(versions, e)
    BY <2>1
  <2> HIDE DEF e
  <2>4. \A i \in 1..Len(versions) : Append(versions, e)[i] = versions[i]
    BY <2>3, <1>v, LastOf
  <2>5. \A k \in 0..Published : Version(k)' = Version(k)
    BY <2>3, <2>4, <1>v DEF Version
  <2>6. Applied' = Applied /\ Applied <= Published
    BY <2>2, <1>k DEF Applied, NumbersInv
  <2>7. Version(Applied)' = Version(Applied)
    BY <2>2, <2>5, <2>6, <1>t, <1>v DEF Version
  <2>8. Applied < Published => Version(Applied + 1)' = Version(Applied + 1)
    BY <2>2, <2>5, <2>6, <1>t, <1>v DEF Version
  <2> QED
    BY <2>1, <2>2, <2>6, <2>7, <2>8, <1>h, <1>t, <1>v DEF Held
<1>2. CASE HandlerCommit
  <2>1. /\ UNCHANGED <<aStore, aDisk, appliedIds, versions>>
        /\ h.pc = "commit" /\ sCursor' = h.ack
    BY <1>2 DEF HandlerCommit, HandlerOnly, ServerOnly, agentVars
  <2>2. Applied = sCursor + 1
    BY <2>1, <1>k, <1>t, ConfigAssumption
       DEF HandlerInv, AckHeldInv, CountInv, WindowInv, Acked
  <2>3. aStore = Version(Applied) /\ (AgentStoreFile => aDisk = Version(Applied))
    BY <2>2, <1>h, <1>t DEF Held
  <2>4. Version(Applied)' = Version(Applied)
    BY <2>1 DEF Version, Applied
  <2> QED
    BY <2>1, <2>3, <2>4 DEF Held
<1>3. CASE AgentApply
  <2>1. /\ UNCHANGED <<sCursor, versions>> /\ a.pc = "apply"
        /\ aStore' = Effect(aStore, a.msg.change)
        /\ AgentStoreFile => aDisk' = aStore'
    BY <1>3 DEF AgentApply, AgentOnly
  <2>2. /\ a.msg.seq = sCursor + 1 /\ Applied \in {sCursor, sCursor + 1}
        /\ aStore' = Version(sCursor + 1)
    BY <2>1, <1>h, <1>k, <1>s, ApplyMakes
  <2>3. Applied' = IF a.msg.seq <= Applied THEN Applied ELSE Applied + 1
    BY <1>3, ApplyRecords
  <2>4. Applied' = sCursor + 1
    BY <2>2, <2>3, <1>t
  <2>5. Version(Applied)' = Version(sCursor + 1)
    BY <2>1, <2>4 DEF Version
  <2> QED
    BY <2>1, <2>2, <2>5 DEF Held
<1>4. CASE AgentApplyFails
  <2>1. /\ UNCHANGED <<sCursor, versions, appliedIds, aStore>>
        /\ a.pc = "apply" /\ AgentStoreFile
        /\ aDisk' = aDisk \/ aDisk' = Effect(aStore, a.msg.change)
    BY <1>4 DEF AgentApplyFails, AgentOnly
  <2>2. CASE aDisk' = aDisk
    BY <2>1, <2>2, <1>h, HeldFrame
  <2>3. CASE aDisk' = Effect(aStore, a.msg.change)
    <3>1. /\ Applied \in {sCursor, sCursor + 1} /\ sCursor + 1 <= Published
          /\ aDisk' = Version(sCursor + 1)
      BY <2>1, <2>3, <1>h, <1>k, <1>s, ApplyMakes
    <3>2. used'.fileFaults > 0
      BY <1>4, UsageGrows
    <3>3. /\ Applied' = Applied /\ Published' = Published
          /\ \A k : Version(k)' = Version(k)
      BY <2>1 DEF Applied, Published, Version
    <3>4. Held(aDisk)'
      BY <2>1, <3>1, <3>2, <3>3, <1>t, <1>v DEF Held
    <3>5. Held(aStore)'
      BY <2>1, <3>2, <3>3, <1>h DEF Held
    <3> QED
      BY <3>4, <3>5
  <2> QED
    BY <2>1, <2>2, <2>3
<1>5. CASE AgentRestart
  <2>1. UNCHANGED <<sCursor, versions, appliedIds, aDisk>>
    BY <1>5 DEF AgentRestart, AgentOnly
  <2>2. AgentStoreFile /\ aStore' = aDisk
    BY <1>5, <1>g DEF AgentRestart
  <2> QED
    BY <2>1, <2>2, <1>h, HeldFrame
<1>6. CASE Signal \/ Accept \/ StartHandler \/ Break \/ UNCHANGED vars
  <2>1. UNCHANGED <<sCursor, versions, appliedIds, aDisk, aStore>>
    BY <1>6 DEF Signal, Accept, StartHandler, Break, ServerOnly, vars,
       serverVars, agentVars
  <2> QED
    BY <2>1, <1>h, HeldFrame
<1>7. CASE Handler /\ ~HandlerCommit
  <2>1. UNCHANGED <<sCursor, versions, appliedIds, aDisk, aStore>>
    BY <1>7 DEF Handler, HandlerNext, HandlerWait, HandlerSend,
       HandlerSendFails, HandlerReceive, HandlerReceiveFails, HandlerSave,
       HandlerSaveFails, HandlerOnly, ServerOnly, agentVars
  <2> QED
    BY <2>1, <1>h, HeldFrame
<1>8. CASE Agent /\ ~AgentApply /\ ~AgentApplyFails
  <2>1. UNCHANGED <<sCursor, versions, appliedIds, aDisk, aStore>>
    BY <1>8 DEF Agent, Dial, AgentReceive, AgentReceiveFails, AgentObserve,
       AgentSave, AgentSaveFails, AgentAck, AgentOnly
  <2> QED
    BY <2>1, <1>h, HeldFrame
<1> QED
  BY <1>r, <1>1, <1>2, <1>3, <1>4, <1>5, <1>6, <1>7, <1>8 DEF Next

(* While the server stays up, the agent's store and file hold the version  *)
(* of the last sequence applied, or the next one after a failed write.     *)
THEOREM HeldInvariant == Spec => []HeldInv
<1>1. Init => HeldInv
  <2> SUFFICES ASSUME Init PROVE Held(aStore) /\ Held(aDisk)
    BY DEF HeldInv
  <2>1. Applied = 0 /\ Version(0) = EmptyStore
    BY DEF Init, Applied, Version
  <2> QED
    BY <2>1 DEF Init, Held
<1>2. TypeOK /\ TypeOK' /\ AckInv /\ CursorInv /\ QueueInv /\ StreamInv
        /\ HeldInv /\ [Next]_vars => HeldInv'
  BY HeldStep
<1> QED
  BY <1>1, <1>2, TypeCorrect, AckInvariant, CursorInvariant, QueueInvariant,
     StreamInvariant, PTL DEF Spec

(* While the server stays up, the agent's store and its file hold the      *)
(* server's policy after the last committed mutation or the next one,      *)
(* although consume writes store and cursor one after the other and either *)
(* write may fail or be cut off by a restart.                              *)
THEOREM AgentHoldsAVersionHolds == Spec => []AgentHoldsAVersion
<1>1. TypeOK /\ AckInv /\ CursorInv /\ QueueInv /\ StreamInv /\ HeldInv =>
        AgentHoldsAVersion
  <2> SUFFICES ASSUME TypeOK, AckInv, CursorInv, QueueInv, StreamInv, HeldInv,
                      used.serverRestarts = 0,
                      AgentStoreFile \/ used.agentRestarts = 0
               PROVE  LET current == {Version(k) :
                                        k \in {sCursor, sCursor + 1} \cap 0..Published}
                      IN  aStore \in current /\ (AgentStoreFile => aDisk \in current)
    BY DEF AgentHoldsAVersion
  <2>1. CountInv /\ WindowInv /\ NumbersInv
    BY DEF AckInv, CursorInv, ServerKept, StreamInv
  <2>2. sCursor \in Nat /\ Applied \in Nat /\ aCursor \in Nat /\ Published \in Nat
    BY CursorTypes, QueueFacts
  <2>3. Applied \in {sCursor, sCursor + 1} \cap 0..Published
    BY <2>1, <2>2, ConfigAssumption DEF CountInv, WindowInv, NumbersInv, Acked
  <2>4. Applied = sCursor /\ Applied < Published =>
          Applied + 1 \in {sCursor, sCursor + 1} \cap 0..Published
    BY <2>2
  <2>5. Held(aStore) /\ (AgentStoreFile => Held(aDisk))
    BY DEF HeldInv
  <2> QED
    BY <2>3, <2>4, <2>5 DEF Held
<1> QED
  BY <1>1, TypeCorrect, AckInvariant, CursorInvariant, QueueInvariant,
     StreamInvariant, HeldInvariant, PTL

-----------------------------------------------------------------------------
(* Dry run.  Nothing is applied, so there is nothing to save, acknowledge  *)
(* or commit.                                                              *)

DryRunInv ==
    DryRun => /\ appliedIds = <<>> /\ a.pc \notin {"save", "ack"}
              /\ aStore = EmptyStore /\ aDisk = EmptyStore /\ aFile = 0

(* An operator never goes back to dry run, and a step taken in dry run     *)
(* leaves no trace.                                                        *)
LEMMA DryRunStep ==
    ASSUME TypeOK, DryRunInv, [Next]_vars
    PROVE  DryRunInv'
<1> SUFFICES ASSUME DryRun'
             PROVE  /\ appliedIds' = <<>> /\ a'.pc \notin {"save", "ack"}
                    /\ aStore' = EmptyStore /\ aDisk' = EmptyStore /\ aFile' = 0
  BY DEF DryRunInv
<1>d. DryRun
  BY UsageGrows, ConfigAssumption DEF DryRun
<1>i. /\ appliedIds = <<>> /\ a.pc \notin {"save", "ack"}
      /\ aStore = EmptyStore /\ aDisk = EmptyStore /\ aFile = 0
  BY <1>d DEF DryRunInv
<1>n. Dialing.pc = "dial"
  BY IdleType
<1>1. CASE Publish \/ Signal \/ Accept \/ StartHandler \/ Break \/ ServerRestart
           \/ UNCHANGED vars
  BY <1>1, <1>i DEF Publish, Signal, Accept, StartHandler, Break, ServerRestart,
     ServerOnly, vars, agentVars
<1>2. CASE Handler
  BY <1>2, <1>i DEF Handler, HandlerNext, HandlerWait, HandlerSend,
     HandlerSendFails, HandlerReceive, HandlerReceiveFails, HandlerSave,
     HandlerSaveFails, HandlerCommit, HandlerOnly, ServerOnly, agentVars
<1>3. CASE Dial \/ AgentReceive
  <2>1. a'.pc \notin {"save", "ack"}
    BY <1>3, <1>i, <1>n, IdleType DEF Dial, AgentReceive, Disconnect, TypeOK,
       AgentType
  <2> QED
    BY <1>3, <2>1, <1>i DEF Dial, AgentReceive
<1>4. CASE AgentReceiveFails \/ AgentObserve \/ AgentRestart
  BY <1>4, <1>i, <1>n DEF AgentReceiveFails, AgentObserve, AgentRestart, Disconnect
<1>5. ~(AgentApply \/ AgentApplyFails \/ AgentSave \/ AgentSaveFails \/ AgentAck)
  BY <1>d, <1>i DEF AgentApply, AgentApplyFails, AgentSave, AgentSaveFails, AgentAck
<1> QED
  BY <1>1, <1>2, <1>3, <1>4, <1>5 DEF Next, Agent

(* A dry-run agent leaves no trace on its side, whatever else happens:     *)
(* consume applies, saves and acknowledges nothing.                        *)
THEOREM DryRunLeavesNoTrace == Spec => []DryRunInv
<1>1. Init => DryRunInv
  BY IdleType DEF Init, DryRunInv
<1>2. TypeOK /\ DryRunInv /\ [Next]_vars => DryRunInv'
  BY DryRunStep
<1> QED
  BY <1>1, <1>2, TypeCorrect, PTL DEF Spec

(* Nor does it on the server's, which keeps every change it has published  *)
(* in the queue for as long as it stays up.                                *)
THEOREM DryRunHoldsBackHolds ==
    Spec => [](used.serverRestarts = 0 => DryRunHoldsBack)
<1>1. TypeOK /\ AckInv /\ QueueInv /\ StreamInv /\ DryRunInv =>
        (used.serverRestarts = 0 => DryRunHoldsBack)
  <2> SUFFICES ASSUME TypeOK, AckInv, QueueInv, StreamInv, DryRunInv,
                      used.serverRestarts = 0, DryRun
               PROVE  /\ aStore = EmptyStore /\ aDisk = EmptyStore /\ aFile = 0
                      /\ sCursor = 0 /\ Len(pending) = Published
    BY DEF DryRunHoldsBack
  <2>1. /\ aStore = EmptyStore /\ aDisk = EmptyStore /\ aFile = 0 /\ Applied = 0
    BY DEF DryRunInv, Applied
  <2>2. sCursor \in Nat /\ aCursor \in Nat /\ CountInv
    BY CursorTypes DEF AckInv
  <2>3. sCursor = 0
    BY <2>1, <2>2, ConfigAssumption DEF CountInv, Acked
  <2>4. Dropped = 0
    BY <2>3 DEF StreamInv, PendingVersions
  <2>5. Len(pending) = Published
    BY <2>4, QueueFacts
  <2> QED
    BY <2>1, <2>3, <2>5
<1> QED
  BY <1>1, TypeCorrect, AckInvariant, QueueInvariant, StreamInvariant,
     DryRunLeavesNoTrace, PTL

-----------------------------------------------------------------------------
(* The refinement.  The agent's place in the log is the number of          *)
(* sequences it has applied; without failed writes its store is exactly    *)
(* the version at that place.                                              *)

Undisturbed ==
    /\ used.serverRestarts = 0 /\ used.fileFaults = 0
    /\ AgentStoreFile \/ used.agentRestarts = 0

ExactInv == aStore = versions[Applied + 1] /\ Applied <= Published

(* As long as that lasts, the agent's store is the version of the          *)
(* sequences it has applied, never one ahead, after every call of consume. *)
THEOREM HeldExactly == Spec => [](Undisturbed => ExactInv)
<1>1. HeldInv /\ StreamInv => (Undisturbed => ExactInv)
  <2> SUFFICES ASSUME HeldInv, StreamInv, Undisturbed
               PROVE  ExactInv
    OBVIOUS
  <2>1. Held(aStore) /\ NumbersInv /\ ~(used.fileFaults > 0)
    BY DEF Undisturbed, HeldInv, StreamInv
  <2> QED
    BY <2>1 DEF ExactInv, Held, Version, NumbersInv
<1> QED
  BY <1>1, StreamInvariant, HeldInvariant, PTL

(* A step is a publish, the agent's move to the next version, or neither.  *)
LEMMA RefineStep ==
    ASSUME TypeOK, AckInv, QueueInv, ExactInv, ExactInv', [Next]_vars
    PROVE  Stream!Publish \/ Stream!Follow
             \/ UNCHANGED <<versions, [at |-> Len(appliedIds) + 1, policy |-> aStore]>>
<1>1. /\ aStore = versions[Applied + 1] /\ Applied <= Published
      /\ aStore' = versions'[Applied' + 1] /\ Applied' <= Published'
  BY DEF ExactInv
<1>t. Applied \in Nat /\ Len(versions) \in Nat /\ Published = Len(versions) - 1
  BY CursorTypes, LastOf DEF Published, TypeOK
<1>2. CASE Publish
  <2>1. \E s \in Store : versions' = Append(versions, s)
    BY <1>2, PublishAdds
  <2>2. UNCHANGED <<appliedIds, aStore>>
    BY <1>2 DEF Publish, agentVars
  <2> QED
    BY <2>1, <2>2 DEF Stream!Publish
<1>3. CASE AgentApply
  <2>1. versions' = versions
    BY <1>3 DEF AgentApply, AgentOnly
  <2>2. Applied' = Applied \/ Applied' = Applied + 1
    BY <1>3, ApplyRecords
  <2>3. CASE Applied' = Applied
    BY <2>1, <2>3, <1>1 DEF Applied
  <2>4. CASE Applied' = Applied + 1
    <3>1. Len(appliedIds) + 1 < Len(versions)
      BY <2>1, <2>4, <1>1, <1>t DEF Applied, Published
    <3>2. /\ Len(appliedIds)' = Len(appliedIds) + 1
          /\ aStore' = versions[Len(appliedIds) + 1 + 1]
      BY <2>1, <2>4, <1>1 DEF Applied
    <3> QED
      BY <2>1, <3>1, <3>2 DEF Stream!Follow
  <2> QED
    BY <2>2, <2>3, <2>4
<1>4. CASE Signal \/ Accept \/ StartHandler \/ Break \/ ServerRestart \/ UNCHANGED vars
  BY <1>4 DEF Signal, Accept, StartHandler, Break, ServerRestart, ServerOnly,
     vars, agentVars
<1>5. CASE Handler
  BY <1>5 DEF Handler, HandlerNext, HandlerWait, HandlerSend, HandlerSendFails,
     HandlerReceive, HandlerReceiveFails, HandlerSave, HandlerSaveFails,
     HandlerCommit, HandlerOnly, ServerOnly, agentVars
<1>6. CASE Agent /\ ~AgentApply
  BY <1>6 DEF Agent, Dial, AgentReceive, AgentReceiveFails, AgentApplyFails,
     AgentObserve, AgentSave, AgentSaveFails, AgentAck, AgentOnly
<1>7. CASE AgentRestart
  <2>1. UNCHANGED <<versions, appliedIds>>
    BY <1>7 DEF AgentRestart, AgentOnly
  <2> QED
    BY <2>1, <1>1 DEF Applied
<1> QED
  BY <1>2, <1>3, <1>4, <1>5, <1>6, <1>7 DEF Next

(* As long as the server stays up and files can be written, handleSync,    *)
(* the queue, the connections and consume together implement PolicyStream: *)
(* the agent's policy takes every version once and in order, across broken *)
(* connections, replays and restarts of the agent.                         *)
THEOREM StreamRefinement == Spec /\ []Undisturbed => ImplementsStream
<1>1. Init => Stream!Init
  BY DEF Init, Stream!Init
<1>2. TypeOK /\ AckInv /\ QueueInv /\ ExactInv /\ ExactInv' /\ [Next]_vars =>
        [Stream!Next]_<<versions, [at |-> Len(appliedIds) + 1, policy |-> aStore]>>
  BY RefineStep DEF Stream!Next
<1> QED
  BY <1>1, <1>2, TypeCorrect, AckInvariant, QueueInvariant, HeldExactly, PTL
     DEF Spec, ImplementsStream, Stream!Spec

NoFaults ==
    /\ MaxServerRestarts = 0 /\ MaxFileFaults = 0
    /\ AgentStoreFile \/ MaxAgentRestarts = 0

(* Restarts and failed writes stay within the bounds the model gives them, *)
(* so bounds of 0 leave handleSync and consume undisturbed throughout.     *)
THEOREM FaultsBounded == Spec => []BoundsInv
<1>1. Init => BoundsInv
  BY BoundAssumption DEF Init, BoundsInv
<1>2. TypeOK /\ BoundsInv /\ [Next]_vars => BoundsInv'
  BY UsageGrows
<1> QED
  BY <1>1, <1>2, TypeCorrect, PTL DEF Spec

(* The instances in which the server does not restart and no file write    *)
(* fails implement PolicyStream.                                           *)
THEOREM StreamRefinementWithoutFaults ==
    ASSUME NoFaults PROVE Spec => ImplementsStream
<1>1. TypeOK /\ BoundsInv => Undisturbed
  BY NoFaults DEF NoFaults, TypeOK, Usage, BoundsInv, Undisturbed
<1> QED
  BY <1>1, TypeCorrect, FaultsBounded, StreamRefinement, PTL
=============================================================================
