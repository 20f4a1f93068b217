----------------------------- MODULE PolicySync -----------------------------
(***************************************************************************)
(* The policy-sync stream of rtbh-panel, from the dashboard's mutation to  *)
(* the agent's policy store: acceptSync and handleSync of                  *)
(* internal/runtime/server.go, the queue they read, the agent's Run and    *)
(* consume in internal/runtime/agent.go, the two cursor files of           *)
(* internal/runtime/cursor.go, and the TCP connection between them.        *)
(*                                                                         *)
(* The server numbers changes when it sends them (PeerCursor + 1 on a new  *)
(* connection), sends one at a time, and removes a change from the queue   *)
(* once an ACK with a cursor at least as high has been saved.  The agent   *)
(* applies a change to its store, saves its cursor, and acknowledges.      *)
(* Either process may restart between any two steps, a connection may      *)
(* break at any time, and writing a file may fail before or after the      *)
(* rename that makes it visible.                                           *)
(***************************************************************************)
EXTENDS AgentSession, PolicyQueue

CONSTANTS
    Items,              \* what a policy is about: a list and a prefix
    Conns,              \* connection slots (the listen backlog is bounded)
    NoConn, NoChange,   \* "nil"
    MaxInFlight,        \* Config.SyncMaxInFlight
    ServerCursorFile,   \* is Config.CursorFile set on the server?
    AgentCursorFile,    \* is it set on the agent?
    AgentStoreFile,     \* does the agent's store have a file?  (not in DB mode)
    DryRunStarts,       \* how often the agent is started with Config.DryRun,
                        \* before an operator starts it without
    MaxPublish,         \* bound: mutations the operator makes
    MaxServerRestarts,  \* bound: restarts of rtbh-server
    MaxAgentRestarts,   \* bound: restarts of rtbh-agent
    MaxBreaks,          \* bound: connections the network breaks
    MaxFileFaults       \* bound: file writes that fail

ASSUME ConnAssumption == NoConn \notin Conns
ASSUME InFlightAssumption == MaxInFlight \in Nat \ {0}
ASSUME ConfigAssumption ==
    /\ ServerCursorFile \in BOOLEAN /\ AgentCursorFile \in BOOLEAN
    /\ AgentStoreFile \in BOOLEAN /\ DryRunStarts \in Nat
ASSUME BoundAssumption ==
    /\ MaxPublish \in Nat /\ MaxServerRestarts \in Nat
    /\ MaxAgentRestarts \in Nat /\ MaxBreaks \in Nat /\ MaxFileFaults \in Nat

VARIABLES
    \* acceptSync and handleSync
    backlog,    \* connections dialled and not yet accepted, oldest first
    accepting,  \* the connection acceptSync holds while closeActive waits
    h,          \* the handler: its place, connection, Session and locals
    sCursor,    \* Server.cursor
    sFile,      \* the server's cursor file
    \* the agent
    a,          \* Run and consume: place, connection, Session and message
    aCursor,    \* the variable cursor of Run
    aFile,      \* the agent's cursor file
    aStore,     \* policyStoreAdapter.store in memory
    aDisk,      \* its file
    \* the connections
    toAgent, toServer,   \* frames written and not yet read, per slot
    broken,              \* slots whose connection the network has cut
    \* history
    versions,   \* the server's policy before and after each mutation
    appliedIds, \* the change the agent applied under each sequence
    lost,       \* changes committed without having been applied
    used        \* how much of each fault bound is used

serverVars == <<backlog, accepting, h, sCursor, sFile>>
agentVars == <<a, aCursor, aFile, aStore, aDisk>>
netVars == <<toAgent, toServer, broken>>
vars == <<queueVars, serverVars, agentVars, netVars, versions, appliedIds,
          lost, used>>

-----------------------------------------------------------------------------
(* Policies.                                                               *)

(* A permanent add, an add with expires_at, and a remove. *)
Ops == {"add", "addUntil", "remove"}
Change == [id : Nat \ {0}, op : Ops, item : Items]
Store == [Items -> {"absent", "forever", "until"}]
EmptyStore == [i \in Items |-> "absent"]
Message == [seq : Nat, change : Change \cup {NoChange}]
NoMessage == [seq |-> 0, change |-> NoChange]

(* policyStoreAdapter.Apply over Store.mutate and Store.AddUntil: adding   *)
(* what is present without an expiry changes nothing, even if it has one.  *)
Effect(store, change) ==
    CASE change.op = "add" ->
           IF store[change.item] = "absent"
           THEN [store EXCEPT ![change.item] = "forever"] ELSE store
      [] change.op = "addUntil" -> [store EXCEPT ![change.item] = "until"]
      [] change.op = "remove" -> [store EXCEPT ![change.item] = "absent"]

Published == Len(versions) - 1
Version(k) == versions[k + 1]

(* loadCursor: 0 when no file is configured.  A file that was never        *)
(* written also reads as 0, and saveCursor leaves "no file" at 0.          *)
CursorIfFile(configured, cursor) == IF configured THEN cursor ELSE 0

(* Config.DryRun of the agent that runs now. *)
DryRun == used.agentRestarts < DryRunStarts

(* No handler runs; the agent is between two connections. *)
NoHandler == [pc |-> "none", conn |-> NoConn, sess |-> NewSession(0, 0),
              change |-> NoChange, seq |-> 0, ack |-> 0]
Dialing == [pc |-> "dial", conn |-> NoConn, sess |-> NewSession(0, 0),
            msg |-> NoMessage]

Init ==
    /\ QueueInit
    /\ backlog = <<>> /\ accepting = NoConn /\ h = NoHandler
    /\ sCursor = 0 /\ sFile = 0
    /\ a = Dialing /\ aCursor = 0 /\ aFile = 0
    /\ aStore = EmptyStore /\ aDisk = EmptyStore
    /\ toAgent = [c \in Conns |-> <<>>] /\ toServer = [c \in Conns |-> <<>>]
    /\ broken = {}
    /\ versions = <<EmptyStore>> /\ appliedIds = <<>> /\ lost = {}
    /\ used = [serverRestarts |-> 0, agentRestarts |-> 0, breaks |-> 0,
               fileFaults |-> 0]

-----------------------------------------------------------------------------
(* The connections.                                                        *)

Backlogged(c) == \E i \in 1..Len(backlog) : backlog[i] = c

(* What an endpoint can notice: the other end is closed, or the network    *)
(* has cut the connection.  A read may still return frames that arrived    *)
(* before that, and a write may still be accepted by the kernel.           *)
ServerGone(c) == c \in broken \/ (c # h.conn /\ c # accepting /\ ~Backlogged(c))
AgentGone(c) == c \in broken \/ c # a.conn

(* The network cuts the agent's connection. *)
Break ==
    /\ a.conn # NoConn /\ a.conn \notin broken
    /\ used.breaks < MaxBreaks
    /\ used' = [used EXCEPT !.breaks = @ + 1]
    /\ broken' = broken \cup {a.conn}
    /\ UNCHANGED <<queueVars, serverVars, agentVars, toAgent, toServer, versions,
                   appliedIds, lost>>

(* One more write of a cursor or policy file fails. *)
FileFault ==
    /\ used.fileFaults < MaxFileFaults
    /\ used' = [used EXCEPT !.fileFaults = @ + 1]

(* What saveCursor leaves in the file when it fails: nothing new if the    *)
(* cursor is below the file's, else the old or, once renamed, the new one. *)
SaveFails(file, fileNext, cursor) ==
    IF cursor < file
    THEN fileNext = file /\ UNCHANGED used
    ELSE fileNext \in {file, cursor} /\ FileFault

-----------------------------------------------------------------------------
(* The publisher: policyController commits a mutation and publishes it.    *)

Publish ==
    /\ Published < MaxPublish
    /\ \E op \in Ops, item \in Items :
         LET change == [id |-> Published + 1, op |-> op, item |-> item]
         IN  /\ PublishAppend(change)
             /\ versions' = Append(versions, Effect(Version(Published), change))
    /\ UNCHANGED <<serverVars, agentVars, netVars, appliedIds, lost, used>>

(* Mutant: notify without a buffer.  A send is dropped unless the receiver *)
(* has reached the select, and after its look at pending it may not have.  *)
SignalUnbuffered ==
    /\ publisher = "signal"
    /\ notify' \in IF h.pc = "wait" THEN {notify, 1} ELSE {notify}
    /\ publisher' = "idle"
    /\ UNCHANGED <<pending, serverVars, agentVars, netVars, versions, appliedIds,
                   lost, used>>

(* publish's second step. *)
Signal ==
    /\ PublishSignal
    /\ UNCHANGED <<serverVars, agentVars, netVars, versions, appliedIds, lost,
                   used>>

-----------------------------------------------------------------------------
(* acceptSync.                                                             *)

ServerOnly == UNCHANGED <<agentVars, broken, versions, appliedIds>>

(* Accept returns; closeActive cancels the running handler and closes its  *)
(* connection, then waits for it.                                          *)
Accept ==
    /\ accepting = NoConn /\ backlog # <<>>
    /\ accepting' = Head(backlog)
    /\ backlog' = Tail(backlog)
    /\ ServerOnly
    /\ UNCHANGED <<queueVars, h, sCursor, sFile, toAgent, toServer, lost, used>>

Cancelled == accepting # NoConn

(* The old handler is done: the new one starts from Server.cursor. *)
StartHandler ==
    /\ Cancelled /\ h.pc = "none"
    /\ h' = [NoHandler EXCEPT !.pc = "next", !.conn = accepting,
                              !.sess = NewSession(0, sCursor)]
    /\ accepting' = NoConn
    /\ ServerOnly
    /\ UNCHANGED <<queueVars, backlog, sCursor, sFile, toAgent, toServer, lost,
                   used>>

-----------------------------------------------------------------------------
(* handleSync.                                                             *)

(* Mutant: the deferred connection.Close() is missing. *)
HandlerReturnOpen == h' = [NoHandler EXCEPT !.conn = h.conn]

(* The handler returns: its connection is closed, its locals are gone. *)
HandlerReturn == h' = NoHandler

HandlerOnly == ServerOnly /\ UNCHANGED <<backlog, accepting>>

(* Mutant: the head is removed when it is read, not when it is committed. *)
HandlerNextPops ==
    /\ h.pc = "next"
    /\ \/ /\ pending # <<>>
          /\ h' = [h EXCEPT !.pc = "send", !.change = Head(pending)]
          /\ pending' = Tail(pending)
       \/ /\ pending = <<>>
          /\ h' = [h EXCEPT !.pc = "wait"]
          /\ UNCHANGED pending
    /\ HandlerOnly
    /\ UNCHANGED <<notify, publisher, sCursor, sFile, toAgent, toServer, lost,
                   used>>

(* queue.next, the look at pending under the mutex. *)
HandlerNext ==
    /\ h.pc = "next"
    /\ \/ /\ pending # <<>>
          /\ h' = [h EXCEPT !.pc = "send", !.change = Head(pending)]
       \/ /\ pending = <<>>
          /\ h' = [h EXCEPT !.pc = "wait"]
    /\ HandlerOnly
    /\ UNCHANGED <<queueVars, sCursor, sFile, toAgent, toServer, lost, used>>

(* queue.next, the select: a token, or the cancelled context. *)
HandlerWait ==
    /\ h.pc = "wait"
    /\ \/ TakeToken /\ h' = [h EXCEPT !.pc = "next"]
       \/ Cancelled /\ HandlerReturn /\ UNCHANGED queueVars
    /\ HandlerOnly
    /\ UNCHANGED <<sCursor, sFile, toAgent, toServer, lost, used>>

(* session.SendPolicy writes the frame. *)
HandlerSend ==
    /\ h.pc = "send" /\ ~Cancelled
    /\ ~Backpressure(h.sess, MaxInFlight)
    /\ h' = [h EXCEPT !.pc = "recv", !.seq = h.sess.next,
                      !.sess = SendPolicy(h.sess)]
    /\ toAgent' = [toAgent EXCEPT ![h.conn] =
                     Append(@, [seq |-> h.sess.next, change |-> h.change])]
    /\ HandlerOnly
    /\ UNCHANGED <<queueVars, sCursor, sFile, toServer, lost, used>>

(* session.SendPolicy returns ErrBackpressure or the error of the write. *)
HandlerSendFails ==
    /\ h.pc = "send"
    /\ Cancelled \/ AgentGone(h.conn) \/ Backpressure(h.sess, MaxInFlight)
    /\ HandlerReturn
    /\ HandlerOnly
    /\ UNCHANGED <<queueVars, sCursor, sFile, toAgent, toServer, lost, used>>

(* session.Receive returns an ACK; one below the sequence ends the handler.*)
(* An agent never sends a POLICY frame.                                    *)
HandlerReceive ==
    /\ h.pc = "recv" /\ ~Cancelled
    /\ toServer[h.conn] # <<>>
    /\ toServer' = [toServer EXCEPT ![h.conn] = Tail(@)]
    /\ LET cursor == Head(toServer[h.conn])
       IN  IF cursor >= h.seq /\ cursor # 0
           THEN h' = [h EXCEPT !.pc = "save", !.ack = cursor,
                               !.sess = ReceiveAck(h.sess, cursor)]
           ELSE HandlerReturn
    /\ HandlerOnly
    /\ UNCHANGED <<queueVars, sCursor, sFile, toAgent, lost, used>>

(* session.Receive fails: cancelled, or the agent is gone. *)
HandlerReceiveFails ==
    /\ h.pc = "recv"
    /\ Cancelled \/ AgentGone(h.conn)
    /\ HandlerReturn
    /\ HandlerOnly
    /\ UNCHANGED <<queueVars, sCursor, sFile, toAgent, toServer, lost, used>>

(* saveCursor, in full; a cursor below the file's is refused. *)
HandlerSave ==
    /\ h.pc = "save"
    /\ h.ack >= sFile
    /\ sFile' = CursorIfFile(ServerCursorFile, h.ack)
    /\ h' = [h EXCEPT !.pc = "commit"]
    /\ HandlerOnly
    /\ UNCHANGED <<queueVars, sCursor, toAgent, toServer, lost, used>>

(* saveCursor fails and handleSync returns. *)
HandlerSaveFails ==
    /\ h.pc = "save" /\ ServerCursorFile
    /\ SaveFails(sFile, sFile', h.ack)
    /\ HandlerReturn
    /\ HandlerOnly
    /\ UNCHANGED <<queueVars, sCursor, toAgent, toServer, lost>>

(* The cursor moves in memory and the change leaves the queue. *)
HandlerCommit ==
    /\ h.pc = "commit"
    /\ sCursor' = h.ack
    /\ Commit(h.change)
    /\ lost' = IF \E k \in 1..Len(appliedIds) : appliedIds[k] = h.change.id
               THEN lost ELSE lost \cup {h.change.id}
    /\ h' = [h EXCEPT !.pc = "next", !.change = NoChange, !.seq = 0, !.ack = 0]
    /\ HandlerOnly
    /\ UNCHANGED <<sFile, toAgent, toServer, used>>

Handler ==
    \/ HandlerNext \/ HandlerWait \/ HandlerSend \/ HandlerSendFails
    \/ HandlerReceive \/ HandlerReceiveFails \/ HandlerSave
    \/ HandlerSaveFails \/ HandlerCommit

(* rtbh-server stops and starts again: the queue and the connections are   *)
(* gone, the cursor is what loadCursor returns.                            *)
ServerRestart ==
    /\ used.serverRestarts < MaxServerRestarts
    /\ used' = [used EXCEPT !.serverRestarts = @ + 1]
    /\ pending' = <<>> /\ notify' = 0 /\ publisher' = "idle"
    /\ backlog' = <<>> /\ accepting' = NoConn
    /\ HandlerReturn
    /\ sCursor' = CursorIfFile(ServerCursorFile, sFile)
    /\ ServerOnly
    /\ UNCHANGED <<sFile, toAgent, toServer, lost>>

-----------------------------------------------------------------------------
(* The agent.                                                              *)

AgentOnly == UNCHANGED <<queueVars, accepting, h, sCursor, sFile, versions, lost>>

(* consume returns an error and Run closes the connection, sleeps, and     *)
(* dials again with the cursor it holds in memory.                         *)
Disconnect == a' = Dialing

(* Dial: a free slot joins the backlog. *)
Dial ==
    /\ a.pc = "dial"
    /\ \E c \in Conns :
         /\ c # h.conn /\ c # accepting /\ ~Backlogged(c)
         /\ a' = [Dialing EXCEPT !.pc = "recv", !.conn = c,
                                 !.sess = NewSession(aCursor, 0)]
         /\ backlog' = Append(backlog, c)
         /\ toAgent' = [toAgent EXCEPT ![c] = <<>>]
         /\ toServer' = [toServer EXCEPT ![c] = <<>>]
         /\ broken' = broken \ {c}
    /\ AgentOnly
    /\ UNCHANGED <<aCursor, aFile, aStore, aDisk, appliedIds, used>>

(* Mutant: a replay is skipped without an ACK. *)
AgentReceiveSilent ==
    /\ a.pc = "recv" /\ toAgent[a.conn] # <<>>
    /\ toAgent' = [toAgent EXCEPT ![a.conn] = Tail(@)]
    /\ LET message == Head(toAgent[a.conn])
       IN  \/ /\ Deliverable(a.sess, message.seq)
              /\ a' = [a EXCEPT !.pc = "apply", !.msg = message]
           \/ Replayed(a.sess, message.seq) /\ UNCHANGED a
           \/ Gap(a.sess, message.seq) /\ Disconnect
    /\ AgentOnly
    /\ UNCHANGED <<backlog, aCursor, aFile, aStore, aDisk, toServer, broken,
                   appliedIds, used>>

(* session.Receive in consume: deliver, acknowledge a replay, or fail on a *)
(* gap.  The ACK of a replay is a write, which may fail.                   *)
AgentReceive ==
    /\ a.pc = "recv" /\ toAgent[a.conn] # <<>>
    /\ toAgent' = [toAgent EXCEPT ![a.conn] = Tail(@)]
    /\ LET message == Head(toAgent[a.conn])
       IN  \/ /\ Deliverable(a.sess, message.seq)
              /\ a' = [a EXCEPT !.pc = "apply", !.msg = message]
              /\ UNCHANGED toServer
           \/ /\ Replayed(a.sess, message.seq)
              /\ toServer' = [toServer EXCEPT ![a.conn] =
                                Append(@, a.sess.applied)]
              /\ UNCHANGED a
           \/ /\ \/ Replayed(a.sess, message.seq) /\ ServerGone(a.conn)
                 \/ Gap(a.sess, message.seq)
              /\ Disconnect
              /\ UNCHANGED toServer
    /\ AgentOnly
    /\ UNCHANGED <<backlog, aCursor, aFile, aStore, aDisk, broken, appliedIds,
                   used>>

(* session.Receive fails in consume: the server is gone. *)
AgentReceiveFails ==
    /\ a.pc = "recv" /\ ServerGone(a.conn)
    /\ Disconnect
    /\ AgentOnly
    /\ UNCHANGED <<backlog, aCursor, aFile, aStore, aDisk, netVars, appliedIds,
                   used>>

(* adapter.Apply: the store is persisted, then changed in memory. *)
AgentApply ==
    /\ a.pc = "apply" /\ ~DryRun
    /\ aStore' = Effect(aStore, a.msg.change)
    /\ aDisk' = IF AgentStoreFile THEN aStore' ELSE aDisk
    /\ appliedIds' = IF a.msg.seq <= Len(appliedIds)
                     THEN [appliedIds EXCEPT ![a.msg.seq] = a.msg.change.id]
                     ELSE Append(appliedIds, a.msg.change.id)
    /\ a' = [a EXCEPT !.pc = "save"]
    /\ AgentOnly
    /\ UNCHANGED <<backlog, aCursor, aFile, netVars, used>>

(* Mutant: consume goes on although Apply failed. *)
AgentApplyFailsAcks ==
    /\ a.pc = "apply" /\ ~DryRun /\ AgentStoreFile
    /\ FileFault
    /\ a' = [a EXCEPT !.pc = "save"]
    /\ AgentOnly
    /\ UNCHANGED <<backlog, aCursor, aFile, aStore, aDisk, netVars, appliedIds>>

(* adapter.Apply fails: nothing was written, or the rename took effect but *)
(* the store kept its old value in memory.                                 *)
AgentApplyFails ==
    /\ a.pc = "apply" /\ ~DryRun /\ AgentStoreFile
    /\ aDisk' \in {aDisk, Effect(aStore, a.msg.change)}
    /\ FileFault
    /\ Disconnect
    /\ AgentOnly
    /\ UNCHANGED <<backlog, aCursor, aFile, aStore, netVars, appliedIds>>

(* Mutant: consume goes on to acknowledge what it only observed. *)
AgentObserveAcks ==
    /\ a.pc = "apply" /\ DryRun
    /\ a' = [a EXCEPT !.pc = "save"]
    /\ AgentOnly
    /\ UNCHANGED <<backlog, aCursor, aFile, aStore, aDisk, netVars, appliedIds,
                   used>>

(* The dry-run adapter only counts; consume returns ErrDryRunPolicy. *)
AgentObserve ==
    /\ a.pc = "apply" /\ DryRun
    /\ Disconnect
    /\ AgentOnly
    /\ UNCHANGED <<backlog, aCursor, aFile, aStore, aDisk, netVars, appliedIds,
                   used>>

(* Mutant: the cursor is acknowledged without being saved. *)
AgentSaveSkipped ==
    /\ a.pc = "save"
    /\ a' = [a EXCEPT !.pc = "ack"]
    /\ AgentOnly
    /\ UNCHANGED <<backlog, aCursor, aFile, aStore, aDisk, netVars, appliedIds,
                   used>>

(* saveCursor in consume, before the ACK. *)
AgentSave ==
    /\ a.pc = "save"
    /\ a.msg.seq >= aFile
    /\ aFile' = CursorIfFile(AgentCursorFile, a.msg.seq)
    /\ a' = [a EXCEPT !.pc = "ack"]
    /\ AgentOnly
    /\ UNCHANGED <<backlog, aCursor, aStore, aDisk, netVars, appliedIds, used>>

(* saveCursor fails and consume returns. *)
AgentSaveFails ==
    /\ a.pc = "save" /\ AgentCursorFile
    /\ SaveFails(aFile, aFile', a.msg.seq)
    /\ Disconnect
    /\ AgentOnly
    /\ UNCHANGED <<backlog, aCursor, aStore, aDisk, netVars, appliedIds>>

(* session.Ack moves the applied cursor and writes; Run's cursor follows   *)
(* whether or not the write succeeds.                                      *)
AgentAck ==
    /\ a.pc = "ack"
    /\ aCursor' = a.msg.seq
    /\ \/ /\ a' = [a EXCEPT !.pc = "recv", !.msg = NoMessage,
                            !.sess = Ack(a.sess, a.msg.seq)]
          /\ toServer' = [toServer EXCEPT ![a.conn] = Append(@, a.msg.seq)]
       \/ /\ ServerGone(a.conn)
          /\ Disconnect
          /\ UNCHANGED toServer
    /\ AgentOnly
    /\ UNCHANGED <<backlog, aFile, aStore, aDisk, toAgent, broken, appliedIds,
                   used>>

Agent ==
    \/ Dial \/ AgentReceive \/ AgentReceiveFails \/ AgentApply
    \/ AgentApplyFails \/ AgentObserve \/ AgentSave \/ AgentSaveFails
    \/ AgentAck

(* rtbh-agent stops and starts again from its files. *)
AgentRestart ==
    /\ used.agentRestarts < MaxAgentRestarts
    /\ used' = [used EXCEPT !.agentRestarts = @ + 1]
    /\ Disconnect
    /\ aCursor' = CursorIfFile(AgentCursorFile, aFile)
    /\ aStore' = IF AgentStoreFile THEN aDisk ELSE EmptyStore
    /\ AgentOnly
    /\ UNCHANGED <<backlog, aFile, aDisk, netVars, appliedIds>>

-----------------------------------------------------------------------------
Next ==
    \/ Publish \/ Signal \/ Accept \/ StartHandler \/ Handler \/ Agent
    \/ Break \/ ServerRestart \/ AgentRestart

Spec == Init /\ [][Next]_vars

(* Goroutines and processes that can take a step eventually do; a publish, *)
(* a fault and a restart need never happen.                                *)
Fairness ==
    /\ WF_vars(Signal) /\ WF_vars(Accept) /\ WF_vars(StartHandler)
    /\ WF_vars(Handler) /\ WF_vars(Agent)

FairSpec == Spec /\ Fairness

-----------------------------------------------------------------------------
Usage == [serverRestarts : Nat, agentRestarts : Nat, breaks : Nat,
          fileFaults : Nat]
Frame == [seq : Nat, change : Change]   \* a POLICY frame

(* Who is where: a handler has a connection and, from "send" on, a change; *)
(* so has the agent, which from "apply" on holds a message.                *)
HandlerType ==
    /\ h \in [pc : {"none", "next", "wait", "send", "recv", "save", "commit"},
              conn : Conns \cup {NoConn}, sess : Session,
              change : Change \cup {NoChange}, seq : Nat, ack : Nat]
    /\ h.pc = "none" <=> h.conn = NoConn
    /\ h.pc \in {"send", "recv", "save", "commit"} => h.change \in Change

AgentType ==
    /\ a \in [pc : {"dial", "recv", "apply", "save", "ack"},
              conn : Conns \cup {NoConn}, sess : Session, msg : Message]
    /\ a.pc = "dial" <=> a.conn = NoConn
    /\ a.pc \in {"apply", "save", "ack"} => a.msg.change \in Change

(* Every variable keeps its type, and the program counters of the handler  *)
(* and the agent agree with what each holds: handleSync has a connection   *)
(* exactly while it runs.                                                  *)
TypeOK ==
    /\ pending \in Seq(Change) /\ notify \in {0, 1}
    /\ publisher \in {"idle", "signal"}
    /\ backlog \in Seq(Conns) /\ accepting \in Conns \cup {NoConn}
    /\ HandlerType /\ sCursor \in Nat /\ sFile \in Nat
    /\ AgentType /\ aCursor \in Nat /\ aFile \in Nat
    /\ aStore \in Store /\ aDisk \in Store
    /\ toAgent \in [Conns -> Seq(Frame)]
    /\ toServer \in [Conns -> Seq(Nat)]
    /\ broken \subseteq Conns
    /\ versions \in Seq(Store) /\ versions # <<>>
    /\ appliedIds \in Seq(Nat) /\ lost \subseteq Nat
    /\ used \in Usage

-----------------------------------------------------------------------------
(* The cursors meet across restarts when the agent keeps its cursor in a   *)
(* file and the server keeps its own, in a file or by staying up.          *)
CursorsKept == AgentCursorFile /\ (ServerCursorFile \/ used.serverRestarts = 0)

(* The server's cursor is never ahead of what the agent has saved, and at  *)
(* most one behind it, whatever restarts, breaks and failed writes happen  *)
(* between handleSync's saveCursor and consume's.                          *)
CursorWindow == CursorsKept => sCursor <= aFile /\ aFile <= sCursor + 1

(* handleSync sends one change at a time: when it sends, no earlier        *)
(* sequence of its session is still pending, so ErrBackpressure never ends *)
(* the handler even with MaxInFlight = 1.                                  *)
StopAndWait == CursorsKept /\ h.pc = "send" => h.sess.pending = {}

(* queue.next cannot sleep on a queue that is not empty: there is a token  *)
(* in notify, or a publisher about to send one.                            *)
NoLostWakeup ==
    h.pc = "wait" /\ pending # <<>> => notify = 1 \/ publisher = "signal"

(* A change leaves the queue as acknowledged without the agent having      *)
(* applied it at most once per restart of the server: only when the server *)
(* lost the cursor of a change whose ACK it had not yet saved.             *)
SilentLossBound == CursorsKept => Cardinality(lost) <= used.serverRestarts

(* While the server stays up, the agent's store is the server's policy     *)
(* after the last committed mutation, or after the one in flight; so is    *)
(* its file, although store and cursor are not written atomically.         *)
AgentHoldsAVersion ==
    used.serverRestarts = 0 /\ (AgentStoreFile \/ used.agentRestarts = 0) =>
        LET current == {Version(k) : k \in {sCursor, sCursor + 1} \cap 0..Published}
        IN  aStore \in current /\ (AgentStoreFile => aDisk \in current)

(* The agent applies changes in the order they were published, repeating   *)
(* at most the last one.                                                   *)
AppliedInOrder ==
    AgentCursorFile =>
        \A i, j \in 1..Len(appliedIds) : i < j => appliedIds[i] < appliedIds[j]

(* A sequence the agent has applied is only ever sent again with the same  *)
(* payload, which is what lets Receive acknowledge it without looking.     *)
SequenceNamesOnePayload ==
    a.conn # NoConn =>
        \A i \in 1..Len(toAgent[a.conn]) :
            LET m == toAgent[a.conn][i]
            IN  m.seq <= Len(appliedIds) => appliedIds[m.seq] = m.change.id

(* A dry-run agent leaves no trace: nothing is applied, saved or           *)
(* acknowledged, and the change stays at the head of the server's queue.   *)
DryRunHoldsBack ==
    DryRun => /\ aStore = EmptyStore /\ aDisk = EmptyStore /\ aFile = 0
                   /\ sCursor = 0 /\ Len(pending) = Published

(* Once mutations, faults and restarts stop, the agent ends up holding the *)
(* server's policy and the queue is empty, unless it is left in dry-run.   *)
Convergence == <>[](~DryRun => aStore = Version(Published) /\ pending = <<>>)

(* While the server stays up and files can be written, the stream is what  *)
(* PolicyStream promises: across broken connections, lost ACKs and agent   *)
(* restarts the agent's policy takes every version of the server's policy  *)
(* once and in order.  Its version is counted by the sequences it applied. *)
Stream == INSTANCE PolicyStream
            WITH Policies <- Store, First <- EmptyStore, log <- versions,
                 follower <- [at |-> Len(appliedIds) + 1, policy |-> aStore]

ImplementsStream == Stream!Spec
=============================================================================
