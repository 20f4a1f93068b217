---------------------------- MODULE PolicyQueue -----------------------------
(***************************************************************************)
(* internal/runtime/queue.go: the in-memory queue between the policy       *)
(* controller, which publishes, and the handler of the agent's connection, *)
(* which reads the head, and removes it once it is acknowledged.           *)
(*                                                                         *)
(* publish appends under the queue's mutex and signals after unlocking, so *)
(* it is two steps.  Callers of publish hold the controller's mutex: there *)
(* is one publisher at a time.  notify is a channel of capacity one.       *)
(***************************************************************************)
EXTENDS Sequences

VARIABLES pending,    \* policyQueue.pending
          notify,     \* how many tokens are in policyQueue.notify, 0 or 1
          publisher   \* "idle", or "signal" between the append and the send

queueVars == <<pending, notify, publisher>>

QueueInit == pending = <<>> /\ notify = 0 /\ publisher = "idle"

(* Mutant: the newest change goes first. *)
PublishPrepend(change) ==
    /\ publisher = "idle"
    /\ pending' = <<change>> \o pending
    /\ publisher' = "signal"
    /\ UNCHANGED notify

(* publish, up to the unlock. *)
PublishAppend(change) ==
    /\ publisher = "idle"
    /\ pending' = Append(pending, change)
    /\ publisher' = "signal"
    /\ UNCHANGED notify

(* publish, the non-blocking send: a token already there is enough. *)
PublishSignal ==
    /\ publisher = "signal"
    /\ notify' = 1
    /\ publisher' = "idle"
    /\ UNCHANGED pending

(* next, the receive from notify; the caller then looks at pending again. *)
TakeToken ==
    /\ notify = 1
    /\ notify' = 0
    /\ UNCHANGED <<pending, publisher>>

(* commit drops the head if it is still the change that was acknowledged.  *)
(* IdempotencyKey is unique in the life of a queue, as the id is here.     *)
Commit(change) ==
    /\ pending' = IF pending # <<>> /\ Head(pending).id = change.id
                  THEN Tail(pending) ELSE pending
    /\ UNCHANGED <<notify, publisher>>
=============================================================================
