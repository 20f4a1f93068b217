---------------------------- MODULE PolicyStream ----------------------------
(***************************************************************************)
(* What policy-sync promises an agent: the server's policy goes through a  *)
(* sequence of versions, and the agent's policy follows it one version at  *)
(* a time, never skipping one, going back, or showing anything in between. *)
(***************************************************************************)
EXTENDS Naturals, Sequences

CONSTANTS Policies, First   \* the possible policies, and the empty one

VARIABLES
    log,      \* the versions of the server's policy, oldest first
    follower  \* the version the agent is at, and its policy

Init ==
    /\ log = <<First>>
    /\ follower = [at |-> 1, policy |-> First]

(* An operator's mutation is published. *)
Publish ==
    /\ \E next \in Policies : log' = Append(log, next)
    /\ UNCHANGED follower

(* The agent moves on to the next version. *)
Follow ==
    /\ follower.at < Len(log)
    /\ follower' = [at |-> follower.at + 1, policy |-> log[follower.at + 1]]
    /\ UNCHANGED log

Next == Publish \/ Follow

Spec == Init /\ [][Next]_<<log, follower>>
=============================================================================
