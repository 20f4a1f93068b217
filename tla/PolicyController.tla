-------------------------- MODULE PolicyController --------------------------
(***************************************************************************)
(* internal/runtime/policy.go over a file-backed internal/policystore: the *)
(* controller that turns the stored lists into blackhole routes.  A manual *)
(* mutation first moves the BGP routes, then persists the lists, then      *)
(* publishes to the agents and wakes the expiry goroutine; a failed        *)
(* persist moves the routes back.  The expiry goroutine sleeps until the   *)
(* earliest expiry or a wake-up and removes what has expired.              *)
(*                                                                         *)
(* policyController.mu serialises Apply, ApplyBatch and applyExpired, so a *)
(* call is one action, except that applyExpired is one action per prefix   *)
(* it removes, with the mutex held in between (epc = "sweep").  A CIDR is  *)
(* the set of its addresses.  In dry-run mode every call returns at once   *)
(* and the controller has no behaviour to model.                           *)
(***************************************************************************)
EXTENDS Integers, FiniteSets

CONSTANTS
    Prefixes,          \* the canonical CIDRs, as sets of addresses
    NetAddr,           \* prefix.Addr(), the network address of each
    MaxTime,           \* bound: the clock
    MaxWait,           \* RunExpiry's longest wait (an hour)
    MaxEngineErrors,   \* bound: Announce and Withdraw calls that fail
    MaxFileFaults,     \* bound: persists that fail
    MaxBatches,        \* bound: ApplyBatch calls of the feeds
    MaxRestarts        \* bound: restarts of rtbh-server

ASSUME PrefixAssumption ==
    /\ IsFiniteSet(Prefixes)
    /\ NetAddr \in [Prefixes -> UNION Prefixes]
    /\ \A p \in Prefixes : NetAddr[p] \in p
ASSUME CidrAssumption ==   \* two CIDRs are nested or disjoint
    \A p, q \in Prefixes : p \subseteq q \/ q \subseteq p \/ p \cap q = {}
ASSUME BoundAssumption ==
    /\ MaxTime \in Nat /\ MaxWait \in Nat \ {0} /\ MaxEngineErrors \in Nat
    /\ MaxFileFaults \in Nat /\ MaxBatches \in Nat /\ MaxRestarts \in Nat

VARIABLES
    store,     \* policystore.Store in memory: two lists and expirations
    disk,      \* the policy file
    active,    \* policyController.active
    rib,       \* the routes the BGP engine has
    replica,   \* history: what the published mutations add up to
    wake,      \* a token is in policyController.wake
    epc,       \* where RunExpiry is
    deadline,  \* when its timer fires
    sweepNow,  \* the now of applyExpired
    sweep,     \* the prefixes applyExpired has still to remove
    now,       \* the clock
    unrolled,  \* history: a call that undoes an earlier one has failed
    used       \* how much of each bound is used

policyVars == <<store, disk, replica>>
routeVars == <<active, rib, unrolled>>
expiryVars == <<epc, deadline, sweepNow, sweep>>
vars == <<policyVars, routeVars, expiryVars, wake, now, used>>

-----------------------------------------------------------------------------
(* The lists.  An expiry of 0 is no expiry.                                *)

Times == 1..MaxTime
Lists == {"blocklist", "whitelist"}
Store == [blocklist : SUBSET Prefixes, whitelist : SUBSET Prefixes,
          expiry : [Prefixes -> {0} \cup Times]]
EmptyStore == [blocklist |-> {}, whitelist |-> {},
               expiry |-> [p \in Prefixes |-> 0]]

(* What handler.mutate lets through; expires_at was in the future when it  *)
(* was checked, and may no longer be when Apply has the mutex.             *)
Mutation == [action : {"add"}, list : {"blocklist"}, prefix : Prefixes,
             expiry : Times]
            \cup [action : {"add", "remove"}, list : Lists, prefix : Prefixes,
                  expiry : {0}]

(* Does applyLocked (and so Store.mutate or AddUntil) find work to do?     *)
Changes(s, m) ==
    \/ m.action = "add" /\ m.prefix \notin s[m.list]
    \/ m.action = "add" /\ m.expiry # 0 /\ s.expiry[m.prefix] # m.expiry
    \/ m.action = "remove" /\ m.prefix \in s[m.list]

(* The lists after a mutation, without the expirations. *)
MutateLists(s, m) ==
    [s EXCEPT ![m.list] = IF m.action = "add" THEN @ \cup {m.prefix}
                                              ELSE @ \ {m.prefix}]

(* Mutant: removal leaves the expiry behind. *)
MutateKeepsExpiry(s, m) ==
    LET lists == MutateLists(s, m)
    IN  IF m.expiry # 0 THEN [lists EXCEPT !.expiry[m.prefix] = m.expiry]
                        ELSE lists

(* The store after a mutation: AddUntil sets the expiry, removal from the  *)
(* blocklist deletes it.                                                   *)
Mutate(s, m) ==
    LET lists == MutateLists(s, m)
    IN  CASE m.expiry # 0 -> [lists EXCEPT !.expiry[m.prefix] = m.expiry]
          [] m.action = "remove" /\ m.list = "blocklist" ->
               [lists EXCEPT !.expiry[m.prefix] = 0]
          [] OTHER -> lists

Expired(s, p, t) == s.expiry[p] # 0 /\ s.expiry[p] <= t

(* Mutant: only a whitelist CIDR that covers the prefix suppresses it. *)
SuppressedByCover(s, p) == \E w \in s.whitelist : NetAddr[p] \in w

(* effectiveRoutes: a whitelist CIDR that contains the prefix's network    *)
(* address, or whose network address the prefix contains, suppresses it.   *)
Suppressed(s, p) ==
    \E w \in s.whitelist : NetAddr[w] \in p \/ NetAddr[p] \in w

EffectiveRoutes(s, t) ==
    {p \in s.blocklist : ~Expired(s, p, t) /\ ~Suppressed(s, p)}

-----------------------------------------------------------------------------
(* applyDelta.                                                             *)

(* Mutant: a failed call leaves the calls before it in place. *)
DeltaNoUndo(r, act, desired) ==
    LET gone == act \ desired
        new == desired \ act
    IN  {[ok |-> TRUE, rib |-> (r \ gone) \cup new, active |-> desired,
          errors |-> 0, undone |-> TRUE]}
        \cup {[ok |-> FALSE, rib |-> r \ x, active |-> act, errors |-> 1,
               undone |-> TRUE] : x \in SUBSET gone \ {gone}}
        \cup {[ok |-> FALSE, rib |-> (r \ gone) \cup x, active |-> act,
               errors |-> 1, undone |-> TRUE] : x \in SUBSET new \ {new}}

(* Every way applyDelta can end: all calls succeed and active becomes the  *)
(* desired set; or a Withdraw or an Announce fails, the calls before it    *)
(* are undone (their errors are ignored, stale and kept are the ones that  *)
(* failed) and active stays.  errors counts the failed engine calls.       *)
Delta(r, act, desired) ==
    LET gone == act \ desired
        new == desired \ act
        Stopped == {x \in [withdrawn : SUBSET gone, announced : SUBSET new,
                           stale : SUBSET gone, kept : SUBSET new] :
                      /\ x.stale \subseteq x.withdrawn
                      /\ x.kept \subseteq x.announced
                      /\ \/ x.withdrawn # gone /\ x.announced = {}
                         \/ x.withdrawn = gone /\ x.announced # new}
    IN  {[ok |-> TRUE, rib |-> (r \ gone) \cup new, active |-> desired,
          errors |-> 0, undone |-> TRUE]}
        \cup {[ok |-> FALSE, rib |-> (((r \cup x.withdrawn) \ x.stale) \cup x.announced)
                                       \ (x.announced \ x.kept),
               active |-> act,
               errors |-> 1 + Cardinality(x.stale) + Cardinality(x.kept),
               undone |-> x.stale = {} /\ x.kept = {}] : x \in Stopped}

(* The routes and the error count after a call of applyDelta. *)
Routes(d, spent) ==
    /\ rib' = d.rib /\ active' = d.active
    /\ used.errors + spent <= MaxEngineErrors

Init ==
    /\ store = EmptyStore /\ disk = EmptyStore /\ replica = EmptyStore
    /\ active = {} /\ rib = {} /\ unrolled = FALSE
    /\ wake = FALSE /\ epc = "compute" /\ deadline = 0 /\ sweepNow = 0
    /\ sweep = {} /\ now = 0
    /\ used = [errors |-> 0, faults |-> 0, batches |-> 0, restarts |-> 0]

-----------------------------------------------------------------------------
(* applyLocked.                                                            *)

(* Mutant: the expiry goroutine is not woken. *)
ApplyCommitsSilently(m) ==
    /\ Changes(store, m)
    /\ \E d \in Delta(rib, active, EffectiveRoutes(MutateLists(store, m), now)) :
         d.ok /\ Routes(d, 0)
    /\ store' = Mutate(store, m) /\ disk' = store'
    /\ replica' = Mutate(replica, m)
    /\ UNCHANGED <<wake, unrolled, used>>

(* The routes follow the proposed lists, under the expirations the store   *)
(* still has; then the store is persisted, the mutation published and the  *)
(* expiry goroutine woken.                                                 *)
ApplyCommits(m) ==
    /\ Changes(store, m)
    /\ \E d \in Delta(rib, active, EffectiveRoutes(MutateLists(store, m), now)) :
         d.ok /\ Routes(d, 0)
    /\ store' = Mutate(store, m) /\ disk' = store'
    /\ replica' = Mutate(replica, m)
    /\ wake' = TRUE
    /\ UNCHANGED <<unrolled, used>>

(* applyDelta fails: nothing is persisted. *)
ApplyDeltaFails(m) ==
    /\ Changes(store, m)
    /\ \E d \in Delta(rib, active, EffectiveRoutes(MutateLists(store, m), now)) :
         /\ ~d.ok /\ Routes(d, d.errors)
         /\ unrolled' = (unrolled \/ ~d.undone)
         /\ used' = [used EXCEPT !.errors = @ + d.errors]
    /\ UNCHANGED <<policyVars, wake>>

(* Mutant: the routes stay as proposed when the store cannot be persisted. *)
ApplyPersistFailsNoUndo(m) ==
    /\ Changes(store, m)
    /\ used.faults < MaxFileFaults
    /\ disk' \in {disk, Mutate(store, m)}
    /\ \E d \in Delta(rib, active, EffectiveRoutes(MutateLists(store, m), now)) :
         d.ok /\ Routes(d, 0)
    /\ used' = [used EXCEPT !.faults = @ + 1]
    /\ UNCHANGED <<store, replica, wake, unrolled>>

(* Mutant: the mutation is published before it is persisted. *)
ApplyPersistFailsPublished(m) ==
    /\ Changes(store, m)
    /\ used.faults < MaxFileFaults
    /\ replica' = Mutate(replica, m)
    /\ used' = [used EXCEPT !.faults = @ + 1]
    /\ UNCHANGED <<store, disk, routeVars, wake>>

(* Persisting fails, before or after the rename; the routes are moved back *)
(* to what the unchanged store wants now, and an error of that is ignored. *)
ApplyPersistFails(m) ==
    /\ Changes(store, m)
    /\ used.faults < MaxFileFaults
    /\ disk' \in {disk, Mutate(store, m)}
    /\ \E d \in Delta(rib, active, EffectiveRoutes(MutateLists(store, m), now)) :
         /\ d.ok
         /\ \E back \in Delta(d.rib, d.active, EffectiveRoutes(store, now)) :
              /\ Routes(back, back.errors)
              /\ unrolled' = (unrolled \/ ~back.ok)
              /\ used' = [used EXCEPT !.errors = @ + back.errors,
                                      !.faults = @ + 1]
    /\ UNCHANGED <<store, replica, wake>>

ApplyFails(m) == ApplyDeltaFails(m) \/ ApplyPersistFails(m)

(* Apply: an operator's mutation.  One that changes nothing has no effect. *)
Apply ==
    /\ epc # "sweep"
    /\ \E m \in Mutation : ApplyCommits(m) \/ ApplyFails(m)
    /\ UNCHANGED <<expiryVars, now>>

(* ApplyBatch: what a feed added and removed goes to the routes directly,  *)
(* past the lists; the errors of the engine are ignored.                   *)
ApplyBatch ==
    /\ epc # "sweep" /\ used.batches < MaxBatches
    /\ \E toRemove, toAdd \in SUBSET Prefixes :
       \E leaked \in SUBSET (toRemove \cap active) :
       \E failed \in SUBSET (toAdd \ (active \ toRemove)) :
         LET kept == active \ toRemove
             errors == Cardinality(leaked) + Cardinality(failed)
         IN  /\ toRemove \cup toAdd # {}
             /\ used.errors + errors <= MaxEngineErrors
             /\ active' = kept \cup (toAdd \ failed)
             /\ rib' = (rib \ ((active \cap toRemove) \ leaked))
                         \cup ((toAdd \ kept) \ failed)
             /\ unrolled' = (unrolled \/ leaked # {})
             /\ used' = [used EXCEPT !.errors = @ + errors, !.batches = @ + 1]
    /\ UNCHANGED <<policyVars, expiryVars, wake, now>>

-----------------------------------------------------------------------------
(* RunExpiry and applyExpired.                                             *)

Expirations == {p \in Prefixes : store.expiry[p] # 0}

(* The wait is computed from a snapshot of the expirations, without mu. *)
ComputeWait ==
    /\ epc = "compute"
    /\ epc' = "armed"
    /\ LET candidates == {now + MaxWait} \cup {store.expiry[p] : p \in Expirations}
       IN  \E t \in candidates : (\A u \in candidates : t <= u) /\ deadline' = t
    /\ UNCHANGED <<policyVars, routeVars, wake, sweepNow, sweep, now, used>>

(* The goroutine enters the select. *)
Sleep ==
    /\ epc = "armed"
    /\ epc' = "sleep"
    /\ UNCHANGED <<policyVars, routeVars, wake, deadline, sweepNow, sweep, now,
                   used>>

(* The select returns, by a token or by the timer, and applyExpired is     *)
(* called with the time of this moment.                                    *)
WakeUp ==
    /\ epc = "sleep"
    /\ \/ wake /\ wake' = FALSE
       \/ now >= deadline /\ UNCHANGED wake
    /\ epc' = "call"
    /\ sweepNow' = now
    /\ UNCHANGED <<policyVars, routeVars, deadline, sweep, now, used>>

(* Mutant: what was due at the deadline is removed, whatever the time. *)
StartSweepByDeadline ==
    /\ epc = "call"
    /\ sweep' = {p \in Expirations : Expired(store, p, deadline)}
    /\ epc' = "sweep"
    /\ UNCHANGED <<policyVars, routeVars, wake, deadline, sweepNow, now, used>>

(* applyExpired has mu: it reads the expirations and drops the ones that   *)
(* lie after its now.                                                      *)
StartSweep ==
    /\ epc = "call"
    /\ sweep' = {p \in Expirations : Expired(store, p, sweepNow)}
    /\ epc' = "sweep"
    /\ UNCHANGED <<policyVars, routeVars, wake, deadline, sweepNow, now, used>>

Removal(p) == [action |-> "remove", list |-> "blocklist", prefix |-> p,
               expiry |-> 0]

(* applyExpired removes one more prefix. *)
SweepOne(p) ==
    /\ epc = "sweep" /\ p \in sweep
    /\ ApplyCommits(Removal(p))
    /\ sweep' = sweep \ {p}
    /\ UNCHANGED <<epc, deadline, sweepNow, now>>

(* applyExpired returns the first error and RunExpiry sleeps for a second. *)
SweepFails(p) ==
    /\ epc = "sweep" /\ p \in sweep
    /\ ApplyFails(Removal(p))
    /\ sweep' = {} /\ epc' = "retry"
    /\ UNCHANGED <<deadline, sweepNow, now>>

(* Mutant: RunExpiry returns on an error. *)
EndSweepOnce ==
    /\ epc = "sweep" /\ sweep = {}
    /\ epc' = "compute"
    /\ UNCHANGED <<policyVars, routeVars, wake, deadline, sweepNow, sweep, now,
                   used>>

(* The loop starts again, after the sleep if there was an error. *)
EndSweep ==
    /\ (epc = "sweep" /\ sweep = {}) \/ epc = "retry"
    /\ epc' = "compute"
    /\ UNCHANGED <<policyVars, routeVars, wake, deadline, sweepNow, sweep, now,
                   used>>

RunExpiry ==
    \/ ComputeWait \/ Sleep \/ WakeUp \/ StartSweep \/ EndSweep
    \/ \E p \in Prefixes : SweepOne(p) \/ SweepFails(p)

-----------------------------------------------------------------------------
Tick ==
    /\ now < MaxTime
    /\ now' = now + 1
    /\ UNCHANGED <<policyVars, routeVars, expiryVars, wake, used>>

(* rtbh-server starts again: policystore.Open reads the file, Reconcile    *)
(* announces what it wants, RunExpiry starts over.                         *)
Restart ==
    /\ used.restarts < MaxRestarts
    /\ store' = disk
    /\ rib' = EffectiveRoutes(disk, now) /\ active' = rib'
    /\ unrolled' = FALSE /\ wake' = FALSE
    /\ epc' = "compute" /\ deadline' = 0 /\ sweepNow' = 0 /\ sweep' = {}
    /\ used' = [used EXCEPT !.restarts = @ + 1]
    /\ UNCHANGED <<disk, replica, now>>

Next == Apply \/ ApplyBatch \/ RunExpiry \/ Tick \/ Restart

Spec == Init /\ [][Next]_vars

(* The expiry goroutine is scheduled; nothing else need happen. *)
FairSpec == Spec /\ WF_vars(RunExpiry)

-----------------------------------------------------------------------------
(* Every variable keeps its type; a prefix with an expiry is in the        *)
(* blocklist, as validateExpirations demands of the file.                  *)
TypeOK ==
    /\ store \in Store /\ disk \in Store /\ replica \in Store
    /\ \A s \in {store, disk} : \A p \in Prefixes :
         s.expiry[p] # 0 => p \in s.blocklist
    /\ active \subseteq Prefixes /\ rib \subseteq Prefixes
    /\ unrolled \in BOOLEAN /\ wake \in BOOLEAN
    /\ epc \in {"compute", "armed", "sleep", "call", "sweep", "retry"}
    /\ deadline \in Nat /\ sweepNow \in 0..MaxTime /\ now \in 0..MaxTime
    /\ sweep \subseteq Prefixes
    /\ used \in [errors : Nat, faults : Nat, batches : Nat, restarts : Nat]

(* The controller's idea of the announced routes is the engine's, unless a *)
(* call that undoes another one has itself failed.                         *)
ActiveIsAnnounced == unrolled \/ rib = active

(* No address of a whitelist CIDR is blackholed. *)
WhitelistNeverAdvertised ==
    unrolled \/ \A p \in rib, w \in store.whitelist : p \cap w = {}

(* Without feeds, only what the blocklist holds is announced, and a deny   *)
(* without an expiry is announced unless the whitelist overlaps it.        *)
PermanentDenyAdvertised ==
    unrolled \/ used.batches > 0 \/
        /\ rib \subseteq store.blocklist
        /\ \A p \in store.blocklist :
             store.expiry[p] = 0 /\ ~Suppressed(store, p) => p \in rib

(* The mutations published to the agents add up to the store, as long as   *)
(* the server has not come back with a file it had failed to write.        *)
PublishedIsStored == used.restarts = 0 => replica = store

(* The expiry goroutine never sleeps past an expiry without a token to     *)
(* wake it, although it computes the wait without holding the mutex.       *)
NoOversleep ==
    epc \in {"armed", "sleep"} =>
        wake \/ \A p \in Expirations : deadline <= store.expiry[p]

(* The expiry goroutine removes no prefix whose expiry, as it now stands,  *)
(* lies ahead: an extension made while it was waiting for mu counts.       *)
SweepSparesTheExtended ==
    [][epc = "sweep" /\ used'.restarts = used.restarts =>
         \A p \in store.blocklist \ store'.blocklist : Expired(store, p, now)]_vars

(* An expired prefix is removed, whatever fails on the way, unless its     *)
(* expiry is extended first.                                               *)
ExpiredEventuallyRemoved ==
    \A p \in Prefixes : Expired(store, p, now) ~> ~Expired(store, p, now)
=============================================================================
