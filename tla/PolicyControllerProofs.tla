----------------------- MODULE PolicyControllerProofs -----------------------
(***************************************************************************)
(* Theorems about PolicyController, for every finite set of CIDRs and all  *)
(* bounds: its types, that the engine announces what the controller        *)
(* believes it announces, that without feeds the announced routes fit the  *)
(* lists, that what is published adds up to what is stored, and that the   *)
(* expiry goroutine neither oversleeps nor removes what was extended.      *)
(***************************************************************************)
EXTENDS PolicyController, FiniteSetTheorems, TLAPS

-----------------------------------------------------------------------------
(* The lists.                                                              *)

(* What a mutation can be, one disjunct per kind. *)
LEMMA MutationKinds ==
    ASSUME NEW m \in Mutation
    PROVE  /\ m.prefix \in Prefixes /\ m.list \in Lists
           /\ m.action \in {"add", "remove"}
           /\ m.expiry = 0 \/ (m.expiry \in Times /\ m.list = "blocklist"
                                /\ m.action = "add")
BY DEF Mutation, Lists

(* MutateLists changes one list and nothing else. *)
LEMMA ListsChange ==
    ASSUME NEW s \in Store, NEW m \in Mutation
    PROVE  /\ MutateLists(s, m) \in Store
           /\ MutateLists(s, m).expiry = s.expiry
           /\ m.list = "blocklist" /\ m.action = "add" =>
                MutateLists(s, m).blocklist = s.blocklist \cup {m.prefix}
           /\ m.list = "blocklist" /\ m.action = "remove" =>
                MutateLists(s, m).blocklist = s.blocklist \ {m.prefix}
           /\ m.list = "whitelist" => MutateLists(s, m).blocklist = s.blocklist
<1>1. m.prefix \in Prefixes /\ m.list \in Lists /\ m.action \in {"add", "remove"}
  BY MutationKinds
<1> DEFINE new == IF m.action = "add" THEN s[m.list] \cup {m.prefix}
                                      ELSE s[m.list] \ {m.prefix}
<1>2. CASE m.list = "blocklist"
  <2>1. MutateLists(s, m) = [s EXCEPT !.blocklist =
                               IF m.action = "add" THEN @ \cup {m.prefix}
                                                   ELSE @ \ {m.prefix}]
    BY <1>2 DEF MutateLists
  <2> QED
    BY <1>1, <1>2, <2>1 DEF Store
<1>3. CASE m.list = "whitelist"
  <2>1. MutateLists(s, m) = [s EXCEPT !.whitelist =
                               IF m.action = "add" THEN @ \cup {m.prefix}
                                                   ELSE @ \ {m.prefix}]
    BY <1>3 DEF MutateLists
  <2> QED
    BY <1>1, <1>3, <2>1 DEF Store
<1> QED
  BY <1>1, <1>2, <1>3 DEF Lists

(* Mutate has the lists of MutateLists; only the mutation's own prefix gets *)
(* another expiry, and none is left once it is out of the blocklist.        *)
LEMMA MutateChange ==
    ASSUME NEW s \in Store, NEW m \in Mutation
    PROVE  /\ Mutate(s, m) \in Store
           /\ Mutate(s, m).blocklist = MutateLists(s, m).blocklist
           /\ Mutate(s, m).whitelist = MutateLists(s, m).whitelist
           /\ \A p \in Prefixes : p # m.prefix =>
                Mutate(s, m).expiry[p] = s.expiry[p]
           /\ m.expiry # 0 => Mutate(s, m).expiry[m.prefix] = m.expiry
           /\ m.expiry = 0 /\ m.action = "remove" /\ m.list = "blocklist" =>
                Mutate(s, m).expiry[m.prefix] = 0
           /\ m.expiry = 0 /\ ~(m.action = "remove" /\ m.list = "blocklist") =>
                Mutate(s, m).expiry[m.prefix] = s.expiry[m.prefix]
<1> DEFINE lists == MutateLists(s, m)
<1>1. lists \in Store /\ lists.expiry = s.expiry
  BY ListsChange
<1>2. m.prefix \in Prefixes /\ (m.expiry = 0 \/ m.expiry \in Times)
  BY MutationKinds
<1>3. Mutate(s, m) = CASE m.expiry # 0 -> [lists EXCEPT !.expiry[m.prefix] = m.expiry]
          [] m.action = "remove" /\ m.list = "blocklist" ->
               [lists EXCEPT !.expiry[m.prefix] = 0]
          [] OTHER -> lists
  BY DEF Mutate
<1> HIDE DEF lists
<1>4. CASE m.expiry # 0
  <2>1. Mutate(s, m) = [lists EXCEPT !.expiry[m.prefix] = m.expiry]
    BY <1>3, <1>4, MutationKinds
  <2> QED
    BY <1>1, <1>2, <1>4, <2>1 DEF Store, lists
<1>5. CASE m.expiry = 0 /\ m.action = "remove" /\ m.list = "blocklist"
  <2>1. Mutate(s, m) = [lists EXCEPT !.expiry[m.prefix] = 0]
    BY <1>3, <1>5
  <2> QED
    BY <1>1, <1>2, <1>5, <2>1 DEF Store, lists
<1>6. CASE m.expiry = 0 /\ ~(m.action = "remove" /\ m.list = "blocklist")
  <2>1. Mutate(s, m) = lists
    BY <1>3, <1>6
  <2> QED
    BY <1>1, <1>2, <1>6, <2>1 DEF Store, lists
<1> QED
  BY <1>4, <1>5, <1>6

(* What validateExpirations demands: only a blocklist entry has an expiry. *)
NoOrphan(s) == \A p \in Prefixes : s.expiry[p] # 0 => p \in s.blocklist

(* A mutation leaves no orphan. *)
LEMMA MutateNoOrphan ==
    ASSUME NEW s \in Store, NEW m \in Mutation, NoOrphan(s)
    PROVE  NoOrphan(Mutate(s, m))
<1> SUFFICES ASSUME NEW p \in Prefixes, Mutate(s, m).expiry[p] # 0
             PROVE  p \in Mutate(s, m).blocklist
  BY DEF NoOrphan
<1>k. /\ m.list = "blocklist" \/ m.list = "whitelist"
      /\ m.action = "add" \/ m.action = "remove"
      /\ m.expiry = 0 \/ (m.list = "blocklist" /\ m.action = "add")
  BY MutationKinds DEF Lists
<1>b. Mutate(s, m).blocklist = MutateLists(s, m).blocklist
  BY MutateChange
<1>1. CASE p = m.prefix
  <2>1. CASE m.list = "blocklist" /\ m.action = "add"
    BY <1>1, <1>b, <2>1, ListsChange
  <2>2. CASE m.list = "blocklist" /\ m.action = "remove"
    <3>1. m.expiry = 0
      BY <1>k, <2>2
    <3> QED
      BY <1>1, <2>2, <3>1, MutateChange
  <2>3. CASE m.list = "whitelist"
    <3>1. m.expiry = 0
      BY <1>k, <2>3
    <3>2. Mutate(s, m).expiry[p] = s.expiry[p]
      BY <1>1, <2>3, <3>1, MutateChange
    <3>3. MutateLists(s, m).blocklist = s.blocklist
      BY <2>3, ListsChange
    <3> QED
      BY <1>b, <3>2, <3>3 DEF NoOrphan
  <2> QED
    BY <1>k, <2>1, <2>2, <2>3
<1>2. CASE p # m.prefix
  <2>1. Mutate(s, m).expiry[p] = s.expiry[p]
    BY <1>2, MutateChange
  <2>2. p \in s.blocklist
    BY <2>1 DEF NoOrphan
  <2> QED
    BY <1>2, <1>b, <1>k, <2>2, ListsChange
<1> QED
  BY <1>1, <1>2

-----------------------------------------------------------------------------
(* The routes.                                                             *)

(* Routes that fit the lists: blocklist entries only, none the whitelist   *)
(* overlaps, and every permanent one that it does not.                     *)
Fits(routes, s) ==
    /\ routes \subseteq s.blocklist
    /\ \A p \in routes : ~Suppressed(s, p)
    /\ \A p \in s.blocklist : s.expiry[p] = 0 /\ ~Suppressed(s, p) => p \in routes

(* effectiveRoutes of a store fits it. *)
LEMMA EffectiveFits ==
    ASSUME NEW s \in Store, NEW t
    PROVE  Fits(EffectiveRoutes(s, t), s) /\ EffectiveRoutes(s, t) \subseteq Prefixes
BY DEF Fits, EffectiveRoutes, Expired, Store

(* So does effectiveRoutes of the proposed lists under the expirations     *)
(* before the mutation: applyLocked's routes fit the store it then writes. *)
LEMMA ProposedFits ==
    ASSUME NEW s \in Store, NEW m \in Mutation, NEW t
    PROVE  /\ Fits(EffectiveRoutes(MutateLists(s, m), t), Mutate(s, m))
           /\ EffectiveRoutes(MutateLists(s, m), t) \subseteq Prefixes
<1> DEFINE lists == MutateLists(s, m)
           after == Mutate(s, m)
           routes == EffectiveRoutes(lists, t)
<1>1. lists \in Store /\ lists.expiry = s.expiry
  BY ListsChange
<1>2. after \in Store /\ after.blocklist = lists.blocklist /\ after.whitelist = lists.whitelist
  BY MutateChange
<1>3. \A p \in Prefixes : Suppressed(after, p) <=> Suppressed(lists, p)
  BY <1>2 DEF Suppressed
<1>4. Fits(routes, lists) /\ routes \subseteq Prefixes
  BY <1>1, EffectiveFits
<1>5. ASSUME NEW p \in after.blocklist, after.expiry[p] = 0
      PROVE  lists.expiry[p] = 0
  <2>1. p \in Prefixes /\ p \in lists.blocklist
    BY <1>2, <1>5 DEF Store
  <2>2. CASE p # m.prefix
    BY <1>1, <1>5, <2>1, <2>2, MutateChange
  <2>3. CASE p = m.prefix
    <3>1. m.expiry = 0
      BY <1>5, <2>3, MutateChange
    <3>2. ~(m.action = "remove" /\ m.list = "blocklist")
      BY <2>1, <2>3, ListsChange
    <3> QED
      BY <1>1, <1>5, <2>3, <3>1, <3>2, MutateChange
  <2> QED
    BY <2>2, <2>3
<1> HIDE DEF lists, after, routes
<1>6. Fits(routes, after)
  BY <1>1, <1>2, <1>3, <1>4, <1>5 DEF Fits, Store
<1> QED
  BY <1>4, <1>6 DEF lists, after, routes

(* What applyDelta leaves: the desired routes when it succeeds, and else    *)
(* the old ones unless a call that undoes another one has failed.           *)
Outcome(r, act, desired, d) ==
    /\ d.rib \in SUBSET Prefixes /\ d.active \in SUBSET Prefixes
    /\ d.errors \in Nat
    /\ d.ok => d.active = desired /\ (r = act => d.rib = desired)
    /\ ~d.ok => d.active = act /\ (d.undone /\ r = act => d.rib = act)

(* Every end of applyDelta is such an outcome. *)
LEMMA DeltaOutcome ==
    ASSUME NEW r \in SUBSET Prefixes, NEW act \in SUBSET Prefixes,
           NEW desired \in SUBSET Prefixes, NEW d \in Delta(r, act, desired)
    PROVE  Outcome(r, act, desired, d)
<1> USE DEF Outcome
<1> DEFINE gone == act \ desired
           new == desired \ act
           Stopped == {x \in [withdrawn : SUBSET gone, announced : SUBSET new,
                              stale : SUBSET gone, kept : SUBSET new] :
                         /\ x.stale \subseteq x.withdrawn
                         /\ x.kept \subseteq x.announced
                         /\ \/ x.withdrawn # gone /\ x.announced = {}
                            \/ x.withdrawn = gone /\ x.announced # new}
           After(x) == (((r \cup x.withdrawn) \ x.stale) \cup x.announced)
                         \ (x.announced \ x.kept)
           Count(x) == 1 + Cardinality(x.stale) + Cardinality(x.kept)
<1>1. CASE d = [ok |-> TRUE, rib |-> (r \ gone) \cup new, active |-> desired,
                errors |-> 0, undone |-> TRUE]
  BY <1>1
<1>2. ASSUME NEW x \in Stopped,
             d = [ok |-> FALSE, rib |-> After(x), active |-> act,
                  errors |-> Count(x), undone |-> x.stale = {} /\ x.kept = {}]
      PROVE  /\ d.rib \in SUBSET Prefixes /\ d.active \in SUBSET Prefixes
             /\ d.errors \in Nat
             /\ ~d.ok
             /\ d.active = act /\ (d.undone /\ r = act => d.rib = act)
  <2>1. /\ x.withdrawn \subseteq gone /\ x.announced \subseteq new
        /\ x.stale \subseteq gone /\ x.kept \subseteq new
    OBVIOUS
  <2>2. Count(x) \in Nat
    <3>1. x.stale \in SUBSET Prefixes /\ x.kept \in SUBSET Prefixes
      BY <2>1
    <3> HIDE DEF Stopped
    <3>2. Cardinality(x.stale) \in Nat /\ Cardinality(x.kept) \in Nat
      BY <3>1, PrefixAssumption, FS_Subset, FS_CardinalityType
    <3> QED
      BY <3>2
  <2>3. After(x) \in SUBSET Prefixes
    BY <2>1
  <2>4. ASSUME x.stale = {}, x.kept = {}, r = act PROVE After(x) = act
    BY <2>1, <2>4
  <2> HIDE DEF Stopped, After, Count
  <2>5. d.rib = After(x) /\ d.active = act /\ d.errors = Count(x) /\ ~d.ok
    BY <1>2
  <2>6. d.undone => x.stale = {} /\ x.kept = {}
    BY <1>2
  <2> QED
    BY <2>2, <2>3, <2>4, <2>5, <2>6
<1>3. \/ d = [ok |-> TRUE, rib |-> (r \ gone) \cup new, active |-> desired,
              errors |-> 0, undone |-> TRUE]
      \/ \E x \in Stopped :
           d = [ok |-> FALSE, rib |-> After(x), active |-> act,
                errors |-> Count(x), undone |-> x.stale = {} /\ x.kept = {}]
  BY DEF Delta
<1> HIDE DEF Stopped, After, Count
<1> QED
  BY <1>1, <1>2, <1>3

-----------------------------------------------------------------------------
(* One mutation.                                                           *)

Usage == [errors : Nat, faults : Nat, batches : Nat, restarts : Nat]

(* Counting engine errors and a failed persist. *)
LEMMA UsageAdds ==
    ASSUME NEW u \in Usage, NEW n \in Nat
    PROVE  LET v == [u EXCEPT !.errors = @ + n, !.faults = @ + 1]
           IN  v \in Usage /\ v.batches = u.batches
<1> DEFINE w == [u EXCEPT !.errors = @ + n]
<1>1. w \in Usage /\ w.batches = u.batches /\ w.faults = u.faults
  BY DEF Usage
<1>2. [u EXCEPT !.errors = @ + n, !.faults = @ + 1] = [w EXCEPT !.faults = @ + 1]
  BY DEF Usage
<1> HIDE DEF w
<1>3. [w EXCEPT !.faults = @ + 1] \in Usage
  BY <1>1 DEF Usage
<1>4. [w EXCEPT !.faults = @ + 1].batches = w.batches
  BY <1>1 DEF Usage
<1> QED
  BY <1>1, <1>2, <1>3, <1>4

(* The part of TypeOK that a mutation touches. *)
PolicyType ==
    /\ store \in Store /\ disk \in Store /\ replica \in Store
    /\ NoOrphan(store) /\ NoOrphan(disk)
    /\ active \in SUBSET Prefixes /\ rib \in SUBSET Prefixes
    /\ unrolled \in BOOLEAN /\ wake \in BOOLEAN
    /\ used \in Usage

(* The routes are what the controller believes and, without feeds, fit the *)
(* store; unless a call that undoes another one has failed.                *)
RouteInv ==
    unrolled \/ (rib = active /\ (used.batches = 0 => Fits(active, store)))

(* A mutation that succeeds. *)
LEMMA CommitStep ==
    ASSUME PolicyType, RouteInv, NEW m \in Mutation, ApplyCommits(m)
    PROVE  PolicyType' /\ RouteInv'
<1>a. rib \in SUBSET Prefixes /\ active \in SUBSET Prefixes
  BY DEF PolicyType
<1> DEFINE desired == EffectiveRoutes(MutateLists(store, m), now)
<1>1. desired \in SUBSET Prefixes /\ Fits(desired, Mutate(store, m))
  BY ProposedFits DEF PolicyType
<1>2. PICK d \in Delta(rib, active, desired) : d.ok /\ rib' = d.rib /\ active' = d.active
  BY DEF ApplyCommits, Routes
<1> HIDE DEF desired
<1>3. /\ d.rib \in SUBSET Prefixes /\ d.active \in SUBSET Prefixes
      /\ d.active = desired /\ (rib = active => d.rib = desired)
  <2>1. Outcome(rib, active, desired, d)
    BY <1>a, <1>1, <1>2, DeltaOutcome
  <2> QED
    BY <1>2, <2>1 DEF Outcome
<1>4. /\ store' = Mutate(store, m) /\ disk' = Mutate(store, m)
      /\ replica' = Mutate(replica, m)
      /\ wake' = TRUE /\ unrolled' = unrolled /\ used' = used
  BY DEF ApplyCommits
<1>5. /\ Mutate(store, m) \in Store /\ Mutate(replica, m) \in Store
      /\ NoOrphan(Mutate(store, m))
  BY MutateChange, MutateNoOrphan DEF PolicyType
<1>6. NoOrphan(store)' /\ NoOrphan(disk)'
  BY <1>4, <1>5 DEF NoOrphan
<1>7. PolicyType'
  BY <1>2, <1>3, <1>4, <1>5, <1>6 DEF PolicyType
<1>8. RouteInv'
  BY <1>1, <1>2, <1>3, <1>4 DEF RouteInv, Fits, Suppressed
<1> QED
  BY <1>7, <1>8

(* A mutation that applyDelta refuses. *)
LEMMA DeltaFailsStep ==
    ASSUME PolicyType, RouteInv, NEW m \in Mutation, ApplyDeltaFails(m)
    PROVE  PolicyType' /\ RouteInv'
<1>a. rib \in SUBSET Prefixes /\ active \in SUBSET Prefixes
  BY DEF PolicyType
<1> DEFINE desired == EffectiveRoutes(MutateLists(store, m), now)
<1>1. desired \in SUBSET Prefixes
  BY ProposedFits DEF PolicyType
<1>2. PICK d \in Delta(rib, active, desired) :
        /\ ~d.ok /\ rib' = d.rib /\ active' = d.active
        /\ unrolled' = (unrolled \/ ~d.undone)
        /\ used' = [used EXCEPT !.errors = @ + d.errors]
  BY DEF ApplyDeltaFails, Routes
<1> HIDE DEF desired
<1>3. /\ d.rib \in SUBSET Prefixes /\ d.active \in SUBSET Prefixes
      /\ d.errors \in Nat
      /\ d.active = active /\ (d.undone /\ rib = active => d.rib = active)
  <2>1. Outcome(rib, active, desired, d)
    BY <1>a, <1>1, <1>2, DeltaOutcome
  <2> QED
    BY <1>2, <2>1 DEF Outcome
<1>4. UNCHANGED <<store, disk, replica, wake>>
  BY DEF ApplyDeltaFails, policyVars
<1>5. used' \in Usage /\ used'.batches = used.batches
  BY <1>2, <1>3 DEF PolicyType, Usage
<1>6. unrolled' \in BOOLEAN
  BY <1>2
<1>7. PolicyType'
  BY <1>2, <1>3, <1>4, <1>5, <1>6 DEF PolicyType, NoOrphan
<1>8. RouteInv'
  BY <1>2, <1>3, <1>4, <1>5 DEF RouteInv, Fits, Suppressed
<1> QED
  BY <1>7, <1>8

(* A mutation that cannot be persisted and is undone. *)
LEMMA PersistFailsStep ==
    ASSUME PolicyType, RouteInv, NEW m \in Mutation, ApplyPersistFails(m)
    PROVE  PolicyType' /\ RouteInv'
<1>a. rib \in SUBSET Prefixes /\ active \in SUBSET Prefixes
  BY DEF PolicyType
<1> DEFINE desired == EffectiveRoutes(MutateLists(store, m), now)
           before == EffectiveRoutes(store, now)
<1>1. /\ desired \in SUBSET Prefixes
      /\ before \in SUBSET Prefixes /\ Fits(before, store)
  BY ProposedFits, EffectiveFits DEF PolicyType
<1>2. PICK d \in Delta(rib, active, desired) :
        /\ d.ok
        /\ \E back \in Delta(d.rib, d.active, before) :
             /\ Routes(back, back.errors)
             /\ unrolled' = (unrolled \/ ~back.ok)
             /\ used' = [used EXCEPT !.errors = @ + back.errors, !.faults = @ + 1]
  BY DEF ApplyPersistFails
<1>3. PICK back \in Delta(d.rib, d.active, before) :
        /\ rib' = back.rib /\ active' = back.active
        /\ unrolled' = (unrolled \/ ~back.ok)
        /\ used' = [used EXCEPT !.errors = @ + back.errors, !.faults = @ + 1]
  BY <1>2 DEF Routes
<1> HIDE DEF desired, before
<1>4. /\ d.rib \in SUBSET Prefixes /\ d.active \in SUBSET Prefixes
      /\ d.active = desired /\ (rib = active => d.rib = desired)
  <2>1. Outcome(rib, active, desired, d)
    BY <1>a, <1>1, <1>2, DeltaOutcome
  <2> QED
    BY <1>2, <2>1 DEF Outcome
<1>5. /\ back.rib \in SUBSET Prefixes /\ back.active \in SUBSET Prefixes
      /\ back.errors \in Nat
      /\ back.ok => back.active = before
                     /\ (d.rib = d.active => back.rib = before)
  <2>1. Outcome(d.rib, d.active, before, back)
    BY <1>1, <1>3, <1>4, DeltaOutcome
  <2> QED
    BY <2>1 DEF Outcome
<1>6. /\ UNCHANGED <<store, replica, wake>>
      /\ disk' = disk \/ disk' = Mutate(store, m)
  BY DEF ApplyPersistFails
<1>7. used' \in Usage /\ used'.batches = used.batches
  <2>1. used \in Usage /\ back.errors \in Nat
    BY <1>5 DEF PolicyType
  <2>2. used' = [used EXCEPT !.errors = @ + back.errors, !.faults = @ + 1]
    BY <1>3
  <2> QED
    BY <2>1, <2>2, UsageAdds
<1>8. disk' \in Store /\ NoOrphan(disk)'
  BY <1>6, MutateChange, MutateNoOrphan DEF PolicyType, NoOrphan
<1>9. unrolled' \in BOOLEAN
  BY <1>3
<1>10. PolicyType'
  BY <1>3, <1>5, <1>6, <1>7, <1>8, <1>9 DEF PolicyType, NoOrphan
<1>11. RouteInv'
  BY <1>1, <1>3, <1>4, <1>5, <1>6, <1>7 DEF RouteInv, Fits, Suppressed
<1> QED
  BY <1>10, <1>11

(* A mutation, however it ends. *)
LEMMA MutationStep ==
    ASSUME PolicyType, RouteInv, NEW m \in Mutation,
           ApplyCommits(m) \/ ApplyFails(m)
    PROVE  PolicyType' /\ RouteInv'
BY CommitStep, DeltaFailsStep, PersistFailsStep DEF ApplyFails

(* A step that leaves the lists, the routes and the bounds alone. *)
LEMMA OtherStep ==
    ASSUME PolicyType, RouteInv, UNCHANGED <<policyVars, routeVars, used>>,
           wake' \in BOOLEAN
    PROVE  PolicyType' /\ RouteInv'
BY DEF PolicyType, RouteInv, policyVars, routeVars, NoOrphan, Fits, Suppressed

(* Counting engine errors and a batch. *)
LEMMA UsageBatch ==
    ASSUME NEW u \in Usage, NEW n \in Nat
    PROVE  LET v == [u EXCEPT !.errors = @ + n, !.batches = @ + 1]
           IN  v \in Usage /\ v.batches = u.batches + 1
<1> DEFINE w == [u EXCEPT !.errors = @ + n]
<1>1. w \in Usage /\ w.batches = u.batches
  BY DEF Usage
<1>2. [u EXCEPT !.errors = @ + n, !.batches = @ + 1] = [w EXCEPT !.batches = @ + 1]
  BY DEF Usage
<1> HIDE DEF w
<1>3. [w EXCEPT !.batches = @ + 1] \in Usage
  BY <1>1 DEF Usage
<1>4. [w EXCEPT !.batches = @ + 1].batches = w.batches + 1
  BY <1>1 DEF Usage
<1> QED
  BY <1>1, <1>2, <1>3, <1>4

(* A feed's batch keeps the map and the engine together, whether or not     *)
(* announcements fail, unless a withdrawal does.                            *)
LEMMA BatchStep ==
    ASSUME PolicyType, RouteInv, ApplyBatch
    PROVE  PolicyType' /\ RouteInv'
<1>1. PICK toRemove \in SUBSET Prefixes, toAdd \in SUBSET Prefixes :
        \E leaked \in SUBSET (toRemove \cap active) :
        \E failed \in SUBSET (toAdd \ (active \ toRemove)) :
          LET kept == active \ toRemove
              errors == Cardinality(leaked) + Cardinality(failed)
          IN  /\ toRemove \cup toAdd # {}
              /\ used.errors + errors <= MaxEngineErrors
              /\ active' = kept \cup (toAdd \ failed)
              /\ rib' = (rib \ ((active \cap toRemove) \ leaked))
                          \cup ((toAdd \ kept) \ failed)
              /\ unrolled' = (unrolled \/ leaked # {})
              /\ used' = [used EXCEPT !.errors = @ + errors, !.batches = @ + 1]
  BY DEF ApplyBatch
<1>2. PICK leaked \in SUBSET (toRemove \cap active),
           failed \in SUBSET (toAdd \ (active \ toRemove)) :
        /\ active' = (active \ toRemove) \cup (toAdd \ failed)
        /\ rib' = (rib \ ((active \cap toRemove) \ leaked))
                    \cup ((toAdd \ (active \ toRemove)) \ failed)
        /\ unrolled' = (unrolled \/ leaked # {})
        /\ used' = [used EXCEPT
             !.errors = @ + (Cardinality(leaked) + Cardinality(failed)),
             !.batches = @ + 1]
  BY <1>1
<1>3. UNCHANGED <<store, disk, replica, wake>>
  BY DEF ApplyBatch, policyVars
<1>4. Cardinality(leaked) + Cardinality(failed) \in Nat
  <2>1. leaked \in SUBSET Prefixes /\ failed \in SUBSET Prefixes
    OBVIOUS
  <2>2. Cardinality(leaked) \in Nat /\ Cardinality(failed) \in Nat
    BY <2>1, PrefixAssumption, FS_Subset, FS_CardinalityType
  <2> QED
    BY <2>2
<1>5. used \in Usage /\ used.batches \in Nat
  BY DEF PolicyType, Usage
<1>6. used' \in Usage /\ used'.batches = used.batches + 1
  BY <1>2, <1>4, <1>5, UsageBatch
<1>7. active' \in SUBSET Prefixes /\ rib' \in SUBSET Prefixes
  BY <1>2 DEF PolicyType
<1>8. unrolled' \in BOOLEAN
  BY <1>2
<1>9. PolicyType'
  BY <1>3, <1>6, <1>7, <1>8 DEF PolicyType, NoOrphan
<1>10. leaked = {} /\ rib = active => rib' = active'
  BY <1>2
<1>11. RouteInv'
  <2>1. used'.batches # 0
    BY <1>5, <1>6
  <2>2. unrolled' \/ rib' = active'
    BY <1>2, <1>10 DEF RouteInv
  <2> QED
    BY <2>1, <2>2 DEF RouteInv
<1> QED
  BY <1>9, <1>11

(* A restart announces what the file wants. *)
LEMMA RestartStep ==
    ASSUME PolicyType, RouteInv, Restart
    PROVE  PolicyType' /\ RouteInv'
<1>1. /\ store' = disk /\ disk' = disk /\ replica' = replica
      /\ rib' = EffectiveRoutes(disk, now) /\ active' = EffectiveRoutes(disk, now)
      /\ unrolled' = FALSE /\ wake' = FALSE
      /\ used' = [used EXCEPT !.restarts = @ + 1]
  BY DEF Restart
<1>2. /\ EffectiveRoutes(disk, now) \in SUBSET Prefixes
      /\ Fits(EffectiveRoutes(disk, now), disk)
  BY EffectiveFits DEF PolicyType
<1>3. used' \in Usage
  BY <1>1 DEF PolicyType, Usage
<1>4. PolicyType'
  BY <1>1, <1>2, <1>3 DEF PolicyType, NoOrphan
<1>5. RouteInv'
  BY <1>1, <1>2 DEF RouteInv, Fits, Suppressed
<1> QED
  BY <1>4, <1>5

-----------------------------------------------------------------------------
(* The expiry goroutine and the theorems.                                  *)

(* The other part of TypeOK. *)
ExpiryType ==
    /\ epc \in {"compute", "armed", "sleep", "call", "sweep", "retry"}
    /\ deadline \in Nat /\ sweepNow \in 0..MaxTime /\ now \in 0..MaxTime
    /\ sweep \subseteq Prefixes

LEMMA TypeParts == TypeOK <=> PolicyType /\ ExpiryType
<1>1. (\A s \in {store, disk} : \A p \in Prefixes :
         s.expiry[p] # 0 => p \in s.blocklist) <=> NoOrphan(store) /\ NoOrphan(disk)
  BY DEF NoOrphan
<1> QED
  BY <1>1 DEF TypeOK, PolicyType, ExpiryType, Usage

(* What applyExpired applies is a mutation. *)
LEMMA RemovalType == ASSUME NEW p \in Prefixes PROVE Removal(p) \in Mutation
BY DEF Removal, Mutation, Lists

(* The candidates for the wait are natural numbers. *)
LEMMA WaitType ==
    ASSUME PolicyType, ExpiryType, ComputeWait
    PROVE  /\ deadline' \in Nat
           /\ \A p \in Expirations : deadline' <= store.expiry[p]
<1> DEFINE candidates == {now + MaxWait} \cup {store.expiry[p] : p \in Expirations}
<1>1. PICK t \in candidates : (\A u \in candidates : t <= u) /\ deadline' = t
  BY DEF ComputeWait
<1>2. now + MaxWait \in Nat
  BY BoundAssumption DEF ExpiryType
<1>3. \A p \in Expirations : store.expiry[p] \in Nat
  BY BoundAssumption DEF Expirations, PolicyType, Store, Times
<1> QED
  BY <1>1, <1>2, <1>3

(* Every step keeps the types and the relation of routes and lists. *)
LEMMA ControllerStep ==
    ASSUME PolicyType, ExpiryType, RouteInv, [Next]_vars
    PROVE  PolicyType' /\ ExpiryType' /\ RouteInv'
<1>1. CASE Apply
  <2>1. PICK m \in Mutation : ApplyCommits(m) \/ ApplyFails(m)
    BY <1>1 DEF Apply
  <2> QED
    BY <1>1, <2>1, MutationStep DEF Apply, ExpiryType, expiryVars
<1>2. CASE ApplyBatch
  BY <1>2, BatchStep DEF ApplyBatch, ExpiryType, expiryVars
<1>3. CASE ComputeWait
  <2>1. PolicyType' /\ RouteInv'
    BY <1>3, OtherStep DEF ComputeWait, PolicyType
  <2> QED
    BY <1>3, <2>1, WaitType DEF ComputeWait, ExpiryType
<1>4. CASE Sleep
  <2>1. PolicyType' /\ RouteInv'
    BY <1>4, OtherStep DEF Sleep, PolicyType
  <2> QED
    BY <1>4, <2>1 DEF Sleep, ExpiryType
<1>5. CASE WakeUp
  <2>1. wake' \in BOOLEAN
    BY <1>5 DEF WakeUp, PolicyType
  <2>2. PolicyType' /\ RouteInv'
    BY <1>5, <2>1, OtherStep DEF WakeUp
  <2> QED
    BY <1>5, <2>2 DEF WakeUp, ExpiryType
<1>6. CASE StartSweep
  <2>1. PolicyType' /\ RouteInv'
    BY <1>6, OtherStep DEF StartSweep, PolicyType
  <2> QED
    BY <1>6, <2>1 DEF StartSweep, ExpiryType, Expirations
<1>7. CASE EndSweep
  <2>1. PolicyType' /\ RouteInv'
    BY <1>7, OtherStep DEF EndSweep, PolicyType
  <2> QED
    BY <1>7, <2>1 DEF EndSweep, ExpiryType
<1>8. ASSUME NEW p \in Prefixes, SweepOne(p) \/ SweepFails(p)
      PROVE  PolicyType' /\ ExpiryType' /\ RouteInv'
  <2>1. ApplyCommits(Removal(p)) \/ ApplyFails(Removal(p))
    BY <1>8 DEF SweepOne, SweepFails
  <2>2. PolicyType' /\ RouteInv'
    BY <2>1, RemovalType, MutationStep
  <2>3. ExpiryType'
    BY <1>8 DEF SweepOne, SweepFails, ExpiryType
  <2> QED
    BY <2>2, <2>3
<1>9. CASE Tick
  <2>1. PolicyType' /\ RouteInv'
    BY <1>9, OtherStep DEF Tick, PolicyType
  <2> QED
    BY <1>9, <2>1, BoundAssumption DEF Tick, ExpiryType, expiryVars
<1>10. CASE Restart
  <2>1. PolicyType' /\ RouteInv'
    BY <1>10, RestartStep
  <2>2. /\ epc' = "compute" /\ deadline' = 0 /\ sweepNow' = 0 /\ sweep' = {}
        /\ now' = now
    BY <1>10 DEF Restart
  <2> QED
    BY <2>1, <2>2, BoundAssumption DEF ExpiryType
<1>11. CASE UNCHANGED vars
  <2>1. PolicyType' /\ RouteInv'
    BY <1>11, OtherStep DEF vars, PolicyType
  <2> QED
    BY <1>11, <2>1 DEF vars, expiryVars, ExpiryType
<1> QED
  BY <1>1, <1>2, <1>3, <1>4, <1>5, <1>6, <1>7, <1>8, <1>9, <1>10, <1>11
  DEF Next, RunExpiry

(* The inductive invariant: the types, and routes that fit the lists. *)
LEMMA ControllerInvariant == Spec => [](PolicyType /\ ExpiryType /\ RouteInv)
<1>1. Init => PolicyType /\ ExpiryType /\ RouteInv
  <2> SUFFICES ASSUME Init PROVE PolicyType /\ ExpiryType /\ RouteInv
    OBVIOUS
  <2>1. EmptyStore \in Store /\ NoOrphan(EmptyStore) /\ Fits({}, EmptyStore)
    BY DEF EmptyStore, Store, NoOrphan, Fits
  <2>2. store = EmptyStore /\ disk = EmptyStore /\ replica = EmptyStore
    BY DEF Init
  <2>3. used \in Usage
    BY DEF Init, Usage
  <2>4. PolicyType
    BY <2>1, <2>2, <2>3 DEF Init, PolicyType
  <2>5. ExpiryType
    BY BoundAssumption DEF Init, ExpiryType
  <2>6. RouteInv
    BY <2>1, <2>2 DEF Init, RouteInv
  <2> QED
    BY <2>4, <2>5, <2>6
<1>2. PolicyType /\ ExpiryType /\ RouteInv /\ [Next]_vars
        => (PolicyType /\ ExpiryType /\ RouteInv)'
  BY ControllerStep
<1> QED
  BY <1>1, <1>2, PTL DEF Spec

(* Every variable keeps its type and no expiry is left without its         *)
(* blocklist entry, so policystore.Open never refuses a file that the      *)
(* store has written.                                                      *)
THEOREM ControllerTypeCorrect == Spec => []TypeOK
BY ControllerInvariant, TypeParts, PTL

(* The engine has the routes the controller believes it has, unless a call *)
(* that undoes another one has failed; feeds included.                     *)
THEOREM AnnouncedHolds == Spec => []ActiveIsAnnounced
<1>1. RouteInv => ActiveIsAnnounced
  BY DEF RouteInv, ActiveIsAnnounced
<1> QED
  BY <1>1, ControllerInvariant, PTL

(* Without feeds, no address of a whitelist CIDR is blackholed: the test   *)
(* of network addresses in effectiveRoutes finds every overlap.            *)
THEOREM WhitelistHolds == Spec => [](used.batches = 0 => WhitelistNeverAdvertised)
<1>1. PolicyType /\ RouteInv => (used.batches = 0 => WhitelistNeverAdvertised)
  <2> SUFFICES ASSUME PolicyType, RouteInv, used.batches = 0, ~unrolled,
                      NEW p \in rib, NEW w \in store.whitelist
               PROVE  p \cap w = {}
    BY DEF WhitelistNeverAdvertised
  <2>1. p \in Prefixes /\ w \in Prefixes
    BY DEF PolicyType, Store
  <2>2. ~Suppressed(store, p)
    BY DEF RouteInv, Fits
  <2>3. NetAddr[w] \notin p /\ NetAddr[p] \notin w
    BY <2>2 DEF Suppressed
  <2>4. NetAddr[w] \in w /\ NetAddr[p] \in p
    BY <2>1, PrefixAssumption
  <2> QED
    BY <2>1, <2>3, <2>4, CidrAssumption
<1> QED
  BY <1>1, ControllerInvariant, PTL

(* Without feeds, only blocklist entries are announced, and every          *)
(* permanent one that the whitelist does not overlap is.                   *)
THEOREM PermanentDenyHolds == Spec => []PermanentDenyAdvertised
<1>1. PolicyType /\ RouteInv => PermanentDenyAdvertised
  <2> SUFFICES ASSUME PolicyType, RouteInv, ~unrolled, ~(used.batches > 0)
               PROVE  /\ rib \subseteq store.blocklist
                      /\ \A p \in store.blocklist :
                           store.expiry[p] = 0 /\ ~Suppressed(store, p) => p \in rib
    BY DEF PermanentDenyAdvertised
  <2>1. used.batches = 0
    BY DEF PolicyType, Usage
  <2> QED
    BY <2>1 DEF RouteInv, Fits
<1> QED
  BY <1>1, ControllerInvariant, PTL

(* Steps that leave what the goroutine's wait depends on. *)
LEMMA WaitKept ==
    ASSUME NoOversleep, UNCHANGED <<store, wake, deadline>>,
           epc' = epc \/ epc = "armed"
    PROVE  NoOversleep'
<1>1. Expirations' = Expirations /\ store' = store /\ deadline' = deadline
  BY DEF Expirations
<1>2. CASE epc \in {"armed", "sleep"}
  BY <1>1, <1>2 DEF NoOversleep
<1>3. CASE epc \notin {"armed", "sleep"}
  BY <1>3 DEF NoOversleep
<1> QED
  BY <1>2, <1>3

(* RunExpiry never waits past an expiry without a token to wake it.        *)
THEOREM NoOversleepHolds == Spec => []NoOversleep
<1>1. Init => NoOversleep
  BY DEF Init, NoOversleep
<1>2. ASSUME PolicyType, ExpiryType, NoOversleep, [Next]_vars
      PROVE  NoOversleep'
  <2>1. CASE Apply
    <3>1. PICK m \in Mutation : ApplyCommits(m) \/ ApplyFails(m)
      BY <2>1 DEF Apply
    <3>2. CASE ApplyCommits(m)
      BY <3>2 DEF ApplyCommits, NoOversleep
    <3>3. CASE ApplyFails(m)
      <4>1. UNCHANGED <<store, wake, epc, deadline>>
        BY <2>1, <3>3 DEF Apply, ApplyFails, ApplyDeltaFails, ApplyPersistFails,
           policyVars, expiryVars
      <4> QED
        BY <1>2, <4>1, WaitKept
    <3> QED
      BY <3>1, <3>2, <3>3
  <2>2. CASE ComputeWait
    <3>1. store' = store
      BY <2>2 DEF ComputeWait, policyVars
    <3>2. \A p \in Expirations : deadline' <= store.expiry[p]
      BY <1>2, <2>2, WaitType
    <3> QED
      BY <3>1, <3>2 DEF NoOversleep, Expirations
  <2>3. CASE WakeUp \/ StartSweep \/ EndSweep \/ Restart
    <3>1. epc' \notin {"armed", "sleep"}
      BY <2>3 DEF WakeUp, StartSweep, EndSweep, Restart
    <3> QED
      BY <3>1 DEF NoOversleep
  <2>4. ASSUME NEW p \in Prefixes, SweepOne(p) \/ SweepFails(p)
        PROVE  NoOversleep'
    <3>1. epc' \notin {"armed", "sleep"}
      BY <2>4 DEF SweepOne, SweepFails
    <3> QED
      BY <3>1 DEF NoOversleep
  <2>5. CASE ApplyBatch \/ Tick \/ UNCHANGED vars
    <3>1. UNCHANGED <<store, wake, epc, deadline>>
      BY <2>5 DEF ApplyBatch, Tick, vars, policyVars, expiryVars
    <3> QED
      BY <1>2, <3>1, WaitKept
  <2>6. CASE Sleep
    <3>1. UNCHANGED <<store, wake, deadline>> /\ epc = "armed"
      BY <2>6 DEF Sleep, policyVars
    <3> QED
      BY <1>2, <3>1, WaitKept
  <2> QED
    BY <1>2, <2>1, <2>2, <2>3, <2>4, <2>5, <2>6 DEF Next, RunExpiry
<1> QED
  BY <1>1, <1>2, ControllerInvariant, PTL DEF Spec

-----------------------------------------------------------------------------
(* What is published, and what the sweep removes.                          *)

(* A mutation is published exactly when it is stored: applyLocked calls    *)
(* publish after the persist, so what the agents are told adds up to the   *)
(* lists until a restart brings back an older or a newer file.             *)
THEOREM PublishedHolds == Spec => []PublishedIsStored
<1>1. Init => PublishedIsStored
  BY DEF Init, PublishedIsStored
<1>2. ASSUME PolicyType, PolicyType', PublishedIsStored, [Next]_vars
      PROVE  PublishedIsStored'
  <2>1. ASSUME NEW m \in Mutation, ApplyCommits(m)
        PROVE  PublishedIsStored'
    BY <1>2, <2>1 DEF ApplyCommits, PublishedIsStored
  <2>2. ASSUME NEW m \in Mutation, ApplyFails(m)
        PROVE  PublishedIsStored'
    <3>1. UNCHANGED <<store, replica>>
      BY <2>2 DEF ApplyFails, ApplyDeltaFails, ApplyPersistFails, policyVars
    <3>2. used'.restarts = used.restarts
      <4>1. used \in Usage
        BY <1>2 DEF PolicyType
      <4> QED
        BY <2>2, <4>1 DEF ApplyFails, ApplyDeltaFails, ApplyPersistFails, Usage
    <3> QED
      BY <1>2, <3>1, <3>2 DEF PublishedIsStored
  <2>3. CASE Apply
    BY <2>1, <2>2, <2>3 DEF Apply
  <2>4. ASSUME NEW p \in Prefixes, SweepOne(p) \/ SweepFails(p)
        PROVE  PublishedIsStored'
    BY <2>1, <2>2, <2>4, RemovalType DEF SweepOne, SweepFails
  <2>5. CASE ApplyBatch
    <3>1. used'.restarts = used.restarts
      BY <1>2, <2>5 DEF ApplyBatch, PolicyType, Usage
    <3> QED
      BY <1>2, <2>5, <3>1 DEF ApplyBatch, policyVars, PublishedIsStored
  <2>6. CASE ComputeWait \/ Sleep \/ WakeUp \/ StartSweep \/ EndSweep \/ Tick
             \/ UNCHANGED vars
    BY <1>2, <2>6 DEF ComputeWait, Sleep, WakeUp, StartSweep, EndSweep, Tick,
       vars, policyVars, PublishedIsStored
  <2>7. CASE Restart
    <3>1. used.restarts \in Nat /\ used'.restarts = used.restarts + 1
      BY <1>2, <2>7 DEF Restart, PolicyType, Usage
    <3> QED
      BY <3>1 DEF PublishedIsStored
  <2> QED
    BY <1>2, <2>3, <2>4, <2>5, <2>6, <2>7 DEF Next, RunExpiry
<1> QED
  BY <1>1, <1>2, ControllerInvariant, PTL DEF Spec

(* The now of applyExpired is not ahead of the clock, and what it still    *)
(* has to remove has expired as the store stands: mu keeps an extension    *)
(* out once the list is made.                                              *)
SweepInv ==
    /\ epc = "call" => sweepNow <= now
    /\ epc = "sweep" => \A p \in sweep : Expired(store, p, now)

(* What has expired stays so. *)
LEMMA ExpiredLater ==
    ASSUME NEW s \in Store, NEW p \in Prefixes, NEW t \in Nat, NEW u \in Nat,
           t <= u, Expired(s, p, t)
    PROVE  Expired(s, p, u)
<1>1. s.expiry[p] \in Nat
  BY BoundAssumption DEF Store, Times
<1> QED
  BY <1>1 DEF Expired

(* One removal: the other expirations, and all other entries of the        *)
(* blocklist, are as before.                                               *)
LEMMA RemovalChange ==
    ASSUME PolicyType, NEW p \in Prefixes, ApplyCommits(Removal(p))
    PROVE  /\ \A q \in Prefixes : q # p => store'.expiry[q] = store.expiry[q]
           /\ store'.blocklist = store.blocklist \ {p}
<1>1. /\ Removal(p) \in Mutation /\ Removal(p).prefix = p
      /\ Removal(p).list = "blocklist" /\ Removal(p).action = "remove"
  BY RemovalType DEF Removal
<1>2. store \in Store /\ store' = Mutate(store, Removal(p))
  BY DEF PolicyType, ApplyCommits
<1> QED
  BY <1>1, <1>2, MutateChange, ListsChange

(* A failed call leaves the lists alone. *)
LEMMA FailureKeepsStore ==
    ASSUME NEW m, ApplyFails(m)
    PROVE  store' = store
BY DEF ApplyFails, ApplyDeltaFails, ApplyPersistFails, policyVars

(* Every step keeps the list of what is still to be removed. *)
LEMMA SweepStep ==
    ASSUME PolicyType, ExpiryType, SweepInv, [Next]_vars
    PROVE  SweepInv'
<1>t. now \in Nat /\ sweepNow \in Nat /\ store \in Store /\ sweep \subseteq Prefixes
  BY BoundAssumption DEF ExpiryType, PolicyType
<1>1. CASE Apply
  BY <1>1 DEF Apply, expiryVars, SweepInv
<1>2. CASE ApplyBatch
  BY <1>2 DEF ApplyBatch, expiryVars, SweepInv
<1>3. CASE ComputeWait \/ Sleep \/ EndSweep \/ Restart
  <2>1. epc' \notin {"call", "sweep"}
    BY <1>3 DEF ComputeWait, Sleep, EndSweep, Restart
  <2> QED
    BY <2>1 DEF SweepInv
<1>4. CASE WakeUp
  BY <1>4, <1>t DEF WakeUp, SweepInv
<1>5. CASE StartSweep
  <2>1. \A p \in sweep' : p \in Prefixes /\ Expired(store, p, sweepNow)
    BY <1>5 DEF StartSweep, Expirations
  <2>2. sweepNow <= now
    BY <1>5 DEF StartSweep, SweepInv
  <2>3. \A p \in sweep' : Expired(store, p, now)
    BY <2>1, <2>2, <1>t, ExpiredLater
  <2>4. store' = store /\ now' = now /\ epc' = "sweep"
    BY <1>5 DEF StartSweep, policyVars
  <2> QED
    BY <2>3, <2>4 DEF SweepInv
<1>6. ASSUME NEW p \in Prefixes, SweepOne(p)
      PROVE  SweepInv'
  <2>1. /\ epc = "sweep" /\ epc' = "sweep" /\ now' = now
        /\ sweep' = sweep \ {p} /\ ApplyCommits(Removal(p))
    BY <1>6 DEF SweepOne
  <2>2. \A q \in sweep' : q \in Prefixes /\ store'.expiry[q] = store.expiry[q]
    BY <2>1, <1>t, RemovalChange
  <2> QED
    BY <2>1, <2>2 DEF SweepInv, Expired
<1>7. ASSUME NEW p \in Prefixes, SweepFails(p)
      PROVE  SweepInv'
  BY <1>7 DEF SweepFails, SweepInv
<1>8. CASE Tick
  <2>1. /\ store' = store /\ epc' = epc /\ sweep' = sweep /\ sweepNow' = sweepNow
        /\ now' = now + 1
    BY <1>8 DEF Tick, policyVars, expiryVars
  <2>2. \A p \in sweep : Expired(store, p, now) => Expired(store, p, now + 1)
    BY <1>t, ExpiredLater
  <2> QED
    BY <2>1, <2>2, <1>t DEF SweepInv
<1>9. CASE UNCHANGED vars
  BY <1>9 DEF vars, policyVars, expiryVars, SweepInv
<1> QED
  BY <1>1, <1>2, <1>3, <1>4, <1>5, <1>6, <1>7, <1>8, <1>9 DEF Next, RunExpiry

(* applyExpired removes only what has expired as the store stands when it  *)
(* removes it, although its now was taken before it had mu: an operator's  *)
(* extension made in between is honoured.                                  *)
THEOREM SweepSparesHolds == Spec => SweepSparesTheExtended
<1>1. Init => SweepInv
  BY DEF Init, SweepInv
<1>2. PolicyType /\ ExpiryType /\ SweepInv /\ [Next]_vars => SweepInv'
  BY SweepStep
<1>3. ASSUME PolicyType, ExpiryType, SweepInv, [Next]_vars
      PROVE  [epc = "sweep" /\ used'.restarts = used.restarts =>
                \A p \in store.blocklist \ store'.blocklist :
                  Expired(store, p, now)]_vars
  <2> SUFFICES ASSUME Next, epc = "sweep", used'.restarts = used.restarts,
                      NEW p \in store.blocklist \ store'.blocklist
               PROVE  Expired(store, p, now)
    BY <1>3
  <2>1. ~Restart
    BY <1>3 DEF Restart, PolicyType, Usage
  <2>2. store' # store
    OBVIOUS
  <2>3. ~(Apply \/ ApplyBatch \/ Tick \/ ComputeWait \/ Sleep \/ WakeUp
            \/ StartSweep \/ EndSweep)
    BY <2>2 DEF Apply, ApplyBatch, Tick, ComputeWait, Sleep, WakeUp, StartSweep,
       EndSweep, policyVars
  <2>4. PICK q \in Prefixes : SweepOne(q)
    BY <2>1, <2>2, <2>3, FailureKeepsStore DEF Next, RunExpiry, SweepFails
  <2>5. p = q /\ q \in sweep
    BY <1>3, <2>4, RemovalChange DEF SweepOne
  <2> QED
    BY <1>3, <2>5 DEF SweepInv
<1> QED
  BY <1>1, <1>2, <1>3, ControllerInvariant, PTL DEF Spec, SweepSparesTheExtended
=============================================================================
