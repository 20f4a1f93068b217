------------------------- MODULE SqlPoliciesProofs --------------------------
(***************************************************************************)
(* Theorems about SqlPolicies, for any feeds and prefixes and any number   *)
(* of requests and faults: where a route and the tables disagree, something*)
(* that overlaps it has been touched since the last Apply that could read. *)
(***************************************************************************)
EXTENDS SqlPolicies, FiniteSetTheorems, TLAPS

(* Before its transaction a sync has nothing pending; a deletion only      *)
(* removes.                                                                *)
BatchInv ==
    \A f \in Feeds :
        /\ sync[f].pc \in {"idle", "fetch"} => sync[f].add = {} /\ sync[f].remove = {}
        /\ del[f].pc = "idle" => del[f].remove = {}
        /\ del[f].add = {}

(* What a pending batch will change is counted as touched, also by an      *)
(* Apply that clears the rest.                                             *)
PendingIsTouched == Pending \subseteq touched

(* The blocklist Apply has read is still the table's, except for the       *)
(* transactions that have committed since, whose batches are pending.      *)
ReadIsCurrent ==
    ctl.pc = "whites" /\ ~ctl.misread =>
        \A p \in Prefixes \ Pending :
            p \in ctl.blocks <=> rows["blocklist"][p] # NoRow

(* A bulk delete or an import that is not done is a real one. *)
LoopInv ==
    loop.todo # {} => loop.action \in {"add", "remove"} /\ loop.list \in Lists

SqlInv ==
    /\ TypeOK /\ LoopInv
    /\ BatchInv /\ PendingIsTouched /\ ReadIsCurrent /\ RoutesFollowTables

-----------------------------------------------------------------------------
(* What is pending, prefix by prefix. *)
LEMMA PendingIs ==
  \A p : p \in Pending <=>
           \E f \in Feeds : p \in sync[f].add \/ p \in sync[f].remove \/ p \in del[f].remove
  BY DEF Pending

(* Rows and routes that change only inside T leave RoutesFollowTables      *)
(* alone when T counts as touched.                                         *)
LEMMA RoutesFrame ==
  ASSUME RoutesFollowTables, NEW T,
         \A l \in Lists : \A p \in Prefixes \ T : rows'[l][p] = rows[l][p],
         \A p \in Prefixes \ T : p \in active' <=> p \in active,
         touched \cup T \subseteq touched'
  PROVE  RoutesFollowTables'
<1> SUFFICES ASSUME NEW p \in Prefixes, ~Meets(p, touched')
             PROVE  p \in active' <=> p \in EffectiveRoutes(AllPrefixes("blocklist"),
                                                            AllPrefixes("whitelist"))'
  BY DEF RoutesFollowTables, Meets, Overlaps
<1>1. \A q \in Prefixes : Overlaps(p, q) => q \notin touched /\ q \notin T
  BY DEF Meets
<1>2. Overlaps(p, p)
  BY PrefixAssumption DEF Overlaps
<1>3. \A q \in Prefixes : Overlaps(p, q) =>
        \A l \in Lists : rows'[l][q] = rows[l][q]
  BY <1>1
<1>4. /\ p \in active' <=> p \in active
      /\ ~Meets(p, touched)
  BY <1>1, <1>2 DEF Meets
<1>5. p \in active <=> p \in EffectiveRoutes(AllPrefixes("blocklist"),
                                             AllPrefixes("whitelist"))
  BY <1>4 DEF RoutesFollowTables
<1>6. \A q \in Prefixes : Overlaps(p, q) =>
        /\ rows'["blocklist"][q] = rows["blocklist"][q]
        /\ rows'["whitelist"][q] = rows["whitelist"][q]
  BY <1>3 DEF Lists
<1> QED
  BY <1>2, <1>4, <1>5, <1>6 DEF EffectiveRoutes, AllPrefixes, Meets, Overlaps

(* A reading stays current while what changes in the table is pending. *)
LEMMA ReadFrame ==
  ASSUME ReadIsCurrent, UNCHANGED ctl,
         Pending \subseteq Pending',
         \A p \in Prefixes \ Pending' : rows'["blocklist"][p] = rows["blocklist"][p]
  PROVE  ReadIsCurrent'
  BY DEF ReadIsCurrent

-----------------------------------------------------------------------------
(* The first state: empty tables, no routes, nothing under way. *)
LEMMA SqlInit == Init => SqlInv
<1> SUFFICES ASSUME Init
             PROVE  SqlInv
  OBVIOUS
<1>1. Idle \in Batch /\ Idle.pc = "idle" /\ Idle.add = {} /\ Idle.remove = {}
  BY DEF Idle, Batch
<1>2. /\ feeds \in [Feeds -> FeedRow \cup {NoFeed}]
      /\ rows \in [Lists -> [Prefixes -> Feeds \cup {Manual, NoRow}]]
  BY DEF Init
<1>3. sync \in [Feeds -> Batch] /\ del \in [Feeds -> Batch]
  BY <1>1 DEF Init
<1>4. ctl \in [pc : {"idle", "blocks", "whites"}, from : {"", "request", "loop"},
               misread : BOOLEAN, blocks : SUBSET Prefixes]
  BY DEF Init, Free
<1>5. loop \in [action : {"", "add", "remove"}, list : Lists \cup {""},
                todo : SUBSET Prefixes]
  BY DEF Init, NoLoop
<1>6. used \in Spent /\ sched \in [due : SUBSET Feeds, cur : SUBSET Feeds] /\ sched.cur = {}
  BY DEF Init, Spent
<1>7. TypeOK
  BY <1>2, <1>3, <1>4, <1>5, <1>6 DEF Init, TypeOK
<1>8. BatchInv /\ LoopInv
  BY <1>1 DEF Init, BatchInv, LoopInv, NoLoop
<1>9. PendingIsTouched
  BY <1>1, PendingIs DEF Init, PendingIsTouched
<1>10. ReadIsCurrent
  BY DEF Init, Free, ReadIsCurrent
<1>11. RoutesFollowTables
  BY DEF Init, RoutesFollowTables, EffectiveRoutes, AllPrefixes, Lists
<1> QED
  BY <1>7, <1>8, <1>9, <1>10, <1>11 DEF SqlInv

-----------------------------------------------------------------------------
(* Everything but the types, in steps that touch neither tables nor routes *)
(* and leave what is pending as it is.                                     *)
LEMMA QuietStep ==
  ASSUME SqlInv, BatchInv', UNCHANGED <<rows, active, ctl, touched>>,
         \A f \in Feeds : /\ sync'[f].add = sync[f].add
                          /\ sync'[f].remove = sync[f].remove
                          /\ del'[f].remove = del[f].remove
  PROVE  PendingIsTouched' /\ ReadIsCurrent' /\ RoutesFollowTables'
<1>1. Pending' = Pending
  BY DEF Pending
<1>2. PendingIsTouched'
  BY <1>1 DEF SqlInv, PendingIsTouched
<1>3. ReadIsCurrent'
  BY <1>1, ReadFrame DEF SqlInv
<1>4. RoutesFollowTables'
  BY RoutesFrame DEF SqlInv
<1> QED
  BY <1>2, <1>3, <1>4

(* Apply writes its row. *)
LEMMA WriteStep ==
  ASSUME SqlInv, NEW m \in Mutation, NEW from, ApplyWrite(m, from)
  PROVE  BatchInv' /\ PendingIsTouched' /\ ReadIsCurrent' /\ RoutesFollowTables'
<1>1. m.list \in Lists /\ m.prefix \in Prefixes
  BY DEF Mutation
<1>2. UNCHANGED <<sync, del, active>> /\ touched' = touched \cup {m.prefix}
  BY DEF ApplyWrite, feedVars
<1>3. BatchInv' /\ Pending' = Pending
  BY <1>2 DEF SqlInv, BatchInv, Pending
<1>4. PendingIsTouched'
  BY <1>2, <1>3 DEF SqlInv, PendingIsTouched
<1>5. ctl'.pc = "blocks"
  BY DEF ApplyWrite, Free
<1>6. ReadIsCurrent'
  BY <1>5 DEF ReadIsCurrent
<1>7. rows \in [Lists -> [Prefixes -> Feeds \cup {Manual, NoRow}]]
  BY DEF SqlInv, TypeOK
<1>8. \A l \in Lists : \A p \in Prefixes \ {m.prefix} : rows'[l][p] = rows[l][p]
  BY <1>1, <1>7 DEF ApplyWrite, Written
<1>9. RoutesFollowTables'
  BY <1>2, <1>8, RoutesFrame DEF SqlInv
<1> QED
  BY <1>3, <1>4, <1>6, <1>9

(* Apply reads the blocklist. *)
LEMMA ReadStep ==
  ASSUME SqlInv, ReadBlocklist
  PROVE  BatchInv' /\ PendingIsTouched' /\ ReadIsCurrent' /\ RoutesFollowTables'
<1>1. UNCHANGED <<rows, active, sync, del, touched>>
  BY DEF ReadBlocklist, tables, feedVars
<1>2. BatchInv' /\ Pending' = Pending
  BY <1>1 DEF SqlInv, BatchInv, Pending
<1>3. PendingIsTouched'
  BY <1>1, <1>2 DEF SqlInv, PendingIsTouched
<1>4. ReadIsCurrent'
  <2>1. ctl \in [pc : {"idle", "blocks", "whites"}, from : {"", "request", "loop"},
                 misread : BOOLEAN, blocks : SUBSET Prefixes]
    BY DEF SqlInv, TypeOK
  <2>2. ctl'.misread \/ ctl'.blocks = AllPrefixes("blocklist")
    BY <2>1 DEF ReadBlocklist
  <2> QED
    BY <1>1, <2>2 DEF ReadIsCurrent, AllPrefixes
<1>5. RoutesFollowTables'
  BY <1>1, RoutesFrame DEF SqlInv
<1> QED
  BY <1>2, <1>3, <1>4, <1>5

(* A successful applyDelta puts the routes in line with the tables, but    *)
(* for what is pending and what it could not read.                         *)
LEMMA DeltaStep ==
  ASSUME SqlInv, ApplyDelta
  PROVE  BatchInv' /\ PendingIsTouched' /\ ReadIsCurrent' /\ RoutesFollowTables'
<1>1. UNCHANGED <<rows, sync, del>> /\ ctl' = Free
  BY DEF ApplyDelta, tables, feedVars
<1>2. BatchInv' /\ Pending' = Pending
  BY <1>1 DEF SqlInv, BatchInv, Pending
<1>3. Pending \subseteq Prefixes
  BY DEF SqlInv, PendingIsTouched, TypeOK
<1>4. PendingIsTouched'
  BY <1>2, <1>3 DEF ApplyDelta, PendingIsTouched
<1>5. ReadIsCurrent'
  BY <1>1 DEF ReadIsCurrent, Free
<1>6. CASE touched' = Prefixes
  <2>1. \A p \in Prefixes : Meets(p, touched')
    BY <1>6, PrefixAssumption DEF Meets, Overlaps
  <2>2. RoutesFollowTables'
    BY <2>1 DEF RoutesFollowTables, Meets, Overlaps
  <2> QED
    BY <1>2, <1>4, <1>5, <2>2
<1>7. CASE /\ active' = Desired(AllPrefixes("whitelist")) /\ touched' = Pending
           /\ ~ctl.misread
  <2> SUFFICES ASSUME NEW p \in Prefixes, ~Meets(p, touched')
               PROVE  p \in active' <=> p \in EffectiveRoutes(AllPrefixes("blocklist"),
                                                              AllPrefixes("whitelist"))'
    BY <1>2, <1>4, <1>5 DEF RoutesFollowTables, Meets, Overlaps
  <2>1. p \notin Pending
    BY <1>7, PrefixAssumption DEF Meets, Overlaps
  <2>2. ctl.pc = "whites"
    BY DEF ApplyDelta
  <2>3. p \in ctl.blocks <=> p \in AllPrefixes("blocklist")
    BY <1>7, <2>1, <2>2 DEF SqlInv, ReadIsCurrent, AllPrefixes
  <2>4. \A l : AllPrefixes(l)' = AllPrefixes(l)
    BY <1>1 DEF AllPrefixes
  <2> QED
    BY <1>7, <2>3, <2>4 DEF Desired, EffectiveRoutes, Meets, Overlaps
<1> QED
  BY <1>6, <1>7 DEF ApplyDelta

(* A failed one, or a failed statement, leaves tables and routes alone. *)
LEMMA FailStep ==
  ASSUME SqlInv, ApplyDeltaFails
  PROVE  BatchInv' /\ PendingIsTouched' /\ ReadIsCurrent' /\ RoutesFollowTables'
<1>1. UNCHANGED <<rows, active, sync, del, touched>> /\ ctl' = Free
  BY DEF ApplyDeltaFails, tables, feedVars
<1>2. BatchInv' /\ Pending' = Pending
  BY <1>1 DEF SqlInv, BatchInv, Pending
<1>3. PendingIsTouched' /\ ReadIsCurrent'
  BY <1>1, <1>2 DEF SqlInv, PendingIsTouched, ReadIsCurrent, Free
<1>4. RoutesFollowTables'
  BY <1>1, RoutesFrame DEF SqlInv
<1> QED
  BY <1>2, <1>3, <1>4

(* A sync starts with nothing pending. *)
LEMMA StartStep ==
  ASSUME SqlInv, NEW f \in Feeds, SyncStarts(f), UNCHANGED <<rows, active, ctl, touched, del>>
  PROVE  BatchInv' /\ PendingIsTouched' /\ ReadIsCurrent' /\ RoutesFollowTables'
<1>1. sync \in [Feeds -> Batch]
  BY DEF SqlInv, TypeOK
<1>2. /\ sync[f].add = {} /\ sync[f].remove = {}
      /\ sync'[f].add = {} /\ sync'[f].remove = {}
      /\ \A g \in Feeds \ {f} : sync'[g] = sync[g]
  BY <1>1 DEF SyncStarts, Idle, SqlInv, BatchInv
<1>3. BatchInv'
  BY <1>2 DEF SqlInv, BatchInv
<1>4. \A g \in Feeds : sync'[g].add = sync[g].add /\ sync'[g].remove = sync[g].remove
  BY <1>2
<1> QED
  BY <1>3, <1>4, QuietStep

(* A sync that returns with nothing pending. *)
LEMMA ReturnStep ==
  ASSUME SqlInv, NEW f \in Feeds, SyncReturns(f), UNCHANGED <<rows, active, ctl, touched, del>>,
         sync[f].add = {}, sync[f].remove = {}
  PROVE  BatchInv' /\ PendingIsTouched' /\ ReadIsCurrent' /\ RoutesFollowTables'
<1>1. sync \in [Feeds -> Batch]
  BY DEF SqlInv, TypeOK
<1>2. /\ sync'[f].add = {} /\ sync'[f].remove = {}
      /\ \A g \in Feeds \ {f} : sync'[g] = sync[g]
  BY <1>1 DEF SyncReturns, Idle
<1>3. BatchInv'
  BY <1>2 DEF SqlInv, BatchInv
<1>4. \A g \in Feeds : sync'[g].add = sync[g].add /\ sync'[g].remove = sync[g].remove
  BY <1>2
<1> QED
  BY <1>3, <1>4, QuietStep

(* The transaction of a sync: what it changes is pending from then on. *)
LEMMA TransactionStep ==
  ASSUME SqlInv, NEW f \in Feeds, SyncFeedPolicies(f)
  PROVE  BatchInv' /\ PendingIsTouched' /\ ReadIsCurrent' /\ RoutesFollowTables'
<1>1. sync \in [Feeds -> Batch] /\ rows \in [Lists -> [Prefixes -> Feeds \cup {Manual, NoRow}]]
  BY DEF SqlInv, TypeOK
<1>2. PICK new \in SUBSET Prefixes :
        LET toAdd == new \ OwnedBy(f)
            toRemove == OwnedBy(f) \ new
        IN  /\ rows' = [l \in Lists |-> [p \in Prefixes |->
                          IF p \in toAdd /\ l = sync[f].list THEN f
                          ELSE IF p \in toRemove /\ rows[l][p] = f THEN NoRow
                          ELSE rows[l][p]]]
            /\ sync' = [sync EXCEPT ![f].pc = "status", ![f].add = toAdd,
                                    ![f].remove = toRemove]
            /\ touched' = touched \cup toAdd \cup toRemove
  BY DEF SyncFeedPolicies
<1> DEFINE T == (new \ OwnedBy(f)) \cup (OwnedBy(f) \ new)
<1>3. /\ touched' = touched \cup T
      /\ \A l \in Lists : \A p \in Prefixes \ T : rows'[l][p] = rows[l][p]
  BY <1>1, <1>2
<1>4. /\ sync'[f].pc = "status" /\ sync'[f].add \cup sync'[f].remove = T
      /\ \A g \in Feeds \ {f} : sync'[g] = sync[g]
  BY <1>1, <1>2 DEF Batch
<1>5. UNCHANGED <<active, ctl, del>> /\ sync[f].pc = "fetch"
  BY DEF SyncFeedPolicies
<1>6. BatchInv'
  BY <1>4, <1>5 DEF SqlInv, BatchInv
<1>7. sync[f].add = {} /\ sync[f].remove = {}
  BY <1>5 DEF SqlInv, BatchInv
<1> HIDE DEF T
<1>8. Pending' = Pending \cup T
  BY <1>4, <1>5, <1>7, PendingIs DEF Pending
<1>9. PendingIsTouched'
  BY <1>3, <1>8 DEF SqlInv, PendingIsTouched
<1>10. ReadIsCurrent'
  BY <1>3, <1>5, <1>8, ReadFrame DEF SqlInv, Lists
<1>11. RoutesFollowTables'
  BY <1>3, <1>5, RoutesFrame DEF SqlInv
<1> QED
  BY <1>6, <1>9, <1>10, <1>11

(* SyncFeed goes on to its batch, or is done. *)
LEMMA StatusStep ==
  ASSUME SqlInv, NEW f \in Feeds, SyncStatus(f)
  PROVE  BatchInv' /\ PendingIsTouched' /\ ReadIsCurrent' /\ RoutesFollowTables'
<1>1. UNCHANGED <<rows, active, ctl, touched, del>>
  BY DEF SyncStatus
<1>2. CASE sync[f].add \cup sync[f].remove = {}
  <2>1. SyncReturns(f) /\ sync[f].add = {} /\ sync[f].remove = {}
    BY <1>2 DEF SyncStatus
  <2> QED
    BY <1>1, <2>1, ReturnStep
<1>3. CASE sync' = [sync EXCEPT ![f].pc = "batch"]
  <2>1. sync \in [Feeds -> Batch]
    BY DEF SqlInv, TypeOK
  <2>2. /\ sync'[f].pc = "batch" /\ sync'[f].add = sync[f].add
        /\ sync'[f].remove = sync[f].remove
        /\ \A g \in Feeds \ {f} : sync'[g] = sync[g]
    BY <1>3, <2>1 DEF Batch
  <2>3. BatchInv'
    BY <1>1, <2>2 DEF SqlInv, BatchInv
  <2>4. \A g \in Feeds : sync'[g].add = sync[g].add /\ sync'[g].remove = sync[g].remove
    BY <2>2
  <2> QED
    BY <1>1, <2>3, <2>4, QuietStep
<1> QED
  BY <1>2, <1>3 DEF SyncStatus

(* A batch moves only routes of its own prefixes. *)
LEMMA BatchMoves ==
  ASSUME NEW b, ApplyBatch(b)
  PROVE  /\ ctl.pc = "idle"
         /\ \A p : p \notin b.add \cup b.remove => (p \in active' <=> p \in active)
  BY DEF ApplyBatch

(* A batch is applied: it is no longer pending, and still touched. *)
LEMMA BatchStep ==
  ASSUME SqlInv, NEW f \in Feeds, SyncBatch(f) \/ DeleteBatch(f)
  PROVE  BatchInv' /\ PendingIsTouched' /\ ReadIsCurrent' /\ RoutesFollowTables'
<1>1. sync \in [Feeds -> Batch] /\ del \in [Feeds -> Batch]
  BY DEF SqlInv, TypeOK
<1>2. UNCHANGED <<rows, ctl, touched>> /\ ctl.pc = "idle"
  BY BatchMoves DEF SyncBatch, DeleteBatch, tables
<1>3. /\ BatchInv'
      /\ \A g \in Feeds : /\ sync'[g].add \subseteq sync[g].add
                          /\ sync'[g].remove \subseteq sync[g].remove
                          /\ del'[g].remove \subseteq del[g].remove
  <2>1. CASE SyncBatch(f)
    <3>1. /\ sync'[f].add = {} /\ sync'[f].remove = {} /\ UNCHANGED del
          /\ \A g \in Feeds \ {f} : sync'[g] = sync[g]
      BY <1>1, <2>1 DEF SyncBatch, SyncReturns, Idle
    <3> QED
      BY <3>1 DEF SqlInv, BatchInv
  <2>2. CASE DeleteBatch(f)
    <3>1. /\ del'[f].add = {} /\ del'[f].remove = {} /\ UNCHANGED sync
          /\ \A g \in Feeds \ {f} : del'[g] = del[g]
      BY <1>1, <2>2 DEF DeleteBatch, Idle
    <3> QED
      BY <3>1 DEF SqlInv, BatchInv
  <2> QED
    BY <2>1, <2>2
<1>4. Pending' \subseteq Pending
  BY <1>3 DEF Pending
<1>5. PendingIsTouched' /\ ReadIsCurrent'
  BY <1>2, <1>4 DEF SqlInv, PendingIsTouched, ReadIsCurrent
<1>6. \A p : p \notin touched => (p \in active' <=> p \in active)
  <2>1. CASE SyncBatch(f)
    <3>1. sync[f].add \cup sync[f].remove \subseteq touched
      BY DEF SqlInv, PendingIsTouched, Pending
    <3> QED
      BY <2>1, <3>1, BatchMoves DEF SyncBatch
  <2>2. CASE DeleteBatch(f)
    <3>1. del[f].add \cup del[f].remove \subseteq touched
      BY DEF SqlInv, BatchInv, PendingIsTouched, Pending
    <3> QED
      BY <2>2, <3>1, BatchMoves DEF DeleteBatch
  <2> QED
    BY <2>1, <2>2
<1>7. RoutesFollowTables'
  BY <1>2, <1>6, RoutesFrame DEF SqlInv
<1> QED
  BY <1>3, <1>5, <1>7

(* The transaction of a deletion. *)
LEMMA DeleteStep ==
  ASSUME SqlInv, NEW f \in Feeds, DeleteFeed(f)
  PROVE  BatchInv' /\ PendingIsTouched' /\ ReadIsCurrent' /\ RoutesFollowTables'
<1>1. del \in [Feeds -> Batch] /\ rows \in [Lists -> [Prefixes -> Feeds \cup {Manual, NoRow}]]
  BY DEF SqlInv, TypeOK
<1>2. /\ UNCHANGED <<active, ctl, sync>> /\ touched' = touched \cup OwnedBy(f)
      /\ del[f].pc = "idle" /\ del[f].remove = {}
  BY DEF DeleteFeed, SqlInv, BatchInv
<1>3. \A l \in Lists : \A p \in Prefixes \ OwnedBy(f) : rows'[l][p] = rows[l][p]
  BY <1>1 DEF DeleteFeed, OwnedBy
<1>4. /\ del'[f].remove = OwnedBy(f) /\ del'[f].add = {}
      /\ del'[f].pc = "idle" => del'[f].remove = {}
      /\ \A g \in Feeds \ {f} : del'[g] = del[g]
  <2>1. CASE OwnedBy(f) = {}
    BY <1>2, <2>1 DEF DeleteFeed, SqlInv, BatchInv
  <2>2. CASE OwnedBy(f) # {}
    BY <1>1, <2>2 DEF DeleteFeed
  <2> QED
    BY <2>1, <2>2
<1>5. BatchInv'
  BY <1>2, <1>4 DEF SqlInv, BatchInv
<1>6. Pending' = Pending \cup OwnedBy(f)
  BY <1>2, <1>4 DEF Pending
<1>7. PendingIsTouched'
  BY <1>2, <1>6 DEF SqlInv, PendingIsTouched
<1>8. ReadIsCurrent'
  BY <1>2, <1>3, <1>6, ReadFrame DEF SqlInv, Lists
<1>9. RoutesFollowTables'
  BY <1>2, <1>3, RoutesFrame DEF SqlInv
<1> QED
  BY <1>5, <1>7, <1>8, <1>9

(* After a restart the routes are those of the tables, as far as Reconcile *)
(* could read them.                                                        *)
LEMMA RestartStep ==
  ASSUME SqlInv, Restart
  PROVE  BatchInv' /\ PendingIsTouched' /\ ReadIsCurrent' /\ RoutesFollowTables'
<1>1. \A f \in Feeds : sync'[f] = Idle /\ del'[f] = Idle
  BY DEF Restart
<1>2. BatchInv' /\ Pending' = {}
  <2>1. Idle.pc = "idle" /\ Idle.add = {} /\ Idle.remove = {}
    BY DEF Idle
  <2>2. BatchInv'
    BY <1>1, <2>1 DEF BatchInv
  <2>3. Pending' = {}
    BY <1>1, <2>1 DEF Pending
  <2> QED
    BY <2>2, <2>3
<1>3. PendingIsTouched' /\ ReadIsCurrent'
  BY <1>2 DEF Restart, PendingIsTouched, ReadIsCurrent, Free
<1>4. \A l : AllPrefixes(l)' = AllPrefixes(l)
  BY DEF Restart, tables, AllPrefixes
<1>5. ASSUME touched' = Prefixes
      PROVE  RoutesFollowTables'
  <2>1. \A p \in Prefixes : Meets(p, touched')
    BY <1>5, PrefixAssumption DEF Meets, Overlaps
  <2> QED
    BY <2>1 DEF RoutesFollowTables, Meets, Overlaps
<1>6. ASSUME active' = EffectiveRoutes(AllPrefixes("blocklist"), AllPrefixes("whitelist"))
      PROVE  RoutesFollowTables'
  BY <1>4, <1>6 DEF RoutesFollowTables, EffectiveRoutes, Meets, Overlaps
<1>7. RoutesFollowTables'
  BY <1>5, <1>6 DEF Restart
<1> QED
  BY <1>2, <1>3, <1>7

(* Every step keeps the parts of SqlInv beyond the types. *)
RoutesPart == BatchInv /\ PendingIsTouched /\ ReadIsCurrent /\ RoutesFollowTables

LEMMA RoutesStep ==
  ASSUME SqlInv, [Next]_vars
  PROVE  RoutesPart'
<1>1. UNCHANGED <<rows, active, ctl, touched, sync, del>> => RoutesPart'
  <2> SUFFICES ASSUME UNCHANGED <<rows, active, ctl, touched, sync, del>>
               PROVE  RoutesPart'
    OBVIOUS
  <2>1. BatchInv'
    BY DEF SqlInv, BatchInv
  <2> QED
    BY <2>1, QuietStep DEF RoutesPart
<1>2. CASE Request
  BY <1>2, WriteStep DEF Request, RoutesPart
<1>3. CASE StartLoop \/ LoopStepFails \/ Tick \/ UNCHANGED vars
  <2>1. UNCHANGED <<rows, active, ctl, touched, sync, del>>
    BY <1>3 DEF StartLoop, LoopStepFails, Tick, vars, tables, feedVars
  <2> QED
    BY <1>1, <2>1
<1>4. CASE LoopStep
  <2>1. PICK p \in loop.todo : ApplyWrite(LoopMutation(p), "loop")
    BY <1>4 DEF LoopStep
  <2>2. LoopMutation(p) \in Mutation
    BY <2>1 DEF LoopMutation, Mutation, SqlInv, TypeOK, LoopInv
  <2> QED
    BY <2>1, <2>2, WriteStep DEF RoutesPart
<1>5. CASE Apply
  BY <1>5, ReadStep, DeltaStep, FailStep DEF Apply, RoutesPart
<1>6. CASE SyncRequest
  BY <1>6, StartStep DEF SyncRequest, tables, RoutesPart
<1>7. CASE SchedNext
  <2>1. UNCHANGED <<rows, active, ctl, touched, del>>
    BY <1>7 DEF SchedNext, tables
  <2>2. PICK f \in sched.due : SyncStarts(f) \/ UNCHANGED sync
    BY <1>7 DEF SchedNext, SyncSkipped
  <2>3. f \in Feeds
    BY DEF SqlInv, TypeOK
  <2> QED
    BY <1>1, <2>1, <2>2, <2>3, StartStep DEF RoutesPart
<1>8. CASE Restart
  BY <1>8, RestartStep DEF RoutesPart
<1>9. ASSUME NEW f \in Feeds, SpawnedSync(f)
      PROVE  RoutesPart'
  <2>1. UNCHANGED <<rows, active, ctl, touched, del>> /\ (SyncStarts(f) \/ UNCHANGED sync)
    BY <1>9 DEF SpawnedSync, SyncSkipped, tables
  <2> QED
    BY <1>1, <2>1, StartStep DEF RoutesPart
<1>10. ASSUME NEW f \in Feeds, FetchFails(f) \/ SyncFeedPoliciesFails(f)
       PROVE  RoutesPart'
  <2>1. /\ UNCHANGED <<rows, active, ctl, touched, del>> /\ SyncReturns(f)
        /\ sync[f].add = {} /\ sync[f].remove = {}
    BY <1>10 DEF FetchFails, SyncFeedPoliciesFails, tables, SqlInv, BatchInv
  <2> QED
    BY <2>1, ReturnStep DEF RoutesPart
<1>11. ASSUME NEW f \in Feeds, SyncFeed(f)
       PROVE  RoutesPart'
  BY <1>10, <1>11, TransactionStep, StatusStep, BatchStep DEF SyncFeed, RoutesPart
<1>12. ASSUME NEW f \in Feeds, SaveFeed(f) \/ Age(f)
       PROVE  RoutesPart'
  BY <1>1, <1>12 DEF SaveFeed, Age, feedVars
<1>13. ASSUME NEW f \in Feeds, DeleteFeed(f) \/ DeleteBatch(f)
       PROVE  RoutesPart'
  BY <1>13, DeleteStep, BatchStep DEF RoutesPart
<1>14. CASE \E f \in Feeds : \/ SpawnedSync(f) \/ SyncFeed(f) \/ SaveFeed(f)
                             \/ DeleteFeed(f) \/ DeleteBatch(f) \/ Age(f)
  BY <1>9, <1>11, <1>12, <1>13, <1>14
<1> QED
  BY <1>2, <1>3, <1>4, <1>5, <1>6, <1>7, <1>8, <1>14 DEF Next

-----------------------------------------------------------------------------
(* The types, one variable or pair of variables at a time.                 *)
CtlType == ctl \in [pc : {"idle", "blocks", "whites"}, from : {"", "request", "loop"},
                    misread : BOOLEAN, blocks : SUBSET Prefixes]
LoopType == loop \in [action : {"", "add", "remove"}, list : Lists \cup {""},
                      todo : SUBSET Prefixes]
FeedsType == feeds \in [Feeds -> FeedRow \cup {NoFeed}]
RowsType == rows \in [Lists -> [Prefixes -> Feeds \cup {Manual, NoRow}]]
SchedType == sched \in [due : SUBSET Feeds, cur : SUBSET Feeds]
SyncType == sync \in [Feeds -> Batch]
DelType == del \in [Feeds -> Batch]
Waiting == \A f \in sched.cur : sync[f].pc # "idle"

(* TypeOK is the conjunction of these, now and after a step. *)
LEMMA TypeParts ==
  /\ TypeOK => /\ FeedsType /\ RowsType /\ CtlType /\ LoopType /\ SyncType /\ DelType
               /\ SchedType /\ Waiting
               /\ active \subseteq Prefixes /\ spawned \subseteq Feeds
               /\ touched \subseteq Prefixes /\ used \in Spent
  /\ /\ FeedsType' /\ RowsType' /\ CtlType' /\ LoopType' /\ SyncType' /\ DelType'
     /\ SchedType' /\ Waiting'
     /\ active' \subseteq Prefixes /\ spawned' \subseteq Feeds
     /\ touched' \subseteq Prefixes /\ used' \in Spent
     => TypeOK'
  BY DEF TypeOK, FeedsType, RowsType, CtlType, LoopType, SyncType, DelType, SchedType,
         Waiting

(* The records a step can write. *)
LEMMA Records ==
  /\ Idle \in Batch /\ Idle.pc = "idle"
  /\ Free \in [pc : {"idle", "blocks", "whites"}, from : {"", "request", "loop"},
               misread : BOOLEAN, blocks : SUBSET Prefixes]
  /\ NoLoop \in [action : {"", "add", "remove"}, list : Lists \cup {""},
                 todo : SUBSET Prefixes]
  /\ NoLoop.todo = {}
<1>1. Idle \in Batch /\ Idle.pc = "idle"
  BY DEF Idle, Batch
<1>2. Free \in [pc : {"idle", "blocks", "whites"}, from : {"", "request", "loop"},
                misread : BOOLEAN, blocks : SUBSET Prefixes]
  BY DEF Free
<1>3. /\ NoLoop \in [action : {"", "add", "remove"}, list : Lists \cup {""},
                     todo : SUBSET Prefixes]
      /\ NoLoop.todo = {}
  BY DEF NoLoop
<1> QED
  BY <1>1, <1>2, <1>3

(* The counters of events and faults. *)
LEMMA UsedStep ==
  ASSUME used \in Spent, Event \/ Fault \/ UNCHANGED used
  PROVE  used' \in Spent
  BY DEF Spent, Event, Fault

(* Apply's write. *)
LEMMA WriteTypes ==
  ASSUME TypeOK, NEW m \in Mutation, NEW from \in {"request", "loop"}, ApplyWrite(m, from)
  PROVE  RowsType' /\ CtlType' /\ touched' \subseteq Prefixes
<1>1. m.list \in Lists /\ m.prefix \in Prefixes
  BY DEF Mutation
<1>2. RowsType'
  BY <1>1 DEF ApplyWrite, Written, RowsType, TypeOK
<1>3. CtlType'
  BY DEF ApplyWrite, Free, CtlType
<1>4. touched' \subseteq Prefixes
  BY <1>1 DEF ApplyWrite, TypeOK
<1> QED
  BY <1>2, <1>3, <1>4

(* What is left of a loop after one of its mutations. *)
LEMMA RestTypes ==
  ASSUME TypeOK, LoopInv, NEW p \in loop.todo, loop' \in {LoopRest(p), NoLoop, loop}
  PROVE  LoopType' /\ LoopInv'
<1>1. LoopType /\ LoopInv
  BY TypeParts
<1>2. CASE loop' = NoLoop
  BY <1>2, Records DEF LoopType, LoopInv
<1>3. CASE loop' = [loop EXCEPT !.todo = @ \ {p}]
  BY <1>1, <1>3 DEF LoopType, LoopInv
<1>4. CASE loop' = loop
  BY <1>1, <1>4 DEF LoopType, LoopInv
<1> QED
  BY <1>2, <1>3, <1>4 DEF LoopRest

(* A sync starts. *)
LEMMA StartTypes ==
  ASSUME TypeOK, NEW f \in Feeds, SyncStarts(f)
  PROVE  /\ SyncType' /\ sync'[f].pc # "idle"
         /\ \A g \in Feeds : sync[g].pc # "idle" => sync'[g].pc # "idle"
<1>1. feeds[f] \in FeedRow
  BY DEF SyncStarts, TypeOK
<1>2. feeds[f].list \in Lists
  BY <1>1 DEF FeedRow
<1>3. [Idle EXCEPT !.pc = "fetch", !.list = feeds[f].list] \in Batch
  BY <1>2 DEF Idle, Batch
<1>4. sync \in [Feeds -> Batch]
  BY DEF TypeOK
<1>5. sync'[f] = [Idle EXCEPT !.pc = "fetch", !.list = feeds[f].list]
  BY <1>4 DEF SyncStarts
<1>6. sync'[f].pc = "fetch"
  BY <1>5 DEF Idle
<1>7. SyncType' /\ \A g \in Feeds \ {f} : sync'[g] = sync[g]
  BY <1>3, <1>4 DEF SyncStarts, SyncType
<1> QED
  BY <1>6, <1>7

(* A sync returns. *)
LEMMA ReturnTypes ==
  ASSUME TypeOK, NEW f \in Feeds, SyncReturns(f)
  PROVE  SyncType' /\ SchedType' /\ Waiting'
<1>1. SyncType'
  BY Records DEF SyncReturns, TypeOK, SyncType
<1>2. SchedType' /\ sched'.cur = sched.cur \ {f}
  BY DEF SyncReturns, TypeOK, SchedType
<1>3. \A g \in Feeds \ {f} : sync'[g] = sync[g]
  BY DEF SyncReturns, TypeOK
<1> QED
  BY <1>1, <1>2, <1>3 DEF Waiting, TypeOK

(* UpdateFeedStatus. *)
LEMMA DatedTypes ==
  ASSUME TypeOK, NEW f \in Feeds, NEW due \in BOOLEAN
  PROVE  Dated(f, due) \in [Feeds -> FeedRow \cup {NoFeed}]
<1>1. CASE feeds[f] = NoFeed
  BY <1>1 DEF Dated, TypeOK
<1>2. CASE feeds[f] # NoFeed
  <2>1. feeds[f] \in FeedRow /\ feeds \in [Feeds -> FeedRow \cup {NoFeed}]
    BY <1>2 DEF TypeOK
  <2>2. [feeds[f] EXCEPT !.due = due] \in FeedRow
    BY <2>1 DEF FeedRow
  <2>3. Dated(f, due) = [feeds EXCEPT ![f] = [feeds[f] EXCEPT !.due = due]]
    BY <1>2, <2>1 DEF Dated, FeedRow
  <2> QED
    BY <2>1, <2>2, <2>3
<1> QED
  BY <1>1, <1>2

(* A batch only moves routes of prefixes. *)
LEMMA BatchTypes ==
  ASSUME TypeOK, NEW b \in Batch, ApplyBatch(b)
  PROVE  active' \subseteq Prefixes /\ used' \in Spent
<1>1. b.add \subseteq Prefixes /\ b.remove \subseteq Prefixes
  BY DEF Batch
<1>2. used' \in Spent
  BY UsedStep DEF ApplyBatch, TypeOK
<1> QED
  BY <1>1, <1>2 DEF ApplyBatch, TypeOK

(* Steps of Apply and of loops. *)
LEMMA ApplyTypes ==
  ASSUME SqlInv, Request \/ StartLoop \/ LoopStep \/ LoopStepFails \/ Apply
  PROVE  TypeOK' /\ LoopInv'
<1>1. TypeOK /\ LoopInv /\ used \in Spent
  BY DEF SqlInv, TypeOK
<1>2. /\ FeedsType /\ RowsType /\ CtlType /\ LoopType /\ SyncType /\ DelType
      /\ SchedType /\ Waiting
  BY <1>1, TypeParts
<1> DEFINE Feed == FeedsType' /\ SyncType' /\ DelType' /\ SchedType' /\ Waiting'
                   /\ spawned' \subseteq Feeds
<1>3. UNCHANGED <<feeds, sync, del, spawned, sched>>
  BY DEF Request, LoopStep, ApplyWrite, StartLoop, LoopStepFails, Apply, ReadBlocklist,
         ApplyDelta, ApplyDeltaFails, tables, feedVars
<1>4. Feed
  BY <1>1, <1>2, <1>3
     DEF FeedsType, SyncType, DelType, SchedType, Waiting, TypeOK
<1> HIDE DEF Feed
<1>5. CASE Request
  <2>1. PICK m \in Mutation : ApplyWrite(m, "request")
    BY <1>5 DEF Request
  <2>2. RowsType' /\ CtlType' /\ touched' \subseteq Prefixes
    BY <1>1, <2>1, WriteTypes
  <2>3. used' \in Spent /\ UNCHANGED <<loop, active>>
    BY <1>1, <1>5, <2>1, UsedStep DEF Request, ApplyWrite
  <2>4. LoopType' /\ LoopInv' /\ active' \subseteq Prefixes
    BY <1>1, <1>2, <2>3 DEF LoopType, LoopInv, TypeOK
  <2> QED
    BY <1>4, <2>2, <2>3, <2>4, TypeParts DEF Feed
<1>6. CASE StartLoop
  <2>1. PICK action \in {"add", "remove"}, list \in Lists, todo \in SUBSET Prefixes :
          /\ used' = [used EXCEPT !.events = @ + Cardinality(todo)]
          /\ used.events + Cardinality(todo) <= MaxEvents
          /\ loop' = [action |-> action, list |-> list, todo |-> todo]
    BY <1>6 DEF StartLoop
  <2>2. LoopType' /\ LoopInv'
    BY <2>1 DEF LoopType, LoopInv
  <2>3. UNCHANGED <<rows, ctl, active, touched>>
    BY <1>6 DEF StartLoop, tables
  <2>4. RowsType' /\ CtlType' /\ active' \subseteq Prefixes /\ touched' \subseteq Prefixes
    BY <1>1, <1>2, <2>3 DEF RowsType, CtlType, TypeOK
  <2>5. Cardinality(todo) \in Nat
    BY PrefixAssumption, FS_Subset, FS_CardinalityType
  <2>6. used' \in Spent
    BY <1>1, <2>1, <2>5 DEF Spent
  <2> QED
    BY <1>4, <2>2, <2>4, <2>6, TypeParts DEF Feed
<1>7. CASE LoopStep
  <2>1. PICK p \in loop.todo : /\ ApplyWrite(LoopMutation(p), "loop")
                               /\ loop' = LoopRest(p)
    BY <1>7 DEF LoopStep
  <2>2. LoopMutation(p) \in Mutation
    BY <1>1, <2>1 DEF LoopMutation, Mutation, TypeOK, LoopInv
  <2>3. RowsType' /\ CtlType' /\ touched' \subseteq Prefixes
    BY <1>1, <2>1, <2>2, WriteTypes
  <2>4. LoopType' /\ LoopInv'
    BY <1>1, <2>1, RestTypes
  <2>5. used' \in Spent /\ active' \subseteq Prefixes
    BY <1>1, <1>7, <2>1 DEF LoopStep, ApplyWrite, TypeOK
  <2> QED
    BY <1>4, <2>3, <2>4, <2>5, TypeParts DEF Feed
<1>8. CASE LoopStepFails
  <2>1. PICK p \in loop.todo : loop' \in {LoopRest(p), NoLoop}
    BY <1>8 DEF LoopStepFails
  <2>2. LoopType' /\ LoopInv'
    BY <1>1, <2>1, RestTypes
  <2>3. UNCHANGED <<rows, ctl, active, touched>>
    BY <1>8 DEF LoopStepFails, tables
  <2>4. RowsType' /\ CtlType' /\ active' \subseteq Prefixes /\ touched' \subseteq Prefixes
    BY <1>1, <1>2, <2>3 DEF RowsType, CtlType, TypeOK
  <2>5. used' \in Spent
    BY <1>1, <1>8, UsedStep DEF LoopStepFails
  <2> QED
    BY <1>4, <2>2, <2>4, <2>5, TypeParts DEF Feed
<1>9. CASE ReadBlocklist
  <2>1. UNCHANGED <<rows, loop, active, touched>>
    BY <1>9 DEF ReadBlocklist, tables
  <2>2. /\ RowsType' /\ LoopType' /\ LoopInv'
        /\ active' \subseteq Prefixes /\ touched' \subseteq Prefixes
    BY <1>1, <1>2, <2>1 DEF RowsType, LoopType, LoopInv, TypeOK
  <2>3. AllPrefixes("blocklist") \subseteq Prefixes
    BY DEF AllPrefixes
  <2>4. CtlType'
    BY <1>2, <1>9, <2>3 DEF ReadBlocklist, CtlType
  <2>5. used' \in Spent
    BY <1>1, <1>9, UsedStep DEF ReadBlocklist
  <2> QED
    BY <1>4, <2>2, <2>4, <2>5, TypeParts DEF Feed
<1>10. CASE ApplyDelta
  <2>1. UNCHANGED <<rows, loop>> /\ ctl' = Free
    BY <1>10 DEF ApplyDelta, tables
  <2>2. RowsType' /\ LoopType' /\ LoopInv' /\ CtlType'
    BY <1>1, <1>2, <2>1, Records DEF RowsType, LoopType, LoopInv, CtlType
  <2>3. ctl.blocks \subseteq Prefixes
    BY <1>2 DEF CtlType
  <2>4. active' \subseteq Prefixes
    BY <1>10, <2>3 DEF ApplyDelta, Desired, EffectiveRoutes
  <2>5. touched' \subseteq Prefixes
    BY <1>1, <1>10 DEF ApplyDelta, SqlInv, PendingIsTouched, TypeOK
  <2>6. used' \in Spent
    BY <1>1, <1>10, UsedStep DEF ApplyDelta
  <2> QED
    BY <1>4, <2>2, <2>4, <2>5, <2>6, TypeParts DEF Feed
<1>11. CASE ApplyDeltaFails
  <2>1. UNCHANGED <<rows, active, touched>> /\ ctl' = Free /\ loop' \in {loop, NoLoop}
    BY <1>11 DEF ApplyDeltaFails, tables
  <2>2. /\ RowsType' /\ CtlType' /\ active' \subseteq Prefixes /\ touched' \subseteq Prefixes
    BY <1>1, <1>2, <2>1, Records DEF RowsType, CtlType, TypeOK
  <2>3. LoopType' /\ LoopInv'
    BY <1>1, <1>2, <2>1, Records DEF LoopType, LoopInv
  <2>4. used' \in Spent
    BY <1>1, <1>11, UsedStep DEF ApplyDeltaFails
  <2> QED
    BY <1>4, <2>2, <2>3, <2>4, TypeParts DEF Feed
<1> QED
  BY <1>5, <1>6, <1>7, <1>8, <1>9, <1>10, <1>11 DEF Apply

(* Steps of the feeds and the scheduler. *)
LEMMA FeedTypes ==
  ASSUME SqlInv,
         \/ SyncRequest \/ Tick \/ SchedNext \/ Restart
         \/ \E f \in Feeds :
              \/ SpawnedSync(f) \/ SyncFeed(f) \/ SaveFeed(f) \/ DeleteFeed(f)
              \/ DeleteBatch(f) \/ Age(f)
  PROVE  TypeOK' /\ LoopInv'
<1>1. TypeOK /\ LoopInv /\ used \in Spent
  BY DEF SqlInv, TypeOK
<1>2. /\ FeedsType /\ RowsType /\ CtlType /\ LoopType /\ SyncType /\ DelType
      /\ SchedType /\ Waiting
      /\ active \subseteq Prefixes /\ spawned \subseteq Feeds
      /\ touched \subseteq Prefixes
  BY <1>1, TypeParts
<1> USE DEF FeedsType, RowsType, DelType
<1>3. UNCHANGED <<ctl, loop>> => CtlType' /\ LoopType' /\ LoopInv'
  BY <1>1, <1>2 DEF CtlType, LoopType, LoopInv
<1>4. UNCHANGED <<sync, sched>> => SyncType' /\ SchedType' /\ Waiting'
  BY <1>2 DEF SyncType, SchedType, Waiting
<1>5. CASE SyncRequest
  <2>1. PICK f \in Feeds : SyncStarts(f)
    BY <1>5 DEF SyncRequest
  <2>2. UNCHANGED <<feeds, rows, active, ctl, loop, del, spawned, sched, touched>>
    BY <1>5 DEF SyncRequest, tables
  <2>3. SyncType' /\ SchedType' /\ Waiting'
    BY <1>1, <1>2, <2>1, <2>2, StartTypes DEF SchedType, Waiting
  <2>4. used' \in Spent
    BY <1>1, <1>5, UsedStep DEF SyncRequest
  <2> QED
    BY <1>2, <1>3, <2>2, <2>3, <2>4, TypeParts
<1>6. CASE Tick
  <2>1. UNCHANGED <<feeds, rows, active, ctl, loop, del, spawned, sync, touched, used>>
    BY <1>6 DEF Tick, tables
  <2>2. SyncType' /\ SchedType' /\ Waiting'
    BY <1>2, <1>6, <2>1 DEF Tick, SyncType, SchedType, Waiting
  <2> QED
    BY <1>1, <1>2, <1>3, <2>1, <2>2, TypeParts
<1>7. CASE SchedNext
  <2>1. UNCHANGED <<feeds, rows, active, ctl, loop, del, spawned, touched>>
    BY <1>7 DEF SchedNext, tables
  <2>2. PICK f \in sched.due :
          \/ SyncStarts(f) /\ sched' = [due |-> sched.due \ {f}, cur |-> {f}] /\ UNCHANGED used
          \/ SyncSkipped(f) /\ sched' = [sched EXCEPT !.due = @ \ {f}]
    BY <1>7 DEF SchedNext
  <2>3. f \in Feeds
    BY <1>2 DEF SchedType
  <2>4. SyncType' /\ SchedType' /\ Waiting'
    <3>1. CASE SyncStarts(f) /\ sched' = [due |-> sched.due \ {f}, cur |-> {f}]
      BY <1>1, <1>2, <2>3, <3>1, StartTypes DEF SchedType, Waiting
    <3>2. CASE SyncSkipped(f) /\ sched' = [sched EXCEPT !.due = @ \ {f}]
      BY <1>2, <3>2 DEF SyncSkipped, SyncType, SchedType, Waiting
    <3> QED
      BY <2>2, <3>1, <3>2
  <2>5. used' \in Spent
    BY <1>1, <2>2, UsedStep DEF SyncSkipped
  <2> QED
    BY <1>2, <1>3, <2>1, <2>4, <2>5, TypeParts
<1>8. CASE Restart
  <2>1. UNCHANGED <<feeds, rows>> /\ ctl' = Free /\ loop' = NoLoop /\ spawned' = {}
        /\ touched' \in {{}, Prefixes} /\ sync' = [f \in Feeds |-> Idle] /\ del' = [f \in Feeds |-> Idle]
    BY <1>8 DEF Restart, tables
  <2>2. active' \subseteq Prefixes /\ touched' \subseteq Prefixes
    BY <1>8, <2>1 DEF Restart, EffectiveRoutes, AllPrefixes
  <2>3. CtlType' /\ LoopType' /\ LoopInv'
    BY <2>1, Records DEF CtlType, LoopType, LoopInv
  <2>4. SyncType' /\ DelType'
    BY <2>1, Records DEF SyncType
  <2>5. SchedType' /\ Waiting'
    BY <1>8 DEF Restart, SchedType, Waiting
  <2>6. used' \in Spent
    BY <1>1, <1>8, UsedStep DEF Restart
  <2> QED
    BY <1>2, <2>1, <2>2, <2>3, <2>4, <2>5, <2>6, TypeParts
<1>9. ASSUME NEW f \in Feeds, SpawnedSync(f)
      PROVE  TypeOK' /\ LoopInv'
  <2>1. /\ UNCHANGED <<feeds, rows, active, ctl, loop, del, sched, touched>>
        /\ spawned' \subseteq Feeds
    BY <1>2, <1>9 DEF SpawnedSync, tables
  <2>2. SyncType' /\ SchedType' /\ Waiting'
    <3>1. CASE SyncStarts(f)
      BY <1>1, <1>2, <2>1, <3>1, StartTypes DEF SchedType, Waiting
    <3>2. CASE UNCHANGED sync
      BY <1>4, <2>1, <3>2
    <3> QED
      BY <1>9, <3>1, <3>2 DEF SpawnedSync, SyncSkipped
  <2>3. used' \in Spent
    BY <1>1, <1>9, UsedStep DEF SpawnedSync, SyncSkipped
  <2> QED
    BY <1>2, <1>3, <2>1, <2>2, <2>3, TypeParts
<1>10. ASSUME NEW f \in Feeds, FetchFails(f) \/ SyncFeedPoliciesFails(f)
       PROVE  TypeOK' /\ LoopInv'
  <2>1. UNCHANGED <<rows, active, ctl, loop, del, spawned, touched>> /\ SyncReturns(f)
    BY <1>10 DEF FetchFails, SyncFeedPoliciesFails, tables
  <2>2. feeds' \in {feeds, Dated(f, TRUE)}
    BY <1>10 DEF FetchFails, SyncFeedPoliciesFails, tables
  <2>3. FeedsType'
    BY <1>1, <1>2, <2>2, DatedTypes
  <2>4. used' \in Spent
    BY <1>1, <1>10, UsedStep DEF FetchFails, SyncFeedPoliciesFails
  <2>5. SyncType' /\ SchedType' /\ Waiting'
    BY <1>1, <2>1, ReturnTypes
  <2> QED
    BY <1>2, <1>3, <2>1, <2>3, <2>4, <2>5, TypeParts
<1>11. ASSUME NEW f \in Feeds, SyncFeedPolicies(f)
       PROVE  TypeOK' /\ LoopInv'
  <2>1. UNCHANGED <<active, ctl, loop, del, spawned, sched, used>> /\ feeds' = Dated(f, FALSE)
    BY <1>11 DEF SyncFeedPolicies
  <2>2. PICK toAdd \in SUBSET Prefixes, toRemove \in SUBSET Prefixes :
          /\ rows' = [l \in Lists |-> [p \in Prefixes |->
                        IF p \in toAdd /\ l = sync[f].list THEN f
                        ELSE IF p \in toRemove /\ rows[l][p] = f THEN NoRow
                        ELSE rows[l][p]]]
          /\ sync' = [sync EXCEPT ![f].pc = "status", ![f].add = toAdd,
                                  ![f].remove = toRemove]
          /\ touched' = touched \cup toAdd \cup toRemove
    BY <1>11 DEF SyncFeedPolicies, OwnedBy
  <2>3. RowsType' /\ touched' \subseteq Prefixes
    BY <1>2, <2>2
  <2>4. SyncType' /\ \A g \in Feeds : sync'[g].pc = "status" \/ sync'[g] = sync[g]
    <3> DEFINE b == [sync[f] EXCEPT !.pc = "status", !.add = toAdd, !.remove = toRemove]
    <3>1. sync \in [Feeds -> Batch] /\ sync[f] \in Batch
      BY <1>2 DEF SyncType
    <3>2. b \in Batch /\ b.pc = "status"
      BY <3>1 DEF Batch
    <3>3. sync' = [sync EXCEPT ![f] = b]
      BY <2>2, <3>1 DEF Batch
    <3> QED
      BY <3>1, <3>2, <3>3 DEF SyncType
  <2>5. SchedType' /\ Waiting'
    BY <1>2, <2>1, <2>4 DEF SchedType, Waiting
  <2>6. FeedsType'
    BY <1>1, <2>1, DatedTypes
  <2> QED
    BY <1>1, <1>2, <1>3, <2>1, <2>3, <2>4, <2>5, <2>6, TypeParts
<1>12. ASSUME NEW f \in Feeds, SyncStatus(f)
       PROVE  TypeOK' /\ LoopInv'
  <2>1. UNCHANGED <<rows, active, ctl, loop, del, spawned, touched>>
    BY <1>12 DEF SyncStatus
  <2>2. FeedsType' /\ used' \in Spent
    BY <1>1, <1>2, <1>12, DatedTypes, UsedStep DEF SyncStatus
  <2>3. SyncType' /\ SchedType' /\ Waiting'
    <3>1. CASE SyncReturns(f)
      BY <1>1, <3>1, ReturnTypes
    <3>2. CASE sync' = [sync EXCEPT ![f].pc = "batch"] /\ UNCHANGED sched
      <4>1. SyncType' /\ \A g \in Feeds : sync'[g].pc = "batch" \/ sync'[g] = sync[g]
        <5>1. sync \in [Feeds -> Batch] /\ sync[f] \in Batch
          BY <1>2 DEF SyncType
        <5>2. /\ [sync[f] EXCEPT !.pc = "batch"] \in Batch
              /\ [sync[f] EXCEPT !.pc = "batch"].pc = "batch"
          BY <5>1 DEF Batch
        <5>3. sync' = [sync EXCEPT ![f] = [sync[f] EXCEPT !.pc = "batch"]]
          BY <3>2
        <5> QED
          BY <5>1, <5>2, <5>3 DEF SyncType
      <4> QED
        BY <1>2, <3>2, <4>1 DEF SchedType, Waiting
    <3> QED
      BY <1>12, <3>1, <3>2 DEF SyncStatus
  <2> QED
    BY <1>2, <1>3, <2>1, <2>2, <2>3, TypeParts
<1>13. ASSUME NEW f \in Feeds, SyncBatch(f)
       PROVE  TypeOK' /\ LoopInv'
  <2>1. UNCHANGED <<feeds, rows, ctl, loop, del, spawned, touched>>
    BY <1>13 DEF SyncBatch, tables
  <2>2. active' \subseteq Prefixes /\ used' \in Spent
    BY <1>1, <1>2, <1>13, BatchTypes DEF SyncBatch, SyncType
  <2>3. SyncType' /\ SchedType' /\ Waiting'
    BY <1>1, <1>13, ReturnTypes DEF SyncBatch
  <2> QED
    BY <1>2, <1>3, <2>1, <2>2, <2>3, TypeParts
<1>14. ASSUME NEW f \in Feeds, SaveFeed(f)
       PROVE  TypeOK' /\ LoopInv'
  <2>1. UNCHANGED <<rows, active, ctl, loop, sync, del, sched, touched>>
    BY <1>14 DEF SaveFeed
  <2>2. PICK list \in Lists, enabled \in BOOLEAN :
          /\ feeds' = [feeds EXCEPT ![f] =
               [list |-> list, enabled |-> enabled,
                due |-> IF feeds[f] = NoFeed THEN TRUE ELSE feeds[f].due]]
          /\ spawned' = IF enabled THEN spawned \cup {f} ELSE spawned
    BY <1>14 DEF SaveFeed
  <2>3. (IF feeds[f] = NoFeed THEN TRUE ELSE feeds[f].due) \in BOOLEAN
    BY <1>2 DEF FeedRow
  <2>4. FeedsType' /\ spawned' \subseteq Feeds
    BY <1>2, <2>2, <2>3 DEF FeedRow
  <2>5. used' \in Spent
    BY <1>1, <1>14, UsedStep DEF SaveFeed
  <2> QED
    BY <1>2, <1>3, <1>4, <2>1, <2>4, <2>5, TypeParts
<1>15. ASSUME NEW f \in Feeds, DeleteFeed(f)
       PROVE  TypeOK' /\ LoopInv'
  <2>1. UNCHANGED <<active, ctl, loop, sync, spawned, sched>>
    BY <1>15 DEF DeleteFeed
  <2>2. OwnedBy(f) \subseteq Prefixes
    BY DEF OwnedBy
  <2>3. RowsType' /\ FeedsType' /\ touched' \subseteq Prefixes
    BY <1>2, <1>15, <2>2 DEF DeleteFeed
  <2>4. (IF feeds[f] = NoFeed THEN "" ELSE feeds[f].list) \in Lists \cup {""}
    BY <1>2 DEF FeedRow
  <2>5. [pc |-> "batch", list |-> IF feeds[f] = NoFeed THEN "" ELSE feeds[f].list,
         add |-> {}, remove |-> OwnedBy(f)] \in Batch
    BY <2>2, <2>4 DEF Batch
  <2>6. DelType'
    BY <1>2, <1>15, <2>5 DEF DeleteFeed
  <2>7. used' \in Spent
    BY <1>1, <1>15, UsedStep DEF DeleteFeed
  <2> QED
    BY <1>2, <1>3, <1>4, <2>1, <2>3, <2>6, <2>7, TypeParts
<1>16. ASSUME NEW f \in Feeds, DeleteBatch(f)
       PROVE  TypeOK' /\ LoopInv'
  <2>1. UNCHANGED <<feeds, rows, ctl, loop, sync, spawned, sched, touched>>
    BY <1>16 DEF DeleteBatch, tables
  <2>2. active' \subseteq Prefixes /\ used' \in Spent
    BY <1>1, <1>2, <1>16, BatchTypes DEF DeleteBatch
  <2>3. DelType'
    BY <1>2, <1>16, Records DEF DeleteBatch
  <2> QED
    BY <1>2, <1>3, <1>4, <2>1, <2>2, <2>3, TypeParts
<1>17. ASSUME NEW f \in Feeds, Age(f)
       PROVE  TypeOK' /\ LoopInv'
  <2>1. UNCHANGED <<rows, active, ctl, loop, sync, del, spawned, sched, touched>>
    BY <1>17 DEF Age, feedVars
  <2>2. feeds' = Dated(f, TRUE)
    BY <1>17 DEF Age, Dated
  <2>3. FeedsType'
    BY <1>1, <2>2, DatedTypes
  <2>4. used' \in Spent
    BY <1>1, <1>17, UsedStep DEF Age
  <2> QED
    BY <1>2, <1>3, <1>4, <2>1, <2>3, <2>4, TypeParts
<1> QED
  BY <1>5, <1>6, <1>7, <1>8, <1>9, <1>10, <1>11, <1>12, <1>13, <1>14, <1>15, <1>16, <1>17
     DEF SyncFeed

(* SqlInv is inductive. *)
LEMMA SqlInvariant == Spec => []SqlInv
<1>1. SqlInv /\ UNCHANGED vars => TypeOK' /\ LoopInv'
  BY DEF vars, tables, feedVars, SqlInv, TypeOK, LoopInv
<1>2. SqlInv /\ [Next]_vars => TypeOK' /\ LoopInv'
  BY <1>1, ApplyTypes, FeedTypes DEF Next
<1>3. SqlInv /\ [Next]_vars => SqlInv'
  BY <1>2, RoutesStep DEF SqlInv, RoutesPart
<1> QED
  BY <1>3, SqlInit, PTL DEF Spec

-----------------------------------------------------------------------------
(* The tables, the controller and the feeds keep their types. *)
THEOREM SqlTypeCorrect == Spec => []TypeOK
<1>1. SqlInv => TypeOK
  BY DEF SqlInv
<1> QED
  BY <1>1, SqlInvariant, PTL

(* A route follows the tables unless a CIDR that overlaps it was touched   *)
(* since the last successful Apply or restart that could read both lists:  *)
(* transactions that commit while Apply reads, batches that arrive late,   *)
(* calls that fail and starts that misread the tables leave nothing wrong  *)
(* that the next such Apply does not repair.                               *)
THEOREM RoutesFollowTablesHolds == Spec => []RoutesFollowTables
<1>1. SqlInv => RoutesFollowTables
  BY DEF SqlInv
<1> QED
  BY <1>1, SqlInvariant, PTL
=============================================================================
