---------------------------- MODULE SqlPolicies -----------------------------
(***************************************************************************)
(* rtbh-server with a database (internal/sqlstore): the feeds and policies *)
(* tables, policyController.Apply in its SQL branch, the feed operations   *)
(* of dashboardBackend and the scheduler runSQLFeedSync.                   *)
(*                                                                         *)
(* Unlike the file-backed store, the tables change before the routes do    *)
(* and outside policyController.mu.  A feed's transaction commits, and its *)
(* effect on the routes is an ApplyBatch that waits for the mutex; Apply   *)
(* writes a row, then reads the two lists in two queries, then moves the   *)
(* routes.  The transactions of feeds fall between any two of these.       *)
(*                                                                         *)
(* A CIDR is the set of its addresses.  What the engine holds beyond       *)
(* active after a failed call is in PolicyController.                      *)
(***************************************************************************)
EXTENDS Naturals, FiniteSets

CONSTANTS
    Feeds,            \* ids of feeds
    Prefixes,         \* the canonical CIDRs, as sets of addresses
    Manual, NoRow,    \* feed_id "" of a manual row; no such row
    NoFeed,           \* no row in the feeds table
    MaxEvents,        \* bound: mutations, feed requests, intervals that pass
    MaxFaults         \* bound: restarts, and fetches, statements and engine
                      \* calls that fail; the reads of a restart go with it

ASSUME RowAssumption == Manual \notin Feeds /\ NoRow \notin Feeds \cup {Manual}
ASSUME FeedAssumption == NoFeed \notin [list : {"blocklist", "whitelist"},
                                        enabled : BOOLEAN, due : BOOLEAN]
ASSUME PrefixAssumption == {} \notin Prefixes /\ IsFiniteSet(Prefixes)
ASSUME SqlBounds == MaxEvents \in Nat /\ MaxFaults \in Nat

VARIABLES
    feeds,    \* table feeds
    rows,     \* table policies: the feed_id of each (list, prefix)
    active,   \* policyController.active
    ctl,      \* the Apply that holds policyController.mu
    loop,     \* a bulk delete or an import, between its mutations
    sync,     \* SyncFeed per feed (backend.syncing admits one)
    del,      \* DeleteFeed per feed, between its transaction and its batch
    spawned,  \* goroutines SaveFeed started that have not called SyncFeed
    sched,    \* runSQLFeedSync: what is left of its list, and its own sync
    touched,  \* history: written, or misread, and not since applied
    used      \* how much of each bound is used

tables == <<feeds, rows>>
feedVars == <<sync, del, spawned, sched>>
vars == <<tables, active, ctl, loop, feedVars, touched, used>>

-----------------------------------------------------------------------------
Lists == {"blocklist", "whitelist"}
FeedRow == [list : Lists, enabled : BOOLEAN, due : BOOLEAN]
Mutation == [action : {"add", "remove"}, list : Lists, prefix : Prefixes]

Overlaps(p, q) == p \cap q # {}
Meets(p, set) == \E q \in set : Overlaps(p, q)

(* AllPrefixes, and effectiveRoutes without expirations: in SQL mode the   *)
(* controller passes none, so expires_at has no effect on the routes.      *)
AllPrefixes(list) == {p \in Prefixes : rows[list][p] # NoRow}
EffectiveRoutes(blocks, whites) == {p \in blocks : ~Meets(p, whites)}

Idle == [pc |-> "idle", list |-> "", add |-> {}, remove |-> {}]
Free == [pc |-> "idle", from |-> "", misread |-> FALSE, blocks |-> {}]
NoLoop == [action |-> "", list |-> "", todo |-> {}]

(* Prefixes of feed transactions whose batch has not reached the routes. *)
Pending == UNION {sync[f].add \cup sync[f].remove \cup del[f].remove : f \in Feeds}

Event == used.events < MaxEvents /\ used' = [used EXCEPT !.events = @ + 1]
Fault == used.faults < MaxFaults /\ used' = [used EXCEPT !.faults = @ + 1]

Init ==
    /\ feeds = [f \in Feeds |-> NoFeed]
    /\ rows = [l \in Lists |-> [p \in Prefixes |-> NoRow]]
    /\ active = {} /\ ctl = Free /\ loop = NoLoop
    /\ sync = [f \in Feeds |-> Idle] /\ del = [f \in Feeds |-> Idle]
    /\ spawned = {} /\ sched = [due |-> {}, cur |-> {}]
    /\ touched = {}
    /\ used = [events |-> 0, faults |-> 0]

-----------------------------------------------------------------------------
(* Apply.                                                                  *)

(* The row a mutation writes: AddPolicy makes it a manual one. *)
Written(m) ==
    [rows EXCEPT ![m.list][m.prefix] = IF m.action = "add" THEN Manual ELSE NoRow]

(* Apply takes the mutex and its statement commits. *)
ApplyWrite(m, from) ==
    /\ ctl.pc = "idle"
    /\ rows' = Written(m)
    /\ ctl' = [Free EXCEPT !.pc = "blocks", !.from = from]
    /\ touched' = touched \cup {m.prefix}
    /\ UNCHANGED <<feeds, active, feedVars>>

(* A mutation of the operator. *)
Request ==
    /\ Event
    /\ \E m \in Mutation : ApplyWrite(m, "request")
    /\ UNCHANGED loop

(* A bulk delete or a feed import arrives with its list of prefixes; each  *)
(* of its mutations counts as an event.                                    *)
StartLoop ==
    /\ loop = NoLoop /\ ctl.from # "loop"
    /\ \E action \in {"add", "remove"}, list \in Lists, todo \in SUBSET Prefixes \ {{}} :
         /\ used.events + Cardinality(todo) <= MaxEvents
         /\ used' = [used EXCEPT !.events = @ + Cardinality(todo)]
         /\ loop' = [action |-> action, list |-> list, todo |-> todo]
    /\ UNCHANGED <<tables, active, ctl, feedVars, touched>>

LoopMutation(p) == [action |-> loop.action, list |-> loop.list, prefix |-> p]

(* What is left of it after p. *)
LoopRest(p) ==
    IF loop.todo = {p} THEN NoLoop ELSE [loop EXCEPT !.todo = @ \ {p}]

(* Its next mutation. *)
LoopStep ==
    /\ \E p \in loop.todo :
         /\ ApplyWrite(LoopMutation(p), "loop")
         /\ loop' = LoopRest(p)
    /\ UNCHANGED used

(* Its statement fails: nothing has changed. *)
LoopStepFails ==
    /\ ctl.pc = "idle"
    /\ \E p \in loop.todo :
         loop' = IF loop.action = "remove" THEN LoopRest(p) ELSE NoLoop
    /\ Fault
    /\ UNCHANGED <<tables, active, ctl, feedVars, touched>>

(* routes: the blocklist is read.  AllPrefixes returns what it has read    *)
(* when it fails, perhaps nothing, and routes ignores the error.           *)
ReadBlocklist ==
    /\ ctl.pc = "blocks"
    /\ \/ /\ ctl' = [ctl EXCEPT !.pc = "whites", !.blocks = AllPrefixes("blocklist")]
          /\ UNCHANGED used
       \/ /\ \E read \in SUBSET AllPrefixes("blocklist") :
               ctl' = [ctl EXCEPT !.pc = "whites", !.misread = TRUE, !.blocks = read]
          /\ Fault
    /\ UNCHANGED <<tables, active, loop, feedVars, touched>>

(* What the whitelist, read last, leaves of the blocks.  Between this      *)
(* query and the end of Apply only the tables can change, which applyDelta *)
(* does not look at.                                                       *)
Desired(whites) == EffectiveRoutes(ctl.blocks, whites)

(* applyDelta succeeds, the mutation is published and the mutex released. *)
ApplyDelta ==
    /\ ctl.pc = "whites"
    /\ \/ /\ active' = Desired(AllPrefixes("whitelist"))
          /\ touched' = IF ctl.misread THEN Prefixes ELSE Pending
          /\ UNCHANGED used
       \/ /\ \E read \in SUBSET AllPrefixes("whitelist") : active' = Desired(read)
          /\ touched' = Prefixes
          /\ Fault
    /\ ctl' = Free
    /\ UNCHANGED <<tables, loop, feedVars>>

(* applyDelta, with something to do, fails and Apply returns its error:    *)
(* the row stays changed.  bulkDeletePolicies goes on to its next prefix,  *)
(* ImportFeed returns.                                                     *)
ApplyDeltaFails ==
    /\ ctl.pc = "whites"
    /\ \E read \in SUBSET AllPrefixes("whitelist") : active # Desired(read)
    /\ Fault
    /\ ctl' = Free
    /\ loop' = IF ctl.from = "loop" /\ loop.action = "add" THEN NoLoop ELSE loop
    /\ UNCHANGED <<tables, active, feedVars, touched>>

Apply ==
    \/ ReadBlocklist \/ ApplyDelta \/ ApplyDeltaFails

-----------------------------------------------------------------------------
(* ApplyBatch: removals, then additions, past the whitelist; only the      *)
(* blocklist has routes.  A failed Announce leaves the prefix out.         *)

ApplyBatch(batch) ==
    /\ ctl.pc = "idle"
    /\ \/ /\ batch.list = "blocklist"
          /\ \/ /\ active' = (active \ batch.remove) \cup batch.add
                /\ UNCHANGED used
             \/ /\ \E out \in batch.add \ (active \ batch.remove) :
                     active' = (active \ batch.remove) \cup (batch.add \ {out})
                /\ Fault
       \/ /\ batch.list # "blocklist"
          /\ UNCHANGED <<active, used>>

-----------------------------------------------------------------------------
(* SyncFeed.                                                               *)

(* It is not running for f, f is in the table, and its row is read. *)
SyncStarts(f) ==
    /\ sync[f].pc = "idle" /\ feeds[f] # NoFeed
    /\ sync' = [sync EXCEPT ![f] = [Idle EXCEPT !.pc = "fetch",
                                                !.list = feeds[f].list]]

(* It runs already, the feed is unknown, or ListFeeds fails. *)
SyncSkipped(f) ==
    /\ \/ (sync[f].pc # "idle" \/ feeds[f] = NoFeed) /\ UNCHANGED used
       \/ sync[f].pc = "idle" /\ Fault
    /\ UNCHANGED sync

(* It returns, to the scheduler if that called it. *)
SyncReturns(f) ==
    /\ sync' = [sync EXCEPT ![f] = Idle]
    /\ sched' = [sched EXCEPT !.cur = @ \ {f}]

(* POST /feeds/sync. *)
SyncRequest ==
    /\ Event
    /\ \E f \in Feeds : SyncStarts(f)
    /\ UNCHANGED <<tables, active, ctl, loop, del, spawned, sched, touched>>

(* The goroutine SaveFeed started. *)
SpawnedSync(f) ==
    /\ f \in spawned
    /\ spawned' = spawned \ {f}
    /\ \/ SyncStarts(f) /\ UNCHANGED used
       \/ SyncSkipped(f)
    /\ UNCHANGED <<tables, active, ctl, loop, del, sched, touched>>

(* UpdateFeedStatus: last_sync is set or cleared if the feed is there. *)
Dated(f, due) ==
    IF feeds[f] = NoFeed THEN feeds ELSE [feeds EXCEPT ![f].due = due]

(* Mutant: the flag in backend.syncing stays set. *)
FetchFailsStuck(f) ==
    /\ sync[f].pc = "fetch" /\ Fault
    /\ feeds' = Dated(f, TRUE)
    /\ sync' = [sync EXCEPT ![f] = [Idle EXCEPT !.pc = "stuck"]]
    /\ sched' = [sched EXCEPT !.cur = @ \ {f}]
    /\ UNCHANGED <<rows, active, ctl, loop, del, spawned, touched>>

(* feed.Fetch fails: UpdateFeedStatus clears last_sync, or fails too. *)
FetchFails(f) ==
    /\ sync[f].pc = "fetch" /\ Fault
    /\ feeds' \in {feeds, Dated(f, TRUE)}
    /\ SyncReturns(f)
    /\ UNCHANGED <<rows, active, ctl, loop, del, spawned, touched>>

(* The prefixes a feed has in either list. *)
OwnedBy(f) == {p \in Prefixes : \E l \in Lists : rows[l][p] = f}

(* SyncFeedPolicies, in one transaction: what the feed no longer lists is  *)
(* deleted, what it did not have is inserted or taken over, last_sync set. *)
SyncFeedPolicies(f) ==
    /\ sync[f].pc = "fetch"
    /\ \E new \in SUBSET Prefixes :
         LET toAdd == new \ OwnedBy(f)
             toRemove == OwnedBy(f) \ new
         IN  /\ rows' = [l \in Lists |-> [p \in Prefixes |->
                           IF p \in toAdd /\ l = sync[f].list THEN f
                           ELSE IF p \in toRemove /\ rows[l][p] = f THEN NoRow
                           ELSE rows[l][p]]]
             /\ sync' = [sync EXCEPT ![f].pc = "status", ![f].add = toAdd,
                                     ![f].remove = toRemove]
             /\ touched' = touched \cup toAdd \cup toRemove
    /\ feeds' = Dated(f, FALSE)
    /\ UNCHANGED <<active, ctl, loop, del, spawned, sched, used>>

(* The transaction is rolled back. *)
SyncFeedPoliciesFails(f) ==
    /\ sync[f].pc = "fetch" /\ Fault
    /\ SyncReturns(f)
    /\ UNCHANGED <<tables, active, ctl, loop, del, spawned, touched>>

(* SyncFeed sets last_sync once more, ignoring an error.  With nothing to  *)
(* add or remove ApplyBatch returns without the mutex.                     *)
SyncStatus(f) ==
    /\ sync[f].pc = "status"
    /\ \/ feeds' = Dated(f, FALSE) /\ UNCHANGED used
       \/ UNCHANGED feeds /\ Fault
    /\ IF sync[f].add \cup sync[f].remove = {} THEN SyncReturns(f)
       ELSE sync' = [sync EXCEPT ![f].pc = "batch"] /\ UNCHANGED sched
    /\ UNCHANGED <<rows, active, ctl, loop, del, spawned, touched>>

(* Mutant: the batch does not wait for the mutex. *)
SyncBatchUnlocked(f) ==
    /\ sync[f].pc = "batch"
    /\ active' = IF sync[f].list = "blocklist"
                 THEN (active \ sync[f].remove) \cup sync[f].add ELSE active
    /\ SyncReturns(f)
    /\ UNCHANGED <<tables, ctl, loop, del, spawned, touched, used>>

(* ApplyBatch with the list the feed had when SyncFeed read it. *)
SyncBatch(f) ==
    /\ sync[f].pc = "batch"
    /\ ApplyBatch(sync[f])
    /\ SyncReturns(f)
    /\ UNCHANGED <<tables, ctl, loop, del, spawned, touched>>

SyncFeed(f) ==
    \/ FetchFails(f) \/ SyncFeedPolicies(f) \/ SyncFeedPoliciesFails(f)
    \/ SyncStatus(f) \/ SyncBatch(f)

-----------------------------------------------------------------------------
(* SaveFeed and DeleteFeed.                                                *)

(* The upsert keeps last_sync; an enabled feed is synced at once. *)
SaveFeed(f) ==
    /\ Event
    /\ \E list \in Lists, enabled \in BOOLEAN :
         /\ feeds' = [feeds EXCEPT ![f] =
              [list |-> list, enabled |-> enabled,
               due |-> IF feeds[f] = NoFeed THEN TRUE ELSE feeds[f].due]]
         /\ spawned' = IF enabled THEN spawned \cup {f} ELSE spawned
    /\ UNCHANGED <<rows, active, ctl, loop, sync, del, sched, touched>>

(* DeleteFeed's transaction: the feed and every row that has its id. *)
DeleteFeed(f) ==
    /\ del[f].pc = "idle" /\ Event
    /\ rows' = [l \in Lists |-> [p \in Prefixes |->
                  IF rows[l][p] = f THEN NoRow ELSE rows[l][p]]]
    /\ feeds' = [feeds EXCEPT ![f] = NoFeed]
    /\ del' = IF OwnedBy(f) = {} THEN del ELSE [del EXCEPT ![f] =
         [pc |-> "batch", list |-> IF feeds[f] = NoFeed THEN "" ELSE feeds[f].list,
          add |-> {}, remove |-> OwnedBy(f)]]
    /\ touched' = touched \cup OwnedBy(f)
    /\ UNCHANGED <<active, ctl, loop, sync, spawned, sched>>

(* Then its ApplyBatch. *)
DeleteBatch(f) ==
    /\ del[f].pc = "batch"
    /\ ApplyBatch(del[f])
    /\ del' = [del EXCEPT ![f] = Idle]
    /\ UNCHANGED <<tables, ctl, loop, sync, spawned, sched, touched>>

-----------------------------------------------------------------------------
(* runSQLFeedSync.                                                         *)

Due(f) == feeds[f] # NoFeed /\ feeds[f].enabled /\ feeds[f].due

(* An interval has passed since last_sync. *)
Age(f) ==
    /\ feeds[f] # NoFeed /\ ~feeds[f].due
    /\ Event
    /\ feeds' = [feeds EXCEPT ![f].due = TRUE]
    /\ UNCHANGED <<rows, active, ctl, loop, feedVars, touched>>

(* The ticker fires and the due feeds are listed. *)
Tick ==
    /\ sched.due = {} /\ sched.cur = {}
    /\ sched' = [sched EXCEPT !.due = {f \in Feeds : Due(f)}]
    /\ UNCHANGED <<tables, active, ctl, loop, sync, del, spawned, touched, used>>

(* The next feed of the list, as it was then; SyncFeed is called and the   *)
(* scheduler waits for it.                                                 *)
SchedNext ==
    /\ sched.cur = {}
    /\ \E f \in sched.due :
         \/ /\ SyncStarts(f)
            /\ sched' = [due |-> sched.due \ {f}, cur |-> {f}]
            /\ UNCHANGED used
         \/ /\ SyncSkipped(f)
            /\ sched' = [sched EXCEPT !.due = @ \ {f}]
    /\ UNCHANGED <<tables, active, ctl, loop, del, spawned, touched>>

(* rtbh-server stops and starts again: Reconcile builds the routes from    *)
(* what it can read of the two lists, and the server runs on with them.    *)
(* If it cannot announce them Run gives up, which is in ServerRun.         *)
Restart ==
    /\ Fault
    /\ \E blocks \in SUBSET AllPrefixes("blocklist"),
          whites \in SUBSET AllPrefixes("whitelist") :
         /\ active' = EffectiveRoutes(blocks, whites)
         /\ touched' = IF /\ blocks = AllPrefixes("blocklist")
                          /\ whites = AllPrefixes("whitelist")
                       THEN {} ELSE Prefixes
    /\ ctl' = Free /\ loop' = NoLoop
    /\ sync' = [f \in Feeds |-> Idle] /\ del' = [f \in Feeds |-> Idle]
    /\ spawned' = {} /\ sched' = [due |-> {}, cur |-> {}]
    /\ UNCHANGED tables

-----------------------------------------------------------------------------
Next ==
    \/ Request \/ StartLoop \/ LoopStep \/ LoopStepFails \/ Apply
    \/ SyncRequest \/ Tick \/ SchedNext \/ Restart
    \/ \E f \in Feeds :
         \/ SpawnedSync(f) \/ SyncFeed(f) \/ SaveFeed(f) \/ DeleteFeed(f)
         \/ DeleteBatch(f) \/ Age(f)

Spec == Init /\ [][Next]_vars

(* A request that holds the mutex, a sync and the scheduler go on: fetches *)
(* and statements have timeouts.                                           *)
Fairness ==
    /\ WF_vars(Apply) /\ WF_vars(Tick) /\ WF_vars(SchedNext)
    /\ \A f \in Feeds : WF_vars(SyncFeed(f))

FairSpec == Spec /\ Fairness

-----------------------------------------------------------------------------
Batch == [pc : {"idle", "fetch", "status", "batch"}, list : Lists \cup {""},
          add : SUBSET Prefixes, remove : SUBSET Prefixes]
Spent == [events : Nat, faults : Nat]

(* Every variable keeps its type; the scheduler waits for at most one      *)
(* sync, which is running.                                                 *)
TypeOK ==
    /\ feeds \in [Feeds -> FeedRow \cup {NoFeed}]
    /\ rows \in [Lists -> [Prefixes -> Feeds \cup {Manual, NoRow}]]
    /\ active \subseteq Prefixes
    /\ ctl \in [pc : {"idle", "blocks", "whites"},
                from : {"", "request", "loop"}, misread : BOOLEAN,
                blocks : SUBSET Prefixes]
    /\ loop \in [action : {"", "add", "remove"}, list : Lists \cup {""},
                 todo : SUBSET Prefixes]
    /\ sync \in [Feeds -> Batch] /\ del \in [Feeds -> Batch]
    /\ spawned \subseteq Feeds /\ touched \subseteq Prefixes
    /\ sched \in [due : SUBSET Feeds, cur : SUBSET Feeds]
    /\ \A f \in sched.cur : sync[f].pc # "idle"
    /\ used \in Spent

(* After an Apply that succeeds, or a restart, and could read both lists,  *)
(* a route and the tables disagree about a prefix only if a feed or a      *)
(* mutation has touched a CIDR that overlaps it since: whatever batches,   *)
(* failed calls, failed reads and failed starts have left behind, the next *)
(* such Apply repairs it, but for feeds in the middle of a sync.           *)
RoutesFollowTables ==
    \A p \in Prefixes :
        ~Meets(p, touched) =>
            (p \in active <=>
               p \in EffectiveRoutes(AllPrefixes("blocklist"), AllPrefixes("whitelist")))

(* A feed that is enabled and due, be it after a failed fetch, a restart   *)
(* or a sync somebody else started, is synced, switched off or deleted.    *)
DueFeedIsSynced == \A f \in Feeds : Due(f) ~> ~Due(f)

(* Deleting a feed removes its prefixes: with the feed gone, and no sync   *)
(* of it under way, no policy has its id.                                  *)
DeleteCascades ==
    \A f \in Feeds :
        feeds[f] = NoFeed /\ sync[f].pc = "idle" => OwnedBy(f) = {}
=============================================================================
