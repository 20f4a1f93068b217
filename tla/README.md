# A TLA+ verification of rtbh-panel

rtbh-panel is a control plane for remotely triggered blackholing. `rtbh-server`
keeps a blocklist and a whitelist of CIDRs, announces the effective blocklist
to BGP peers with the blackhole community, and streams every applied change to
an `rtbh-agent`, which keeps a copy of the lists. This directory models the
parts of both programs whose correctness depends on interleavings, restarts and
failed writes, checks them with TLC, and proves the central invariants with
TLAPS.

## 1. Inventory

| Component | State | Operations | Talks to |
| --- | --- | --- | --- |
| `internal/agentrpc` Session | next sequence, applied cursor, peer cursor, pending sequences | NewSession, SendPolicy, Receive, Ack | a TCP connection |
| `internal/runtime/queue.go` | pending changes, a one-token channel | publish, next, commit | controller (publishes), handler (reads) |
| `internal/runtime/server.go` | the connection being served, `cursor`, cursor file | acceptSync, handleSync, Run | session, queue, cursor file |
| `internal/runtime/agent.go` | `cursor`, cursor file, its policy store | Run, consume | session, policy store |
| `internal/runtime/cursor.go` | a file | loadCursor, saveCursor | server, agent |
| `internal/policystore` | two lists, expirations, audit log, a file | Add, Remove, AddUntil, Open | controller, agent adapter |
| `internal/runtime/policy.go` | `active` routes, wake channel, the clock | Apply, ApplyBatch, Reconcile, RunExpiry | policy store or SQL store, BGP engine, queue |
| `internal/bgpengine` | routes in GoBGP, admitted sessions | Announce, Withdraw, Start, Stop, onPeerUpdate | GoBGP |
| `internal/feed` | feed sources with their last prefixes, a file | Save, Delete, SyncFeed, Run; ParseList | controller's ApplyBatch, HTTP |
| `internal/sqlstore` | policy, feed and audit tables | AddPolicy, RemovePolicy, SyncFeedPolicies, DeleteFeed, UpdateFeedStatus, ... | controller, backend, scheduler |
| `runSQLFeedSync` in `server.go` | the list of due feeds | a ticker, one SyncFeed after the other | SQL store, backend |
| `Server.Run` in `server.go` | listeners, `errCh`, a WaitGroup, the run context | start-up, select, shutdown | engine, HTTP server, up to five goroutines |
| `internal/runtime/backend.go`, `internal/dashboard` | which feeds are syncing | MutatePolicy, ImportFeed, SaveFeed, DeleteFeed, SyncFeed, bulk delete | controller, feed manager, SQL store |
| `config.go`, `cmd/`, `web/` | configuration; none | parsing, validation, signals, user interface | everything above |

`runFeedSync` in `feed_sync.go` is an older loop without a caller.

How they interact. An HTTP request calls `policyController.Apply`, which under
`policyController.mu` moves the routes (`applyDelta`), persists the lists,
calls `policyQueue.publish` and sends a token to the expiry goroutine. The
goroutine of the agent's connection (`handleSync`) takes the head of the queue,
sends it, waits for the ACK, saves its cursor and drops the head. The agent
applies a change, saves its cursor and acknowledges. Feeds call `ApplyBatch`,
which moves routes without touching the lists. With a database the order is the
reverse: rows are written first, a feed's in a transaction outside the mutex,
and the routes follow. `Server.Run` starts the engine, the listeners and the
goroutines, and takes them down after a signal or the first failure.

What is hard here:

* Ordering and crashes: there are four places (the agent's store, the agent's
  cursor file, the server's cursor file, the server's queue) that move one after
  another, and either program may restart between any two of them.
* Unreliable delivery: ACKs are lost with their connection; a new connection
  replaces the old one while its handler is in the middle of a change.
* Failed writes: a write of a file may report an error although the rename took
  effect.
* Interleaving: publish unlocks before it signals; the expiry goroutine computes
  its wait without the mutex.
* Unlocked windows: a feed is fetched without the manager's lock, and deleted in
  two steps; saves, deletions and a second sync of the same feed come in between.
* Late effects: in database mode a feed's transaction commits long before its batch
  reaches the routes; GoBGP reports a session when it may already be gone, and a
  reset names an address, not a session.
* Shutdown: a signal, a failing goroutine, requests that outlast the timeout and a
  connection accepted at the last moment meet in one select and two waits.
* Partial failure: a BGP call may fail, the calls that undo earlier ones may fail
  too and their errors are ignored.

What makes each component correct: the two cursors never drift apart; a change
is applied once, in order, and none is lost; nobody sleeps on work; the
announced routes are the effective blocklist; no whitelisted address is
blackholed; an expired block goes away and an extended one stays; a feed's routes
come and go with the feed, and a feed is fetched from its current URL; with a
database the routes follow the tables; no BGP slot leaks and no unwanted session
lasts; the server stops when asked and leaves nothing behind. `PROJECT.json`
lists each hazard at its line with the properties that cover it, or with the
reason why none does yet.

## 2. Modules

| Module | Models | Used by |
| --- | --- | --- |
| `AgentSession` | the cursor arithmetic of `session.go` as operators on a Session value | `PolicySync` |
| `PolicyQueue` | `queue.go`: `pending`, the token in `notify`, and where the publisher is | `PolicySync` |
| `PolicySync` | `acceptSync`, `handleSync`, the agent's `Run` and `consume`, both cursor files, the agent's store and its file, the connections | `MCPolicySync`, `PolicySyncProofs`, `PolicyStreamProofs` |
| `PolicyController` | `policy.go` over a file-backed `policystore`: mutations, `applyDelta`, `ApplyBatch`, expiry, restart | `MCPolicyController`, `PolicyControllerProofs` |
| `PolicyStream` | what the stream promises: versions followed one at a time | refined by `PolicySync` |
| `SqlPolicies` | the tables of `sqlstore`, the SQL branch of `Apply`, `routes` and `Reconcile`, bulk delete and import, `SyncFeed`, `SaveFeed`, `DeleteFeed` and `runSQLFeedSync` | `MCSqlPolicies`, `SqlPoliciesProofs` |
| `BgpEngine` | `Start`, `Stop` and `sessionPolicy` of `engine.go`, over GoBGP | `MCBgpEngine`, `BgpEngineProofs` |
| `ServerRun` | the configuration that decides the store, `Server.Run`, `acceptSync` as a goroutine, the WaitGroup of its handlers | `MCServerRun`, `ServerRunProofs` |
| `Feeds` | `feed.Manager`, the callbacks and flags of `NewServer`, the dashboard's feed operations | `MCFeeds`, `FeedsProofs` |
| `MC*` | the instances TLC checks | |
| `*Proofs` | theorems; `PolicyStreamProofs` extends `PolicySyncProofs` | |

### PolicySync

`h` is the goroutine of `handleSync` with its locals; `h.pc` names the call it is
about to make: `next` and `wait` (the two halves of `queue.next`), `send`, `recv`,
`save` (saveCursor), `commit`. `a` is the agent in the same way: `dial`, `recv`,
`apply`, `save`, `ack`. Each call is an action and each error return another one
(`HandlerSaveFails`, `AgentApplyFails`, ...), so a restart or a new connection can
fall between any two. `acceptSync` is `Accept` (the new connection is taken and
the old handler cancelled) and `StartHandler` (the old handler has returned), and
while it waits `Cancelled` holds: only the error paths of the old handler's
blocking calls are enabled.

A connection is a slot of `Conns` with two FIFO sequences of frames. An endpoint
notices that the other one is gone (`ServerGone`, `AgentGone`) at a read or a
write, but frames that arrived earlier may still be read and a write may still
be accepted: both outcomes are enabled. The network may cut a connection
(`Break`). Framing, JSON, deadlines and sizes are left out; payloads are a change
id, an operation and an item.

A failed file write leaves the old or the new content (`SaveFails`,
`AgentApplyFails`): the error may come from the directory sync after the rename.
`saveCursor` also refuses a cursor below the file's; `SaveFails` has that case and
a theorem shows it is unreachable.

`versions`, `appliedIds` and `lost` are history variables: the server's policy
after each mutation, which change the agent applied under each sequence, and the
changes that left the queue without having been applied.

`DryRunStarts` says how often the agent is started with `--dry-run` before an
operator starts it without: until then `consume` returns an error before it stores
or acknowledges anything. `PolicyStream` is refined with the log `versions` and the
agent's store as the follower: applying a change is `Follow`, and so is nothing
else. Repeated deliveries, reconnects and restarts of the agent are stuttering
steps.

### PolicyController

A call that holds `policyController.mu` throughout is one action; `applyExpired`
is one action per removed prefix with the mutex held in between (`epc = "sweep"`).
A CIDR is the set of its addresses with its network address, and two CIDRs are
nested or disjoint (`CidrAssumption`), so the overlap test of `effectiveRoutes`,
which looks at network addresses only, is modelled as written and compared with
real overlap. `Delta` is the set of all ways `applyDelta` can end, including
failures of the calls that undo earlier ones. `replica` is what the mutations
published to the agents add up to. The store is file-backed; `SqlPolicies` has the
branch with a database. In dry-run mode every operation returns at once.

### Feeds

`sources` and `disk` are the manager's map and its file; an ID that is not in the
map reads as `Zero`, Go's zero value, which is what `SyncFeed` gets when the feed
has been deleted during its fetch. A sync is two actions: the source is read and
the fetch starts (`SpawnedSync` for the goroutine of a save, `OperatorSync` for a
request, `StartRun` for the scheduler), and `FinishSync`, everything `SyncFeed` does
under the lock, the `ApplyBatch` of its callback included. Nothing that could run
between the record and the callback reads both, so they are one step. `dash` is
`backend.syncing`: one dashboard sync of a feed at a time, next to one of the
scheduler. `Delete` and `Cascade` are the two halves of a deletion. `run` is the
scheduler with the due feeds it found and its wait.

A fetch fails or returns any set of prefixes. Time is relative: `age` is the time
since `LastSync`, up to `MaxAge`, and the scheduler's wait counts down, so the clock
never stops and liveness needs no time bound. `active` is `policyController.active`;
`AnnouncedHolds` says when the engine agrees with it. `ManualApply` is the effect of a
successful manual mutation, which moves the routes to the effective lists;
`PolicyController` has its failures. With dry-run on `ApplyBatch` refuses every
batch and no route exists; that mode is left out. `stray` and `origin` are history: prefixes of
feeds moved off the blocklist, and the URL the recorded prefixes came from.

### SqlPolicies

`feeds` and `rows` are the two tables; a row's value is the `feed_id` that owns it.
A transaction is one action. `Apply` is four: its statement (`ApplyWrite`, which
takes the mutex), the two queries (`ReadBlocklist`, and the whitelist as part of
the next one, since nothing but the tables changes after it) and `applyDelta`. A
sync is `SyncStarts`, the fetch, `SyncFeedPolicies`, `SyncStatus` and `SyncBatch`;
only the last one needs the mutex. `loop` is a bulk delete or an import between two
of its mutations. `due` stands for the comparison of `last_sync` with the interval.
A read that fails returns what it had read, perhaps nothing, and `routes` ignores
the error (policy.go:247, store.go:498): in `Apply` and in the `Reconcile` of
`Restart` a list is then any subset of its rows. `touched` is a history variable: the
prefixes that were written since the last successful `Apply` or restart, and all of
them after one that could not read both lists.
What the engine holds beyond `active` after a failed call is in `PolicyController`.

### BgpEngine

GoBGP is external: it establishes a session with any neighbour of the listen
ranges, reports every state change in order to the watch, first the sessions it
has when the watch starts, and carries out a reset on the session the address then
has. `OnPeerUpdate` is the callback: it releases a slot, takes one or asks for a
reset. Sessions with an ASN, not the routes sent over them, are the state.

### ServerRun

`pc` is where `main` and `Run` are, from loading the configuration (`Config`: what
decides the store and the goroutines) through start-up, `serve` (the select) and the
steps of the shutdown. `worker` holds each goroutine up to its send on `errCh`;
`accept` waits for its handler when it replaces it and when it ends. A handler ends in
the order of its deferred calls: `HandlerEnds` closes `done`, which lets `acceptSync`
go on, and `HandlerDone` is the `workers.Done` after it, so `Counter`, the WaitGroup's,
may count two handlers. `workers.Wait` is `WaitWorkers` (`waiting` if something is
counted), the `Done` that reaches zero (`woken`) and `WaitReturns`. Between the last
two an `Add` makes the WaitGroup panic, in `Add` or in `Wait`, and the program ends
(`panicked`). `listener.http` is closed by `Shutdown` before it waits, so requests end but
none starts. `late` and `timedOut` are history: a handler added to the WaitGroup
after `Wait` has returned, and a `Shutdown` that ran into its timeout.

## 3. Runs

Pass:

| Run | Bounds | Shows |
| --- | --- | --- |
| `restarts` | 3 mutations, one restart of each program, 1 failed write, 3 connections, `MaxInFlight` 1, both cursor files | `TypeOK`, `CursorWindow`, `StopAndWait`, `NoLostWakeup`, `SilentLossBound`, `AgentHoldsAVersion`, `AppliedInOrder` |
| `live` | 2 mutations, an agent started in dry-run and twice more, a broken connection, server cursor in memory only | `SequenceNamesOnePayload`, `DryRunHoldsBack`, `ImplementsStream`; `Convergence` under fairness |
| `routes` | a /31 and a /32 inside it, one clock tick, 2 failing BGP calls, 1 failing persist | `TypeOK`, `ActiveIsAnnounced`, `WhitelistNeverAdvertised`, `PermanentDenyAdvertised`, `PublishedIsStored` |
| `expiry` | two ticks, one failing BGP call, one `ApplyBatch`, one restart, fairness of the expiry goroutine | `NoOversleep`, `ActiveIsAnnounced`, `SweepSparesTheExtended`, `ExpiredEventuallyRemoved` |
| `feed_sync` | a feed, a prefix, 2 URLs, both lists, 2 saves, a failed fetch and Announce, fairness | `TypeOK`, `NoOrphanRoutes`, `LateSyncAnnouncesNothing`, `UpdatedUrlIsFetched` |
| `feed_shared` | 2 feeds with one prefix, the flag, a restart, a failed write and Announce, a manual mutation | `NoOrphanRoutes` |
| `sql` | a feed, two nested prefixes, 3 requests, saves, deletions or intervals, one fault (a fetch, statement, read or BGP call, or a restart, which may misread either list), fairness | `TypeOK`, `RoutesFollowTables`, `DueFeedIsSynced` |
| `sessions` | 2 addresses, 2 ASNs of which one is allowed, `MaxSessions` 1, 4 sessions, a handshake that fails, fairness | `TypeOK`, `SettledAddress`, `QuietWithinLimits`, `ForeignIsClosed`, `ExcessIsClosed` |
| `server` | every configuration, one request at a time, 2 connections, one failing listener, fairness | `TypeOK`, `ReturnIsClean`, `NilOnlyWhenAsked`, `StopsWhenAsked`, `OrderlyStop`, `GoroutinesEnd` |

Violated, each a disagreement between the documentation and the code:

| Run | Statement | What happens |
| --- | --- | --- |
| `sequence_reuse` | "Retries reuse the same sequence and payload" (docs/policy-sync.md:10) | the server restarts after the agent saved a cursor and before the server did; the next change goes out under the sequence the agent has applied, is acknowledged and lost |
| `feed_whitelist` | "Whitelist prefixes are never advertised" (README.md:10) | `ApplyBatch` announces a feed's prefix that the whitelist covers |
| `sql_cascade` | "Delete feed source and automatically cascade-remove its IPs" (README.md:94) | a feed deleted while it is being fetched: the sync's transaction inserts its prefixes after the cascade, with the id of a feed that is gone |

Behaviours of the code that the models have and that limit what the properties
above can say; no run is kept for them:

* With a database configured the agent's store has no file (backend.go:36): a
  restart loses acknowledged policies and keeps the cursor. `AgentHoldsAVersion`
  excludes that configuration after a restart.
* A block extended after its expiry and before the sweep is stored but stays
  withdrawn (policy.go:179). `PermanentDenyAdvertised` is therefore about blocks
  without an expiry.
* A feed deleted during its fetch is written back without ID, name or list
  (manager.go:210). `LateSyncAnnouncesNothing` bounds the damage.
* A feed moved from the blocklist to the whitelist leaves its routes behind, also
  when it is deleted (manager.go:161): the `stray` of `NoOrphanRoutes`.
* A feed's removal withdraws a prefix that is also blocked by hand (policy.go:104);
  `NoOrphanRoutes` says nothing about routes that should be there and are not.
* After a restart the feeds file still records every feed's prefixes and the routes
  are gone, so an unchanged feed is synced and never announced again.
* A sync of a deleted feed in database mode goes the same way, and its rows then
  belong to no feed (`sql_cascade`). A feed moved to the other list keeps its old
  rows there (store.go:356), and a feed that takes over a manual row removes it with
  its own (store.go:269): `RoutesFollowTables` compares the routes with the rows,
  whoever owns them.
* Deleting a feed id that is not in the table withdraws nothing, whatever rows have
  the id (backend.go:509, the list is then empty).
* An agent restarted without a cursor file, which is "optional" (config.go:152),
  answers every change with a sequence gap, forever: `AgentCursorFile = FALSE` with
  an agent restart violates `Convergence`.
* After a sync the feed scheduler sleeps up to an hour, however short the "auto-sync
  interval" (README.md:93) is (manager.go:279).
* In database mode blocks do not expire: `RunExpiry` looks at the store in memory,
  which is empty. The flag's feeds still run through the feed manager, and the next
  `Apply` withdraws their routes.
* A bulk delete is a loop of mutations and not "one atomic transaction"
  (README.md:90; http.go:432): a failure leaves the ones before it in effect.
  `BulkRemovePolicies`, which is one, has no caller.
* A DSN without a driver satisfies the check that apply mode has a store
  (config.go:216) and selects the store in memory (server.go:76); `UsesSQL` has this.
* `Run` may return while a policy-sync handler runs, if `acceptSync` took its
  connection just before the listener closed: the `late` of `ReturnIsClean`.
* If that connection replaces another one, the old handler's `Done` may release
  `workers.Wait` (server.go:240) just before `workers.Add` (server.go:277): the
  WaitGroup panics and `Run` does not return. `StopsWhenAsked` counts this as an end of
  the program; `OrderlyStop` says that nothing else keeps `Run` from returning.
* In database mode a start whose reads fail announces nothing, or what the whitelist
  covers, and serves until the next `Apply` (policy.go:247).
* With the default interval of 0 the feed of `--blocklist-feed` is fetched only on
  request (manager.go:274).

`SilentLossBound` is the other side of `sequence_reuse`: when the cursors are
kept, at most one change per server restart is taken as acknowledged although the
agent never applied it. The changes a restart drops with the queue, which is kept in
memory only, are not counted.

Why the bounds are enough. Sequences are compared only with a cursor and its
successor, and the cursors stay within one of each other, so two or three
mutations show a change before, in and after flight. Three connection slots are
one being served, one that `acceptSync` holds and one in the backlog. One restart
of each program reaches every crash point; the theorems cover any number of them.
Two nested prefixes show overlap in both directions; with two expiries a prefix
can be extended and another left to expire. For feeds, two saves are a feed and its
update (or its second life after a deletion), two feeds share a prefix, and an hour
of two ticks with an interval of one keeps short and long waits apart; prefixes of a
sync are independent of each other, which the proof of `NoOrphanRoutes` uses, so one
is enough. In `sql` three events are a
saved feed, its deletion or a second sync, and a mutation or a loop against it; one
fault per behaviour keeps apart what each of them leaves behind. In `sessions` four
sessions over two addresses let one neighbour leave and return, with the other ASN,
while the other one competes for the only slot. In `server` two connections are a
handler and its replacement, which the panic of the WaitGroup needs; the five goroutines and the capacity of `errCh` are the
code's. `FeedSymmetry` is used for
safety only. `ConnSymmetry` is used where only
safety is checked. Deadlock is not checked: when the operator makes no further
mutation both programs wait, and the bounded clock stops.

Fairness. `Signal`, `Accept`, `StartHandler`, the handler, the agent, and the expiry
goroutine are goroutines or processes that block only on what their actions wait
for, so weak fairness of each is what the Go scheduler and the operating system
give. For feeds this covers the scheduler, the goroutine of a save, the second half
of a deletion and the end of a fetch (its client has a timeout of 30 seconds), and
that time passes. In `SqlPolicies` it is a request that holds the mutex, a sync and the
scheduler, whose statements and fetches have timeouts. In `BgpEngine` it is `Start`
and GoBGP, which delivers its events and carries out its resets; neighbours and
`Stop` are not assumed. In `ServerRun` it is `Run`, and the goroutines and
handlers (their `Done` included) once their context is cancelled or their listener closed; requests, which may
outlast everything, and signals are not. Mutations, operators' requests, faults, breaks, restarts and the
clock of `PolicyController` are not assumed to happen.

## 4. Theorems

`PolicySyncProofs`, for all items, connections, bounds and configurations:

* `TypeCorrect`: `Spec => []TypeOK`.
* `AckInvariant`: an ACK is only ever of something applied.
* `CursorWindowHolds`: `Spec => []CursorWindow`.
* `StopAndWaitHolds`: `Spec => []StopAndWait`.
* `SaveNeverRefused`: the rollback error of `saveCursor` cannot occur.
* `NoLostWakeupHolds`: `Spec => []NoLostWakeup`, which is inductive as it stands.

The cursor theorems rest on two invariants. `AckInv` needs no assumption about files
or restarts: every cursor is at most the number of sequences applied, no ACK on any
connection (old ones included) or in the handler's locals is above what the agent
has acknowledged, and `consume` saves and acknowledges only after applying.
`CursorInv` adds, while the server keeps its cursor (in a file, or by staying up),
that the agent is at most one sequence ahead (`WindowInv`), that nothing beyond the
next sequence is sent or being applied (`FrameInv`), and what the session and the
locals of `handleSync` say before each call (`HandlerInv`). The wire parts are needed
because frames of an abandoned connection may be read late; the handler parts because
a handler commits an ACK it read several steps earlier.

`PolicyStreamProofs` builds on these and follows the changes themselves, again for all
items, connections, bounds and configurations:

* `OneTokenPerConnection`: `Spec => []ConnInv`.
* `QueueInvariant`: the queue is the latest changes in order, the handler's its head.
* `AppliedInOrderHolds`: `Spec => []AppliedInOrder`.
* `SilentLossBounded`: `Spec => []SilentLossBound`.
* `SequenceNamesOnePayloadHolds`: `SequenceNamesOnePayload` until the server restarts;
  `sequence_reuse` shows that it fails afterwards.
* `AgentHoldsAVersionHolds`: `Spec => []AgentHoldsAVersion`.
* `DryRunLeavesNoTrace`, and `DryRunHoldsBackHolds`: `DryRunHoldsBack` until the server
  restarts, which empties the queue.
* `StreamRefinement`: `Spec /\ []Undisturbed => ImplementsStream`, where `Undisturbed`
  says that the server has not restarted, no write has failed, and the agent, if it has
  restarted, has a file for its store. `StreamRefinementWithoutFaults` is the same for
  bounds that exclude those faults, as those of `live` do.

The argument, in the order of the module:

1. `ConnInv`. Several connections, handlers and ACKs can exist at once, but the
   agent's own connection is the last one the server reaches. Until it is served it is
   silent; then a frame, the message the agent works on and the ACK are one token. So a
   handler that commits never overlaps with an agent at work.
2. `QueueInv`. `Dropped`, the number of published changes that are no longer in the
   queue, turns the queue into an interval of ids whose first is the handler's change.
3. `OrderInv`. A sequence may stand for two changes once the server numbers anew, so
   order cannot be read off the sequences. What holds is that whatever the server can
   still send is newer than everything applied below its sequence.
4. `LossInv`. A commit skips a change unread only if the sequence it bears was applied
   with an older change. That is a `Debt`, in the agent's cursor or in a frame or message
   on its way; only a restart of the server creates one, and the commit settles it:
   the changes lost, plus one while there is a debt, are at most the restarts.
5. `StreamInv`. While the server stays up, `Dropped = sCursor`, and every change in the
   queue or in flight makes the version its sequence names.
6. `HeldInv`. The agent's store and file are the version of the last sequence applied,
   or the next one if a write that failed had taken effect. It is kept because
   `Effect` is idempotent (`EffectIdempotent`, proved for the add, add-until and remove
   of the adapter), so applying the message in flight again makes the same version.
7. Without failed writes `HeldInv` leaves one choice, `ExactInv`, and `RefineStep` shows
   that each action publishes a version, moves the agent to the next one, or stutters.

TLC checked each of these invariants before its proof, on instances with and without
either cursor file and the store's file, with restarts of both programs, failed writes
and dry run.

`PolicyControllerProofs`, for all finite sets of CIDRs and all bounds:

* `ControllerTypeCorrect`: `Spec => []TypeOK`.
* `AnnouncedHolds`: `Spec => []ActiveIsAnnounced`, feeds included.
* `WhitelistHolds`: without feeds, `WhitelistNeverAdvertised`.
* `PermanentDenyHolds`: `Spec => []PermanentDenyAdvertised`.
* `NoOversleepHolds`: `Spec => []NoOversleep`.
* `PublishedHolds`: `Spec => []PublishedIsStored`.
* `SweepSparesHolds`: `Spec => SweepSparesTheExtended`.

`AnnouncedHolds`, `WhitelistHolds` and `PermanentDenyHolds` rest on `RouteInv`: unless an undo failed, `rib = active`, and
without feeds `active` fits the store (only blocklist entries, none suppressed,
every permanent unsuppressed one). It holds although the routes are computed with
the expirations before the mutation, because a mutation only ever gives an expiry
to a prefix or removes it from the blocklist. `WhitelistHolds` then needs that the
network-address test is exact for nested or disjoint CIDRs. `SweepSparesHolds` uses
`SweepInv`: the time `applyExpired` was called with is not ahead of the clock, and what
it still has to remove has expired as the store stands, because the mutex keeps an
extension out from the moment the list is made.

`FeedsProofs`, for all feeds, finite sets of prefixes, URLs, intervals and bounds:

* `FeedsTypeCorrect`: `Spec => []TypeOK`.
* `NoOrphanHolds`: `Spec => []NoOrphanRoutes`.
* `LateSyncHolds`: `Spec => LateSyncAnnouncesNothing`.

`NoOrphanRoutes` is inductive together with `TypeOK`. The argument is per prefix: a
sync computes its difference under the lock against what is recorded at that moment, so what a
blocklist feed stops listing is exactly what it withdraws (`FinishNoOrphan`); a
deletion hands the prefixes to its cascade in the step that forgets them. `TypeOK`
carries the fact `LateSyncHolds` needs: a source that was never saved is on no list,
in memory and in the file (`ValidSource`).

`SqlPoliciesProofs`, for all feeds, finite sets of CIDRs and bounds:

* `SqlTypeCorrect`: `Spec => []TypeOK`.
* `RoutesFollowTablesHolds`: `Spec => []RoutesFollowTables`.

`SqlInv` adds three facts. What a committed transaction will still change is
`Pending`, and always counts as touched; before its transaction a sync has
nothing pending; and the blocklist that `Apply` holds agrees with the table outside
`Pending`, although transactions commit between its two queries. `RoutesFrame` does
most of the work: rows and routes that change only inside a touched set cannot
break the property, since whether a prefix is effective depends only on prefixes
that overlap it. This needs every CIDR to be nonempty (`PrefixAssumption`). After a
misread everything counts as touched, in `Apply` and at a restart alike.

`BgpEngineProofs`, for all finite sets of addresses, ASNs, limits and bounds:

* `EngineTypeCorrect`: `Spec => []TypeOK`.
* `SettledAddressHolds`: `Spec => []SettledAddress`.
* `QuietWithinLimitsHolds`: `Spec => []QuietWithinLimits`.

The strengthening `EngineInv` says that the newest event about an address tells
GoBGP's present state (`NewestIsTrue`), and that an address without events is
mapped as it is or has a session that is about to be reset (`HandledIsMapped`).
`SlotsWithinLimits` counts the map's entries.

`ServerRunProofs`, for all bounds:

* `RunTypeCorrect`: `Spec => []TypeOK`.
* `ReturnIsCleanHolds`: `Spec => []ReturnIsClean`.
* `NilOnlyWhenAskedHolds`: `Spec => []NilOnlyWhenAsked`.

`RunInv` says for each place in `Run` what exists (`StartInv`), what has been taken
down (`CloseInv`), and that while `Run` serves and no signal has come nobody has sent
or will send a nil (`ServeInv`), because contexts are alive and listeners open.

The assumptions are those named in the modules: `ASNAssumption`, `AddressAssumption`,
`ValidatedAssumption`, `RowAssumption`, `FeedAssumption`, `ConnAssumption`,
`InFlightAssumption`, `NameAssumption`, `ListAssumption`, `TimeAssumption`,
`IntervalAssumption`, `ConfigAssumption`, the bounds, `PrefixAssumption` (finitely many
prefixes, each containing its network address) and `CidrAssumption`.

Only model-checked: liveness (`Convergence`, `ExpiredEventuallyRemoved`,
`UpdatedUrlIsFetched`, `DueFeedIsSynced`, `ForeignIsClosed`, `ExcessIsClosed`,
`StopsWhenAsked`, `OrderlyStop`, `GoroutinesEnd`), since fairness and ENABLED are out of the prover's
reach. Every invariant and action property of a passing run is also a theorem;
`WhitelistNeverAdvertised`, `SequenceNamesOnePayload` and `DryRunHoldsBack` under the
condition that their runs satisfy by their bounds (no feeds, no server restart), without
which the first two are violated by `feed_whitelist` and `sequence_reuse`.

## 5. Not modelled, and the plan

Left out for good:

* The feed parser and its HTTP client (`feed.go`): sequential text processing with
  bounds a unit test reaches; `Fetch` fails or returns any set of prefixes.
* `runFeedSync` (`feed_sync.go`), which nothing calls.
* Flag and environment parsing, and the checks of values that decide nothing later
  (`common` and `server` of `Config` stand for them); the agent's configuration.
* HTTP routing, authorisation, JSON, TLS, the web user interface, read-only and
  paginated queries, the audit log, SQL dialects (the statements use `?` also with
  the postgres driver), GoBGP's paths and policies.

Next, in this order:

1. A two-agent variant of `PolicySync`: each connection closes the other's, and one
   queue and cursor serve both.
2. A composition of `PolicyController` and `PolicySync` along `publish`.
3. Theorems about these: that the agents' stores follow the controller's published
   lists end to end, which joins `PublishedHolds` and `StreamRefinement`.
