------------------------------- MODULE Feeds --------------------------------
(***************************************************************************)
(* internal/feed/manager.go with the callbacks internal/runtime/server.go  *)
(* gives it and the feed operations of internal/runtime/backend.go, over a *)
(* file-backed policy: feeds are saved and deleted by operators, fetched   *)
(* by the scheduler goroutine Run and by the dashboard, and what a fetch   *)
(* adds and removes goes to policyController.ApplyBatch.                   *)
(*                                                                         *)
(* Manager.mu is released during Fetch and between the removal of a feed   *)
(* and its onDelete callback: these are the places where actions meet.     *)
(* Everything else under Manager.mu is one action.  A sync of the same     *)
(* feed may run once for the dashboard and once for Run.  An entry of      *)
(* sources that is not there reads as Go's zero value.  active is          *)
(* policyController.active; PolicyController relates it to the engine.     *)
(***************************************************************************)
EXTENDS Integers, FiniteSets

CONSTANTS
    Feeds,              \* the feed IDs
    NoFeed,             \* none of them
    Prefixes,           \* the CIDRs a feed may list
    Urls,               \* where feeds are fetched from
    NoUrl,              \* none of them
    ListChoices,        \* the lists operators give to feeds
    Intervals,          \* the intervals they give, in ticks of the clock
    FlagList,           \* the list of the feed of --blocklist-feed or
                        \* --whitelist-feed, "" without either flag
    FlagInterval,       \* --feed-interval, 0 by default
    Hour,               \* Run's longest wait
    MaxAge,             \* bound: the time since a sync, beyond all intervals
    MaxSaves,           \* bound: saves by operators
    MaxFetchErrors,     \* bound: fetches that fail
    MaxAnnounceErrors,  \* bound: Announce calls that fail
    MaxFileFaults,      \* bound: persists of the feeds file that fail
    MaxManual,          \* bound: manual mutations of the blocklist
    MaxRestarts         \* bound: restarts of rtbh-server

Lists == {"blocklist", "whitelist"}

ASSUME NameAssumption ==   \* "" is the URL of a zero value
    NoFeed \notin Feeds /\ NoUrl \notin Urls \cup {""} /\ "" \notin Urls
ASSUME PrefixAssumption == IsFiniteSet(Prefixes)
ASSUME ListAssumption ==
    ListChoices \subseteq Lists /\ FlagList \in Lists \cup {""}
ASSUME TimeAssumption == MaxAge \in Nat /\ Hour \in Nat \ {0}
ASSUME IntervalAssumption ==
    Intervals \subseteq 1..MaxAge /\ FlagInterval \in 0..MaxAge
ASSUME BoundAssumption ==
    /\ MaxSaves \in Nat /\ MaxFetchErrors \in Nat /\ MaxAnnounceErrors \in Nat
    /\ MaxFileFaults \in Nat /\ MaxManual \in Nat /\ MaxRestarts \in Nat

VARIABLES
    sources,   \* Manager.sources
    disk,      \* the feeds file
    wake,      \* a token is in Manager.wakeCh
    run,       \* the goroutine of Manager.Run and its locals
    dash,      \* the URL a dashboard sync of each feed is fetching
    spawned,   \* feeds for which SaveFeed has started a goroutine
    cascade,   \* the onDelete call a Delete of each feed has still to make
    active,    \* policyController.active
    manual,    \* the effective manual blocklist
    stray,     \* history: prefixes of feeds that were moved off the blocklist
    used       \* how much of each bound is used

fileVars == <<sources, disk>>
syncVars == <<wake, run, dash, spawned>>
routeVars == <<active, manual, cascade, stray>>
vars == <<fileVars, syncVars, routeVars, used>>

-----------------------------------------------------------------------------
(* A feed source.  age is the time since LastSync, MaxAge for the zero     *)
(* time; origin is the URL the recorded prefixes came from (history).      *)
Source == [has : BOOLEAN, list : Lists \cup {""}, url : Urls \cup {""},
           interval : 0..MaxAge, enabled : BOOLEAN, age : 0..MaxAge,
           prefixes : SUBSET Prefixes, origin : Urls \cup {""}]

Zero == [has |-> FALSE, list |-> "", url |-> "", interval |-> 0,
         enabled |-> FALSE, age |-> MaxAge, prefixes |-> {}, origin |-> ""]

NoCascade == [list |-> "", prefixes |-> {}]

(* Run's program counter and locals; feed and url are those of SyncFeed. *)
RunState ==
    {r \in [pc : {"scan", "sync", "fetch", "sleep"}, due : SUBSET Feeds,
            feed : Feeds \cup {NoFeed}, url : Urls \cup {"", NoUrl},
            next : 0..Hour] :
       /\ r.pc = "fetch" <=> r.feed # NoFeed
       /\ r.pc = "fetch" <=> r.url # NoUrl}

IdleRun == [pc |-> "scan", due |-> {}, feed |-> NoFeed, url |-> NoUrl,
            next |-> Hour]

(* Save keeps the prefixes and the LastSync of an entry that exists. *)
SavedSource(s, list, url, interval, enabled) ==
    [s EXCEPT !.has = TRUE, !.list = list, !.url = url,
              !.interval = interval, !.enabled = enabled]

(* NewServer saves the feed of a flag under a new random ID. *)
FlagFeedSaved(src, new) ==
    IF FlagList = "" THEN new = src
    ELSE \E f \in Feeds, u \in Urls :
           /\ ~src[f].has
           /\ new = [src EXCEPT ![f] = SavedSource(@, FlagList, u, FlagInterval, TRUE)]

(* persistLocked: on an error (fault = 1) the file is as before. *)
Persist(fault) ==
    /\ used.faults + fault <= MaxFileFaults
    /\ disk' = IF fault = 1 THEN disk ELSE sources'

(* Mutant: a list that is not the whitelist counts as the blocklist. *)
ApplyBatchDefaults(list, toAdd, toRemove, failed) ==
    active' = IF list # "whitelist"
                THEN (active \ toRemove) \cup (toAdd \ failed)
                ELSE active

(* ApplyBatch through onSync or onDelete: only a blocklist moves routes; a *)
(* prefix whose Announce failed is left out.                               *)
ApplyBatch(list, toAdd, toRemove, failed) ==
    active' = IF list = "blocklist"
                THEN (active \ toRemove) \cup (toAdd \ failed)
                ELSE active

Init ==
    /\ FlagFeedSaved([f \in Feeds |-> Zero], sources) /\ disk = sources
    /\ wake = (FlagList # "") /\ run = IdleRun
    /\ dash = [f \in Feeds |-> NoUrl] /\ spawned = {}
    /\ cascade = [f \in Feeds |-> NoCascade]
    /\ active = {} /\ manual = {} /\ stray = {}
    /\ used = [saves |-> 0, fetches |-> 0, errors |-> 0, faults |-> 0,
               manual |-> 0, restarts |-> 0]

-----------------------------------------------------------------------------
(* The operator.                                                           *)

(* saveFeed, SaveFeed and Save: the feed is changed in memory even if the  *)
(* file cannot be written; then nobody is told.                            *)
Save(f) ==
    /\ used.saves < MaxSaves
    /\ \E list \in ListChoices, url \in Urls, interval \in Intervals,
          enabled \in BOOLEAN, fault \in {0, 1} :
         /\ sources' = [sources EXCEPT
                          ![f] = SavedSource(@, list, url, interval, enabled)]
         /\ Persist(fault)
         /\ wake' = (wake \/ fault = 0)
         /\ spawned' = IF enabled /\ fault = 0 THEN spawned \cup {f} ELSE spawned
         /\ stray' = IF sources[f].list = "blocklist" /\ list # "blocklist"
                       THEN stray \cup sources[f].prefixes ELSE stray
         /\ used' = [used EXCEPT !.saves = @ + 1, !.faults = @ + fault]
    /\ UNCHANGED <<run, dash, active, manual, cascade>>

(* Mutant: the entry is only marked as gone. *)
DeleteMarks(f) ==
    /\ sources[f].has /\ cascade[f] = NoCascade
    /\ sources' = [sources EXCEPT ![f].has = FALSE]
    /\ Persist(0)
    /\ UNCHANGED <<syncVars, routeVars, used>>

(* Mutant: the feed's prefixes are forgotten before the callback. *)
DeleteForgets(f) ==
    /\ sources[f].has /\ cascade[f] = NoCascade
    /\ \E fault \in {0, 1} :
         /\ sources' = [sources EXCEPT ![f] = Zero]
         /\ Persist(fault)
         /\ used' = [used EXCEPT !.faults = @ + fault]
    /\ UNCHANGED <<syncVars, cascade, active, manual, stray>>

(* deleteFeed, DeleteFeed and Delete up to the unlock; an error of the     *)
(* file is ignored.  Bound: one unfinished Delete of each feed.            *)
Delete(f) ==
    /\ sources[f].has /\ cascade[f] = NoCascade
    /\ \E fault \in {0, 1} :
         /\ sources' = [sources EXCEPT ![f] = Zero]
         /\ Persist(fault)
         /\ used' = [used EXCEPT !.faults = @ + fault]
    /\ cascade' = IF sources[f].prefixes = {} THEN cascade
                  ELSE [cascade EXCEPT ![f] = [list |-> sources[f].list,
                                               prefixes |-> sources[f].prefixes]]
    /\ UNCHANGED <<syncVars, active, manual, stray>>

(* Delete's onDelete callback. *)
Cascade(f) ==
    /\ cascade[f] # NoCascade
    /\ ApplyBatch(cascade[f].list, {}, cascade[f].prefixes, {})
    /\ cascade' = [cascade EXCEPT ![f] = NoCascade]
    /\ UNCHANGED <<fileVars, syncVars, manual, stray, used>>

(* A manual mutation: applyDelta moves the routes to the effective lists.  *)
ManualApply(p) ==
    /\ used.manual < MaxManual
    /\ manual' = IF p \in manual THEN manual \ {p} ELSE manual \cup {p}
    /\ active' = manual'
    /\ used' = [used EXCEPT !.manual = @ + 1]
    /\ UNCHANGED <<fileVars, syncVars, cascade, stray>>

-----------------------------------------------------------------------------
(* SyncFeed after Fetch, with Manager.mu: the entry is read again, without *)
(* looking whether it is still there.                                      *)

(* Fetch: nothing comes from an empty URL, anything from another one. *)
Fetched(u) == IF u = "" THEN {{}} ELSE SUBSET Prefixes

(* Mutant: a failed fetch empties the recorded prefixes. *)
FetchFailsForgets(f, u) ==
    /\ u # "" /\ used.fetches < MaxFetchErrors
    /\ \E fault \in {0, 1} :
         /\ sources' = [sources EXCEPT ![f].has = TRUE, ![f].age = 0,
                                       ![f].prefixes = {}]
         /\ Persist(fault)
         /\ used' = [used EXCEPT !.fetches = @ + 1, !.faults = @ + fault]
    /\ UNCHANGED active

FetchFails(f, u) ==
    /\ u # "" /\ used.fetches < MaxFetchErrors
    /\ \E fault \in {0, 1} :
         /\ sources' = [sources EXCEPT ![f].has = TRUE, ![f].age = 0]
         /\ Persist(fault)
         /\ used' = [used EXCEPT !.fetches = @ + 1, !.faults = @ + fault]
    /\ UNCHANGED active

(* What was fetched from u is recorded and persisted, and the difference   *)
(* to what was recorded goes to onSync.                                    *)
FetchSucceeds(f, u) ==
    \E new \in Fetched(u), fault \in {0, 1} :
    LET old == sources[f].prefixes
    IN  \E failed \in SUBSET (new \ old) :
          /\ failed \cap active = {}
          /\ used.errors + Cardinality(failed) <= MaxAnnounceErrors
          /\ sources' = [sources EXCEPT ![f].has = TRUE, ![f].age = 0,
                                        ![f].prefixes = new, ![f].origin = u]
          /\ Persist(fault)
          /\ ApplyBatch(sources[f].list, new \ old, old \ new, failed)
          /\ used' = [used EXCEPT !.errors = @ + Cardinality(failed),
                                  !.faults = @ + fault]

FinishSync(f, u) == FetchFails(f, u) \/ FetchSucceeds(f, u)

-----------------------------------------------------------------------------
(* SyncFeed from the dashboard: backend.syncing lets one sync of a feed in *)
(* at a time and skips the others.                                         *)

(* SyncFeed reads the source and starts to fetch, if there is one. *)
StartDash(f) ==
    dash' = IF sources[f].has /\ dash[f] = NoUrl
              THEN [dash EXCEPT ![f] = sources[f].url] ELSE dash

(* The goroutine SaveFeed has started. *)
SpawnedSync(f) ==
    /\ f \in spawned
    /\ StartDash(f)
    /\ spawned' = spawned \ {f}
    /\ UNCHANGED <<fileVars, wake, run, routeVars, used>>

(* An operator's syncFeed. *)
OperatorSync(f) ==
    /\ sources[f].has /\ dash[f] = NoUrl
    /\ StartDash(f)
    /\ UNCHANGED <<fileVars, wake, run, spawned, routeVars, used>>

FinishDash(f) ==
    /\ dash[f] # NoUrl
    /\ FinishSync(f, dash[f])
    /\ dash' = [dash EXCEPT ![f] = NoUrl]
    /\ UNCHANGED <<wake, run, spawned, manual, cascade, stray>>

-----------------------------------------------------------------------------
(* Manager.Run.                                                            *)

Scheduled(f) == sources[f].enabled /\ sources[f].interval > 0

Remaining(f) == sources[f].interval - sources[f].age

(* The due feeds, and the wait until the first of the others is due. *)
Scan ==
    /\ run.pc = "scan"
    /\ LET due == {f \in Feeds : Scheduled(f) /\ Remaining(f) <= 0}
           waits == {Hour} \cup {Remaining(f) : f \in {g \in Feeds \ due : Scheduled(g)}}
       IN  \E next \in waits :
             /\ \A w \in waits : next <= w
             /\ run' = [run EXCEPT !.pc = "sync", !.due = due, !.next = next]
    /\ UNCHANGED <<fileVars, wake, dash, spawned, routeVars, used>>

(* The next due feed; it may have been disabled or deleted since the scan. *)
StartRun(f) ==
    /\ run.pc = "sync" /\ f \in run.due
    /\ run' = IF sources[f].has
                THEN [run EXCEPT !.pc = "fetch", !.due = @ \ {f}, !.feed = f,
                                 !.url = sources[f].url]
                ELSE [run EXCEPT !.due = @ \ {f}]
    /\ UNCHANGED <<fileVars, wake, dash, spawned, routeVars, used>>

FinishRun ==
    /\ run.pc = "fetch"
    /\ FinishSync(run.feed, run.url)
    /\ run' = [run EXCEPT !.pc = "sync", !.feed = NoFeed, !.url = NoUrl]
    /\ UNCHANGED <<wake, dash, spawned, manual, cascade, stray>>

(* The select: time.After counts from here. *)
StartSleep ==
    /\ run.pc = "sync" /\ run.due = {}
    /\ run' = [run EXCEPT !.pc = "sleep"]
    /\ UNCHANGED <<fileVars, wake, dash, spawned, routeVars, used>>

(* Mutant: only a token ends the wait. *)
EndSleepByToken ==
    /\ run.pc = "sleep"
    /\ wake /\ wake' = FALSE
    /\ run' = [run EXCEPT !.pc = "scan"]
    /\ UNCHANGED <<fileVars, dash, spawned, routeVars, used>>

EndSleep ==
    /\ run.pc = "sleep"
    /\ \/ wake /\ wake' = FALSE
       \/ run.next = 0 /\ UNCHANGED wake
    /\ run' = [run EXCEPT !.pc = "scan"]
    /\ UNCHANGED <<fileVars, dash, spawned, routeVars, used>>

Run == Scan \/ (\E f \in Feeds : StartRun(f)) \/ FinishRun \/ StartSleep \/ EndSleep

-----------------------------------------------------------------------------
Older(src) ==
    [f \in Feeds |-> [src[f] EXCEPT !.age = IF @ < MaxAge THEN @ + 1 ELSE @]]

Tick ==
    /\ sources' = Older(sources) /\ disk' = Older(disk)
    /\ run' = IF run.pc = "sleep" /\ run.next > 0
                THEN [run EXCEPT !.next = @ - 1] ELSE run
    /\ UNCHANGED <<wake, dash, spawned, routeVars, used>>

(* What OpenManager reads: a source written by a late sync has no ID and   *)
(* comes back under the empty one, which no operation names.               *)
Reopened == [f \in Feeds |-> IF disk[f].list = "" THEN Zero ELSE disk[f]]

(* rtbh-server starts again: the feeds are as in the file, Reconcile       *)
(* announces the lists, and the feed of a flag is saved once more.         *)
Restart ==
    /\ used.restarts < MaxRestarts
    /\ FlagFeedSaved(Reopened, sources')
    /\ \E fault \in {0, 1} :
         /\ IF FlagList = "" THEN fault = 0 /\ disk' = disk ELSE Persist(fault)
         /\ wake' = (FlagList # "" /\ fault = 0)
         /\ used' = [used EXCEPT !.restarts = @ + 1, !.faults = @ + fault]
    /\ run' = IdleRun /\ dash' = [f \in Feeds |-> NoUrl] /\ spawned' = {}
    /\ cascade' = [f \in Feeds |-> NoCascade]
    /\ active' = manual
    /\ UNCHANGED <<manual, stray>>

Next ==
    \/ \E f \in Feeds : \/ Save(f) \/ Delete(f) \/ Cascade(f)
                        \/ SpawnedSync(f) \/ OperatorSync(f) \/ FinishDash(f)
    \/ \E p \in Prefixes : ManualApply(p)
    \/ Run \/ Tick \/ Restart

Spec == Init /\ [][Next]_vars

(* The goroutines run, Fetch returns (its client has a timeout) and time   *)
(* passes; operators need not do anything.                                 *)
FairSpec ==
    /\ Spec /\ WF_vars(Run) /\ WF_vars(Tick)
    /\ \A f \in Feeds : /\ WF_vars(SpawnedSync(f)) /\ WF_vars(FinishDash(f))
                        /\ WF_vars(Cascade(f))

-----------------------------------------------------------------------------
Counts == [saves : Nat, fetches : Nat, errors : Nat, faults : Nat,
           manual : Nat, restarts : Nat]

(* A source is enabled and has a list only by being saved: what a late     *)
(* sync writes is neither.                                                 *)
ValidSource == {s \in Source : /\ s.enabled => s.list # ""
                               /\ s.list # "" => s.has}

(* Every variable keeps its type, an entry that is not there is neither    *)
(* enabled nor on a list, in memory and in the file, and the scheduler     *)
(* fetches a feed exactly while it is in SyncFeed.                         *)
TypeOK ==
    /\ sources \in [Feeds -> ValidSource] /\ disk \in [Feeds -> ValidSource]
    /\ wake \in BOOLEAN
    /\ run \in RunState
    /\ dash \in [Feeds -> Urls \cup {"", NoUrl}] /\ spawned \subseteq Feeds
    /\ cascade \in [Feeds -> [list : Lists \cup {""}, prefixes : SUBSET Prefixes]]
    /\ active \subseteq Prefixes /\ manual \subseteq Prefixes
    /\ stray \subseteq Prefixes
    /\ used \in Counts

(* What the blocklist feeds list, and what unfinished deletions still have *)
(* to withdraw.                                                            *)
Listed == {p \in Prefixes : \E f \in Feeds :
             sources[f].list = "blocklist" /\ p \in sources[f].prefixes}
Cascading == {p \in Prefixes : \E f \in Feeds :
                cascade[f].list = "blocklist" /\ p \in cascade[f].prefixes}

(* Whatever syncs and deletions overlap or fail, no route stays without    *)
(* someone to withdraw it: it is blocked by hand, listed by a blocklist    *)
(* feed, or about to be withdrawn.  A feed moved off the blocklist is the  *)
(* exception.                                                              *)
NoOrphanRoutes == active \subseteq manual \cup Listed \cup Cascading \cup stray

(* An entry that a sync writes back after the feed was deleted announces   *)
(* nothing.                                                                *)
LateSyncAnnouncesNothing ==
    [][\A f \in Feeds :
         ~sources[f].has /\ sources'[f].has /\ used'.restarts = used.restarts
           => active' \subseteq active]_vars

(* A scheduled feed whose URL was changed is fetched from the new URL,     *)
(* although the sync of the save may have been skipped as a duplicate of   *)
(* one that still fetches from the old URL.                                *)
UpdatedUrlIsFetched ==
    \A f \in Feeds : Scheduled(f) /\ sources[f].origin # sources[f].url
                       ~> ~Scheduled(f) \/ sources[f].origin = sources[f].url
=============================================================================
