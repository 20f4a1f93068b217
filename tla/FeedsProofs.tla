---------------------------- MODULE FeedsProofs -----------------------------
(***************************************************************************)
(* Theorems about Feeds, for all feeds, prefixes, URLs, intervals and      *)
(* bounds.  TypeOK and NoOrphanRoutes together are inductive.              *)
(***************************************************************************)
EXTENDS Feeds, FiniteSetTheorems, TLAPS

-----------------------------------------------------------------------------
(* Sources.                                                                *)

(* What the bounds of ages and waits are. *)
LEMMA AgeBounds == /\ 0 \in 0..MaxAge /\ MaxAge \in 0..MaxAge
                   /\ Hour \in 0..Hour
  BY TimeAssumption

(* The intervals are ages. *)
LEMMA IntervalInt == Intervals \subseteq 0..MaxAge /\ FlagInterval \in 0..MaxAge
  BY IntervalAssumption, TimeAssumption

(* A map entry that is not there is a valid source. *)
LEMMA ZeroValid == Zero \in ValidSource
  BY AgeBounds DEF Zero, ValidSource, Source, Lists

(* Save makes a valid source of a valid one. *)
LEMMA SavedValid ==
  ASSUME NEW s \in ValidSource, NEW list \in Lists, NEW url \in Urls,
         NEW interval \in 0..MaxAge, NEW enabled \in BOOLEAN
  PROVE  /\ SavedSource(s, list, url, interval, enabled) \in ValidSource
         /\ SavedSource(s, list, url, interval, enabled).list = list
         /\ SavedSource(s, list, url, interval, enabled).prefixes = s.prefixes
  BY DEF SavedSource, ValidSource, Source, Lists

(* A fetch, failed or not, makes a valid source of a valid one. *)
LEMMA FetchedValid ==
  ASSUME NEW s \in ValidSource, NEW new \in SUBSET Prefixes,
         NEW u \in Urls \cup {""}
  PROVE  /\ [s EXCEPT !.has = TRUE, !.age = 0] \in ValidSource
         /\ [s EXCEPT !.has = TRUE, !.age = 0, !.prefixes = new, !.origin = u]
              \in ValidSource
  BY AgeBounds DEF ValidSource, Source

(* Time changes nothing but the age. *)
LEMMA OlderValid ==
  ASSUME NEW src \in [Feeds -> ValidSource]
  PROVE  /\ Older(src) \in [Feeds -> ValidSource]
         /\ \A f \in Feeds : /\ Older(src)[f].list = src[f].list
                             /\ Older(src)[f].prefixes = src[f].prefixes
                             /\ Older(src)[f].has = src[f].has
<1>1. ASSUME NEW f \in Feeds
      PROVE  /\ Older(src)[f] \in ValidSource
             /\ Older(src)[f].list = src[f].list
             /\ Older(src)[f].prefixes = src[f].prefixes
             /\ Older(src)[f].has = src[f].has
  <2>1. src[f] \in ValidSource /\ src[f].age \in 0..MaxAge
    BY DEF ValidSource, Source
  <2>2. Older(src)[f] =
          [src[f] EXCEPT !.age = IF src[f].age < MaxAge THEN src[f].age + 1
                                                        ELSE src[f].age]
    BY DEF Older
  <2>3. (IF src[f].age < MaxAge THEN src[f].age + 1 ELSE src[f].age) \in 0..MaxAge
    BY <2>1, TimeAssumption
  <2> QED
    BY <2>1, <2>2, <2>3 DEF ValidSource, Source
<1> QED
  BY <1>1 DEF Older

(* Saving the feed of a flag keeps the sources valid. *)
LEMMA FlagFeedValid ==
  ASSUME NEW src \in [Feeds -> ValidSource], NEW new, FlagFeedSaved(src, new)
  PROVE  new \in [Feeds -> ValidSource]
<1>1. CASE FlagList = ""
  BY <1>1 DEF FlagFeedSaved
<1>2. CASE FlagList # ""
  <2>1. PICK f \in Feeds, u \in Urls :
          new = [src EXCEPT ![f] = SavedSource(src[f], FlagList, u, FlagInterval, TRUE)]
    BY <1>2 DEF FlagFeedSaved
  <2>2. SavedSource(src[f], FlagList, u, FlagInterval, TRUE) \in ValidSource
    BY <1>2, SavedValid, ListAssumption, IntervalInt
  <2> QED
    BY <2>1, <2>2
<1> QED
  BY <1>1, <1>2

(* The counters stay natural numbers. *)
LEMMA CountsGrow ==
  ASSUME NEW c \in Counts, NEW n \in Nat, NEW fault \in {0, 1}
  PROVE  /\ [c EXCEPT !.faults = @ + fault] \in Counts
         /\ [c EXCEPT !.manual = @ + 1] \in Counts
         /\ [c EXCEPT !.saves = @ + 1, !.faults = @ + fault] \in Counts
         /\ [c EXCEPT !.fetches = @ + 1, !.faults = @ + fault] \in Counts
         /\ [c EXCEPT !.errors = @ + n, !.faults = @ + fault] \in Counts
         /\ [c EXCEPT !.restarts = @ + 1, !.faults = @ + fault] \in Counts
<1>1. /\ c.saves + 1 \in Nat /\ c.fetches + 1 \in Nat /\ c.errors + n \in Nat
      /\ c.faults + fault \in Nat /\ c.manual + 1 \in Nat /\ c.restarts + 1 \in Nat
  BY DEF Counts
<1> QED
  BY <1>1 DEF Counts

-----------------------------------------------------------------------------
(* Type correctness.                                                       *)

(* The counters are natural numbers. *)
LEMMA UsedTyped == TypeOK => used \in Counts
  BY DEF TypeOK

(* The initial states are well typed. *)
LEMMA InitTyped == Init => TypeOK
<1> SUFFICES ASSUME Init PROVE TypeOK
  OBVIOUS
<1>1. [f \in Feeds |-> Zero] \in [Feeds -> ValidSource]
  BY ZeroValid
<1>2. sources \in [Feeds -> ValidSource]
  BY <1>1, FlagFeedValid DEF Init
<1> QED
  BY <1>2, AgeBounds, NameAssumption DEF Init, TypeOK, Counts, IdleRun, RunState, NoCascade, Lists

(* What SyncFeed does after Fetch keeps what it changes well typed. *)
LEMMA FinishTyped ==
  ASSUME TypeOK, NEW f \in Feeds, NEW u \in Urls \cup {""}, FinishSync(f, u)
  PROVE  /\ sources' \in [Feeds -> ValidSource] /\ disk' \in [Feeds -> ValidSource]
         /\ active' \subseteq Prefixes
         /\ used' \in Counts
<1>0. sources[f] \in ValidSource
  BY DEF TypeOK
<1>1. CASE FetchFails(f, u)
  <2>1. sources' = [sources EXCEPT ![f] = [sources[f] EXCEPT !.has = TRUE, !.age = 0]]
    BY <1>1 DEF FetchFails, TypeOK
  <2>2. sources' \in [Feeds -> ValidSource]
    BY <2>1, <1>0, FetchedValid DEF TypeOK
  <2>3. used' \in Counts
    BY <1>1, UsedTyped, CountsGrow DEF FetchFails
  <2> QED
    BY <1>1, <2>2, <2>3 DEF FetchFails, Persist, TypeOK
<1>2. CASE FetchSucceeds(f, u)
  <2>1. PICK new \in SUBSET Prefixes, failed \in SUBSET Prefixes, fault \in {0, 1} :
          /\ sources' = [sources EXCEPT ![f].has = TRUE, ![f].age = 0,
                                        ![f].prefixes = new, ![f].origin = u]
          /\ Persist(fault)
          /\ ApplyBatch(sources[f].list, new \ sources[f].prefixes,
                        sources[f].prefixes \ new, failed)
          /\ used' = [used EXCEPT !.errors = @ + Cardinality(failed),
                                  !.faults = @ + fault]
    <3>1. Fetched(u) \subseteq SUBSET Prefixes
      BY DEF Fetched
    <3> QED
      BY <1>2, <3>1 DEF FetchSucceeds
  <2>3. sources' = [sources EXCEPT ![f] =
                      [sources[f] EXCEPT !.has = TRUE, !.age = 0,
                                         !.prefixes = new, !.origin = u]]
    BY <2>1 DEF TypeOK
  <2>4. sources' \in [Feeds -> ValidSource]
    BY <2>3, <1>0, FetchedValid DEF TypeOK
  <2>5. IsFiniteSet(failed)
    BY PrefixAssumption, FS_Subset
  <2>6. Cardinality(failed) \in Nat
    BY <2>5, FS_CardinalityType
  <2>7. active' \subseteq Prefixes
    BY <2>1 DEF ApplyBatch, TypeOK
  <2>8. used' \in Counts
    BY <2>1, <2>6, UsedTyped, CountsGrow
  <2> QED
    BY <2>1, <2>4, <2>7, <2>8 DEF Persist, TypeOK
<1> QED
  BY <1>1, <1>2 DEF FinishSync

(* Every step keeps the types. *)
LEMMA StepTyped == TypeOK /\ [Next]_vars => TypeOK'
<1> SUFFICES ASSUME TypeOK, [Next]_vars PROVE TypeOK'
  OBVIOUS
<1>1. ASSUME NEW f \in Feeds, Save(f) PROVE TypeOK'
  <2>1. PICK list \in ListChoices, url \in Urls, interval \in Intervals,
             enabled \in BOOLEAN, fault \in {0, 1} :
          /\ sources' = [sources EXCEPT
                           ![f] = SavedSource(sources[f], list, url, interval, enabled)]
          /\ Persist(fault)
          /\ wake' = (wake \/ fault = 0)
          /\ spawned' = IF enabled /\ fault = 0 THEN spawned \cup {f} ELSE spawned
          /\ stray' = IF sources[f].list = "blocklist" /\ list # "blocklist"
                        THEN stray \cup sources[f].prefixes ELSE stray
          /\ used' = [used EXCEPT !.saves = @ + 1, !.faults = @ + fault]
    BY <1>1 DEF Save
  <2>2. sources[f] \in ValidSource /\ sources[f].prefixes \subseteq Prefixes
    BY DEF TypeOK, ValidSource, Source
  <2>3. SavedSource(sources[f], list, url, interval, enabled) \in ValidSource
    BY <2>2, SavedValid, ListAssumption, IntervalInt
  <2>4. sources' \in [Feeds -> ValidSource]
    BY <2>1, <2>3 DEF TypeOK
  <2>5. disk' \in [Feeds -> ValidSource]
    BY <2>1, <2>4 DEF Persist, TypeOK
  <2>6. wake' \in BOOLEAN
    BY <2>1, Zenon DEF TypeOK
  <2>7. used' \in Counts
    BY <2>1, UsedTyped, CountsGrow
  <2> QED
    BY <1>1, <2>1, <2>2, <2>4, <2>5, <2>6, <2>7 DEF Save, TypeOK
<1>2. ASSUME NEW f \in Feeds, Delete(f) PROVE TypeOK'
  <2>1. sources' = [sources EXCEPT ![f] = Zero]
    BY <1>2 DEF Delete
  <2>2. sources' \in [Feeds -> ValidSource]
    BY <2>1, ZeroValid DEF TypeOK
  <2>3. sources[f].list \in Lists \cup {""} /\ sources[f].prefixes \subseteq Prefixes
    BY DEF TypeOK, ValidSource, Source
  <2>4. used' \in Counts
    BY <1>2, UsedTyped, CountsGrow DEF Delete
  <2>5. disk' \in [Feeds -> ValidSource]
    BY <1>2, <2>2 DEF Delete, Persist, TypeOK
  <2>6. cascade' \in [Feeds -> [list : Lists \cup {""}, prefixes : SUBSET Prefixes]]
    BY <1>2, <2>3 DEF Delete, TypeOK
  <2> QED
    BY <1>2, <2>2, <2>4, <2>5, <2>6 DEF Delete, TypeOK, syncVars
<1>3. ASSUME NEW f \in Feeds, Cascade(f) PROVE TypeOK'
  BY <1>3 DEF Cascade, ApplyBatch, NoCascade, TypeOK, fileVars, syncVars
<1>4. ASSUME NEW f \in Feeds, SpawnedSync(f) \/ OperatorSync(f) PROVE TypeOK'
  <2>1. sources[f].url \in Urls \cup {""}
    BY DEF TypeOK, ValidSource, Source
  <2> QED
    BY <1>4, <2>1
       DEF SpawnedSync, OperatorSync, StartDash, TypeOK, fileVars, routeVars
<1>5. ASSUME NEW f \in Feeds, FinishDash(f) PROVE TypeOK'
  <2>1. dash[f] \in Urls \cup {""}
    BY <1>5 DEF FinishDash, TypeOK
  <2>2. FinishSync(f, dash[f])
    BY <1>5 DEF FinishDash
  <2> QED
    BY <1>5, <2>1, <2>2, FinishTyped DEF FinishDash, TypeOK
<1>6. ASSUME NEW p \in Prefixes, ManualApply(p) PROVE TypeOK'
  <2>1. used' \in Counts
    BY <1>6, UsedTyped, CountsGrow DEF ManualApply
  <2> QED
    BY <1>6, <2>1 DEF ManualApply, TypeOK, fileVars, syncVars
<1>7. CASE Scan
  <2>1. PICK due \in SUBSET Feeds, next \in {Hour} \cup {Remaining(f) : f \in Feeds} :
          /\ next <= Hour
          /\ \A f \in Feeds \ due : Scheduled(f) => ~(Remaining(f) <= 0)
          /\ next = Hour \/ \E f \in Feeds \ due : Scheduled(f) /\ next = Remaining(f)
          /\ run' = [run EXCEPT !.pc = "sync", !.due = due, !.next = next]
    <3> DEFINE due == {f \in Feeds : Scheduled(f) /\ Remaining(f) <= 0}
               waits == {Hour} \cup {Remaining(f) : f \in {g \in Feeds \ due : Scheduled(g)}}
    <3>1. PICK next \in waits :
            /\ \A w \in waits : next <= w
            /\ run' = [run EXCEPT !.pc = "sync", !.due = due, !.next = next]
      BY <1>7 DEF Scan
    <3>2. next <= Hour
      BY <3>1
    <3>3. next = Hour \/ \E f \in Feeds \ due : Scheduled(f) /\ next = Remaining(f)
      BY <3>1
    <3> QED
      BY <3>1, <3>2, <3>3
  <2>2. ASSUME NEW f \in Feeds PROVE Remaining(f) \in Int
    <3>1. sources[f].interval \in 0..MaxAge /\ sources[f].age \in 0..MaxAge
      BY DEF TypeOK, ValidSource, Source
    <3> QED
      BY <3>1, TimeAssumption DEF Remaining
  <2>3. next \in 0..Hour
    BY <2>1, <2>2, TimeAssumption
  <2>4. run.pc = "scan" /\ UNCHANGED <<fileVars, wake, dash, spawned, routeVars, used>>
    BY <1>7 DEF Scan
  <2>5. run' \in RunState
    BY <2>1, <2>3, <2>4 DEF TypeOK, RunState
  <2> QED
    BY <2>4, <2>5 DEF TypeOK, fileVars, routeVars
<1>8. ASSUME NEW f \in Feeds, StartRun(f) PROVE TypeOK'
  <2>1. sources[f].url \in Urls \cup {""}
    BY DEF TypeOK, ValidSource, Source
  <2> QED
    BY <1>8, <2>1, NameAssumption DEF StartRun, TypeOK, RunState, fileVars, routeVars
<1>9. CASE FinishRun
  <2>1. run.feed \in Feeds /\ run.url \in Urls \cup {""}
    BY <1>9 DEF FinishRun, TypeOK, RunState
  <2>2. FinishSync(run.feed, run.url)
    BY <1>9 DEF FinishRun
  <2>3. run' \in RunState
    BY <1>9 DEF FinishRun, TypeOK, RunState
  <2> QED
    BY <1>9, <2>1, <2>2, <2>3, FinishTyped DEF FinishRun, TypeOK
<1>10. CASE StartSleep \/ EndSleep
  BY <1>10 DEF StartSleep, EndSleep, TypeOK, RunState, fileVars, routeVars
<1>11. CASE Tick
  <2>1. sources' \in [Feeds -> ValidSource] /\ disk' \in [Feeds -> ValidSource]
    BY <1>11, OlderValid DEF Tick, TypeOK
  <2>2. run' \in RunState
    <3>1. CASE run.pc = "sleep" /\ run.next > 0
      <4>1. run' = [run EXCEPT !.next = run.next - 1]
        BY <1>11, <3>1 DEF Tick
      <4>2. run.next - 1 \in 0..Hour
        <5>1. run.next \in 0..Hour
          BY DEF TypeOK, RunState
        <5> QED
          BY <5>1, <3>1, TimeAssumption
      <4> QED
        BY <4>1, <4>2 DEF TypeOK, RunState
    <3> QED
      BY <1>11, <3>1 DEF Tick, TypeOK
  <2> QED
    BY <1>11, <2>1, <2>2 DEF Tick, TypeOK, routeVars
<1>12. CASE Restart
  <2>1. Reopened \in [Feeds -> ValidSource]
    BY ZeroValid DEF Reopened, TypeOK
  <2>2. sources' \in [Feeds -> ValidSource]
    BY <1>12, <2>1, FlagFeedValid DEF Restart
  <2>3. wake' \in BOOLEAN
    BY <1>12, Zenon DEF Restart
  <2>4. used' \in Counts
    BY <1>12, UsedTyped, CountsGrow DEF Restart
  <2>5. disk' \in [Feeds -> ValidSource]
    BY <1>12, <2>2 DEF Restart, Persist, TypeOK
  <2>6. run' \in RunState
    BY <1>12, AgeBounds, NameAssumption DEF Restart, IdleRun, RunState
  <2> QED
    BY <1>12, <2>2, <2>3, <2>4, <2>5, <2>6 DEF Restart, NoCascade, TypeOK
<1>13. CASE UNCHANGED vars
  BY <1>13 DEF TypeOK, vars, fileVars, syncVars, routeVars
<1> QED
  BY <1>1, <1>2, <1>3, <1>4, <1>5, <1>6, <1>7, <1>8, <1>9, <1>10, <1>11, <1>12,
     <1>13 DEF Next, Run

(* The feed manager is type correct: what is not in the map, or was put    *)
(* there by a sync that came too late, is never enabled.                   *)
THEOREM FeedsTypeCorrect == Spec => []TypeOK
  BY InitTyped, StepTyped, PTL DEF Spec

-----------------------------------------------------------------------------
(* No orphan routes.                                                       *)

(* SyncFeed after Fetch: as far as the routes are concerned the feed's     *)
(* prefixes change and the difference goes to ApplyBatch, or nothing does. *)
LEMMA FinishShape ==
  ASSUME TypeOK, NEW f \in Feeds, NEW u \in Urls \cup {""}, FinishSync(f, u)
  PROVE  \E new, failed \in SUBSET Prefixes :
           /\ sources'[f].prefixes = new /\ sources'[f].list = sources[f].list
           /\ \A g \in Feeds \ {f} : sources'[g] = sources[g]
           /\ \/ active' = active
              \/ /\ sources[f].list = "blocklist"
                 /\ active' = (active \ (sources[f].prefixes \ new))
                                \cup ((new \ sources[f].prefixes) \ failed)
           /\ sources[f].list = "blocklist" /\ active' = active =>
                (active \cap sources[f].prefixes) \subseteq new
           /\ used'.saves = used.saves /\ used'.restarts = used.restarts
<1>0. /\ sources[f] \in ValidSource /\ sources[f].prefixes \in SUBSET Prefixes
      /\ used \in Counts
  BY DEF TypeOK, ValidSource, Source
<1>1. CASE FetchFails(f, u)
  <2>1. /\ sources'[f].prefixes = sources[f].prefixes
        /\ sources'[f].list = sources[f].list
        /\ \A g \in Feeds \ {f} : sources'[g] = sources[g]
    <3>1. sources' = [sources EXCEPT ![f] = [sources[f] EXCEPT !.has = TRUE, !.age = 0]]
      BY <1>1 DEF FetchFails, TypeOK
    <3>2. sources'[f] = [sources[f] EXCEPT !.has = TRUE, !.age = 0]
      BY <3>1 DEF TypeOK
    <3>3. sources'[f].prefixes = sources[f].prefixes /\ sources'[f].list = sources[f].list
      BY <1>0, <3>2 DEF ValidSource, Source
    <3> QED
      BY <3>1, <3>3 DEF TypeOK
  <2>2. active' = active
    BY <1>1 DEF FetchFails
  <2>3. used'.saves = used.saves /\ used'.restarts = used.restarts
    BY <1>1, <1>0 DEF FetchFails, Counts
  <2> QED
    BY <1>0, <2>1, <2>2, <2>3
<1>2. CASE FetchSucceeds(f, u)
  <2>1. PICK new \in SUBSET Prefixes, failed \in SUBSET Prefixes, fault \in {0, 1} :
          /\ sources' = [sources EXCEPT ![f].has = TRUE, ![f].age = 0,
                                        ![f].prefixes = new, ![f].origin = u]
          /\ ApplyBatch(sources[f].list, new \ sources[f].prefixes,
                        sources[f].prefixes \ new, failed)
          /\ used' = [used EXCEPT !.errors = @ + Cardinality(failed),
                                  !.faults = @ + fault]
    <3>1. Fetched(u) \subseteq SUBSET Prefixes
      BY DEF Fetched
    <3> QED
      BY <1>2, <3>1 DEF FetchSucceeds
  <2>2. /\ sources'[f].prefixes = new /\ sources'[f].list = sources[f].list
        /\ \A g \in Feeds \ {f} : sources'[g] = sources[g]
    BY <2>1, <1>0 DEF TypeOK, ValidSource, Source
  <2>3. used'.saves = used.saves /\ used'.restarts = used.restarts
    BY <2>1, <1>0 DEF Counts
  <2>4. CASE sources[f].list = "blocklist"
    <3>1. active' = (active \ (sources[f].prefixes \ new))
                      \cup ((new \ sources[f].prefixes) \ failed)
      BY <2>1, <2>4 DEF ApplyBatch
    <3>2. active' = active => (active \cap sources[f].prefixes) \subseteq new
      BY <3>1
    <3> QED
      BY <2>2, <2>3, <2>4, <3>1, <3>2
  <2>5. CASE sources[f].list # "blocklist"
    <3>1. active' = active
      BY <2>1, <2>5 DEF ApplyBatch
    <3> QED
      BY <2>2, <2>3, <2>5, <3>1
  <2> QED
    BY <2>4, <2>5
<1> QED
  BY <1>1, <1>2 DEF FinishSync

(* A finished sync leaves no orphan. *)
LEMMA FinishNoOrphan ==
  ASSUME TypeOK, NoOrphanRoutes, NEW f \in Feeds, NEW u \in Urls \cup {""},
         FinishSync(f, u), UNCHANGED <<manual, cascade, stray>>
  PROVE  NoOrphanRoutes'
<1>1. PICK new \in SUBSET Prefixes, failed \in SUBSET Prefixes :
           /\ sources'[f].prefixes = new /\ sources'[f].list = sources[f].list
           /\ \A g \in Feeds \ {f} : sources'[g] = sources[g]
           /\ \/ active' = active
              \/ /\ sources[f].list = "blocklist"
                 /\ active' = (active \ (sources[f].prefixes \ new))
                                \cup ((new \ sources[f].prefixes) \ failed)
           /\ sources[f].list = "blocklist" /\ active' = active =>
                (active \cap sources[f].prefixes) \subseteq new
  BY FinishShape
<1> SUFFICES ASSUME NEW p \in active'
             PROVE  p \in manual \cup Listed' \cup Cascading \cup stray
  BY DEF NoOrphanRoutes, Cascading
<1>2. p \in Prefixes
  BY <1>1 DEF TypeOK
<1>3. CASE p \in active
  <2>1. CASE p \in Listed
    <3>1. PICK g \in Feeds : sources[g].list = "blocklist" /\ p \in sources[g].prefixes
      BY <2>1 DEF Listed
    <3>2. CASE g = f
      <4>1. p \in new
        BY <1>1, <1>3, <3>1, <3>2
      <4> QED
        BY <1>1, <1>2, <3>1, <3>2, <4>1 DEF Listed
    <3>3. CASE g # f
      BY <1>1, <1>2, <3>1, <3>3 DEF Listed
    <3> QED
      BY <3>2, <3>3
  <2> QED
    BY <1>3, <2>1 DEF NoOrphanRoutes
<1>4. CASE p \notin active
  BY <1>1, <1>2, <1>4 DEF Listed
<1> QED
  BY <1>3, <1>4

(* Every step leaves no orphan. *)
LEMMA StepNoOrphan == TypeOK /\ NoOrphanRoutes /\ [Next]_vars => NoOrphanRoutes'
<1> SUFFICES ASSUME TypeOK, NoOrphanRoutes, [Next]_vars PROVE NoOrphanRoutes'
  OBVIOUS
<1>0. active \subseteq Prefixes
  BY DEF TypeOK
<1>1. ASSUME NEW f \in Feeds, Save(f) PROVE NoOrphanRoutes'
  <2>1. PICK list \in ListChoices, url \in Urls, interval \in Intervals,
             enabled \in BOOLEAN :
          /\ sources' = [sources EXCEPT
                           ![f] = SavedSource(sources[f], list, url, interval, enabled)]
          /\ stray' = IF sources[f].list = "blocklist" /\ list # "blocklist"
                        THEN stray \cup sources[f].prefixes ELSE stray
    BY <1>1 DEF Save
  <2>2. SavedSource(sources[f], list, url, interval, enabled).list = list
        /\ SavedSource(sources[f], list, url, interval, enabled).prefixes
              = sources[f].prefixes
    <3>1. sources[f] \in ValidSource /\ list \in Lists /\ interval \in 0..MaxAge
      BY ListAssumption, IntervalInt DEF TypeOK
    <3> QED
      BY <3>1, SavedValid
  <2>3. /\ sources'[f].list = list /\ sources'[f].prefixes = sources[f].prefixes
        /\ \A g \in Feeds \ {f} : sources'[g] = sources[g]
    BY <2>1, <2>2 DEF TypeOK
  <2>4. Listed \subseteq Listed' \cup stray' /\ stray \subseteq stray'
    BY <2>1, <2>3 DEF Listed
  <2>5. UNCHANGED <<active, manual, cascade>>
    BY <1>1 DEF Save
  <2>6. Cascading' = Cascading
    BY <2>5 DEF Cascading
  <2> QED
    BY <2>4, <2>5, <2>6 DEF NoOrphanRoutes
<1>2. ASSUME NEW f \in Feeds, Delete(f) PROVE NoOrphanRoutes'
  <2>1. /\ \A g \in Feeds \ {f} : sources'[g] = sources[g]
        /\ UNCHANGED <<active, manual, stray>>
    BY <1>2 DEF Delete, TypeOK
  <2>2. cascade[f] = NoCascade
    BY <1>2 DEF Delete
  <2>3. CASE sources[f].prefixes = {}
    <3>1. cascade' = cascade
      BY <1>2, <2>3 DEF Delete
    <3>2. Listed \subseteq Listed' /\ Cascading' = Cascading
      BY <2>1, <2>3, <3>1 DEF Listed, Cascading
    <3> QED
      BY <2>1, <3>2 DEF NoOrphanRoutes
  <2>4. CASE sources[f].prefixes # {}
    <3>1. cascade' = [cascade EXCEPT ![f] = [list |-> sources[f].list,
                                             prefixes |-> sources[f].prefixes]]
      BY <1>2, <2>4 DEF Delete
    <3>2. /\ cascade'[f].list = sources[f].list
          /\ cascade'[f].prefixes = sources[f].prefixes
          /\ \A g \in Feeds \ {f} : cascade'[g] = cascade[g]
      BY <3>1 DEF TypeOK
    <3>3. Listed \subseteq Listed' \cup Cascading'
      BY <2>1, <3>2 DEF Listed, Cascading
    <3>4. Cascading \subseteq Cascading'
      <4>1. cascade[f].prefixes = {}
        <5>1. NoCascade.prefixes = {}
          BY DEF NoCascade
        <5> QED
          BY <2>2, <5>1, Zenon
      <4> QED
        BY <3>2, <4>1 DEF Cascading
    <3> QED
      BY <2>1, <3>3, <3>4 DEF NoOrphanRoutes
  <2> QED
    BY <2>3, <2>4
<1>3. ASSUME NEW f \in Feeds, Cascade(f) PROVE NoOrphanRoutes'
  <2>1. /\ \A g \in Feeds \ {f} : cascade'[g] = cascade[g]
        /\ UNCHANGED <<sources, manual, stray>>
    BY <1>3 DEF Cascade, TypeOK, fileVars
  <2>2. active' = IF cascade[f].list = "blocklist"
                    THEN active \ cascade[f].prefixes ELSE active
    BY <1>3 DEF Cascade, ApplyBatch
  <2>3. \A p \in Cascading : p \in Cascading' \/ p \notin active'
    BY <2>1, <2>2 DEF Cascading
  <2>4. Listed' = Listed
    BY <2>1 DEF Listed
  <2> QED
    BY <2>1, <2>2, <2>3, <2>4 DEF NoOrphanRoutes
<1>4. ASSUME NEW f \in Feeds, FinishDash(f) PROVE NoOrphanRoutes'
  <2>1. dash[f] \in Urls \cup {""}
    BY <1>4 DEF FinishDash, TypeOK
  <2> QED
    BY <1>4, <2>1, FinishNoOrphan DEF FinishDash
<1>5. CASE FinishRun
  <2>1. run.feed \in Feeds /\ run.url \in Urls \cup {""}
    BY <1>5 DEF FinishRun, TypeOK, RunState
  <2> QED
    BY <1>5, <2>1, FinishNoOrphan DEF FinishRun
<1>6. ASSUME NEW p \in Prefixes, ManualApply(p) PROVE NoOrphanRoutes'
  BY <1>6 DEF ManualApply, NoOrphanRoutes
<1>7. CASE Tick
  <2>1. UNCHANGED <<active, manual, cascade, stray>>
    BY <1>7 DEF Tick, routeVars
  <2>2. \A f \in Feeds : /\ sources'[f].list = sources[f].list
                         /\ sources'[f].prefixes = sources[f].prefixes
    BY <1>7, OlderValid DEF Tick, TypeOK
  <2>3. Listed' = Listed /\ Cascading' = Cascading
    BY <2>1, <2>2 DEF Listed, Cascading
  <2> QED
    BY <2>1, <2>3 DEF NoOrphanRoutes
<1>8. CASE Restart
  BY <1>8 DEF Restart, NoOrphanRoutes
<1>9. ASSUME UNCHANGED <<sources, routeVars>> PROVE NoOrphanRoutes'
  BY <1>9 DEF NoOrphanRoutes, Listed, Cascading, routeVars
<1>10. ASSUME NEW f \in Feeds, SpawnedSync(f) \/ OperatorSync(f) \/ StartRun(f)
       PROVE  NoOrphanRoutes'
  BY <1>9, <1>10 DEF SpawnedSync, OperatorSync, StartRun, fileVars
<1>11. CASE Scan \/ StartSleep \/ EndSleep
  BY <1>9, <1>11 DEF Scan, StartSleep, EndSleep, fileVars
<1>12. CASE UNCHANGED vars
  BY <1>9, <1>12 DEF vars, fileVars
<1> QED
  BY <1>1, <1>2, <1>3, <1>4, <1>5, <1>6, <1>7, <1>8, <1>10, <1>11, <1>12
     DEF Next, Run

(* Whatever syncs, saves, deletions, failures and restarts overlap, every  *)
(* route has someone to withdraw it, except those of a feed that was moved *)
(* off the blocklist.                                                      *)
THEOREM NoOrphanHolds == Spec => []NoOrphanRoutes
<1>1. Init => NoOrphanRoutes
  BY DEF Init, NoOrphanRoutes
<1> QED
  BY <1>1, FeedsTypeCorrect, StepNoOrphan, PTL DEF Spec

-----------------------------------------------------------------------------
(* A sync that comes too late.                                             *)

(* An entry that is not in the map is on no list, so ApplyBatch is not     *)
(* called when a sync writes it back.                                      *)
LEMMA LateFinish ==
  ASSUME TypeOK, NEW f \in Feeds, NEW u \in Urls \cup {""}, FinishSync(f, u),
         NEW g \in Feeds, ~sources[g].has, sources'[g].has
  PROVE  active' \subseteq active
<1>1. PICK new \in SUBSET Prefixes, failed \in SUBSET Prefixes :
           /\ \A h \in Feeds \ {f} : sources'[h] = sources[h]
           /\ active' = active \/ sources[f].list = "blocklist"
  BY FinishShape
<1>2. g = f
  BY <1>1
<1>3. sources[g].list = ""
  BY DEF TypeOK, ValidSource
<1> QED
  BY <1>1, <1>2, <1>3

(* A sync that writes a deleted feed back announces nothing. *)
THEOREM LateSyncHolds == Spec => LateSyncAnnouncesNothing
<1> DEFINE Late == \A f \in Feeds :
             ~sources[f].has /\ sources'[f].has /\ used'.restarts = used.restarts
               => active' \subseteq active
<1>1. TypeOK /\ [Next]_vars => [Late]_vars
  <2> SUFFICES ASSUME TypeOK, Next, NEW f \in Feeds, ~sources[f].has,
                      sources'[f].has, used'.restarts = used.restarts
               PROVE  active' \subseteq active
    BY DEF vars
  <2>1. ASSUME NEW g \in Feeds, Save(g) PROVE active' \subseteq active
    BY <2>1 DEF Save
  <2>2. ASSUME NEW g \in Feeds, Delete(g) PROVE active' \subseteq active
    BY <2>2 DEF Delete
  <2>3. ASSUME NEW g \in Feeds, Cascade(g) PROVE active' \subseteq active
    BY <2>3 DEF Cascade, ApplyBatch
  <2>4. ASSUME NEW g \in Feeds, SpawnedSync(g) \/ OperatorSync(g) \/ StartRun(g)
        PROVE  active' \subseteq active
    BY <2>4 DEF SpawnedSync, OperatorSync, StartRun, routeVars
  <2>5. ASSUME NEW g \in Feeds, FinishDash(g) PROVE active' \subseteq active
    <3>1. dash[g] \in Urls \cup {""}
      BY <2>5 DEF FinishDash, TypeOK
    <3> QED
      BY <2>5, <3>1, LateFinish DEF FinishDash
  <2>6. CASE FinishRun
    <3>1. run.feed \in Feeds /\ run.url \in Urls \cup {""}
      BY <2>6 DEF FinishRun, TypeOK, RunState
    <3> QED
      BY <2>6, <3>1, LateFinish DEF FinishRun
  <2>7. ASSUME NEW p \in Prefixes, ManualApply(p) PROVE FALSE
    BY <2>7 DEF ManualApply, fileVars
  <2>8. CASE Scan \/ StartSleep \/ EndSleep \/ Tick
    BY <2>8 DEF Scan, StartSleep, EndSleep, Tick, routeVars
  <2>9. CASE Restart
    <3>1. used \in Counts
      BY DEF TypeOK
    <3>2. used'.restarts = used.restarts + 1
      BY <2>9, <3>1 DEF Restart, Counts
    <3> QED
      BY <3>1, <3>2 DEF Counts
  <2> QED
    BY <2>1, <2>2, <2>3, <2>4, <2>5, <2>6, <2>7, <2>8, <2>9 DEF Next, Run
<1> QED
  BY <1>1, FeedsTypeCorrect, PTL DEF Spec, LateSyncAnnouncesNothing
=============================================================================
