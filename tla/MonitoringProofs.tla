-------------------------- MODULE MonitoringProofs --------------------------
(***************************************************************************)
(* Proofs about Monitoring: for any releases, loops and callers, and       *)
(* whatever fails or is cancelled, checks of a release do not overlap, a   *)
(* release is barred only by a flush outside the try block, and a loop     *)
(* that is not over can be cancelled.                                      *)
(*                                                                         *)
(* The three hold together: the set of active checks is what keeps checks  *)
(* apart, so the invariant says that it holds every release that is being  *)
(* checked and, but for the flushes, no other.                             *)
(*                                                                         *)
(* Then what matches and reviews keep of the candidates, why upgrades      *)
(* climb, and the types, which need the best of the scores.                *)
(***************************************************************************)
EXTENDS Monitoring, Counting, SequenceTheorems

TaskTypes ==
  /\ active \subseteq Releases
  /\ spoiled \subseteq Releases
  /\ tasks \in [Releases -> Loops \cup {NoTask}]
  /\ pc \in [Tasks -> Live \cup {"unborn", "done", "idle", "upgrading"}]
  /\ on \in [Tasks -> Releases \cup {NoTask}]

\* A check is about a release, and that release is active.
CheckedIsActive ==
  \A p \in Tasks : pc[p] \in Checking => on[p] \in active

\* Only loops rest, and a loop that is not over has a release.
LoopsHaveReleases ==
  \A p \in Tasks : /\ pc[p] \in {"new", "sleeping", "unborn", "done"} => p \in Loops
                   /\ pc[p] \in Live => on[p] \in Releases
                   /\ pc[p] \in {"idle", "upgrading"} => p \in Callers

Inv ==
  /\ TaskTypes
  /\ CheckedIsActive
  /\ LoopsHaveReleases
  /\ ChecksDoNotOverlap
  /\ BarredOnlyByAFlush
  /\ LoopsAreCancellable

-----------------------------------------------------------------------------
(* What the steps do to the tasks, the active checks and the schedule.      *)

\* Task p goes to state s about release r; nothing else of the tasks changes.
Goes(p, s, r) ==
  /\ pc' = [pc EXCEPT ![p] = s]
  /\ on' = [on EXCEPT ![p] = r]

\* A check goes on.
Continues(p) ==
  /\ pc[p] \in Checking
  /\ \E s \in Checking : pc' = [pc EXCEPT ![p] = s]
  /\ UNCHANGED <<on, active, tasks, spoiled>>

\* A check is over, with or without its release taken out of the active ones.
EndsCheck(p) ==
  /\ pc[p] \in Checking
  /\ Raises(p) \/ Returns(p)
  /\ \/ active' = active \ {on[p]} /\ UNCHANGED spoiled
     \/ UNCHANGED active /\ spoiled' = spoiled \cup {on[p]}

\* A loop that rests is over.
EndsRest(p) ==
  /\ pc[p] \in {"new", "sleeping"}
  /\ Raises(p) \/ (pc' = [pc EXCEPT ![p] = "done"] /\ Clears(p, TRUE) /\ UNCHANGED tasks)
  /\ UNCHANGED <<active, spoiled>>

\* A caller begins or ends an upgrade.
Turns(p) ==
  /\ p \in Callers
  /\ pc[p] \in {"idle", "upgrading"}
  /\ \E s \in {"idle", "upgrading"}, r \in Releases \cup {NoTask} : Goes(p, s, r)
  /\ UNCHANGED <<active, tasks, spoiled>>

Distinct == NoTask \notin Loops /\ Loops \cap Callers = {}

LEMMA NamesApart == Distinct
  BY MonitoringAssumption DEF Distinct, Tasks

-----------------------------------------------------------------------------
(* Each kind of step preserves the invariant.                               *)

\* A check that goes on is still the only one of its release.
LEMMA ContinuesInv ==
  ASSUME Inv, NEW p \in Tasks, Continues(p) PROVE Inv'
  <1>1. PICK s \in Checking : pc' = [pc EXCEPT ![p] = s]
    BY DEF Continues
  <1>2. /\ pc[p] \in Checking
        /\ on' = on /\ active' = active /\ tasks' = tasks /\ spoiled' = spoiled
    BY DEF Continues
  <1>3. \A q \in Tasks : pc'[q] \in Checking <=> pc[q] \in Checking
    BY <1>1, <1>2 DEF Inv, TaskTypes
  <1>4. \A q \in Tasks : pc'[q] \in Live <=> pc[q] \in Live
    BY <1>1, <1>2 DEF Inv, TaskTypes, Live
  <1>5. \A q \in Tasks : q # p => pc'[q] = pc[q]
    BY <1>1 DEF Inv, TaskTypes
  <1>6. TaskTypes'
    BY <1>1, <1>2 DEF Inv, TaskTypes, Live
  <1>7. CheckedIsActive' /\ ChecksDoNotOverlap' /\ BarredOnlyByAFlush'
    BY <1>2, <1>3 DEF Inv, CheckedIsActive, ChecksDoNotOverlap, BarredOnlyByAFlush, Checking
  <1>8. LoopsAreCancellable'
    BY <1>2, <1>4 DEF Inv, LoopsAreCancellable, Live, Checking, Tasks
  <1>9. LoopsHaveReleases'
    BY <1>1, <1>2, <1>4, <1>5 DEF Inv, TaskTypes, LoopsHaveReleases, Live, Checking
  <1> QED BY <1>6, <1>7, <1>8, <1>9 DEF Inv

\* The release of a check that ends was checked by nobody else.
LEMMA EndsCheckInv ==
  ASSUME Inv, NEW p \in Tasks, EndsCheck(p) PROVE Inv'
  <1>a. Distinct BY NamesApart
  <1>b. pc[p] \in Checking BY DEF EndsCheck
  <1>c. on[p] \in Releases /\ on[p] \in active
    BY <1>b DEF Inv, TaskTypes, CheckedIsActive
  <1>d. Raises(p) \/ Returns(p) BY DEF EndsCheck
  <1>1. PICK s \in {"done", "idle", "sleeping"} :
          /\ pc' = [pc EXCEPT ![p] = s]
          /\ s # "idle" <=> p \in Loops
    BY <1>d DEF Raises, Returns
  <1>2. /\ pc'[p] = s
        /\ \A q \in Tasks : q # p => pc'[q] = pc[q]
    BY <1>1 DEF Inv, TaskTypes
  <1>3. \A q \in Tasks : q # p => on'[q] = on[q]
    BY <1>d DEF Inv, TaskTypes, Raises, Returns, Clears
  <1>4. on' \in [Tasks -> Releases \cup {NoTask}]
    BY <1>d DEF Inv, TaskTypes, Raises, Returns, Clears
  <1>5. s = "sleeping" => on'[p] = on[p] /\ tasks' = tasks
    <2> SUFFICES ASSUME s = "sleeping" PROVE on'[p] = on[p] /\ tasks' = tasks
      OBVIOUS
    <2>1. p \in Loops /\ p \notin Callers BY <1>1, <1>a DEF Distinct
    <2>2. Raises(p) => pc'[p] = "done"
      BY <2>1 DEF Raises, Inv, TaskTypes
    <2>3. Returns(p) BY <2>2, <1>2, <1>d
    <2> QED BY <2>1, <2>3 DEF Returns, Clears
  <1>6. \/ tasks' = tasks
        \/ p \in Loops /\ tasks' = [tasks EXCEPT ![on[p]] = NoTask]
    BY <1>d DEF Raises, Returns
  <1>7. tasks' \in [Releases -> Loops \cup {NoTask}]
    BY <1>6 DEF Inv, TaskTypes
  <1>8. \/ active' = active \ {on[p]} /\ spoiled' = spoiled
        \/ active' = active /\ spoiled' = spoiled \cup {on[p]}
    BY DEF EndsCheck
  <1>9. TaskTypes'
    <2>1. pc' \in [Tasks -> Live \cup {"unborn", "done", "idle", "upgrading"}]
      BY <1>1 DEF Inv, TaskTypes, Live
    <2> QED BY <2>1, <1>4, <1>7, <1>8, <1>c DEF Inv, TaskTypes
  <1>10. \A q \in Tasks : pc'[q] \in Checking => /\ q # p
                                                /\ pc[q] \in Checking
                                                /\ on'[q] = on[q]
    BY <1>2, <1>3 DEF Checking
  <1>11. ChecksDoNotOverlap'
    BY <1>10 DEF Inv, ChecksDoNotOverlap
  <1>12. \A q \in Tasks : pc[q] \in Checking /\ q # p => on[q] # on[p]
    BY <1>b DEF Inv, ChecksDoNotOverlap
  <1>13. CheckedIsActive'
    BY <1>8, <1>10, <1>12 DEF Inv, CheckedIsActive
  <1>14. BarredOnlyByAFlush'
    BY <1>2, <1>3, <1>8 DEF Inv, BarredOnlyByAFlush
  <1>15. LoopsAreCancellable'
    <2> SUFFICES ASSUME NEW l \in Loops, pc'[l] \in Live PROVE tasks'[on'[l]] = l
      BY DEF LoopsAreCancellable
    <2>1. l \in Tasks /\ l # NoTask BY <1>a DEF Tasks, Distinct
    <2>2. CASE l = p
      <3>1. s = "sleeping" BY <2>2, <1>2, <1>1 DEF Live, Checking
      <3>2. tasks[on[l]] = l BY <2>2, <1>b DEF Inv, LoopsAreCancellable, Live
      <3> QED BY <3>1, <3>2, <1>5, <2>2
    <2>3. CASE l # p
      <3>1. pc[l] \in Live /\ on'[l] = on[l] BY <2>1, <2>3, <1>2, <1>3
      <3>2. tasks[on[l]] = l BY <3>1 DEF Inv, LoopsAreCancellable
      <3>3. on[l] \in Releases BY <2>1, <3>1 DEF Inv, LoopsHaveReleases
      <3>4. CASE tasks' = tasks BY <3>1, <3>2, <3>4
      <3>5. CASE p \in Loops /\ tasks' = [tasks EXCEPT ![on[p]] = NoTask]
        <4>1. tasks[on[p]] = p BY <3>5, <1>b DEF Inv, LoopsAreCancellable, Live
        <4>2. on[l] # on[p] BY <4>1, <3>2, <2>3
        <4> QED BY <4>2, <3>1, <3>2, <3>3, <3>5 DEF Inv, TaskTypes
      <3> QED BY <3>4, <3>5, <1>6
    <2> QED BY <2>2, <2>3
  <1>16. LoopsHaveReleases'
    <2> SUFFICES ASSUME NEW q \in Tasks
                 PROVE /\ pc'[q] \in {"new", "sleeping", "unborn", "done"} => q \in Loops
                       /\ pc'[q] \in Live => on'[q] \in Releases
                       /\ pc'[q] \in {"idle", "upgrading"} => q \in Callers
      BY DEF LoopsHaveReleases
    <2>1. CASE q = p
      BY <2>1, <1>1, <1>2, <1>5, <1>c DEF Live, Checking, Tasks
    <2>2. CASE q # p
      BY <2>2, <1>2, <1>3 DEF Inv, LoopsHaveReleases
    <2> QED BY <2>1, <2>2
  <1> QED BY <1>9, <1>11, <1>13, <1>14, <1>15, <1>16 DEF Inv

\* A loop that rests checks nothing; only its own entry goes with it.
LEMMA EndsRestInv ==
  ASSUME Inv, NEW p \in Tasks, EndsRest(p) PROVE Inv'
  <1>a. Distinct BY NamesApart
  <1>b. pc[p] \in {"new", "sleeping"} BY DEF EndsRest
  <1>c. p \in Loops /\ on[p] \in Releases
    BY <1>b DEF Inv, LoopsHaveReleases, Live
  <1>1. /\ pc' = [pc EXCEPT ![p] = "done"]
        /\ on' = [on EXCEPT ![p] = NoTask]
        /\ active' = active /\ spoiled' = spoiled
    BY <1>c DEF EndsRest, Raises, Clears
  <1>2. \/ tasks' = tasks
        \/ tasks' = [tasks EXCEPT ![on[p]] = NoTask]
    BY <1>c DEF EndsRest, Raises
  <1>3. /\ pc'[p] = "done"
        /\ \A q \in Tasks : q # p => pc'[q] = pc[q] /\ on'[q] = on[q]
    BY <1>1 DEF Inv, TaskTypes
  <1>4. TaskTypes'
    <2>1. tasks' \in [Releases -> Loops \cup {NoTask}]
      BY <1>2 DEF Inv, TaskTypes
    <2> QED BY <1>1, <2>1 DEF Inv, TaskTypes
  <1>5. \A q \in Tasks : pc'[q] \in Checking <=> q # p /\ pc[q] \in Checking
    BY <1>3 DEF Checking
  <1>6. CheckedIsActive' /\ ChecksDoNotOverlap'
    BY <1>1, <1>3, <1>5 DEF Inv, CheckedIsActive, ChecksDoNotOverlap
  <1>7. BarredOnlyByAFlush'
    <2>1. pc[p] \notin Checking BY <1>b DEF Checking
    <2> QED BY <1>1, <1>3, <1>5, <2>1 DEF Inv, BarredOnlyByAFlush
  <1>8. LoopsAreCancellable'
    <2> SUFFICES ASSUME NEW l \in Loops, pc'[l] \in Live PROVE tasks'[on'[l]] = l
      BY DEF LoopsAreCancellable
    <2>1. l \in Tasks /\ l # NoTask BY <1>a DEF Tasks, Distinct
    <2>2. l # p BY <1>3 DEF Live, Checking
    <2>3. pc[l] \in Live /\ on'[l] = on[l] BY <2>1, <2>2, <1>3
    <2>4. tasks[on[l]] = l BY <2>3 DEF Inv, LoopsAreCancellable
    <2>5. tasks[on[p]] = p BY <1>b, <1>c DEF Inv, LoopsAreCancellable, Live
    <2>6. on[l] # on[p] BY <2>2, <2>4, <2>5
    <2>7. on[l] \in Releases BY <2>1, <2>3 DEF Inv, LoopsHaveReleases
    <2> QED BY <1>2, <2>3, <2>4, <2>6, <2>7, <1>c DEF Inv, TaskTypes
  <1>9. LoopsHaveReleases'
    BY <1>3, <1>c DEF Inv, LoopsHaveReleases, Live, Checking
  <1> QED BY <1>4, <1>6, <1>7, <1>8, <1>9 DEF Inv

\* A check begins about a release that is not active, so nobody checks it.
LEMMA BeginInv ==
  ASSUME Inv, NEW p \in Tasks, NEW r \in Releases, Begin(p, r) PROVE Inv'
  <1>1. /\ r \notin active
        /\ active' = active \cup {r}
        /\ pc' = [pc EXCEPT ![p] = "marking"]
        /\ on' = [on EXCEPT ![p] = r]
        /\ tasks' = tasks /\ spoiled' = spoiled
        /\ Free(p) \/ (Resting(p) /\ on[p] = r)
    BY DEF Begin
  <1>2. /\ pc'[p] = "marking" /\ on'[p] = r
        /\ \A q \in Tasks : q # p => pc'[q] = pc[q] /\ on'[q] = on[q]
    BY <1>1 DEF Inv, TaskTypes
  <1>3. pc[p] \notin Checking
    BY <1>1 DEF Free, Resting, Checking
  <1>4. TaskTypes'
    BY <1>1 DEF Inv, TaskTypes, Live, Checking
  <1>5. CheckedIsActive'
    BY <1>1, <1>2 DEF Inv, CheckedIsActive
  <1>6. ChecksDoNotOverlap'
    <2>1. \A q \in Tasks : pc[q] \in Checking => on[q] # r
      BY <1>1 DEF Inv, CheckedIsActive
    <2> QED BY <1>2, <2>1 DEF Inv, ChecksDoNotOverlap
  <1>7. BarredOnlyByAFlush'
    BY <1>1, <1>2, <1>3 DEF Inv, BarredOnlyByAFlush, Checking
  <1>8. LoopsAreCancellable'
    <2> SUFFICES ASSUME NEW l \in Loops, pc'[l] \in Live PROVE tasks'[on'[l]] = l
      BY DEF LoopsAreCancellable
    <2>1. l \in Tasks BY DEF Tasks
    <2>2. CASE l = p
      <3>1. Resting(p) /\ on[p] = r
        BY <2>2, <1>1, MonitoringAssumption DEF Free
      <3>2. tasks[on[p]] = p
        BY <3>1, <2>2 DEF Inv, LoopsAreCancellable, Resting, Live
      <3> QED BY <3>1, <3>2, <2>2, <1>1, <1>2
    <2>3. CASE l # p
      BY <2>1, <2>3, <1>1, <1>2 DEF Inv, LoopsAreCancellable
    <2> QED BY <2>2, <2>3
  <1>9. LoopsHaveReleases'
    BY <1>2 DEF Inv, LoopsHaveReleases, Live, Checking
  <1> QED BY <1>4, <1>5, <1>6, <1>7, <1>8, <1>9 DEF Inv

\* The entry a new loop takes is of no loop that is not over.
LEMMA ScheduleInv ==
  ASSUME Inv, NEW l \in Loops, NEW r \in Releases, Schedule(l, r) PROVE Inv'
  <1>a. Distinct BY NamesApart
  <1>1. /\ pc[l] = "unborn"
        /\ tasks[r] # NoTask => pc[tasks[r]] = "done"
        /\ tasks' = [tasks EXCEPT ![r] = l]
        /\ pc' = [pc EXCEPT ![l] = "new"]
        /\ on' = [on EXCEPT ![l] = r]
        /\ active' = active /\ spoiled' = spoiled
    BY DEF Schedule
  <1>b. l \in Tasks BY DEF Tasks
  <1>2. /\ pc'[l] = "new" /\ on'[l] = r
        /\ \A q \in Tasks : q # l => pc'[q] = pc[q] /\ on'[q] = on[q]
    BY <1>1, <1>b DEF Inv, TaskTypes
  <1>3. TaskTypes'
    BY <1>1 DEF Inv, TaskTypes, Live
  <1>4. \A q \in Tasks : pc'[q] \in Checking <=> pc[q] \in Checking /\ q # l
    BY <1>1, <1>2 DEF Checking
  <1>5. CheckedIsActive' /\ ChecksDoNotOverlap'
    BY <1>1, <1>2, <1>4 DEF Inv, CheckedIsActive, ChecksDoNotOverlap
  <1>6. BarredOnlyByAFlush'
    <2>1. pc[l] \notin Checking BY <1>1 DEF Checking
    <2> QED BY <1>1, <1>2, <1>4, <2>1 DEF Inv, BarredOnlyByAFlush
  <1>7. LoopsAreCancellable'
    <2> SUFFICES ASSUME NEW m \in Loops, pc'[m] \in Live PROVE tasks'[on'[m]] = m
      BY DEF LoopsAreCancellable
    <2>1. m \in Tasks /\ m # NoTask BY <1>a DEF Tasks, Distinct
    <2>2. CASE m = l BY <2>2, <1>1, <1>2 DEF Inv, TaskTypes
    <2>3. CASE m # l
      <3>1. pc[m] \in Live /\ on'[m] = on[m] BY <2>1, <2>3, <1>2
      <3>2. tasks[on[m]] = m BY <3>1 DEF Inv, LoopsAreCancellable
      <3>3. pc[m] # "done" BY <3>1 DEF Live, Checking
      <3>4. on[m] # r BY <3>2, <3>3, <2>1, <1>1
      <3>5. on[m] \in Releases BY <2>1, <3>1 DEF Inv, LoopsHaveReleases
      <3> QED BY <3>1, <3>2, <3>4, <3>5, <1>1 DEF Inv, TaskTypes
    <2> QED BY <2>2, <2>3
  <1>8. LoopsHaveReleases'
    BY <1>1, <1>2 DEF Inv, LoopsHaveReleases, Live, Checking
  <1> QED BY <1>3, <1>5, <1>6, <1>7, <1>8 DEF Inv

\* Upgrades are nobody's checks.
LEMMA TurnsInv ==
  ASSUME Inv, NEW p \in Tasks, Turns(p) PROVE Inv'
  <1>1. PICK s \in {"idle", "upgrading"}, r \in Releases \cup {NoTask} : Goes(p, s, r)
    BY DEF Turns
  <1>2. /\ p \in Callers /\ p \notin Loops
        /\ pc[p] \in {"idle", "upgrading"}
        /\ active' = active /\ tasks' = tasks /\ spoiled' = spoiled
    BY MonitoringAssumption DEF Turns
  <1>3. /\ pc'[p] = s
        /\ \A q \in Tasks : q # p => pc'[q] = pc[q] /\ on'[q] = on[q]
    BY <1>1 DEF Goes, Inv, TaskTypes
  <1>4. TaskTypes'
    BY <1>1, <1>2 DEF Goes, Inv, TaskTypes
  <1>5. \A q \in Tasks : pc'[q] \in Checking <=> pc[q] \in Checking /\ q # p
    BY <1>2, <1>3 DEF Checking
  <1>6. CheckedIsActive' /\ ChecksDoNotOverlap'
    BY <1>2, <1>3, <1>5 DEF Inv, CheckedIsActive, ChecksDoNotOverlap
  <1>7. BarredOnlyByAFlush'
    <2>1. pc[p] \notin Checking BY <1>2 DEF Checking
    <2> QED BY <1>2, <1>3, <1>5, <2>1 DEF Inv, BarredOnlyByAFlush
  <1>8. LoopsAreCancellable'
    BY <1>2, <1>3 DEF Inv, LoopsAreCancellable, Tasks
  <1>9. LoopsHaveReleases'
    BY <1>2, <1>3 DEF Inv, LoopsHaveReleases, Live, Checking
  <1> QED BY <1>4, <1>6, <1>7, <1>8, <1>9 DEF Inv
-----------------------------------------------------------------------------
(* The theorems.                                                            *)

LEMMA InitInv == Init => Inv
  <1> SUFFICES ASSUME Init PROVE Inv OBVIOUS
  <1>1. /\ active = {} /\ spoiled = {}
        /\ tasks = [r \in Releases |-> NoTask]
        /\ pc = [p \in Tasks |-> IF p \in Loops THEN "unborn" ELSE "idle"]
        /\ on = [p \in Tasks |-> NoTask]
    BY DEF Init
  <1>2. \A p \in Tasks : pc[p] \notin Live
    BY <1>1 DEF Live, Checking
  <1>3. TaskTypes BY <1>1 DEF TaskTypes
  <1>4. CheckedIsActive /\ ChecksDoNotOverlap /\ LoopsAreCancellable
    BY <1>2 DEF CheckedIsActive, ChecksDoNotOverlap, LoopsAreCancellable, Live, Tasks
  <1>5. BarredOnlyByAFlush BY <1>1 DEF BarredOnlyByAFlush
  <1>6. LoopsHaveReleases BY <1>1, <1>2 DEF LoopsHaveReleases, Tasks
  <1> QED BY <1>3, <1>4, <1>5, <1>6 DEF Inv

\* A cancellation or a fault ends a check or a rest, or lets a check go on to its end.
LEMMA InterruptKind ==
  ASSUME NEW p \in Tasks, Interrupt(p) PROVE EndsRest(p) \/ EndsCheck(p) \/ Continues(p)
  <1>1. CASE pc[p] = "new"
    BY <1>1 DEF Interrupt, EndsRest, LeavesActive, KeepsActive, Settle
  <1>2. CASE pc[p] = "sleeping"
    BY <1>2 DEF Interrupt, EndsRest, LeavesActive, KeepsActive, Settle
  <1>3. CASE pc[p] \notin {"new", "sleeping"}
    <2>1. \/ LeavesActive(p) \/ KeepsActive(p)
          \/ Settle(p, "active", due[p].cand, "raising")
      BY <1>3 DEF Interrupt
    <2>2. CASE LeavesActive(p) BY <2>2 DEF LeavesActive, EndsCheck, Checking
    <2>3. CASE KeepsActive(p) BY <2>3 DEF KeepsActive, EndsCheck, Checking
    <2>4. CASE Settle(p, "active", due[p].cand, "raising")
      BY <2>4 DEF Settle, Continues, Checking
    <2> QED BY <2>1, <2>2, <2>3, <2>4
  <1> QED BY <1>1, <1>2, <1>3

LEMMA CheckStepKind ==
  ASSUME NEW p \in Tasks, CheckStep(p) PROVE EndsCheck(p) \/ Continues(p)
  <1>1. CASE Mark(p) BY <1>1 DEF Mark, Continues, Checking
  <1>2. CASE MarkFails(p) BY <1>2 DEF MarkFails, LeavesActive, EndsCheck, Checking
  <1>3. CASE Discover(p)
    <2>1. \E st, k : Settle(p, st, k, "closing") BY <1>3 DEF Discover
    <2> QED BY <2>1 DEF Settle, Continues, Checking
  <1>4. CASE DiscoverFails(p) BY <1>4 DEF DiscoverFails, Settle, Continues, Checking
  <1>5. CASE Close(p) BY <1>5 DEF Close, EndsCheck, Checking
  <1>6. CASE CloseFails(p) BY <1>6 DEF CloseFails, KeepsActive, EndsCheck, Checking
  <1> QED BY <1>1, <1>2, <1>3, <1>4, <1>5, <1>6 DEF CheckStep

LEMMA UpgradeKind ==
  ASSUME NEW c \in Callers,
         Upgrade(c) \/ UpgradeFails(c) \/ \E r \in Releases : ApproveUpgrade(c, r)
  PROVE Turns(c)
  <1>a. c \notin Loops BY MonitoringAssumption
  <1>1. CASE Upgrade(c)
    BY <1>1, <1>a DEF Upgrade, Returns, Clears, Turns, Goes
  <1>2. CASE UpgradeFails(c)
    BY <1>2, <1>a DEF UpgradeFails, Raises, Clears, Turns, Goes
  <1>3. CASE \E r \in Releases : ApproveUpgrade(c, r)
    BY <1>3 DEF ApproveUpgrade, Free, Turns, Goes
  <1> QED BY <1>1, <1>2, <1>3

LEMMA NextInv == ASSUME Inv, [Next]_vars PROVE Inv'
  <1>1. ASSUME NEW p \in Tasks, NEW r \in Releases, Begin(p, r) PROVE Inv'
    BY <1>1, BeginInv
  <1>2. ASSUME NEW p \in Tasks, Refused(p) PROVE Inv'
    <2>1. EndsRest(p) BY <1>2 DEF Refused, Resting, EndsRest
    <2> QED BY <2>1, EndsRestInv
  <1>3. ASSUME NEW p \in Tasks, CheckStep(p) PROVE Inv'
    BY <1>3, CheckStepKind, EndsCheckInv, ContinuesInv
  <1>4. ASSUME NEW l \in Loops, NEW r \in Releases, Schedule(l, r) PROVE Inv'
    BY <1>4, ScheduleInv
  <1>5. ASSUME NEW p \in Tasks, Interrupt(p) PROVE Inv'
    BY <1>5, InterruptKind, EndsRestInv, EndsCheckInv, ContinuesInv
  <1>6. ASSUME NEW r \in Releases, Cancel(r) PROVE Inv'
    <2>1. tasks[r] \in Tasks BY <1>6 DEF Cancel, Inv, TaskTypes, Tasks
    <2> QED BY <1>6, <2>1, <1>5 DEF Cancel
  <1>7. ASSUME NEW c \in Callers, Disconnect(c) PROVE Inv'
    BY <1>5, <1>7 DEF Disconnect, Tasks
  <1>8. ASSUME NEW c \in Callers,
               Upgrade(c) \/ UpgradeFails(c) \/ \E r \in Releases : ApproveUpgrade(c, r)
        PROVE Inv'
    <2>1. Turns(c) BY <1>8, UpgradeKind
    <2>2. c \in Tasks BY DEF Tasks
    <2> QED BY <2>1, <2>2, TurnsInv
  <1>9. ASSUME UNCHANGED <<active, tasks, pc, on, spoiled>> PROVE Inv'
    BY <1>9 DEF Inv, TaskTypes, CheckedIsActive, LoopsHaveReleases, ChecksDoNotOverlap,
                BarredOnlyByAFlush, LoopsAreCancellable
  <1>10. CASE UNCHANGED vars BY <1>9, <1>10 DEF vars, taskVars
  <1>11. CASE Candidates BY <1>9, <1>11 DEF Candidates, taskVars
  <1>12. CASE Next
    BY <1>1, <1>2, <1>3, <1>4, <1>6, <1>7, <1>8, <1>11, <1>12 DEF Next
  <1> QED BY <1>10, <1>12

LEMMA Invariant == Spec => []Inv
  BY InitInv, NextInv, PTL DEF Spec

\* ChecksDoNotOverlap holds in every reachable state, for any releases and tasks:
\* two checks of one release never overlap, whatever fails or is cancelled.
THEOREM NoOverlap == Spec => []ChecksDoNotOverlap
  <1>1. Inv => ChecksDoNotOverlap BY DEF Inv
  <1> QED BY <1>1, Invariant, PTL

\* BarredOnlyByAFlush holds in every reachable state: run_monitoring_check takes its
\* record out of the active ones on every way out but a flush outside the try block.
THEOREM BarredByAFlush == Spec => []BarredOnlyByAFlush
  <1>1. Inv => BarredOnlyByAFlush BY DEF Inv
  <1> QED BY <1>1, Invariant, PTL

\* LoopsAreCancellable holds in every reachable state: MonitoringScheduler never loses
\* sight of a loop that is not over.
THEOREM Cancellable == Spec => []LoopsAreCancellable
  <1>1. Inv => LoopsAreCancellable BY DEF Inv
  <1> QED BY <1>1, Invariant, PTL

-----------------------------------------------------------------------------
(***************************************************************************)
(* The candidates, and what follows from them: a track that is ready has a *)
(* selected candidate, a review outlasts matching, and upgrades do not go  *)
(* back.                                                                   *)
(*                                                                         *)
(* Rows of release_candidates are added in two ways and changed in one:    *)
(* a match or an offer adds rows and leaves the others alone (Grows), a    *)
(* review changes the state of the rows of one track (Reviews).            *)
(***************************************************************************)

States == {"pending", "auto_selected", "needs_review", "manual_selected", "rejected"}

CandidateRow ==
  [release : Releases \cup {o.release : o \in Offers},
   track : Tracks \cup {NoTrack},
   match : {Score(e) : e \in Evidences} \cup {o.match : o \in Offers},
   quality : {Unknown} \cup {o.quality : o \in Offers},
   state : States,
   selected : BOOLEAN \cup {o.approved : o \in Offers}]

\* The rows of one track that a reviewer has selected: one at most, and selected.
Reviewed ==
  \A i \in DOMAIN cands :
    cands[i].track \in Tracks /\ cands[i].state = "manual_selected" =>
      /\ cands[i].selected = TRUE
      /\ \A j \in DOMAIN cands :
           cands[j].track = cands[i].track /\ cands[j].state = "manual_selected" => j = i

Backed ==
  \A t \in Tracks : workflow[t] = "ready" =>
    \E i \in DOMAIN cands : cands[i].track = t /\ cands[i].selected = TRUE

CandInv ==
  /\ cands \in Seq(CandidateRow)
  /\ workflow \in [Releases \cup Tracks -> {"discovered", "ready", "needs_review"}]
  /\ Reviewed
  /\ Backed

\* Rows are added, none of them selected by a reviewer for a track.
Grows ==
  /\ cands' \in Seq(CandidateRow)
  /\ Len(cands) <= Len(cands')
  /\ \A i \in 1..Len(cands) : cands'[i] = cands[i]
  /\ \A i \in 1..Len(cands') :
       i > Len(cands) /\ cands'[i].track \in Tracks => cands'[i].state # "manual_selected"

\* The reviewer selects row k of track t and rejects the other rows of t.
Reviews(t, k) ==
  /\ cands' \in Seq(CandidateRow)
  /\ Len(cands') = Len(cands)
  /\ k \in 1..Len(cands) /\ cands[k].track = t
  /\ \A i \in 1..Len(cands) :
       /\ cands[i].track # t => cands'[i] = cands[i]
       /\ cands'[i].track = cands[i].track
       /\ cands'[i].quality = cands[i].quality /\ cands'[i].match = cands[i].match
       /\ cands[i].track = t =>
            /\ i = k => cands'[i] = [cands[i] EXCEPT !.selected = TRUE, !.state = "manual_selected"]
            /\ i # k => cands'[i].selected = FALSE /\ cands'[i].state = "rejected"

-----------------------------------------------------------------------------
(* What one match yields.                                                  *)

\* The rows of one match are rows of the track, none of them reviewed, and one is
\* selected if the outcome is ready.
LEMMA RowsOfAMatch ==
  ASSUME NEW t \in Tracks, NEW n \in 1..2, NEW es \in [1..n -> Evidences]
  PROVE  /\ Rows(t, es) \in Seq(CandidateRow)
         /\ Len(Rows(t, es)) = n
         /\ \A i \in 1..n : /\ Rows(t, es)[i].track = t
                            /\ Rows(t, es)[i].state # "manual_selected"
         /\ Outcome(es) = "ready" => \E i \in 1..n : Rows(t, es)[i].selected = TRUE
<1>1. DOMAIN es = 1..n
  OBVIOUS
<1>2. ASSUME NEW i \in 1..n
      PROVE  /\ Candidate(t, es[i]) \in CandidateRow
             /\ Candidate(t, es[i]).track = t
             /\ Candidate(t, es[i]).state = "pending"
  <2>1. ReleaseOf[t] \in Releases
    BY MatchingAssumption
  <2>2. Score(es[i]) \in {Score(e) : e \in Evidences}
    OBVIOUS
  <2> QED
    BY <2>1, <2>2 DEF Candidate, CandidateRow, States
<1>3. ASSUME NEW i \in 1..n
      PROVE  /\ Rows(t, es)[i] \in CandidateRow
             /\ Rows(t, es)[i].track = t
             /\ Rows(t, es)[i].state # "manual_selected"
             /\ Leaders(es) = {i} => Rows(t, es)[i].selected = TRUE
  <2>1. Rows(t, es)[i] \in
          {[Candidate(t, es[i]) EXCEPT !.state = "auto_selected", !.selected = TRUE],
           Candidate(t, es[i]), [Candidate(t, es[i]) EXCEPT !.state = "needs_review"]}
    BY <1>1 DEF Rows
  <2>2. Leaders(es) = {i} => Rows(t, es)[i] =
          [Candidate(t, es[i]) EXCEPT !.state = "auto_selected", !.selected = TRUE]
    BY <1>1 DEF Rows
  <2> DEFINE c == Candidate(t, es[i])
  <2>3. c \in CandidateRow /\ c.track = t /\ c.state = "pending"
    BY <1>2
  <2>4. [c EXCEPT !.selected = TRUE, !.state = "auto_selected"] \in CandidateRow
    BY <2>3 DEF CandidateRow, States
  <2> QED
    BY <2>1, <2>2, <2>3 DEF CandidateRow, States
<1>4. DOMAIN Rows(t, es) = 1..n
  BY <1>1 DEF Rows
<1>5. Rows(t, es) = [i \in 1..n |-> Rows(t, es)[i]]
  BY <1>1 DEF Rows
<1>6. Rows(t, es) \in [1..n -> CandidateRow]
  BY <1>3, <1>5
<1>7. Rows(t, es) \in Seq(CandidateRow) /\ Len(Rows(t, es)) = n
  BY <1>6
<1>8. ASSUME Outcome(es) = "ready" PROVE \E i \in 1..n : Rows(t, es)[i].selected = TRUE
  <2>1. Cardinality(Leaders(es)) = 1
    BY <1>8 DEF Outcome
  <2>2. Leaders(es) \subseteq 1..n
    BY <1>1 DEF Leaders, Selectable
  <2>3. IsFiniteSet(Leaders(es))
    BY <2>2, FS_Interval, FS_Subset
  <2>4. PICK i : Leaders(es) = {i}
    BY <2>1, <2>3, FS_Singleton
  <2> QED
    BY <2>2, <2>4, <1>3
<1> QED
  BY <1>3, <1>7, <1>8

-----------------------------------------------------------------------------
(* What the steps do to candidates and workflow states.                    *)

\* A match adds its rows, and makes its track ready only with a selection.
LEMMA MatchGrows ==
  ASSUME CandInv, NEW t \in Tracks, NEW n \in 1..2, NEW es \in [1..n -> Evidences],
         ResolveReleaseMatch(t, es)
  PROVE  Grows /\ CandInv'
<1>r. /\ Rows(t, es) \in Seq(CandidateRow)
      /\ Len(Rows(t, es)) = n
      /\ \A i \in 1..n : /\ Rows(t, es)[i].track = t
                         /\ Rows(t, es)[i].state # "manual_selected"
      /\ Outcome(es) = "ready" => \E i \in 1..n : Rows(t, es)[i].selected = TRUE
  BY RowsOfAMatch, Zenon
<1> PICK new : new = Rows(t, es)
  OBVIOUS
<1>1. /\ new \in Seq(CandidateRow) /\ Len(new) = n
      /\ \A i \in 1..n : new[i].track = t /\ new[i].state # "manual_selected"
      /\ Outcome(es) = "ready" => \E i \in 1..n : new[i].selected = TRUE
  BY <1>r, Zenon
<1>2. cands \in Seq(CandidateRow) /\ cands' = cands \o new
  BY DEF CandInv, ResolveReleaseMatch
<1>3. /\ cands' \in Seq(CandidateRow)
      /\ Len(cands') = Len(cands) + n
      /\ \A i \in 1..(Len(cands) + n) :
           cands'[i] = IF i <= Len(cands) THEN cands[i] ELSE new[i - Len(cands)]
  BY <1>1, <1>2, ConcatProperties
<1>4. Len(cands) \in Nat /\ n \in Nat
  BY <1>2
<1>5. Grows
  BY <1>1, <1>3, <1>4 DEF Grows
<1>6. Reviewed'
  BY <1>2, <1>3, <1>5 DEF Grows, Reviewed, CandInv
<1>7. /\ workflow' = [workflow EXCEPT ![t] = Outcome(es), ![ReleaseOf[t]] = Outcome(es)]
      /\ Outcome(es) \in {"ready", "needs_review"}
      /\ ReleaseOf[t] \in Releases /\ Releases \cap Tracks = {}
  BY MatchingAssumption DEF ResolveReleaseMatch, Outcome
<1>8. workflow' \in [Releases \cup Tracks -> {"discovered", "ready", "needs_review"}]
  BY <1>7 DEF CandInv
<1>9. ASSUME NEW u \in Tracks, workflow'[u] = "ready"
      PROVE  \E i \in DOMAIN cands' : cands'[i].track = u /\ cands'[i].selected = TRUE
  <2>1. CASE u = t
    <3>1. Outcome(es) = "ready"
      BY <1>7, <1>9, <2>1 DEF CandInv
    <3>2. PICK i \in 1..n : new[i].selected = TRUE
      BY <1>1, <3>1
    <3>3. /\ Len(cands) + i \in 1..(Len(cands) + n)
          /\ cands'[Len(cands) + i] = new[i]
      BY <1>3, <1>4
    <3> QED
      BY <1>1, <1>3, <2>1, <3>2, <3>3
  <2>2. CASE u # t
    <3>1. workflow[u] = "ready"
      BY <1>7, <1>9, <2>2 DEF CandInv
    <3>2. PICK i \in DOMAIN cands : cands[i].track = u /\ cands[i].selected = TRUE
      BY <3>1 DEF CandInv, Backed
    <3>3. i \in 1..Len(cands) /\ cands'[i] = cands[i]
      BY <3>2, <1>2, <1>5 DEF Grows
    <3>4. i \in DOMAIN cands'
      BY <3>3, <1>3, <1>4
    <3> QED
      BY <3>2, <3>3, <3>4
  <2> QED
    BY <2>1, <2>2
<1> QED
  BY <1>3, <1>5, <1>6, <1>8, <1>9 DEF CandInv, Backed

\* A review changes the rows of one track, and selects one of them.
LEMMA ReviewReviews ==
  ASSUME CandInv, NEW t \in Tracks, NEW k \in DOMAIN cands, ManualSelect(t, k)
  PROVE  Reviews(t, k) /\ CandInv'
<1>0. /\ cands[k].track = t
      /\ cands' = [i \in DOMAIN cands |->
                     IF cands[i].track # t THEN cands[i]
                     ELSE [cands[i] EXCEPT !.selected = (i = k),
                             !.state = IF i = k THEN "manual_selected" ELSE "rejected"]]
  BY Zenon DEF ManualSelect
<1>s. cands \in Seq(CandidateRow)
  BY DEF CandInv
<1>d. DOMAIN cands = 1..Len(cands)
  BY <1>s
<1>1. cands \in Seq(CandidateRow) /\ k \in 1..Len(cands) /\ cands[k].track = t
  BY <1>0, <1>s, <1>d, Zenon
<1>2. cands' = [i \in 1..Len(cands) |->
                 IF cands[i].track # t THEN cands[i]
                 ELSE [cands[i] EXCEPT !.selected = (i = k),
                         !.state = IF i = k THEN "manual_selected" ELSE "rejected"]]
  BY <1>0, <1>d, Zenon
<1>3. ASSUME NEW i \in 1..Len(cands)
      PROVE  /\ cands'[i] \in CandidateRow
             /\ cands[i].track # t => cands'[i] = cands[i]
             /\ cands'[i].track = cands[i].track
             /\ cands'[i].quality = cands[i].quality /\ cands'[i].match = cands[i].match
             /\ cands[i].track = t =>
                  /\ i = k => /\ cands'[i].selected = TRUE /\ cands'[i].state = "manual_selected"
                              /\ cands'[i] = [cands[i] EXCEPT !.selected = TRUE,
                                                              !.state = "manual_selected"]
                  /\ i # k => cands'[i].selected = FALSE /\ cands'[i].state = "rejected"
  <2>1. cands[i] \in CandidateRow
    BY <1>1
  <2>2. CASE cands[i].track # t
    BY <1>2, <2>1, <2>2
  <2>3. CASE cands[i].track = t /\ i = k
    <3>1. cands'[i] = [cands[i] EXCEPT !.selected = TRUE, !.state = "manual_selected"]
      BY <1>2, <2>3
    <3> QED
      BY <2>1, <2>3, <3>1 DEF CandidateRow, States
  <2>4. CASE cands[i].track = t /\ i # k
    <3>1. cands'[i] = [cands[i] EXCEPT !.selected = FALSE, !.state = "rejected"]
      BY <1>2, <2>4
    <3> QED
      BY <2>1, <2>4, <3>1 DEF CandidateRow, States
  <2> QED
    BY <2>2, <2>3, <2>4
<1>4. cands' \in [1..Len(cands) -> CandidateRow]
  BY <1>2, <1>3
<1>5. cands' \in Seq(CandidateRow) /\ Len(cands') = Len(cands)
  BY <1>1, <1>4
<1>6. Reviews(t, k)
  BY <1>1, <1>3, <1>5 DEF Reviews
<1>7. Reviewed'
  <2> SUFFICES ASSUME NEW i \in 1..Len(cands), cands'[i].track \in Tracks,
                      cands'[i].state = "manual_selected"
               PROVE  /\ cands'[i].selected = TRUE
                      /\ \A j \in 1..Len(cands) :
                           cands'[j].track = cands'[i].track
                             /\ cands'[j].state = "manual_selected" => j = i
    <3>1. DOMAIN cands' = 1..Len(cands)
      BY <1>5
    <3> QED
      BY <3>1, Zenon DEF Reviewed
  <2>1. CASE cands[i].track = t
    BY <1>3, <2>1
  <2>2. CASE cands[i].track # t
    <3>1. cands'[i] = cands[i]
      BY <1>3, <2>2
    <3>2. \A j \in 1..Len(cands) : cands'[j].track = cands'[i].track => cands'[j] = cands[j]
      BY <1>3, <2>2
    <3> QED
      BY <1>1, <3>1, <3>2 DEF CandInv, Reviewed
  <2> QED
    BY <2>1, <2>2
<1>8. /\ workflow' = [workflow EXCEPT ![t] = "ready", ![ReleaseOf[t]] = "ready"]
      /\ ReleaseOf[t] \in Releases /\ Releases \cap Tracks = {}
  BY MatchingAssumption DEF ManualSelect
<1>9. workflow' \in [Releases \cup Tracks -> {"discovered", "ready", "needs_review"}]
  BY <1>8 DEF CandInv
<1>10. ASSUME NEW u \in Tracks, workflow'[u] = "ready"
       PROVE  \E i \in DOMAIN cands' : cands'[i].track = u /\ cands'[i].selected = TRUE
  <2>1. CASE u = t
    <3>1. k \in DOMAIN cands'
      BY <1>1, <1>5
    <3>2. cands'[k].track = u /\ cands'[k].selected = TRUE
      BY <1>1, <1>3, <2>1
    <3> QED
      BY <3>1, <3>2
  <2>2. CASE u # t
    <3>1. workflow[u] = "ready"
      BY <1>8, <1>10, <2>2 DEF CandInv
    <3>2. PICK i \in 1..Len(cands) : cands[i].track = u /\ cands[i].selected = TRUE
      BY <1>1, <3>1 DEF CandInv, Backed
    <3>3. cands'[i] = cands[i]
      BY <1>3, <2>2, <3>2
    <3> QED
      BY <1>5, <3>2, <3>3
  <2> QED
    BY <2>1, <2>2
<1> QED
  BY <1>5, <1>6, <1>7, <1>9, <1>10 DEF CandInv, Backed

\* A candidate for a whole release says nothing of a track.
LEMMA OfferGrows ==
  ASSUME CandInv, NEW o \in Offers, Offer(o)
  PROVE  Grows /\ CandInv'
<1> DEFINE new == [release |-> o.release, track |-> NoTrack, match |-> o.match,
                   quality |-> o.quality,
                   state |-> IF o.approved THEN "manual_selected" ELSE "rejected",
                   selected |-> o.approved]
<1>1. new \in CandidateRow /\ new.track \notin Tracks
  BY MatchingAssumption DEF CandidateRow, States
<1>2. cands \in Seq(CandidateRow) /\ cands' = Append(cands, new) /\ workflow' = workflow
  BY DEF CandInv, Offer
<1> HIDE DEF new
<1>3. /\ cands' \in Seq(CandidateRow)
      /\ Len(cands') = Len(cands) + 1 /\ Len(cands) \in Nat
      /\ \A i \in 1..Len(cands) : cands'[i] = cands[i]
      /\ cands'[Len(cands) + 1] = new
  BY <1>1, <1>2, AppendProperties
<1>4. Grows
  <2>1. \A i \in 1..Len(cands') : i > Len(cands) => i = Len(cands) + 1
    BY <1>3
  <2> QED
    BY <1>1, <1>3, <2>1 DEF Grows
<1>5. Reviewed'
  BY <1>2, <1>3, <1>4 DEF Grows, Reviewed, CandInv
<1>6. Backed'
  BY <1>2, <1>3 DEF Backed, CandInv
<1> QED
  BY <1>2, <1>3, <1>4, <1>5, <1>6 DEF CandInv

-----------------------------------------------------------------------------
(* The invariant, and what it gives.                                       *)

LEMMA CandInit == Init => CandInv
<1> SUFFICES ASSUME Init PROVE CandInv
  OBVIOUS
<1>1. cands = << >> /\ workflow = [x \in Releases \cup Tracks |-> "discovered"]
  BY DEF Init, MatchInit
<1> QED
  BY <1>1 DEF CandInv, Reviewed, Backed

\* To set what is set changes nothing.
LEMMA SetAgain ==
  ASSUME NEW c \in CandidateRow, c.selected = TRUE, c.state = "manual_selected"
  PROVE  [c EXCEPT !.selected = TRUE, !.state = "manual_selected"] = c
<1>1. ASSUME NEW A, NEW B, NEW C, NEW D, NEW E, NEW F,
             NEW x \in [release : A, track : B, match : C, quality : D, state : E, selected : F],
             x.selected = TRUE, x.state = "manual_selected"
      PROVE  [x EXCEPT !.selected = TRUE, !.state = "manual_selected"] = x
  BY <1>1
<1> QED
  BY <1>1 DEF CandidateRow

\* Candidates and workflow states change together, or not at all.
LEMMA CandSteps ==
  ASSUME CandInv, Candidates
  PROVE  /\ CandInv'
         /\ Grows \/ \E t \in Tracks, k \in DOMAIN cands : Reviews(t, k)
<1>1. CASE \E t \in Tracks, es \in UNION {[1..n -> Evidences] : n \in 1..2} :
             ResolveReleaseMatch(t, es)
  <2>1. PICK t \in Tracks, n \in 1..2 :
          \E es \in [1..n -> Evidences] : ResolveReleaseMatch(t, es)
    BY <1>1
  <2>2. PICK es \in [1..n -> Evidences] : ResolveReleaseMatch(t, es)
    BY <2>1
  <2> QED
    BY <2>2, MatchGrows, Zenon
<1>2. CASE \E t \in Tracks, k \in DOMAIN cands : ManualSelect(t, k)
  BY <1>2, ReviewReviews, Zenon
<1>3. CASE \E o \in Offers : Offer(o)
  BY <1>3, OfferGrows, Zenon
<1> QED
  BY <1>1, <1>2, <1>3, Zenon DEF Candidates

LEMMA OthersKeepCandidates ==
  ASSUME Next, ~Candidates
  PROVE  UNCHANGED <<cands, workflow>>
<1>1. ASSUME NEW p \in Tasks, NEW r \in Releases, Begin(p, r)
      PROVE  UNCHANGED <<cands, workflow>>
  BY <1>1 DEF Begin
<1>2. ASSUME NEW p \in Tasks, Refused(p) PROVE UNCHANGED <<cands, workflow>>
  BY <1>2 DEF Refused
<1>3. ASSUME NEW p, LeavesActive(p) PROVE UNCHANGED <<cands, workflow>>
  BY <1>3 DEF LeavesActive
<1>4. ASSUME NEW p, NEW st, NEW k, NEW next, Settle(p, st, k, next)
      PROVE  UNCHANGED <<cands, workflow>>
  BY <1>4 DEF Settle
<1>5. ASSUME NEW p, KeepsActive(p) PROVE UNCHANGED <<cands, workflow>>
  BY <1>5 DEF KeepsActive
<1>6. ASSUME NEW p \in Tasks, CheckStep(p) PROVE UNCHANGED <<cands, workflow>>
  <2>1. CASE Mark(p) BY <2>1 DEF Mark
  <2>2. CASE MarkFails(p) BY <2>2, <1>3 DEF MarkFails
  <2>3. CASE Discover(p)
    <3>1. \E st, k : Settle(p, st, k, "closing")
      BY <2>3, Zenon DEF Discover
    <3> QED
      BY <3>1, <1>4
  <2>4. CASE DiscoverFails(p) BY <2>4, <1>4 DEF DiscoverFails
  <2>5. CASE Close(p) BY <2>5 DEF Close
  <2>6. CASE CloseFails(p) BY <2>6, <1>5 DEF CloseFails
  <2> QED BY <1>6, <2>1, <2>2, <2>3, <2>4, <2>5, <2>6 DEF CheckStep
<1>7. ASSUME NEW p, Interrupt(p) PROVE UNCHANGED <<cands, workflow>>
  BY <1>7, <1>3, <1>4, <1>5, Zenon DEF Interrupt
<1>8. ASSUME NEW l \in Loops, NEW r \in Releases, Schedule(l, r)
      PROVE  UNCHANGED <<cands, workflow>>
  BY <1>8 DEF Schedule
<1>9. ASSUME NEW c \in Callers, Upgrade(c) \/ UpgradeFails(c) \/ \E r \in Releases : ApproveUpgrade(c, r)
      PROVE  UNCHANGED <<cands, workflow>>
  BY <1>9 DEF Upgrade, UpgradeFails, ApproveUpgrade
<1> QED
  BY <1>1, <1>2, <1>6, <1>7, <1>8, <1>9, Zenon DEF Next, Cancel, Disconnect

LEMMA CandNext == CandInv /\ [Next]_vars => CandInv'
<1> SUFFICES ASSUME CandInv, [Next]_vars PROVE CandInv'
  OBVIOUS
<1>1. CASE UNCHANGED <<cands, workflow>>
  BY <1>1 DEF CandInv, Reviewed, Backed
<1>2. UNCHANGED vars => UNCHANGED <<cands, workflow>>
  BY DEF vars
<1> QED
  BY <1>1, <1>2, CandSteps, OthersKeepCandidates

LEMMA CandInvariant == Spec => []CandInv
  BY CandInit, CandNext, PTL DEF Spec

\* A track that is ready has a candidate selected for it, after any number of matches
\* and reviews (resolve_release_match).
THEOREM ReadyTracksAreBacked == Spec => []ReadyIsBacked
<1>1. CandInv => ReadyIsBacked
  BY DEF CandInv, Backed, ReadyIsBacked
<1> QED
  BY <1>1, CandInvariant, PTL

\* Only another review of the same track takes a reviewer's selection away
\* (resolve_release_match, with and without a chosen candidate).
THEOREM ReviewsStand == Spec => ReviewStands
<1> DEFINE A == \A i \in DOMAIN cands :
       cands[i].state = "manual_selected" =>
         \/ cands'[i] = cands[i]
         \/ \E j \in DOMAIN cands : /\ cands[j].track = cands[i].track
                                    /\ cands[j].state # "manual_selected"
                                    /\ cands'[j].state = "manual_selected"
<1>1. CandInv /\ [Next]_vars => [A]_cands
  <2> SUFFICES ASSUME CandInv, [Next]_vars PROVE [A]_cands
    OBVIOUS
  <2>1. CASE UNCHANGED cands
    BY <2>1
  <2>d. DOMAIN cands = 1..Len(cands)
    BY DEF CandInv
  <2>2. CASE Grows
    BY <2>2, <2>d DEF Grows
  <2>3. ASSUME NEW t \in Tracks, NEW k \in DOMAIN cands, Reviews(t, k),
               NEW i \in DOMAIN cands, cands[i].state = "manual_selected"
        PROVE  \/ cands'[i] = cands[i]
               \/ \E j \in DOMAIN cands : /\ cands[j].track = cands[i].track
                                          /\ cands[j].state # "manual_selected"
                                          /\ cands'[j].state = "manual_selected"
    <3>1. cands[i] \in CandidateRow /\ cands[k] \in CandidateRow
      BY <2>d DEF CandInv
    <3>2. CASE cands[i].track # t
      BY <2>3, <2>d, <3>2 DEF Reviews
    <3>3. CASE cands[i].track = t /\ i = k
      <4>1. cands'[i] = [cands[i] EXCEPT !.selected = TRUE, !.state = "manual_selected"]
        BY <2>3, <2>d, <3>3 DEF Reviews
      <4>2. cands[i].selected = TRUE /\ cands[i].state = "manual_selected"
        BY <2>3, <3>3 DEF CandInv, Reviewed
      <4> QED
        BY <3>1, <4>1, <4>2, SetAgain
    <3>4. CASE cands[i].track = t /\ i # k
      <4>1. cands[k].track = t /\ cands'[k].state = "manual_selected"
        <5>1. /\ cands[k].track = t
              /\ cands'[k] = [cands[k] EXCEPT !.selected = TRUE, !.state = "manual_selected"]
          BY <2>3, <2>d DEF Reviews
        <5> QED
          BY <3>1, <5>1 DEF CandidateRow
      <4>2. cands[k].state # "manual_selected"
        BY <2>3, <3>4, <4>1 DEF CandInv, Reviewed
      <4> QED
        BY <3>4, <4>1, <4>2
    <3> QED
      BY <3>2, <3>3, <3>4
  <2>4. UNCHANGED vars => UNCHANGED cands
    BY DEF vars
  <2> QED
    BY <2>1, <2>2, <2>3, <2>4, CandSteps, OthersKeepCandidates
<1> QED
  BY <1>1, CandInvariant, PTL DEF Spec, ReviewStands

-----------------------------------------------------------------------------
(* Upgrades.  Between its approval and the replacement of the files an      *)
(* upgrade relies on the quality it was approved over: nobody else may       *)
(* change that, which is so if one caller upgrades at a time.                *)

OneCaller == \A c, d \in Callers : c = d

\* The upgrade under way is one worth making.
Approved ==
  \A c \in Callers : pc[c] = "upgrading" =>
    /\ due[c].cand \in DOMAIN cands
    /\ Meaningful(held[on[c]], cands[due[c].cand].quality, cands[due[c].cand].match)

Shapes ==
  /\ DOMAIN pc = Tasks /\ DOMAIN on = Tasks /\ DOMAIN due = Tasks
  /\ held = [r \in Releases |-> held[r]]
  /\ \A c \in Callers : pc[c] = "upgrading" => on[c] \in Releases

UpInv == CandInv /\ Approved /\ Shapes

\* Task p goes on with something other than an upgrade, and no other task does anything.
Apart(p) ==
  /\ held' = held
  /\ DOMAIN pc' = DOMAIN pc /\ DOMAIN on' = DOMAIN on /\ DOMAIN due' = DOMAIN due
  /\ p \in DOMAIN pc => pc'[p] # "upgrading"
  /\ \A q : q # p => pc'[q] = pc[q] /\ on'[q] = on[q] /\ due'[q] = due[q]

LEMMA RaisesApart == ASSUME NEW p, Raises(p), held' = held PROVE Apart(p)
  BY DEF Raises, Clears, Apart

LEMMA ReturnsApart == ASSUME NEW p, Returns(p), held' = held PROVE Apart(p)
  BY DEF Returns, Clears, Apart

LEMMA SettleApart ==
  ASSUME NEW p, NEW st, NEW k, NEW next \in {"closing", "raising"}, Settle(p, st, k, next)
  PROVE  Apart(p)
  BY DEF Settle, Apart

LEMMA LeavesApart == ASSUME NEW p, LeavesActive(p) \/ KeepsActive(p) PROVE Apart(p)
  BY RaisesApart DEF LeavesActive, KeepsActive

LEMMA InterruptApart == ASSUME NEW p, Interrupt(p) PROVE Apart(p)
<1>1. CASE pc[p] = "new" /\ pc' = [pc EXCEPT ![p] = "done"] /\ Clears(p, TRUE) /\ held' = held
  BY <1>1 DEF Clears, Apart
<1>2. CASE Raises(p) /\ held' = held
  BY <1>2, RaisesApart
<1>3. CASE LeavesActive(p) \/ KeepsActive(p)
  BY <1>3, LeavesApart
<1>4. CASE Settle(p, "active", due[p].cand, "raising")
  BY <1>4, SettleApart
<1> QED
  BY <1>1, <1>2, <1>3, <1>4 DEF Interrupt

LEMMA CheckStepApart == ASSUME NEW p, CheckStep(p) PROVE Apart(p)
<1>1. CASE Mark(p)
  BY <1>1 DEF Mark, Apart
<1>2. CASE MarkFails(p)
  BY <1>2, LeavesApart DEF MarkFails
<1>3. CASE Discover(p)
  <2>1. \E st, k : Settle(p, st, k, "closing")
    BY <1>3, Zenon DEF Discover
  <2> QED
    BY <2>1, SettleApart
<1>4. CASE DiscoverFails(p)
  BY <1>4, SettleApart DEF DiscoverFails
<1>5. CASE Close(p)
  BY <1>5, RaisesApart, ReturnsApart DEF Close
<1>6. CASE CloseFails(p)
  BY <1>6, LeavesApart DEF CloseFails
<1> QED
  BY <1>1, <1>2, <1>3, <1>4, <1>5, <1>6 DEF CheckStep

\* Nothing becomes of an upgrade while another task goes on.
LEMMA ApartKeeps ==
  ASSUME UpInv, CandInv', NEW p, Apart(p), cands' = cands PROVE UpInv'
<1>1. Shapes'
  BY DEF UpInv, Shapes, Apart, Tasks
<1>2. Approved'
  BY DEF UpInv, Shapes, Approved, Apart, Tasks
<1> QED
  BY <1>1, <1>2 DEF UpInv

\* Candidates keep their quality and their match.
LEMMA CandidatesKeep ==
  ASSUME UpInv, Candidates PROVE UpInv'
<1>1. CandInv' /\ (Grows \/ \E t \in Tracks, k \in DOMAIN cands : Reviews(t, k))
  BY CandSteps DEF UpInv
<1>2. cands \in Seq(CandidateRow) /\ cands' \in Seq(CandidateRow)
  BY <1>1 DEF UpInv, CandInv
<1>3. Len(cands) <= Len(cands') /\ \A i \in 1..Len(cands) :
        cands'[i].quality = cands[i].quality /\ cands'[i].match = cands[i].match
  <2>1. CASE Grows
    BY <2>1 DEF Grows
  <2>2. ASSUME NEW t \in Tracks, NEW k \in DOMAIN cands, Reviews(t, k)
        PROVE  Len(cands) <= Len(cands') /\ \A i \in 1..Len(cands) :
                 cands'[i].quality = cands[i].quality /\ cands'[i].match = cands[i].match
    <3>1. Len(cands') = Len(cands) /\ \A i \in 1..Len(cands) :
            cands'[i].quality = cands[i].quality /\ cands'[i].match = cands[i].match
      BY <2>2, Zenon DEF Reviews
    <3> QED
      BY <1>2, <3>1
  <2> QED
    BY <1>1, <2>1, <2>2, Zenon
<1>4. \A i \in DOMAIN cands : /\ i \in DOMAIN cands'
                              /\ cands'[i].quality = cands[i].quality
                              /\ cands'[i].match = cands[i].match
  BY <1>2, <1>3
<1>5. UNCHANGED <<pc, on, due, held>>
  BY DEF Candidates, taskVars
<1>6. Shapes'
  BY <1>5 DEF UpInv, Shapes
<1>7. Approved'
  <2> SUFFICES ASSUME NEW c \in Callers, pc[c] = "upgrading"
               PROVE  /\ due[c].cand \in DOMAIN cands'
                      /\ Meaningful(held[on[c]], cands'[due[c].cand].quality,
                                    cands'[due[c].cand].match)
    BY <1>5, Zenon DEF Approved
  <2>1. /\ due[c].cand \in DOMAIN cands
        /\ Meaningful(held[on[c]], cands[due[c].cand].quality, cands[due[c].cand].match)
    BY Zenon DEF UpInv, Approved
  <2> QED
    BY <1>4, <2>1, Zenon
<1> QED
  BY <1>1, <1>6, <1>7 DEF UpInv

\* An upgrade is approved over the quality there is.
LEMMA ApproveKeeps ==
  ASSUME UpInv, CandInv', NEW c \in Callers, NEW r \in Releases, ApproveUpgrade(c, r)
  PROVE  UpInv'
<1>1. /\ row[r].cand \in DOMAIN cands
      /\ Meaningful(held[r], cands[row[r].cand].quality, cands[row[r].cand].match)
  BY DEF ApproveUpgrade, Upgrades
<1>2. /\ pc' = [pc EXCEPT ![c] = "upgrading"] /\ on' = [on EXCEPT ![c] = r]
      /\ due' = [due EXCEPT ![c] = [status |-> "active", cand |-> row[r].cand]]
      /\ cands' = cands /\ held' = held
  BY DEF ApproveUpgrade
<1>3. Shapes'
  BY <1>2 DEF UpInv, Shapes, Tasks
<1>4. ASSUME NEW d \in Callers, pc'[d] = "upgrading"
      PROVE  /\ due'[d].cand \in DOMAIN cands
             /\ Meaningful(held[on'[d]], cands[due'[d].cand].quality, cands[due'[d].cand].match)
  <2>1. CASE d = c
    <3>1. on'[d] = r /\ due'[d].cand = row[r].cand
      BY <1>2, <2>1 DEF UpInv, Shapes, Tasks
    <3> QED
      BY <1>1, <3>1
  <2>2. CASE d # c
    <3>1. pc'[d] = pc[d] /\ on'[d] = on[d] /\ due'[d] = due[d]
      BY <1>2, <2>2
    <3> QED
      BY <1>4, <3>1 DEF UpInv, Approved
  <2> QED
    BY <2>1, <2>2
<1>5. Approved'
  BY <1>2, <1>4, Zenon DEF Approved
<1> QED
  BY <1>3, <1>5 DEF UpInv

\* An upgrade that is made leaves nothing approved: its caller is the only one.
LEMMA UpgradeKeeps ==
  ASSUME OneCaller, UpInv, CandInv', NEW c \in Callers, Upgrade(c)
  PROVE  /\ UpInv'
         /\ \A r \in Releases : held'[r] # held[r] =>
              /\ QualityScore(held'[r]) > QualityScore(held[r])
              /\ held'[r].reliability >= held[r].reliability
<1>1. /\ pc[c] = "upgrading"
      /\ held' = [held EXCEPT ![on[c]] = cands[due[c].cand].quality]
      /\ Returns(c) /\ cands' = cands
  BY DEF Upgrade
<1>2. on[c] \in Releases /\ held = [r \in Releases |-> held[r]]
  BY <1>1 DEF UpInv, Shapes
<1>3. \A d \in Callers : pc'[d] # "upgrading"
  <2>1. c \in DOMAIN pc /\ \A d \in Callers : d = c
    BY DEF OneCaller, UpInv, Shapes, Tasks
  <2>2. pc'[c] # "upgrading"
    BY <1>1, <2>1 DEF Returns
  <2> QED
    BY <2>1, <2>2
<1>4. Shapes'
  <2>1. held' = [r \in Releases |-> held'[r]]
    BY <1>1, <1>2
  <2> QED
    BY <1>1, <1>3, <2>1 DEF UpInv, Shapes, Returns, Clears
<1>5. Approved'
  BY <1>3 DEF Approved
<1>6. ASSUME NEW r \in Releases, held'[r] # held[r]
      PROVE  /\ QualityScore(held'[r]) > QualityScore(held[r])
             /\ held'[r].reliability >= held[r].reliability
  <2>1. r = on[c] /\ held'[r] = cands[due[c].cand].quality
    BY <1>1, <1>2, <1>6
  <2>2. Meaningful(held[r], cands[due[c].cand].quality, cands[due[c].cand].match)
    BY <1>1, <2>1 DEF UpInv, Approved
  <2> QED
    BY <2>1, <2>2 DEF Meaningful
<1> QED
  BY <1>4, <1>5, <1>6 DEF UpInv

\* All other steps leave the quality of every release alone.
LEMMA StepKeeps ==
  ASSUME OneCaller, UpInv, [Next]_vars
  PROVE  /\ UpInv'
         /\ \A r \in Releases : held'[r] # held[r] =>
              /\ QualityScore(held'[r]) > QualityScore(held[r])
              /\ held'[r].reliability >= held[r].reliability
<1>1. CandInv'
  BY CandNext DEF UpInv
<1>2. ASSUME NEW p, Apart(p), cands' = cands PROVE UpInv' /\ held' = held
  BY <1>1, <1>2, ApartKeeps DEF Apart
<1>3. CASE Candidates
  BY <1>3, CandidatesKeep DEF Candidates
<1>4. CASE UNCHANGED vars
  <2>1. UNCHANGED <<pc, on, due, held, cands>>
    BY <1>4 DEF vars, taskVars
  <2> QED
    BY <1>1, <2>1 DEF UpInv, Shapes, Approved
<1>5. CASE Next /\ ~Candidates
  <2>1. cands' = cands
    BY <1>5, OthersKeepCandidates
  <2>2. ASSUME NEW p \in Tasks, NEW r \in Releases, Begin(p, r) PROVE Apart(p)
    BY <2>2 DEF Begin, Apart
  <2>3. ASSUME NEW p \in Tasks, Refused(p) PROVE Apart(p)
    BY <2>3, RaisesApart DEF Refused
  <2>4. ASSUME NEW l \in Loops, NEW r \in Releases, Schedule(l, r) PROVE Apart(l)
    BY <2>4 DEF Schedule, Apart
  <2>5. ASSUME NEW r \in Releases, Cancel(r) PROVE Apart(tasks[r])
    BY <2>5, InterruptApart DEF Cancel
  <2>6. ASSUME NEW c \in Callers, Disconnect(c) PROVE Apart(c)
    BY <2>6, InterruptApart DEF Disconnect
  <2>7. ASSUME NEW c \in Callers, UpgradeFails(c) PROVE Apart(c)
    BY <2>7, RaisesApart DEF UpgradeFails
  <2>8. CASE \E p : Apart(p)
    BY <2>1, <2>8, <1>2
  <2>9. CASE \E c \in Callers, r \in Releases : ApproveUpgrade(c, r)
    BY <1>1, <2>9, ApproveKeeps DEF ApproveUpgrade
  <2>10. CASE \E c \in Callers : Upgrade(c)
    <3>1. PICK c \in Callers : Upgrade(c)
      BY <2>10
    <3> QED
      BY <1>1, <3>1, UpgradeKeeps
  <2> QED
    BY <1>5, <2>2, <2>3, <2>4, <2>5, <2>6, <2>7, <2>8, <2>9, <2>10, CheckStepApart, Zenon DEF Next
<1> QED
  BY <1>3, <1>4, <1>5

LEMMA UpInit == Init => UpInv
<1> SUFFICES ASSUME Init PROVE UpInv
  OBVIOUS
<1>1. \A c \in Callers : pc[c] # "upgrading"
  BY DEF Init, Tasks
<1>2. Shapes
  BY <1>1 DEF Init, Shapes
<1> QED
  BY <1>1, <1>2, CandInit DEF UpInv, Approved

\* If one caller upgrades at a time, every upgrade raises the score of its release and
\* keeps or raises the reliability of its source, so that no sequence of upgrades comes
\* back to a quality it had (evaluate_quality_candidate, execute_quality_upgrade).
THEOREM UpgradesDoNotGoBack == ASSUME OneCaller PROVE Spec => UpgradesClimb
<1>1. UpInv /\ [Next]_vars => UpInv'
  BY StepKeeps
<1>2. UpInv /\ [Next]_vars =>
        [\A r \in Releases : held'[r] # held[r] =>
           /\ QualityScore(held'[r]) > QualityScore(held[r])
           /\ held'[r].reliability >= held[r].reliability]_held
  BY StepKeeps
<1> QED
  BY <1>1, <1>2, UpInit, PTL DEF Spec, UpgradesClimb

-----------------------------------------------------------------------------
(***************************************************************************)
(* The types of the rows.  That a check writes the id of a candidate rests *)
(* on the order of the scores, which is total: the best upgrade is one of  *)
(* the upgrades.                                                           *)
(***************************************************************************)

Qualities == {Unknown} \cup {o.quality : o \in Offers}

LEMMA ScoreIsANumber ==
  ASSUME NEW q \in Qualities
  PROVE  QualityScore(q) \in Int
<1>1. q.rate \in Int /\ q.depth \in Int /\ q.kbps \in Int /\ q.channels \in Int
        /\ q.reliability \in Int
  BY MonitoringAssumption DEF Qualities, Measures
<1>2. Rank(q.codec) \in Int
  <2>1. Len(Profile.codecs) \in Nat /\ DOMAIN Profile.codecs = 1..Len(Profile.codecs)
    BY MonitoringAssumption
  <2>2. CASE q.codec \in Range(Profile.codecs)
    <3>1. \E i \in DOMAIN Profile.codecs : Profile.codecs[i] = q.codec
      BY <2>2 DEF Range
    <3>2. PICK i : i = CHOOSE j \in DOMAIN Profile.codecs : Profile.codecs[j] = q.codec
      OBVIOUS
    <3>3. i \in DOMAIN Profile.codecs
      BY <3>1, <3>2
    <3>4. Rank(q.codec) = Len(Profile.codecs) + 1 - i
      BY <2>2, <3>2 DEF Rank
    <3> QED
      BY <2>1, <3>3, <3>4
  <2>3. CASE q.codec \notin Range(Profile.codecs)
    BY <2>3 DEF Rank
  <2> QED
    BY <2>2, <2>3
<1>3. PICK rank \in Int : rank = Rank(q.codec)
  BY <1>2
<1> QED
  BY <1>1, <1>3 DEF QualityScore

\* Row k comes before row j for max().
Beats(k, j) ==
  \/ QualityScore(cands[k].quality) > QualityScore(cands[j].quality)
  \/ QualityScore(cands[k].quality) = QualityScore(cands[j].quality) /\ k <= j

LEMMA BestIsThere ==
  ASSUME CandInv, NEW K \in SUBSET DOMAIN cands, K # {}
  PROVE  Best(K) \in K
<1>1. DOMAIN cands = 1..Len(cands) /\ Len(cands) \in Nat
  BY DEF CandInv
<1>2. IsFiniteSet(K)
  <2>1. IsFiniteSet(1..Len(cands))
    BY <1>1, FS_Interval
  <2>2. K \in SUBSET (1..Len(cands))
    BY <1>1
  <2> QED
    BY <2>1, <2>2, FS_Subset, Zenon
<1>3. \A k \in K : k \in Nat /\ QualityScore(cands[k].quality) \in Int
  <2> SUFFICES ASSUME NEW k \in K PROVE k \in Nat /\ QualityScore(cands[k].quality) \in Int
    OBVIOUS
  <2>1. cands[k] \in CandidateRow
    BY <1>1 DEF CandInv
  <2>2. cands[k].quality \in Qualities
    BY <2>1 DEF CandidateRow, Qualities
  <2> QED
    BY <1>1, <2>2, ScoreIsANumber
<1>4. \A j, k \in K : Beats(j, k) \/ Beats(k, j)
  BY <1>3 DEF Beats
<1>5. \A i, j, k \in K : Beats(i, j) /\ Beats(j, k) => Beats(i, k)
  BY <1>3 DEF Beats
<1> DEFINE First(T) == \E k \in T : \A j \in T : Beats(k, j)
           D == {T \in SUBSET K : T = {} \/ First(T)}
<1>6. ASSUME NEW T \in SUBSET K, \A V \in SUBSET T : V # T => V \in D
      PROVE  T \in D
  <2> SUFFICES ASSUME T # {} PROVE First(T)
    OBVIOUS
  <2>1. PICK x \in T : TRUE
    OBVIOUS
  <2>2. T \ {x} \in D
    BY <1>6, <2>1
  <2>3. CASE T \ {x} = {}
    BY <1>4, <2>1, <2>3
  <2>4. CASE First(T \ {x})
    <3>1. PICK k \in T \ {x} : \A j \in T \ {x} : Beats(k, j)
      BY <2>4
    <3>2. CASE Beats(k, x)
      BY <3>1, <3>2
    <3>3. CASE Beats(x, k)
      BY <1>4, <1>5, <2>1, <3>1, <3>3
    <3> QED
      BY <1>4, <2>1, <3>1, <3>2, <3>3
  <2> QED
    BY <2>2, <2>3, <2>4
<1>7. K \in D
  <2> HIDE DEF D
  <2> QED
    BY <1>2, <1>6, SetInduction
<1>8. \E k \in K : \A j \in K : Beats(k, j)
  BY <1>7
<1> QED
  BY <1>8 DEF Best, Beats

-----------------------------------------------------------------------------
RowTypes ==
  /\ due \in [Tasks -> MonitoringRow]
  /\ row \in [Releases -> MonitoringRow]
  /\ lock \in Tasks \cup {NoTask}
  /\ DOMAIN held = Releases
  /\ DOMAIN seen = Tasks
  /\ Len(cands) <= MaxCandidates

TypesInv == Inv /\ CandInv /\ RowTypes

LEMMA WatchedRow == Watched \in MonitoringRow
  BY MatchingAssumption DEF Watched, MonitoringRow, Statuses

\* A task that has nothing more to do, whether it raises or returns.
LEMMA ClearsRows ==
  ASSUME RowTypes, NEW p, NEW b, Clears(p, b)
  PROVE  due' \in [Tasks -> MonitoringRow] /\ DOMAIN seen' = Tasks
BY WatchedRow DEF RowTypes, Clears

LEMMA LeavesRows ==
  ASSUME RowTypes, NEW p, LeavesActive(p) \/ KeepsActive(p)
  PROVE  RowTypes'
<1>1. Clears(p, TRUE) /\ UNCHANGED <<row, held, cands>> /\ lock' \in {lock, NoTask}
  BY DEF LeavesActive, KeepsActive, Raises
<1> QED
  BY <1>1, ClearsRows DEF RowTypes

LEMMA SettleRows ==
  ASSUME RowTypes, NEW p, NEW status \in Statuses, NEW k \in 0..MaxCandidates, NEW next,
         Settle(p, status, k, next)
  PROVE  RowTypes'
BY DEF RowTypes, Settle, MonitoringRow

LEMMA InterruptRows ==
  ASSUME RowTypes, NEW p \in Tasks, Interrupt(p)
  PROVE  RowTypes'
<1>1. CASE Clears(p, TRUE) /\ UNCHANGED <<row, held, cands, lock>>
  BY <1>1, ClearsRows DEF RowTypes
<1>2. CASE LeavesActive(p) \/ KeepsActive(p)
  BY <1>2, LeavesRows
<1>3. CASE Settle(p, "active", due[p].cand, "raising")
  <2>1. due[p].cand \in 0..MaxCandidates /\ "active" \in Statuses
    BY DEF RowTypes, MonitoringRow, Statuses
  <2> QED
    BY <1>3, <2>1, SettleRows
<1> QED
  BY <1>1, <1>2, <1>3 DEF Interrupt, Raises

LEMMA CheckStepRows ==
  ASSUME TypesInv, NEW p \in Tasks, CheckStep(p)
  PROVE  RowTypes'
<1>0. RowTypes /\ due[p] \in MonitoringRow /\ due[p].cand \in 0..MaxCandidates
  BY DEF TypesInv, RowTypes, MonitoringRow
<1>1. CASE Mark(p)
  <2>1. on[p] \in Releases
    BY <1>1 DEF Mark, TypesInv, Inv, LoopsHaveReleases, Live, Checking
  <2>2. row[on[p]] \in MonitoringRow
    BY <1>0, <2>1 DEF RowTypes
  <2>3. [row[on[p]] EXCEPT !.status = "checking"] \in MonitoringRow
    BY <2>2 DEF MonitoringRow, Statuses
  <2> QED
    BY <1>0, <1>1, <2>3 DEF Mark, RowTypes
<1>2. CASE MarkFails(p) \/ CloseFails(p)
  BY <1>0, <1>2, LeavesRows DEF MarkFails, CloseFails
<1>3. CASE Discover(p)
  <2>1. PICK D \in SUBSET DOMAIN cands :
          IF Upgrades(on[p], seen[p], D) # {}
          THEN Settle(p, "candidate_found", Best(Upgrades(on[p], seen[p], D)), "closing")
          ELSE Settle(p, "active", due[p].cand, "closing")
    BY <1>3, Zenon DEF Discover
  <2>2. CASE Upgrades(on[p], seen[p], D) # {}
    <3>1. Upgrades(on[p], seen[p], D) \in SUBSET DOMAIN cands
      BY <2>1 DEF Upgrades
    <3>2. PICK k : k = Best(Upgrades(on[p], seen[p], D))
      OBVIOUS
    <3>3. k \in DOMAIN cands
      BY <2>2, <3>1, <3>2, BestIsThere, Zenon DEF TypesInv
    <3>4. k \in 0..MaxCandidates /\ "candidate_found" \in Statuses
      BY <1>0, <3>3, MatchingAssumption DEF TypesInv, CandInv, RowTypes, Statuses
    <3>5. Settle(p, "candidate_found", k, "closing")
      BY <2>1, <2>2, <3>2, Zenon
    <3> QED
      BY <1>0, <3>4, <3>5, SettleRows
  <2>3. CASE Upgrades(on[p], seen[p], D) = {}
    <3>1. Settle(p, "active", due[p].cand, "closing")
      BY <2>1, <2>3
    <3> QED
      BY <1>0, <3>1, SettleRows DEF Statuses
  <2> QED
    BY <2>2, <2>3
<1>4. CASE DiscoverFails(p)
  BY <1>0, <1>4, SettleRows DEF DiscoverFails, Statuses
<1>5. CASE Close(p)
  <2>1. \E b : Clears(p, b)
    BY <1>5 DEF Close, Returns, Raises
  <2>2. /\ row' = row \/ row' = [row EXCEPT ![on[p]] = due[p]]
        /\ lock' = NoTask /\ UNCHANGED <<held, cands>>
    BY <1>5 DEF Close
  <2>3. row' \in [Releases -> MonitoringRow]
    BY <1>0, <2>2 DEF RowTypes
  <2> QED
    BY <1>0, <2>1, <2>2, <2>3, ClearsRows DEF RowTypes
<1> QED
  BY <1>1, <1>2, <1>3, <1>4, <1>5 DEF CheckStep

LEMMA CandidateRows ==
  ASSUME TypesInv, Candidates
  PROVE  RowTypes'
<1>1. UNCHANGED <<due, row, lock, held, seen>>
  BY DEF Candidates, taskVars
<1>2. Len(cands') <= MaxCandidates
  <2>0. cands \in Seq(CandidateRow) /\ Len(cands) <= MaxCandidates
    BY DEF TypesInv, CandInv, RowTypes
  <2>1. ASSUME NEW t \in Tracks, NEW n \in 1..2, NEW es \in [1..n -> Evidences],
               ResolveReleaseMatch(t, es)
        PROVE  Len(cands') <= MaxCandidates
    <3>1. /\ Rows(t, es) \in Seq(CandidateRow)
          /\ Len(Rows(t, es)) = n
          /\ \A i \in 1..n : /\ Rows(t, es)[i].track = t
                             /\ Rows(t, es)[i].state # "manual_selected"
          /\ Outcome(es) = "ready" => \E i \in 1..n : Rows(t, es)[i].selected = TRUE
      BY RowsOfAMatch, Zenon
    <3>2. PICK added : added = Rows(t, es)
      OBVIOUS
    <3>3. Len(es) = n /\ Len(cands) + Len(es) <= MaxCandidates /\ cands' = cands \o added
      BY <2>1, <3>2 DEF ResolveReleaseMatch
    <3>4. added \in Seq(CandidateRow) /\ Len(added) = n
      BY <3>1, <3>2, Zenon
    <3>5. Len(cands') = Len(cands) + Len(added)
      BY <2>0, <3>3, <3>4
    <3> QED
      BY <2>0, <3>3, <3>4, <3>5
  <2>2. ASSUME NEW t \in Tracks, NEW k \in DOMAIN cands, ManualSelect(t, k)
        PROVE  Len(cands') <= MaxCandidates
    <3>1. \E u \in Tracks, i \in DOMAIN cands : Reviews(u, i)
      BY <2>2, ReviewReviews, Zenon DEF TypesInv
    <3> QED
      BY <2>0, <3>1 DEF Reviews
  <2>3. ASSUME NEW o \in Offers, Offer(o)
        PROVE  Len(cands') <= MaxCandidates
    <3>1. PICK added : cands' = Append(cands, added) /\ Len(cands) < MaxCandidates
      BY <2>3 DEF Offer
    <3> QED
      BY <2>0, <3>1, MatchingAssumption
  <2>4. CASE \E t \in Tracks, es \in UNION {[1..n -> Evidences] : n \in 1..2} :
               ResolveReleaseMatch(t, es)
    <3>1. PICK t \in Tracks, n \in 1..2 :
            \E es \in [1..n -> Evidences] : ResolveReleaseMatch(t, es)
      BY <2>4
    <3> QED
      BY <3>1, <2>1
  <2> QED
    BY <2>2, <2>3, <2>4, Zenon DEF Candidates
<1> QED
  BY <1>1, <1>2 DEF TypesInv, RowTypes

LEMMA CallerRows ==
  ASSUME TypesInv, NEW c \in Callers,
         \/ \E r \in Releases : ApproveUpgrade(c, r)
         \/ Upgrade(c) \/ UpgradeFails(c)
  PROVE  RowTypes'
<1>0. RowTypes
  BY DEF TypesInv
<1>1. ASSUME NEW r \in Releases, ApproveUpgrade(c, r) PROVE RowTypes'
  <2>1. row[r].cand \in 0..MaxCandidates
    BY <1>0 DEF RowTypes, MonitoringRow
  <2>2. [status |-> "active", cand |-> row[r].cand] \in MonitoringRow
    BY <2>1 DEF MonitoringRow, Statuses
  <2> QED
    BY <1>0, <1>1, <2>2 DEF ApproveUpgrade, RowTypes
<1>2. CASE Upgrade(c)
  <2>1. row' = [row EXCEPT ![on[c]].status = "active"]
    BY <1>2 DEF Upgrade
  <2>2. row' \in [Releases -> MonitoringRow]
    <3>1. CASE on[c] \in Releases
      <4>1. row[on[c]] \in MonitoringRow
        BY <1>0, <3>1 DEF RowTypes
      <4>2. [row[on[c]] EXCEPT !.status = "active"] \in MonitoringRow
        BY <4>1 DEF MonitoringRow, Statuses
      <4> QED
        BY <1>0, <2>1, <4>2 DEF RowTypes
    <3>2. CASE on[c] \notin Releases
      BY <1>0, <2>1, <3>2 DEF RowTypes
    <3> QED
      BY <3>1, <3>2
  <2>3. Clears(c, FALSE) /\ UNCHANGED <<cands, lock>> /\ DOMAIN held' = DOMAIN held
    BY <1>2 DEF Upgrade, Returns
  <2> QED
    BY <1>0, <2>2, <2>3, ClearsRows DEF RowTypes
<1>3. CASE UpgradeFails(c)
  <2>1. Clears(c, TRUE) /\ UNCHANGED <<row, held, cands, lock>>
    BY <1>3 DEF UpgradeFails, Raises
  <2> QED
    BY <1>0, <2>1, ClearsRows DEF RowTypes
<1> QED
  BY <1>1, <1>2, <1>3

LEMMA TypesNext ==
  ASSUME TypesInv, [Next]_vars
  PROVE  RowTypes'
<1>0. RowTypes
  BY DEF TypesInv
<1>1. CASE UNCHANGED vars
  BY <1>0, <1>1 DEF vars, taskVars, RowTypes
<1>2. ASSUME NEW p \in Tasks, NEW r \in Releases, Begin(p, r) PROVE RowTypes'
  BY <1>0, <1>2 DEF Begin, RowTypes
<1>3. ASSUME NEW p \in Tasks, Refused(p) PROVE RowTypes'
  <2>1. Clears(p, TRUE) /\ UNCHANGED <<row, held, cands, lock>>
    BY <1>3 DEF Refused, Raises
  <2> QED
    BY <1>0, <2>1, ClearsRows DEF RowTypes
<1>4. ASSUME NEW l \in Loops, NEW r \in Releases, Schedule(l, r) PROVE RowTypes'
  BY <1>0, <1>4 DEF Schedule, RowTypes
<1>5. ASSUME NEW r \in Releases, Cancel(r) PROVE RowTypes'
  <2>1. tasks[r] \in Tasks /\ Interrupt(tasks[r])
    BY <1>5 DEF Cancel, TypesInv, Inv, TaskTypes, Tasks
  <2> QED
    BY <1>0, <2>1, InterruptRows
<1>6. ASSUME NEW c \in Callers, Disconnect(c) PROVE RowTypes'
  BY <1>0, <1>6, InterruptRows DEF Disconnect, Tasks
<1>7. ASSUME NEW p \in Tasks, CheckStep(p) PROVE RowTypes'
  BY <1>7, CheckStepRows
<1>8. ASSUME NEW c \in Callers,
             \/ \E r \in Releases : ApproveUpgrade(c, r)
             \/ Upgrade(c) \/ UpgradeFails(c)
      PROVE  RowTypes'
  BY <1>8, CallerRows
<1>9. CASE Candidates
  BY <1>9, CandidateRows
<1> QED
  BY <1>1, <1>2, <1>3, <1>4, <1>5, <1>6, <1>7, <1>8, <1>9, Zenon DEF Next

LEMMA TypesInit == Init => TypesInv
<1> SUFFICES ASSUME Init PROVE TypesInv
  OBVIOUS
<1>1. Len(cands) <= MaxCandidates
  BY MatchingAssumption DEF Init, MatchInit
<1>2. RowTypes
  BY <1>1, WatchedRow DEF Init, RowTypes
<1> QED
  BY <1>2, InitInv, CandInit DEF TypesInv

\* Every variable has its type: a record has a status monitoring_status knows, and
\* refers to a candidate or to none (run_monitoring_check, execute_quality_upgrade).
THEOREM MonitoringType == Spec => []TypeOK
<1>1. TypesInv /\ [Next]_vars => TypesInv'
  <2> SUFFICES ASSUME TypesInv, [Next]_vars PROVE TypesInv'
    OBVIOUS
  <2> QED
    BY TypesNext, NextInv, CandNext DEF TypesInv
<1>2. TypesInv => TypeOK
  BY DEF TypesInv, Inv, TaskTypes, RowTypes, TypeOK
<1> QED
  BY <1>1, <1>2, TypesInit, PTL DEF Spec
=============================================================================
