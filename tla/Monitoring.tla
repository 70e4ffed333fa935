----------------------------- MODULE Monitoring -----------------------------
(***************************************************************************)
(* Monitoring of releases (services/monitoring.py): checks that look for a *)
(* better candidate, the scheduler that repeats them, and the upgrade that *)
(* follows an approved candidate.  Candidates come from EditionMatching    *)
(* and, for whole releases, from outside.                                  *)
(*                                                                         *)
(* There is one record for each release.  A check runs in the task of its  *)
(* caller or in a loop of the scheduler; its session holds the write lock  *)
(* from its first flush on, and its owner commits it if the check returns. *)
(***************************************************************************)
EXTENDS EditionMatching

CONSTANTS Loops,     \* the tasks the scheduler may create
          Callers,   \* tasks that check or upgrade by themselves
          NoTask,    \* no task, and no release
          Offers,    \* candidates for a whole release that may appear
          Profile,   \* preferred codecs and minima, the same for every record
          Faults     \* what may fail: "mark", "discover", "close", "cancel", "import"

Tasks == Loops \cup Callers

Measures == {"rate", "depth", "kbps", "channels", "reliability"}  \* what _number reads

ASSUME MonitoringAssumption ==
  /\ Loops \cap Callers = {}
  /\ NoTask \notin Tasks
  /\ 0 \notin Tasks
  /\ Profile.codecs \in Seq(Range(Profile.codecs))
  /\ \A q \in {Unknown} \cup {o.quality : o \in Offers}, m \in Measures : q[m] \in Int

VARIABLES active,   \* _active_checks
          tasks,    \* MonitoringScheduler._tasks
          pc,       \* where a task is
          on,       \* the release it is about
          seen,     \* the quality of the release it was called with
          due,      \* status and candidate its session is about to commit
          row,      \* MonitoringRecord.status and candidate_id, as committed
          held,     \* the quality of the release in the library
          lock,     \* the task inside a SQLite write transaction
          spoiled   \* history: releases a flush outside the try block failed for

taskVars == <<pc, on, seen, due>>
vars == <<cands, workflow, active, tasks, taskVars, row, held, lock, spoiled>>

-----------------------------------------------------------------------------
(* evaluate_quality_candidate, in tenths of its score.                     *)

Rank(c) ==
  IF c \in Range(Profile.codecs)
  THEN Len(Profile.codecs) + 1 - CHOOSE i \in DOMAIN Profile.codecs : Profile.codecs[i] = c
  ELSE 0

QualityScore(q) ==
  (IF q.lossless THEN 10000 ELSE 0) + 1000 * Rank(q.codec) + q.rate + 20 * q.depth
    + q.kbps + 50 * q.channels + 10 * q.reliability

Steps == [rate |-> 80, depth |-> 4, kbps |-> 32, channels |-> 1]

\* It is better in something one can hear or prefers.
HasReason(old, new) ==
  \/ new.lossless /\ ~old.lossless
  \/ Rank(new.codec) > Rank(old.codec)
  \/ \E k \in DOMAIN Steps : new[k] - old[k] >= Steps[k]

MeetsPreferences(q) ==
  /\ q.lossless \/ q.kbps >= Profile.minimum.kbps
  /\ \A k \in {"rate", "depth", "channels", "reliability"} : q[k] >= Profile.minimum[k]

\* Fault: something better is enough.
MeaningfulInSomething(old, new, match) ==
  /\ HasReason(old, new)
  /\ MeetsPreferences(new)
  /\ new.reliability >= old.reliability
  /\ match >= Profile.minimum.match

Meaningful(old, new, match) ==
  /\ HasReason(old, new)
  /\ QualityScore(new) > QualityScore(old)
  /\ MeetsPreferences(new)
  /\ new.reliability >= old.reliability
  /\ match >= Profile.minimum.match

IsApproved(k, r) ==
  /\ cands[k].selected
  /\ cands[k].state \in {"auto_selected", "manual_selected"}
  /\ cands[k].release = r
  /\ cands[k].track = NoTrack

Upgrades(r, old, D) ==
  {k \in D : IsApproved(k, r) /\ Meaningful(old, cands[k].quality, cands[k].match)}

\* max() takes the first of the best.
Best(K) ==
  CHOOSE k \in K : \A j \in K :
    \/ QualityScore(cands[k].quality) > QualityScore(cands[j].quality)
    \/ QualityScore(cands[k].quality) = QualityScore(cands[j].quality) /\ k <= j

-----------------------------------------------------------------------------
(* Ends of tasks.                                                          *)

\* Fault: a task is left with a status monitoring_status does not know.
WatchedIdle == [status |-> "idle", cand |-> 0]

Watched == [status |-> "active", cand |-> 0]

Free(p) == p \in Callers /\ pc[p] = "idle"
Resting(p) == p \in Loops /\ pc[p] \in {"new", "sleeping"}

\* The task has nothing to do; a sleeping loop keeps its release.
Clears(p, loopToo) ==
  /\ due' = [due EXCEPT ![p] = Watched]
  /\ seen' = [seen EXCEPT ![p] = Unknown]
  /\ on' = IF p \in Callers \/ loopToo THEN [on EXCEPT ![p] = NoTask] ELSE on

\* An exception leaves the task: a loop removes its entry and is over.
Raises(p) ==
  /\ pc' = [pc EXCEPT ![p] = IF p \in Loops THEN "done" ELSE "idle"]
  /\ tasks' = IF p \in Loops THEN [tasks EXCEPT ![on[p]] = NoTask] ELSE tasks
  /\ Clears(p, TRUE)

Returns(p) ==
  /\ pc' = [pc EXCEPT ![p] = IF p \in Loops THEN "sleeping" ELSE "idle"]
  /\ Clears(p, FALSE)
  /\ UNCHANGED tasks

-----------------------------------------------------------------------------
(* A check.                                                                *)

\* Fault: a check begins without a look at the active ones.
BeginAnyway(p, r) ==
  /\ Free(p) \/ (Resting(p) /\ on[p] = r)
  /\ active' = active \cup {r}
  /\ pc' = [pc EXCEPT ![p] = "marking"]
  /\ on' = [on EXCEPT ![p] = r]
  /\ seen' = [seen EXCEPT ![p] = held[r]]
  /\ UNCHANGED <<cands, workflow, tasks, due, row, held, lock, spoiled>>

Begin(p, r) ==
  /\ Free(p) \/ (Resting(p) /\ on[p] = r)
  /\ r \notin active
  /\ active' = active \cup {r}
  /\ pc' = [pc EXCEPT ![p] = "marking"]
  /\ on' = [on EXCEPT ![p] = r]
  /\ seen' = [seen EXCEPT ![p] = held[r]]
  /\ UNCHANGED <<cands, workflow, tasks, due, row, held, lock, spoiled>>

\* MonitoringCheckAlreadyRunning; a caller's own check changes nothing.
Refused(p) ==
  /\ Resting(p)
  /\ on[p] \in active
  /\ Raises(p)
  /\ UNCHANGED <<cands, workflow, active, row, held, lock, spoiled>>

Mark(p) ==
  /\ pc[p] = "marking"
  /\ lock = NoTask
  /\ lock' = p
  /\ due' = [due EXCEPT ![p] = [row[on[p]] EXCEPT !.status = "checking"]]
  /\ pc' = [pc EXCEPT ![p] = "discovering"]
  /\ UNCHANGED <<cands, workflow, active, tasks, on, seen, row, held, spoiled>>

\* The flush before the try block: nothing takes the record out of the active ones.
LeavesActive(p) ==
  /\ pc[p] = "marking"
  /\ Raises(p)
  /\ spoiled' = spoiled \cup {on[p]}
  /\ UNCHANGED <<cands, workflow, active, row, held, lock>>

MarkFails(p) == (lock # NoTask \/ "mark" \in Faults) /\ LeavesActive(p)

Settle(p, status, k, next) ==
  /\ pc[p] = "discovering"
  /\ due' = [due EXCEPT ![p] = [status |-> status, cand |-> k]]
  /\ pc' = [pc EXCEPT ![p] = next]
  /\ UNCHANGED <<cands, workflow, active, tasks, on, seen, row, held, lock, spoiled>>

\* discover returns some of the candidates there are.
Discover(p) ==
  \E D \in SUBSET DOMAIN cands :
    IF Upgrades(on[p], seen[p], D) # {}
    THEN Settle(p, "candidate_found", Best(Upgrades(on[p], seen[p], D)), "closing")
    ELSE Settle(p, "active", due[p].cand, "closing")

DiscoverFails(p) ==
  /\ "discover" \in Faults
  /\ Settle(p, "failed", due[p].cand, "raising")

\* Fault: only a check that returns takes its record out of the active ones.
CloseInTurn(p) ==
  /\ lock' = NoTask
  /\ \/ /\ pc[p] = "closing"
        /\ active' = active \ {on[p]}
        /\ row' = [row EXCEPT ![on[p]] = due[p]]
        /\ Returns(p)
     \/ /\ pc[p] = "raising"
        /\ row' = row
        /\ Raises(p)
        /\ UNCHANGED active
  /\ UNCHANGED <<cands, workflow, held, spoiled>>

Close(p) ==
  /\ active' = active \ {on[p]}
  /\ lock' = NoTask
  /\ \/ /\ pc[p] = "closing"
        /\ row' = [row EXCEPT ![on[p]] = due[p]]
        /\ Returns(p)
     \/ /\ pc[p] = "raising"
        /\ row' \in {row, [row EXCEPT ![on[p]] = due[p]]}
        /\ Raises(p)
  /\ UNCHANGED <<cands, workflow, held, spoiled>>

\* The last flush comes before the discard of the active record.
KeepsActive(p) ==
  /\ pc[p] \in {"closing", "raising"}
  /\ Raises(p)
  /\ lock' = NoTask
  /\ spoiled' = spoiled \cup {on[p]}
  /\ UNCHANGED <<cands, workflow, active, row, held>>

CloseFails(p) == "close" \in Faults /\ KeepsActive(p)

-----------------------------------------------------------------------------
(* The scheduler.                                                          *)

\* Fault: a schedule replaces the one there is.
ScheduleAgain(l, r) ==
  /\ pc[l] = "unborn"
  /\ tasks' = [tasks EXCEPT ![r] = l]
  /\ pc' = [pc EXCEPT ![l] = "new"]
  /\ on' = [on EXCEPT ![l] = r]
  /\ UNCHANGED <<cands, workflow, active, seen, due, row, held, lock, spoiled>>

Schedule(l, r) ==
  /\ pc[l] = "unborn"
  /\ tasks[r] # NoTask => pc[tasks[r]] = "done"
  /\ tasks' = [tasks EXCEPT ![r] = l]
  /\ pc' = [pc EXCEPT ![l] = "new"]
  /\ on' = [on EXCEPT ![l] = r]
  /\ UNCHANGED <<cands, workflow, active, seen, due, row, held, lock, spoiled>>

\* CancelledError in a task: a loop that never ran does not run its finally block.
Interrupt(p) ==
  \/ /\ pc[p] = "new"
     /\ pc' = [pc EXCEPT ![p] = "done"]
     /\ Clears(p, TRUE)
     /\ UNCHANGED <<cands, workflow, active, tasks, row, held, lock, spoiled>>
  \/ /\ pc[p] = "sleeping"
     /\ Raises(p)
     /\ UNCHANGED <<cands, workflow, active, row, held, lock, spoiled>>
  \/ LeavesActive(p)
  \/ Settle(p, "active", due[p].cand, "raising")
  \/ KeepsActive(p)

\* MonitoringScheduler.cancel reaches the loop that is registered; a caller's
\* own task is cancelled with its request.
Cancel(r) == "cancel" \in Faults /\ tasks[r] # NoTask /\ Interrupt(tasks[r])
Disconnect(c) == "cancel" \in Faults /\ c \in Callers /\ Interrupt(c)

-----------------------------------------------------------------------------
(* An upgrade: the guards, then planning and importing over the old files.  *)

ApproveUpgrade(c, r) ==
  /\ Free(c)
  /\ row[r].cand # 0
  /\ row[r].cand \in Upgrades(r, held[r], DOMAIN cands)
  /\ pc' = [pc EXCEPT ![c] = "upgrading"]
  /\ on' = [on EXCEPT ![c] = r]
  /\ due' = [due EXCEPT ![c] = [status |-> "active", cand |-> row[r].cand]]
  /\ UNCHANGED <<cands, workflow, active, tasks, seen, row, held, lock, spoiled>>

\* The last flush writes the status alone.
Upgrade(c) ==
  /\ pc[c] = "upgrading"
  /\ lock = NoTask
  /\ held' = [held EXCEPT ![on[c]] = cands[due[c].cand].quality]
  /\ row' = [row EXCEPT ![on[c]].status = "active"]
  /\ Returns(c)
  /\ UNCHANGED <<cands, workflow, active, lock, spoiled>>

UpgradeFails(c) ==
  /\ pc[c] = "upgrading"
  /\ "import" \in Faults \/ lock # NoTask
  /\ Raises(c)
  /\ UNCHANGED <<cands, workflow, active, row, held, lock, spoiled>>

-----------------------------------------------------------------------------
(* Candidates.                                                             *)

Offer(o) ==
  /\ Len(cands) < MaxCandidates
  /\ cands' = Append(cands,
       [release |-> o.release, track |-> NoTrack, match |-> o.match, quality |-> o.quality,
        state |-> IF o.approved THEN "manual_selected" ELSE "rejected",
        selected |-> o.approved])
  /\ UNCHANGED workflow

Candidates ==
  /\ lock = NoTask
  /\ \/ \E t \in Tracks, es \in UNION {[1..n -> Evidences] : n \in 1..2} :
          ResolveReleaseMatch(t, es)
     \/ \E t \in Tracks, k \in DOMAIN cands : ManualSelect(t, k)
     \/ \E o \in Offers : Offer(o)
  /\ UNCHANGED <<active, tasks, taskVars, row, held, lock, spoiled>>

-----------------------------------------------------------------------------
Init ==
  /\ MatchInit
  /\ active = {}
  /\ tasks = [r \in Releases |-> NoTask]
  /\ pc = [p \in Tasks |-> IF p \in Loops THEN "unborn" ELSE "idle"]
  /\ on = [p \in Tasks |-> NoTask]
  /\ seen = [p \in Tasks |-> Unknown]
  /\ due = [p \in Tasks |-> Watched]
  /\ row = [r \in Releases |-> Watched]
  /\ held = [r \in Releases |-> Unknown]
  /\ lock = NoTask
  /\ spoiled = {}

CheckStep(p) ==
  \/ Mark(p) \/ MarkFails(p)
  \/ Discover(p) \/ DiscoverFails(p)
  \/ Close(p) \/ CloseFails(p)

Next ==
  \/ \E p \in Tasks : \/ \E r \in Releases : Begin(p, r)
                      \/ Refused(p)
                      \/ CheckStep(p)
  \/ \E l \in Loops, r \in Releases : Schedule(l, r)
  \/ \E r \in Releases : Cancel(r)
  \/ \E c \in Callers : \/ \E r \in Releases : ApproveUpgrade(c, r)
                        \/ Upgrade(c) \/ UpgradeFails(c)
                        \/ Disconnect(c)
  \/ Candidates

Spec == Init /\ [][Next]_vars

-----------------------------------------------------------------------------
(* Properties.                                                             *)

Checking == {"marking", "discovering", "closing", "raising"}
Live == {"new", "sleeping"} \cup Checking

Statuses == {"active", "checking", "candidate_found", "failed"}
MonitoringRow == [status : Statuses, cand : 0..MaxCandidates]

\* The shape of the state.
TypeOK ==
  /\ active \subseteq Releases
  /\ spoiled \subseteq Releases
  /\ tasks \in [Releases -> Loops \cup {NoTask}]
  /\ pc \in [Tasks -> Live \cup {"unborn", "done", "idle", "upgrading"}]
  /\ on \in [Tasks -> Releases \cup {NoTask}]
  /\ due \in [Tasks -> MonitoringRow]
  /\ row \in [Releases -> MonitoringRow]
  /\ lock \in Tasks \cup {NoTask}
  /\ DOMAIN held = Releases
  /\ DOMAIN seen = Tasks
  /\ Len(cands) <= MaxCandidates

\* Two checks of one release never overlap, whoever began them: not two loops,
\* not a loop and a caller, not after a failure of either.
ChecksDoNotOverlap ==
  \A p, q \in Tasks :
    pc[p] \in Checking /\ pc[q] \in Checking /\ on[p] = on[q] => p = q

\* A release is barred from further checks only while a check of it is under way,
\* or for ever after a flush outside the try block of a check failed: no other
\* failure, cancellation or refusal leaves it in the set of active checks.
BarredOnlyByAFlush ==
  \A r \in active :
    r \in spoiled \/ \E p \in Tasks : pc[p] \in Checking /\ on[p] = r

\* Every loop that is not over is the one registered for its release, so that
\* cancelling the schedule of a release reaches all there is of it.
LoopsAreCancellable ==
  \A l \in Loops : pc[l] \in Live => tasks[on[l]] = l

\* An upgrade never makes a release worse: whatever the order of checks, reviews,
\* offers and upgrades, its score rises and its source is no less reliable, so
\* that no sequence of upgrades comes back to a quality it had before.
UpgradesClimb ==
  [][\A r \in Releases : held'[r] # held[r] =>
       /\ QualityScore(held'[r]) > QualityScore(held[r])
       /\ held'[r].reliability >= held[r].reliability]_held
=============================================================================
