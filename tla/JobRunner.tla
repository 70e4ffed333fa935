------------------------------ MODULE JobRunner ------------------------------
(***************************************************************************)
(* Download jobs (app/jobs/runner.py, routers/jobs.py, routers/catalog.py,  *)
(* http.py, sources/*.py): from the request that creates them to their      *)
(* verdict.                                                                *)
(*                                                                         *)
(* A request commits its jobs as pending and leaves a background task for  *)
(* each, run one after the other.  A task has a database session of its    *)
(* own: its first flush takes the SQLite write lock, its last commit gives *)
(* it back, and all searches, downloads and transfers are in between.      *)
(* What is fetched meanwhile does not go away with the transaction.        *)
(***************************************************************************)
EXTENDS Naturals, Sequences, FiniteSets

CONSTANTS
    Jobs,
    Media,     \* what the sources can deliver: videos, files of peers, NZBs
    Catalog,   \* tracks of the catalog albums
    Batches,   \* the jobs one request schedules, in order
    Asks,      \* source, selected result, catalog album and track of each job
    Enabled,   \* settings: the enabled sources, by priority
    Offers,    \* the lists of results each source may answer with
    Faults,    \* "flush", "cancel", "crash", "lost" (answers of an enqueue)
    None

Sources == {"slskd", "prowlarr", "youtube", "tidal"}

(* A search result is a medium and the catalog track of the same title.    *)
Result == [media : Media, title : Catalog \cup {None}]

Ask == [source : Sources \cup {"priority"}, selected : Result \cup {None},
        album : Seq(Catalog), track : Catalog \cup {None}]

BatchOf(j) == CHOOSE b \in Batches : \E i \in DOMAIN b : b[i] = j

(* Every job is in one batch, once, and a track once in its album.  Who    *)
(* selects a result names its source.  An empty answer is no offer.        *)
ASSUME JobAssumption ==
    /\ Batches \subseteq Seq(Jobs)
    /\ \A j \in Jobs : \E b \in Batches : \E i \in DOMAIN b : b[i] = j
    /\ \A a, b \in Batches : \A i \in DOMAIN a, k \in DOMAIN b :
          a[i] = b[k] => a = b /\ i = k
    /\ Asks \in [Jobs -> Ask]
    /\ \A j \in Jobs : \A i, k \in DOMAIN Asks[j].album :
          Asks[j].album[i] = Asks[j].album[k] => i = k
    /\ \A j \in Jobs : Asks[j].selected # None => Asks[j].source # "priority"
    /\ Enabled \in Seq(Sources)
    /\ Offers \in [Sources -> SUBSET (Seq(Result) \ {<<>>})]
    /\ None \notin Jobs \cup Media \cup Catalog \cup Result \cup Sources

VARIABLES
    db,      \* the committed jobs, each with its tracks
    row,     \* the job and tracks as the session of its task has them
    lock,    \* the job whose session is inside a write transaction
    pc,      \* where the task of each job is
    found,   \* results
    at,      \* position in the priority, then in the results
    created, \* tracks_created
    bad,     \* number of failures
    staged,  \* media in the staging area, with the job that put them there
    queued   \* transfers accepted by slskd or SABnzbd

progress == <<found, at, created, bad>>
outside  == <<staged, queued>>
vars     == <<db, row, lock, pc, found, at, created, bad, staged, queued>>

Verdicts == {"done", "partial", "failed", "cancelled"}
Final == {"ended", "raised", "lost"}
Running == {"search", "track", "acquire", "enqueue", "check", "preview", "flush"}
Steps == {"absent", "queued"} \cup Running \cup Final

Track == [of : Catalog \cup {None}, media : Media,
          state : {"acquiring", "downloaded", "failed", "cancelled"},
          ref : Media \cup {None}]

(* result_json: the sources attempted, the one that served, the missing    *)
(* tracks.  An error takes the place of all of them.                       *)
Job == [status : {"pending", "running"} \cup Verdicts,
        source : Sources \cup {"priority"},
        tried : Seq(Sources), served : Sources \cup {None},
        missing : SUBSET Catalog, tracks : Seq(Track)]

ASSUME NoneAssumption == None \notin Job

NewJob(j) == [status |-> "pending", source |-> Asks[j].source, tried |-> <<>>,
              served |-> None, missing |-> {}, tracks |-> <<>>]

(* The jobs scheduled with j, up to j and from j on.                       *)
UpTo(j)   == {BatchOf(j)[i] : i \in {k \in DOMAIN BatchOf(j) :
                \E n \in DOMAIN BatchOf(j) : k <= n /\ BatchOf(j)[n] = j}}
FromOn(j) == {BatchOf(j)[i] : i \in {k \in DOMAIN BatchOf(j) :
                \E n \in DOMAIN BatchOf(j) : n <= k /\ BatchOf(j)[n] = j}}

Goto(j, step) == pc' = [pc EXCEPT ![j] = step]

Last(j) == Len(row[j].tracks)
Album(j) == Asks[j].album
AlbumTracks(j) == {Album(j)[i] : i \in DOMAIN Album(j)}

-----------------------------------------------------------------------------
(* Creation and start.                                                     *)

(* The request commits its jobs; the tasks run after the response.         *)
Create(b) ==
    /\ lock = None
    /\ \A i \in DOMAIN b : pc[b[i]] = "absent"
    /\ db' = [j \in Jobs |-> IF \E i \in DOMAIN b : b[i] = j THEN NewJob(j) ELSE db[j]]
    /\ pc' = [j \in Jobs |-> IF \E i \in DOMAIN b : b[i] = j THEN "queued" ELSE pc[j]]
    /\ UNCHANGED <<row, lock, progress, outside>>

(* The tasks before it in its batch have returned.                         *)
Due(j) == /\ pc[j] = "queued"
          /\ \A k \in UpTo(j) \ {j} : pc[k] = "ended"

(* Plausible bug: running is committed, to show it, and the lock taken     *)
(* anew.                                                                   *)
StartCommits(j) ==
    /\ Due(j)
    /\ lock = None
    /\ lock' = j
    /\ db' = [db EXCEPT ![j].status = "running"]
    /\ row' = [row EXCEPT ![j] = db'[j]]
    /\ IF Asks[j].selected = None
       THEN Goto(j, "search") /\ UNCHANGED found
       ELSE Goto(j, "track") /\ found' = [found EXCEPT ![j] = <<Asks[j].selected>>]
    /\ UNCHANGED <<at, created, bad, outside>>

(* The job is running for its own session only.  A result the user has     *)
(* selected is not searched for.                                           *)
Start(j) ==
    /\ Due(j)
    /\ lock = None
    /\ lock' = j
    /\ row' = [row EXCEPT ![j] = [db[j] EXCEPT !.status = "running"]]
    /\ IF Asks[j].selected = None
       THEN Goto(j, "search") /\ UNCHANGED found
       ELSE Goto(j, "track") /\ found' = [found EXCEPT ![j] = <<Asks[j].selected>>]
    /\ UNCHANGED <<db, at, created, bad, outside>>

(* The task is over: its session and its locals are gone.                  *)
Forget(js) ==
    /\ row' = [j \in Jobs |-> IF j \in js THEN NewJob(j) ELSE row[j]]
    /\ found' = [j \in Jobs |-> IF j \in js THEN <<>> ELSE found[j]]
    /\ at' = [j \in Jobs |-> IF j \in js THEN 1 ELSE at[j]]
    /\ created' = [j \in Jobs |-> IF j \in js THEN 0 ELSE created[j]]
    /\ bad' = [j \in Jobs |-> IF j \in js THEN 0 ELSE bad[j]]

(* An exception leaves run_job: the session is rolled back, and Starlette  *)
(* drops the tasks left in the batch.                                      *)
Raises(j) ==
    /\ pc' = [k \in Jobs |-> IF k \in FromOn(j) THEN "raised" ELSE pc[k]]
    /\ lock' = IF lock = j THEN None ELSE lock
    /\ Forget({j})

(* The first flush is outside the try block; SQLite waits five seconds for *)
(* the write lock of another task.                                         *)
StartFails(j) ==
    /\ Due(j)
    /\ lock # None \/ Faults \cap {"flush", "cancel"} # {}
    /\ Raises(j)
    /\ UNCHANGED <<db, outside>>

-----------------------------------------------------------------------------
(* _fetch_results: the sources in turn.                                    *)

Priority(j) == IF Asks[j].source # "priority" THEN <<Asks[j].source>>
               ELSE IF Enabled = <<>> THEN <<"slskd">> ELSE Enabled

Trying(j) == pc[j] = "search" /\ at[j] <= Len(Priority(j))

(* Plausible bug: a source that is passed over is not noted.               *)
PassesOverSilently(j) ==
    /\ Trying(j)
    /\ at' = [at EXCEPT ![j] = @ + 1]
    /\ UNCHANGED <<db, row, lock, pc, found, created, bad, outside>>

(* The source is unhealthy, answers with nothing, or raises.               *)
PassesOver(j) ==
    /\ Trying(j)
    /\ row' = [row EXCEPT ![j] = [row[j] EXCEPT !.tried = Append(@, Priority(j)[at[j]])]]
    /\ at' = [at EXCEPT ![j] = @ + 1]
    /\ UNCHANGED <<db, lock, pc, found, created, bad, outside>>

Serves(j) ==
    /\ Trying(j)
    /\ LET source == Priority(j)[at[j]] IN
       /\ found' \in {[found EXCEPT ![j] = offer] : offer \in Offers[source]}
       /\ row' = [row EXCEPT ![j] = [row[j] EXCEPT !.tried = Append(@, source),
                                            !.source = source,
                                            !.served = source]]
    /\ at' = [at EXCEPT ![j] = 1]
    /\ Goto(j, "track")
    /\ UNCHANGED <<db, lock, created, bad, outside>>

(* sources_exhausted: the error takes the place of the attempts.           *)
Exhausted(j) ==
    /\ pc[j] = "search"
    /\ at[j] > Len(Priority(j))
    /\ row' = [row EXCEPT ![j] = [row[j] EXCEPT !.status = "failed", !.tried = <<>>, !.served = None]]
    /\ Goto(j, "flush")
    /\ UNCHANGED <<db, lock, progress, outside>>

-----------------------------------------------------------------------------
(* One result after the other becomes a track.                             *)

Current(j) == found[j][at[j]]

(* _catalog_track_for_result: the track asked for, else the one of the     *)
(* same title, else the one at the same position.                          *)
CatalogTrack(j) ==
    IF Asks[j].track # None
    THEN IF Asks[j].track \in AlbumTracks(j) THEN Asks[j].track ELSE None
    ELSE IF Current(j).title \in AlbumTracks(j) THEN Current(j).title
    ELSE IF at[j] \in DOMAIN Album(j) THEN Album(j)[at[j]] ELSE None

NewTrack(j) ==
    /\ pc[j] = "track"
    /\ at[j] <= Len(found[j])
    /\ LET track == [of |-> CatalogTrack(j), media |-> Current(j).media,
                     state |-> "acquiring", ref |-> None]
       IN row' = [row EXCEPT ![j] = [row[j] EXCEPT !.tracks = Append(@, track)]]
    /\ Goto(j, IF row[j].source \in {"youtube", "tidal"} THEN "acquire" ELSE "enqueue")
    /\ UNCHANGED <<db, lock, found, at, created, bad, outside>>

(* The track being acquired, with another state or reference.              *)
WithState(r, state) ==
    LET n == Len(r.tracks) IN
    [r EXCEPT !.tracks = [r.tracks EXCEPT ![n] = [r.tracks[n] EXCEPT !.state = state]]]
WithRef(r, ref) ==
    LET n == Len(r.tracks) IN
    [r EXCEPT !.tracks = [r.tracks EXCEPT ![n] = [r.tracks[n] EXCEPT !.ref = ref]]]

(* Plausible bug: the same result is tried again.                          *)
FailTrackAgain(j) ==
    /\ row' = [row EXCEPT ![j] = WithState(row[j], "failed")]
    /\ bad' = [bad EXCEPT ![j] = @ + 1]
    /\ UNCHANGED at
    /\ Goto(j, "track")

(* The track fails, the job goes on with the next result.                  *)
FailTrack(j) ==
    /\ row' = [row EXCEPT ![j] = WithState(row[j], "failed")]
    /\ bad' = [bad EXCEPT ![j] = @ + 1]
    /\ at' = [at EXCEPT ![j] = @ + 1]
    /\ Goto(j, "track")

(* YouTube and TIDAL: refused, timed out, or the staging directory of this *)
(* medium exists already.                                                  *)
DownloadFails(j) ==
    /\ pc[j] = "acquire"
    /\ FailTrack(j)
    /\ UNCHANGED <<db, lock, found, created, outside>>

(* The download is renamed to its place, with no await after it.           *)
Download(j) ==
    /\ pc[j] = "acquire"
    /\ \A f \in staged : f.media # Current(j).media
    /\ staged' = staged \cup {[media |-> Current(j).media, job |-> j]}
    /\ row' = [row EXCEPT ![j] = WithRef(WithState(row[j], "downloaded"), Current(j).media)]
    /\ Goto(j, "preview")
    /\ UNCHANGED <<db, lock, progress, queued>>

(* slskd and SABnzbd accept the transfer; request_with_retry may have sent *)
(* it up to three times, which counts as one here.                         *)
Accepted(j) == queued' = queued \cup {[job |-> j, nth |-> Last(j)]}

(* An invalid result, an untrusted URL, a refusal, or no answer to any of  *)
(* the requests, although one may have been accepted.                      *)
EnqueueFails(j) ==
    /\ pc[j] = "enqueue"
    /\ \/ UNCHANGED queued
       \/ "lost" \in Faults /\ Accepted(j)
    /\ FailTrack(j)
    /\ UNCHANGED <<db, lock, found, created, staged>>

Enqueue(j) ==
    /\ pc[j] = "enqueue"
    /\ Accepted(j)
    /\ IF row[j].source = "slskd"
       THEN /\ row' = [row EXCEPT ![j] = WithRef(row[j], Current(j).media)]
            /\ Goto(j, "preview")
       ELSE Goto(j, "check") /\ UNCHANGED row
    /\ UNCHANGED <<db, lock, progress, staged>>

(* SABnzbd is asked for the job it has just accepted; if it does not know  *)
(* it yet the track fails, and the number of the job is forgotten.         *)
StatusKnown(j) ==
    /\ pc[j] = "check"
    /\ row' = [row EXCEPT ![j] = WithRef(row[j], Current(j).media)]
    /\ Goto(j, "preview")
    /\ UNCHANGED <<db, lock, progress, outside>>

(* Plausible bug: what SABnzbd does not know is enqueued again.            *)
StatusUnknownAgain(j) ==
    /\ pc[j] = "check"
    /\ Goto(j, "enqueue")
    /\ UNCHANGED <<db, row, lock, progress, outside>>

StatusUnknown(j) ==
    /\ pc[j] = "check"
    /\ FailTrack(j)
    /\ UNCHANGED <<db, lock, found, created, outside>>

(* Enrichment never fails a track; the path preview completes it.          *)
Preview(j) ==
    /\ pc[j] = "preview"
    /\ created' = [created EXCEPT ![j] = @ + 1]
    /\ at' = [at EXCEPT ![j] = @ + 1]
    /\ Goto(j, "track")
    /\ UNCHANGED <<db, row, lock, found, bad, outside>>

(* A fingerprint or a path cannot be made: the track has failed, although  *)
(* its file is staged.                                                     *)
PreviewFails(j) ==
    /\ pc[j] = "preview"
    /\ FailTrack(j)
    /\ UNCHANGED <<db, lock, found, created, outside>>

-----------------------------------------------------------------------------
(* The verdict and the end of the transaction.                             *)

Acquired(j) == {row[j].tracks[i].of : i \in DOMAIN row[j].tracks}

(* Plausible bug: failures do not count once there is a track per result.  *)
DecideByCount(j) ==
    /\ pc[j] = "track"
    /\ at[j] > Len(found[j])
    /\ row' = [row EXCEPT ![j].status =
                  CASE created[j] = 0 -> "failed"
                    [] created[j] < Len(Album(j)) -> "partial"
                    [] OTHER -> "done"]
    /\ Goto(j, "flush")
    /\ UNCHANGED <<db, lock, progress, outside>>

Decide(j) ==
    /\ pc[j] = "track"
    /\ at[j] > Len(found[j])
    /\ \/ /\ bad[j] > 0
          /\ row' = [row EXCEPT ![j] = [row[j] EXCEPT
                        !.status = IF created[j] > 0 THEN "partial" ELSE "failed"]]
       \/ /\ bad[j] = 0
          /\ created[j] < Len(Album(j))
          /\ row' = [row EXCEPT ![j] = [row[j] EXCEPT
                        !.status = "partial", !.missing = AlbumTracks(j) \ Acquired(j)]]
       \/ /\ bad[j] = 0
          /\ created[j] >= Len(Album(j))
          /\ row' = [row EXCEPT ![j] = [row[j] EXCEPT !.status = "done"]]
    /\ Goto(j, "flush")
    /\ UNCHANGED <<db, lock, progress, outside>>

(* A cancelled task is committed too, and cancels the rest of its batch.   *)
Commit(j) ==
    /\ pc[j] = "flush"
    /\ db' = [db EXCEPT ![j] = row[j]]
    /\ lock' = None
    /\ Forget({j})
    /\ pc' = [k \in Jobs |->
                 IF k = j THEN "ended"
                 ELSE IF k \in FromOn(j) /\ row[j].status = "cancelled" THEN "raised"
                 ELSE pc[k]]
    /\ UNCHANGED outside

-----------------------------------------------------------------------------
(* What may happen on the way.                                             *)

(* A flush or the commit fails, or the task is cancelled while it waits    *)
(* for the database.  The session is of no use from then on: the results   *)
(* left fail before anything is fetched for them, and the last flush       *)
(* raises.                                                                 *)
LosesSession(j) ==
    /\ Faults \cap {"flush", "cancel"} # {}
    /\ pc[j] \in {"search", "track", "preview", "flush"}
    /\ Raises(j)
    /\ UNCHANGED <<db, outside>>

(* Plausible bug: a cancelled job starts from a clean session.             *)
CancelForgets(j) ==
    /\ "cancel" \in Faults
    /\ pc[j] \in {"search", "acquire", "enqueue", "check", "preview"}
    /\ row' = [row EXCEPT ![j] = [db[j] EXCEPT !.status = "cancelled"]]
    /\ Goto(j, "flush")
    /\ UNCHANGED <<db, lock, progress, outside>>

(* The error takes the place of the attempts; tracks in flight are given   *)
(* up, downloaded ones are kept.                                           *)
Cancelled(r) ==
    LET fate(t) == IF t.state = "acquiring" THEN [t EXCEPT !.state = "cancelled"] ELSE t IN
    [r EXCEPT !.status = "cancelled", !.tried = <<>>, !.served = None,
              !.tracks = [i \in DOMAIN r.tracks |-> fate(r.tracks[i])]]

(* Cancelled while it waits for a source or a service.  The request under  *)
(* way may have been accepted.                                             *)
Cancel(j) ==
    /\ "cancel" \in Faults
    /\ pc[j] \in {"search", "acquire", "enqueue", "check", "preview"}
    /\ \/ UNCHANGED queued
       \/ pc[j] = "enqueue" /\ Accepted(j)
    /\ row' = [row EXCEPT ![j] = Cancelled(row[j])]
    /\ Goto(j, "flush")
    /\ UNCHANGED <<db, lock, progress, staged>>

(* The process dies and is started again: nothing looks for pending jobs.  *)
Crash ==
    /\ "crash" \in Faults
    /\ \E j \in Jobs : pc[j] \in Running
    /\ pc' = [j \in Jobs |-> IF pc[j] \in {"queued"} \cup Running THEN "lost" ELSE pc[j]]
    /\ lock' = None
    /\ Forget(Jobs)
    /\ UNCHANGED <<db, outside>>

-----------------------------------------------------------------------------
Init ==
    /\ db = [j \in Jobs |-> None]
    /\ row = [j \in Jobs |-> NewJob(j)]
    /\ lock = None
    /\ pc = [j \in Jobs |-> "absent"]
    /\ found = [j \in Jobs |-> <<>>]
    /\ at = [j \in Jobs |-> 1]
    /\ created = [j \in Jobs |-> 0]
    /\ bad = [j \in Jobs |-> 0]
    /\ staged = {}
    /\ queued = {}

(* The task goes on by itself, with whatever the services answer.          *)
Proceed(j) ==
    \/ Start(j) \/ StartFails(j)
    \/ PassesOver(j) \/ Serves(j) \/ Exhausted(j)
    \/ NewTrack(j) \/ Download(j) \/ DownloadFails(j)
    \/ Enqueue(j) \/ EnqueueFails(j)
    \/ StatusKnown(j) \/ StatusUnknown(j) \/ Preview(j) \/ PreviewFails(j)
    \/ Decide(j) \/ Commit(j)

(* Nothing is left to do: a legitimate end.                                *)
Rest == (\A j \in Jobs : pc[j] \in Final) /\ UNCHANGED vars

Next ==
    \/ \E b \in Batches : Create(b)
    \/ \E j \in Jobs : Proceed(j) \/ LosesSession(j) \/ Cancel(j)
    \/ Crash
    \/ Rest

Spec == Init /\ [][Next]_vars

(* Every await of a task returns: calls of sources and services have time  *)
(* limits, SQLite gives up after five seconds.                             *)
FairSpec == Spec /\ \A j \in Jobs : WF_vars(Proceed(j))

-----------------------------------------------------------------------------
(* Types.                                                                  *)

(* Every variable has the type of its column or Python object, and a task  *)
(* that fetches has a track to fetch for, at a position in its results.    *)
TypeOK ==
    /\ db \in [Jobs -> Job \cup {None}]
    /\ row \in [Jobs -> Job]
    /\ lock \in Jobs \cup {None}
    /\ pc \in [Jobs -> Steps]
    /\ found \in [Jobs -> Seq(Result)]
    /\ at \in [Jobs -> Nat \ {0}]
    /\ created \in [Jobs -> Nat]
    /\ bad \in [Jobs -> Nat]
    /\ staged \subseteq [media : Media, job : Jobs]
    /\ queued \subseteq [job : Jobs, nth : Nat \ {0}]
    /\ \A j \in Jobs : pc[j] \in {"acquire", "enqueue", "check", "preview"} =>
          Last(j) = at[j] /\ at[j] \in DOMAIN found[j]

-----------------------------------------------------------------------------
(* Safety.                                                                 *)

Live(r) == {i \in DOMAIN r.tracks : r.tracks[i].state \in {"acquiring", "downloaded"}}

(* A verdict fits the tracks it is committed with: done leaves no track    *)
(* that failed, failed none that could still come, partial has both or     *)
(* names what is missing, cancelled leaves none in flight; what is not     *)
(* decided has no tracks yet.                                              *)
Fits(j, r) ==
    CASE r.status = "pending"   -> r.tracks = <<>>
      [] r.status = "done"      -> /\ Live(r) = DOMAIN r.tracks
                                   /\ Len(r.tracks) >= Len(Album(j))
                                   /\ r.tracks # <<>>
      [] r.status = "partial"   -> /\ Live(r) # {}
                                   /\ Live(r) # DOMAIN r.tracks \/ r.missing # {}
      [] r.status = "failed"    -> Live(r) = {}
      [] r.status = "cancelled" -> \A i \in Live(r) : r.tracks[i].state = "downloaded"
      [] OTHER                  -> FALSE

VerdictFits == \A j \in Jobs : db[j] # None => Fits(j, db[j])

(* The source recorded as serving is the one the tracks come from, and the *)
(* sources attempted are those before it in the priority, all of them.     *)
ServedInTurn ==
    \A j \in Jobs : db[j] # None /\ db[j].served # None =>
        /\ db[j].source = db[j].served
        /\ Len(db[j].tried) \in DOMAIN Priority(j)
        /\ db[j].tried = SubSeq(Priority(j), 1, Len(db[j].tried))
        /\ db[j].tried[Len(db[j].tried)] = db[j].served

(* What a task that has ended, by itself or cancelled, has fetched is      *)
(* known to the database: a staged file is named by a track, and a         *)
(* transfer belongs to one.                                                *)
Named(f) == db[f.job] # None /\ \E i \in DOMAIN db[f.job].tracks :
                                     db[f.job].tracks[i].ref = f.media

FetchedIsRecorded ==
    /\ \A f \in staged : pc[f.job] = "ended" => Named(f)
    /\ \A t \in queued : pc[t.job] = "ended" => t.nth \in DOMAIN db[t.job].tracks

-----------------------------------------------------------------------------
(* Steps.                                                                  *)

(* To everyone else a job is pending until, in one step, it has its        *)
(* verdict and all its tracks; a verdict is never taken back.              *)
OneVerdict ==
    [][\A j \in Jobs : db'[j] # db[j] =>
          \/ db[j] = None /\ db'[j].status = "pending"
          \/ db[j] # None /\ db[j].status = "pending" /\ db'[j].status \in Verdicts]_vars

-----------------------------------------------------------------------------
(* Liveness.                                                               *)

(* Every scheduled job comes to an end and leaves the write lock.          *)
JobsEnd == \A j \in Jobs : pc[j] = "queued" ~> pc[j] \in Final /\ lock # j

-----------------------------------------------------------------------------
(* What documents of the repository say and the code does not do.          *)

(* docs/plans/2026-07-16-v0.1.0-foundation.md:264, "Each step catches      *)
(* exceptions, logs, and marks job `failed` without crashing the runner":  *)
(* when an exception ends the task of a job, the job is found failed.      *)
ExceptionsFailTheJob == \A j \in Jobs : pc[j] = "raised" => db[j].status = "failed"

(* CHANGELOG.md:45, "Catalog and free-text downloads use shared source-    *)
(* priority fallback and record attempted-to-served provenance", and the    *)
(* test of _fetch_results that finds the attempts of exhausted sources in   *)
(* result_json: a job that failed for want of results names the sources it *)
(* has asked.                                                              *)
AttemptsAreRecorded ==
    \A j \in Jobs : db[j] # None /\ db[j].status = "failed" /\ db[j].tracks = <<>>
                       => db[j].tried = Priority(j)

=============================================================================
