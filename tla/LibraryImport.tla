---------------------------- MODULE LibraryImport ----------------------------
(***************************************************************************)
(* Verified import of staged releases into the music library              *)
(* (app/services/library_import.py, pinned_destination.py, database.py,   *)
(* routers/imports.py) and the verified replacement of monitored releases *)
(* (monitoring.py: execute_quality_upgrade).                              *)
(*                                                                         *)
(* A request plans a release or executes its plans.  Executing holds the  *)
(* SQLite write lock from its first flush to the commit or rollback and   *)
(* copies, tags and renames one file after the other into the library.    *)
(* The database change is transactional; the file operations are undone   *)
(* by hand, by the except branch of execute_release_import or by the      *)
(* after-rollback callback of the session.                                *)
(*                                                                         *)
(* Between two awaits a request runs alone on the event loop (Alone), but  *)
(* the process may die, and other programs may touch the library, between *)
(* any two file operations.                                               *)
(***************************************************************************)
EXTENDS Naturals, Sequences

CONSTANTS
    Releases,  \* releases known to the database
    Tracks,    \* tracks of those releases
    Dests,     \* destination paths below the library root
    Bytes,     \* audio payloads, up to SHA-256 equality
    Sessions,  \* concurrent requests, each with a database session
    Order,     \* the tracks of each release, by (track_no, id)
    DestOf,    \* render_path of each track, per naming template
    Prior,     \* files the library may hold before the first import
    Arrives,   \* what the job or the upgrade candidate stages for each track
    Alien,     \* bytes written by another program
    Kinds,     \* requests: "import" (routers/imports.py), "upgrade" (monitoring.py)
    Faults,    \* what may go wrong: names of steps that may raise, and of events
    None

(* A file is its audio payload and the track whose tags it carries.        *)
Content == [bytes : Bytes, tag : Tracks \cup {None}]

WorkflowStates == {"discovered", "needs_review", "ready", "importing",
                   "imported", "failed", "rolled_back"}

TracksOf(r) == {Order[r][i] : i \in DOMAIN Order[r]}

(* Every track belongs to one release, once; releases have tracks.         *)
ASSUME ImportAssumption ==
    /\ Order \in [Releases -> Seq(Tracks)]
    /\ \A r \in Releases : Order[r] # <<>>
    /\ \A r \in Releases : \A i, j \in DOMAIN Order[r] :
          Order[r][i] = Order[r][j] => i = j
    /\ \A q, r \in Releases : q # r => TracksOf(q) \cap TracksOf(r) = {}
    /\ DestOf \in [{"settings", "default"} -> [Tracks -> Dests]]
    /\ Prior \subseteq Content
    /\ Arrives \in [{"job", "candidate"} -> [Tracks -> Content]]
    /\ Alien \in Content
    /\ Kinds \subseteq {"import", "upgrade"}
    /\ None \notin Content
    /\ None \notin Sessions
    /\ None \notin Releases
    /\ None \notin WorkflowStates

VARIABLES
    lib,     \* the file at each destination path
    staged,  \* the staged source file of each track, from job and candidate
    stray,   \* hidden temporary and backup files no request owns any more
    db,      \* the committed database
    txn,     \* the database as the holder of the write lock sees it
    lock,    \* the session inside a write transaction
    pc,      \* where each request is
    rel,     \* the release it works on
    mode,    \* how it got its plans; an "upgrade" replaces existing files
    want,    \* Track.content_sha256 as the request loaded it
    idx,     \* position of the plan being imported
    tmp,     \* the temporary copy in the destination directory
    made,    \* created_destinations
    kept     \* backup_paths: the backup taken for each track

files   == <<lib, staged, stray>>
store   == <<db, txn, lock>>
request == <<rel, mode, want, idx>>
session == <<pc, rel, mode, want, idx, tmp, made, kept>>
vars    == <<lib, staged, stray, db, txn, lock,
             pc, rel, mode, want, idx, tmp, made, kept>>

Database == [plan  : [Tracks -> WorkflowStates \cup {None}],
             rel   : [Releases -> WorkflowStates],
             track : [Tracks -> WorkflowStates],
             hash  : [Tracks -> Content \cup {None}],
             dest  : [Tracks -> Dests \cup {None}]]

(* Steps of the import loop and of the filesystem rollback: no await in    *)
(* between, so no other request runs while one is inside.                  *)
LoopSteps == {"pin", "copy", "verify", "tag", "check", "link", "unlink",
              "rename", "fsync", "record"}
UndoSteps == {"undo_tmp", "undo_made", "undo_kept"}
AwaitSteps == {"loaded", "unplanned", "flush", "commit", "committed",
               "rolled_back", "undone", "raised"}
Steps == {"idle"} \cup LoopSteps \cup UndoSteps \cup AwaitSteps

Alone(s) == \A o \in Sessions \ {s} : pc[o] \notin LoopSteps \cup UndoSteps
LoopFree == \A o \in Sessions : pc[o] \notin LoopSteps \cup UndoSteps

(* Plans made on the way to an execution ignore the configured template.   *)
Modes == {"planned", "unplanned", "upgrade"}
Source(m) == IF m = "upgrade" THEN "candidate" ELSE "job"
Target(m, t) == DestOf[IF m = "planned" THEN "settings" ELSE "default"][t]

Cur(s)  == Order[rel[s]][idx[s]]
Dest(s) == Target(mode[s], Cur(s))
Tagged(t, c) == [c EXCEPT !.tag = t]
NoTracks == [t \in Tracks |-> None]

(* pinned.exists()                                                         *)
Exists(s) == lib[Dest(s)] # None

(* The hidden files of a request beside the library files; the content of  *)
(* a temporary is of no use to anyone.                                     *)
Backup(s, t) == [kind |-> "backup", at |-> Target(mode[s], t), file |-> kept[s][t]]
Backups(s) == {Backup(s, t) : t \in {u \in Tracks : kept[s][u] # None}}
Temps(s) == IF tmp[s] = None THEN {}
            ELSE {[kind |-> "temp", at |-> Dest(s), file |-> None]}

(* Request s is at a step and no other request occupies the event loop.    *)
At(s, step) == pc[s] = step /\ Alone(s)

Goto(s, step) == pc' = [pc EXCEPT ![s] = step]

-----------------------------------------------------------------------------
(* Planning: plan_release_import.                                          *)

Earlier(r, t) == {Order[r][i] : i \in {j \in DOMAIN Order[r] :
                     \E k \in DOMAIN Order[r] : j < k /\ Order[r][k] = t}}

(* Hashes the duplicate query sees: autoflush has already written those of *)
(* the tracks planned before t.                                            *)
Staged(m, t) == staged[Source(m)][t]
HashSeen(m, r, t, u) == IF u \in Earlier(r, t) THEN Staged(m, u) ELSE db.hash[u]

Readable(m, t) == /\ Staged(m, t) # None
                  /\ m = "upgrade" => Staged(m, t) = Arrives["candidate"][t]
Occupied(m, t) == lib[Target(m, t)] # None
Repeated(m, r, t) == \E u \in Tracks \ {t} : HashSeen(m, r, t, u) = Staged(m, t)

(* A clear plan is ready; every collision or error needs review.           *)
Clear(m, r, t) == Readable(m, t) /\ ~Occupied(m, t) /\ ~Repeated(m, r, t)

(* The one collision execute_quality_upgrade accepts: other bytes there.   *)
Replaceable(m, t) == /\ Readable(m, t)
                     /\ Occupied(m, t)
                     /\ lib[Target(m, t)] # Staged(m, t)

AllClear(m, r) == \A t \in TracksOf(r) : Clear(m, r, t)

(* The database after planning r from the sources of mode m.               *)
Planned(m, r) ==
    LET outcome(t) == IF Clear(m, r, t) THEN "ready" ELSE "needs_review" IN
    [plan  |-> [t \in Tracks |-> IF t \in TracksOf(r) THEN outcome(t) ELSE db.plan[t]],
     rel   |-> [db.rel EXCEPT ![r] = IF AllClear(m, r) THEN "ready" ELSE "needs_review"],
     track |-> [t \in Tracks |-> IF t \in TracksOf(r) THEN outcome(t) ELSE db.track[t]],
     hash  |-> [t \in Tracks |-> IF t \in TracksOf(r) THEN Staged(m, t) ELSE db.hash[t]],
     dest  |-> [t \in Tracks |-> IF t \in TracksOf(r) THEN Target(m, t) ELSE db.dest[t]]]

(* The plan routes: the plan is made under the write lock and committed.   *)
PlanRelease(r) ==
    /\ lock = None
    /\ LoopFree
    /\ db' = Planned("planned", r)
    /\ txn' = Planned("planned", r)
    /\ UNCHANGED <<lock, files, session>>

-----------------------------------------------------------------------------
(* Starting an execution: up to the first flush.                           *)

(* The database d with release r and its plans set to importing.           *)
Importing(d, r) ==
    [d EXCEPT !.rel  = [d.rel EXCEPT ![r] = "importing"],
              !.plan = [t \in Tracks |-> IF t \in TracksOf(r) THEN "importing" ELSE d.plan[t]]]

(* The request reads release, tracks and plans without the write lock.     *)
LoadPlans(s, r) ==
    /\ At(s, "idle")
    /\ "import" \in Kinds
    /\ \/ /\ \A t \in TracksOf(r) : db.plan[t] = None
          /\ Goto(s, "unplanned")
          /\ mode' = [mode EXCEPT ![s] = "unplanned"]
       \/ /\ \A t \in TracksOf(r) : db.plan[t] = "ready"
          /\ Goto(s, "loaded")
          /\ mode' = [mode EXCEPT ![s] = "planned"]
    /\ rel' = [rel EXCEPT ![s] = r]
    /\ want' = [want EXCEPT ![s] = db.hash]
    /\ UNCHANGED <<idx, tmp, made, kept, files, store>>

(* The request ends: hidden files it has not removed (gone) stay behind.   *)
Finish(s, gone) ==
    /\ stray' = stray \cup ((Temps(s) \cup Backups(s)) \ gone)
    /\ Goto(s, "idle")
    /\ rel' = [rel EXCEPT ![s] = None]
    /\ mode' = [mode EXCEPT ![s] = None]
    /\ want' = [want EXCEPT ![s] = NoTracks]
    /\ idx' = [idx EXCEPT ![s] = 1]
    /\ tmp' = [tmp EXCEPT ![s] = None]
    /\ made' = [made EXCEPT ![s] = {}]
    /\ kept' = [kept EXCEPT ![s] = NoTracks]

(* The first flush marks what was read as ready, however old it is.        *)
Begin(s) ==
    /\ At(s, "loaded")
    /\ lock = None
    /\ lock' = s
    /\ txn' = Importing(db, rel[s])
    /\ Goto(s, "pin")
    /\ UNCHANGED <<db, request, tmp, made, kept, files>>

(* No plans yet: they are made first, in the same transaction.             *)
BeginUnplanned(s) ==
    /\ At(s, "unplanned")
    /\ lock = None
    /\ \/ /\ AllClear("unplanned", rel[s])
          /\ lock' = s
          /\ txn' = Importing(Planned("unplanned", rel[s]), rel[s])
          /\ want' = [want EXCEPT ![s] = Planned("unplanned", rel[s]).hash]
          /\ Goto(s, "pin")
          /\ UNCHANGED <<rel, mode, idx, tmp, made, kept, stray>>
       \/ /\ ~AllClear("unplanned", rel[s])
          /\ Finish(s, {})
          /\ UNCHANGED <<txn, lock>>
    /\ UNCHANGED <<db, lib, staged>>

(* execute_quality_upgrade: plan from the candidate's artifacts, accept    *)
(* existing destinations, execute with replace_existing_verified.          *)
BeginUpgrade(s, r) ==
    /\ At(s, "idle")
    /\ "upgrade" \in Kinds
    /\ lock = None
    /\ \A t \in TracksOf(r) : Clear("upgrade", r, t) \/ Replaceable("upgrade", t)
    /\ lock' = s
    /\ txn' = Importing(Planned("upgrade", r), r)
    /\ rel' = [rel EXCEPT ![s] = r]
    /\ mode' = [mode EXCEPT ![s] = "upgrade"]
    /\ want' = [want EXCEPT ![s] = Planned("upgrade", r).hash]
    /\ Goto(s, "pin")
    /\ UNCHANGED <<db, idx, tmp, made, kept, files>>

(* SQLite gives up waiting for the lock, or the plan rows are gone.        *)
LockFails(s) ==
    /\ pc[s] \in {"loaded", "unplanned"}
    /\ lock # None \/ "flush" \in Faults
    /\ Alone(s)
    /\ Finish(s, {})
    /\ UNCHANGED <<lib, staged, store>>

-----------------------------------------------------------------------------
(* The import loop: one file after the other.                              *)

(* An exception in the loop or in the last flush enters the except branch. *)
StepRaises(s) ==
    /\ pc[s] \in Faults \cap ((LoopSteps \ {"unlink"}) \cup {"flush"})
    /\ Alone(s)
    /\ Goto(s, "undo_tmp")
    /\ UNCHANGED <<request, tmp, made, kept, files, store>>

(* Plausible bug: the destination is noted as created before it is looked  *)
(* at.                                                                     *)
PinNotesFirst(s) ==
    /\ At(s, "pin")
    /\ made' = [made EXCEPT ![s] = @ \cup {Cur(s)}]
    /\ Goto(s, IF mode[s] # "upgrade" /\ Exists(s) THEN "undo_tmp" ELSE "copy")
    /\ UNCHANGED <<request, tmp, kept, files, store>>

(* Pin the parent directory; a plain import refuses an existing file.      *)
Pin(s) ==
    /\ At(s, "pin")
    /\ Goto(s, IF mode[s] # "upgrade" /\ Exists(s) THEN "undo_tmp" ELSE "copy")
    /\ UNCHANGED <<request, tmp, made, kept, files, store>>

(* Copy the staged source, if it is still a regular file, to a temporary.  *)
Copy(s) ==
    /\ At(s, "copy")
    /\ tmp' = [tmp EXCEPT ![s] = Staged(mode[s], Cur(s))]
    /\ Goto(s, IF Staged(mode[s], Cur(s)) = None THEN "undo_tmp" ELSE "verify")
    /\ UNCHANGED <<request, made, kept, files, store>>

(* The copy must have the hash loaded with the track (if it had one).      *)
Verify(s) ==
    /\ At(s, "verify")
    /\ Goto(s, IF want[s][Cur(s)] \in {None, tmp[s]} THEN "tag" ELSE "undo_tmp")
    /\ UNCHANGED <<request, tmp, made, kept, files, store>>

(* write_and_verify on the temporary.                                      *)
Tag(s) ==
    /\ At(s, "tag")
    /\ tmp' = [tmp EXCEPT ![s] = Tagged(Cur(s), @)]
    /\ Goto(s, "check")
    /\ UNCHANGED <<request, made, kept, files, store>>

(* Last look at the destination before the rename.                         *)
Check(s) ==
    /\ At(s, "check")
    /\ Goto(s, CASE mode[s] # "upgrade" /\ ~Exists(s)  -> "rename"
                 [] mode[s] = "upgrade" /\ Exists(s) -> "link"
                 [] OTHER                            -> "undo_tmp")
    /\ UNCHANGED <<request, tmp, made, kept, files, store>>

(* backup_existing: a second name for the live file, then the first goes.  *)
LinkBackup(s) ==
    /\ At(s, "link")
    /\ kept' = [kept EXCEPT ![s][Cur(s)] = lib[Dest(s)]]
    /\ Goto(s, IF Exists(s) THEN "unlink" ELSE "undo_tmp")
    /\ UNCHANGED <<request, tmp, made, files, store>>

UnlinkLive(s) ==
    /\ At(s, "unlink")
    /\ lib' = [lib EXCEPT ![Dest(s)] = None]
    /\ Goto(s, "rename")
    /\ UNCHANGED <<request, tmp, made, kept, staged, stray, store>>

(* The live name cannot be removed: the backup name goes again.            *)
UnlinkRaises(s) ==
    /\ At(s, "unlink")
    /\ "unlink" \in Faults
    /\ kept' = [kept EXCEPT ![s][Cur(s)] = None]
    /\ Goto(s, "undo_tmp")
    /\ UNCHANGED <<request, tmp, made, files, store>>

(* os.replace: whatever is at the destination by now is overwritten.       *)
Rename(s) ==
    /\ At(s, "rename")
    /\ lib' = [lib EXCEPT ![Dest(s)] = tmp[s]]
    /\ tmp' = [tmp EXCEPT ![s] = None]
    /\ Goto(s, "fsync")
    /\ UNCHANGED <<request, made, kept, staged, stray, store>>

(* Only after the directory is synced does the new file count as created.  *)
Fsync(s) ==
    /\ At(s, "fsync")
    /\ made' = [made EXCEPT ![s] = @ \cup {Cur(s)}]
    /\ Goto(s, "record")
    /\ UNCHANGED <<request, tmp, kept, files, store>>

(* Plausible bug: one more round after the last plan.                      *)
RecordOneMore(s) ==
    /\ At(s, "record")
    /\ Exists(s)
    /\ IF idx[s] > Len(Order[rel[s]])
       THEN Goto(s, "flush") /\ UNCHANGED idx
       ELSE Goto(s, "pin") /\ idx' = [idx EXCEPT ![s] = @ + 1]
    /\ UNCHANGED <<rel, mode, want, tmp, made, kept, files, store>>

(* Plausible bug: every track is committed by itself, to hold the write    *)
(* lock for a shorter time.                                                *)
RecordCommits(s) ==
    /\ At(s, "record")
    /\ Exists(s)
    /\ txn' = [txn EXCEPT !.track = [@ EXCEPT ![Cur(s)] = "imported"],
                          !.plan  = [@ EXCEPT ![Cur(s)] = "imported"],
                          !.hash  = [@ EXCEPT ![Cur(s)] = lib[Dest(s)]]]
    /\ db' = txn'
    /\ IF idx[s] = Len(Order[rel[s]])
       THEN Goto(s, "flush") /\ UNCHANGED idx
       ELSE Goto(s, "pin") /\ idx' = [idx EXCEPT ![s] = @ + 1]
    /\ UNCHANGED <<rel, mode, want, tmp, made, kept, files, lock>>

(* Hash the file found at the destination and mark track and plan.         *)
Record(s) ==
    /\ At(s, "record")
    /\ IF ~Exists(s)
       THEN Goto(s, "undo_tmp") /\ UNCHANGED <<txn, idx>>
       ELSE /\ txn' = [txn EXCEPT !.track = [@ EXCEPT ![Cur(s)] = "imported"],
                                  !.plan  = [@ EXCEPT ![Cur(s)] = "imported"],
                                  !.hash  = [@ EXCEPT ![Cur(s)] = lib[Dest(s)]]]
            /\ IF idx[s] = Len(Order[rel[s]])
               THEN Goto(s, "flush") /\ UNCHANGED idx
               ELSE Goto(s, "pin") /\ idx' = [idx EXCEPT ![s] = @ + 1]
    /\ UNCHANGED <<rel, mode, want, tmp, made, kept, files, db, lock>>

(* Plausible bug: the backups are dropped before the commit.               *)
FlushDropsBackups(s) ==
    /\ At(s, "flush")
    /\ txn' = [txn EXCEPT !.rel = [@ EXCEPT ![rel[s]] = "imported"]]
    /\ kept' = [kept EXCEPT ![s] = NoTracks]
    /\ Goto(s, "commit")
    /\ UNCHANGED <<request, tmp, made, files, db, lock>>

(* Release imported; callbacks registered; the request ends in get_db.     *)
Flush(s) ==
    /\ At(s, "flush")
    /\ txn' = [txn EXCEPT !.rel = [@ EXCEPT ![rel[s]] = "imported"]]
    /\ Goto(s, "commit")
    /\ UNCHANGED <<request, tmp, made, kept, files, db, lock>>

-----------------------------------------------------------------------------
(* The end of the transaction.                                             *)

Commit(s) ==
    /\ At(s, "commit")
    /\ db' = txn
    /\ lock' = None
    /\ Goto(s, "committed")
    /\ UNCHANGED <<txn, request, tmp, made, kept, files>>

(* COMMIT fails: get_db rolls back.  The write lock is free before the     *)
(* after-rollback callback runs.                                           *)
CommitRaises(s) ==
    /\ At(s, "commit")
    /\ "commit" \in Faults
    /\ txn' = db
    /\ lock' = None
    /\ Goto(s, "rolled_back")
    /\ UNCHANGED <<db, request, tmp, made, kept, files>>

(* finalize_filesystem_commit: remove the backups; failures are ignored.   *)
Finalize(s) ==
    /\ At(s, "committed")
    /\ \E gone \in SUBSET Backups(s) :
          /\ gone # Backups(s) => "cleanup" \in Faults
          /\ Finish(s, gone)
    /\ UNCHANGED <<lib, staged, store>>

(* Plausible bug: the rollback forgets the temporary.                      *)
UndoTempForgets(s) ==
    /\ pc[s] \in {"undo_tmp", "rolled_back"}
    /\ Alone(s)
    /\ stray' = stray \cup Temps(s)
    /\ tmp' = [tmp EXCEPT ![s] = None]
    /\ Goto(s, "undo_made")
    /\ UNCHANGED <<request, made, kept, lib, staged, store>>

(* _rollback_pinned_filesystem: the temporary, the created destinations    *)
(* from last to first, the backups from first to last.  An operation that  *)
(* fails is logged and skipped.                                            *)
UndoTemp(s) ==
    /\ pc[s] \in {"undo_tmp", "rolled_back"}
    /\ Alone(s)
    /\ \/ UNCHANGED stray
       \/ "undo" \in Faults /\ stray' = stray \cup Temps(s)
    /\ tmp' = [tmp EXCEPT ![s] = None]
    /\ Goto(s, "undo_made")
    /\ UNCHANGED <<request, made, kept, lib, staged, store>>

UndoMade(s) ==
    /\ At(s, "undo_made")
    /\ \/ /\ made[s] = {}
          /\ Goto(s, "undo_kept")
          /\ UNCHANGED <<lib, made>>
       \/ \E t \in made[s] :
             /\ \A u \in made[s] \ {t} : u \in Earlier(rel[s], t)
             /\ \/ lib' = [lib EXCEPT ![Target(mode[s], t)] = None]
                \/ "undo" \in Faults /\ UNCHANGED lib
             /\ made' = [made EXCEPT ![s] = @ \ {t}]
             /\ UNCHANGED pc
    /\ UNCHANGED <<request, tmp, kept, staged, stray, store>>

(* Plausible bug: only the first backup is moved back.                     *)
UndoKeptFirst(s) ==
    /\ At(s, "undo_kept")
    /\ \/ kept[s] = NoTracks /\ UNCHANGED lib
       \/ \E t \in Tracks :
             /\ kept[s][t] # None
             /\ \A u \in Earlier(rel[s], t) : kept[s][u] = None
             /\ lib' = [lib EXCEPT ![Target(mode[s], t)] = kept[s][t]]
    /\ kept' = [kept EXCEPT ![s] = NoTracks]
    /\ Goto(s, "undone")
    /\ UNCHANGED <<request, tmp, made, staged, stray, store>>

UndoKept(s) ==
    /\ At(s, "undo_kept")
    /\ \/ /\ kept[s] = NoTracks
          /\ Goto(s, "undone")
          /\ UNCHANGED <<lib, stray, kept>>
       \/ \E t \in Tracks :
             /\ kept[s][t] # None
             /\ \A u \in Earlier(rel[s], t) : kept[s][u] = None
             /\ \/ /\ lib' = [lib EXCEPT ![Target(mode[s], t)] = kept[s][t]]
                   /\ UNCHANGED stray
                \/ /\ "undo" \in Faults
                   /\ stray' = stray \cup {Backup(s, t)}
                   /\ UNCHANGED lib
             /\ kept' = [kept EXCEPT ![s][t] = None]
             /\ UNCHANGED pc
    /\ UNCHANGED <<request, tmp, made, staged, store>>

(* Rest of the except branch: what was undone is noted in the session.     *)
RolledBack(d, r) ==
    LET fate(q) == CASE q = "imported"  -> "rolled_back"
                     [] q = "importing" -> "failed"
                     [] OTHER           -> q
    IN [d EXCEPT !.rel   = [d.rel EXCEPT ![r] = "rolled_back"],
                 !.plan  = [t \in Tracks |-> IF t \in TracksOf(r)
                                             THEN fate(d.plan[t]) ELSE d.plan[t]],
                 !.track = [t \in Tracks |-> IF t \in TracksOf(r) /\ d.track[t] = "imported"
                                             THEN "rolled_back" ELSE d.track[t]]]

NoteRollback(s) ==
    /\ At(s, "undone")
    /\ lock = s
    /\ txn' = RolledBack(txn, rel[s])
    /\ Goto(s, "raised")
    /\ UNCHANGED <<db, lock, request, tmp, made, kept, files>>

(* Plausible bug: the error path forgets to end the transaction.           *)
RollbackKeepsLock(s) ==
    /\ At(s, "raised")
    /\ Finish(s, {})
    /\ UNCHANGED <<db, txn, lock, lib, staged>>

(* The exception leaves the route: get_db rolls the transaction back.      *)
RollbackRequest(s) ==
    /\ At(s, "raised")
    /\ txn' = db
    /\ lock' = None
    /\ Finish(s, {})
    /\ UNCHANGED <<db, lib, staged>>

(* After a failed commit there is nothing left to do.                      *)
EndRollback(s) ==
    /\ At(s, "undone")
    /\ lock # s
    /\ Finish(s, {})
    /\ UNCHANGED <<lib, staged, store>>

-----------------------------------------------------------------------------
(* The surroundings.                                                       *)

(* A request cancelled at an await: CancelledError is no Exception, so     *)
(* get_db only closes the session, which fires no callback.                *)
Cancel(s) ==
    /\ "cancel" \in Faults
    /\ pc[s] \in {"flush", "commit", "committed", "rolled_back"}
    /\ Alone(s)
    /\ IF lock = s THEN txn' = db /\ lock' = None ELSE UNCHANGED <<txn, lock>>
    /\ Finish(s, {})
    /\ UNCHANGED <<db, lib, staged>>

(* The process dies and is started again; nothing inspects the library.    *)
Crash ==
    /\ "crash" \in Faults
    /\ \E s \in Sessions : pc[s] # "idle"
    /\ stray' = stray \cup UNION {Temps(s) \cup Backups(s) : s \in Sessions}
    /\ txn' = db
    /\ lock' = None
    /\ pc' = [s \in Sessions |-> "idle"]
    /\ rel' = [s \in Sessions |-> None]
    /\ mode' = [s \in Sessions |-> None]
    /\ want' = [s \in Sessions |-> NoTracks]
    /\ idx' = [s \in Sessions |-> 1]
    /\ tmp' = [s \in Sessions |-> None]
    /\ made' = [s \in Sessions |-> {}]
    /\ kept' = [s \in Sessions |-> NoTracks]
    /\ UNCHANGED <<db, lib, staged>>

(* Another program writes or removes a library file.                       *)
Foreign(d) ==
    /\ "foreign" \in Faults
    /\ \E c \in {Alien, None} : lib' = [lib EXCEPT ![d] = c]
    /\ UNCHANGED <<staged, stray, store, session>>

(* A staged file changes behind a plan; bound: one in a behaviour.         *)
Restage(k, t) ==
    /\ "restage" \in Faults
    /\ staged = Arrives
    /\ \E c \in {Alien, None} : staged' = [staged EXCEPT ![k][t] = c]
    /\ UNCHANGED <<lib, stray, store, session>>

-----------------------------------------------------------------------------
Init ==
    /\ lib \in [Dests -> Prior \cup {None}]
    /\ staged = Arrives
    /\ stray = {}
    /\ db = [plan  |-> [t \in Tracks |-> None],
             rel   |-> [r \in Releases |-> "discovered"],
             track |-> [t \in Tracks |-> "discovered"],
             hash  |-> [t \in Tracks |-> None],
             dest  |-> [t \in Tracks |-> None]]
    /\ txn = db
    /\ lock = None
    /\ pc = [s \in Sessions |-> "idle"]
    /\ rel = [s \in Sessions |-> None]
    /\ mode = [s \in Sessions |-> None]
    /\ want = [s \in Sessions |-> NoTracks]
    /\ idx = [s \in Sessions |-> 1]
    /\ tmp = [s \in Sessions |-> None]
    /\ made = [s \in Sessions |-> {}]
    /\ kept = [s \in Sessions |-> NoTracks]

(* The request goes on by itself, or something raises on its way.          *)
Proceed(s) ==
    \/ Begin(s) \/ BeginUnplanned(s) \/ LockFails(s)
    \/ Pin(s) \/ Copy(s) \/ Verify(s) \/ Tag(s) \/ Check(s)
    \/ LinkBackup(s) \/ UnlinkLive(s) \/ Rename(s) \/ Fsync(s) \/ Record(s)
    \/ Flush(s) \/ Commit(s) \/ Finalize(s)
    \/ UndoTemp(s) \/ UndoMade(s) \/ UndoKept(s)
    \/ NoteRollback(s) \/ RollbackRequest(s) \/ EndRollback(s)

Raise(s) == StepRaises(s) \/ UnlinkRaises(s) \/ CommitRaises(s) \/ Cancel(s)

Next ==
    \/ \E r \in Releases : PlanRelease(r)
    \/ \E s \in Sessions, r \in Releases : LoadPlans(s, r) \/ BeginUpgrade(s, r)
    \/ \E s \in Sessions : Proceed(s) \/ Raise(s)
    \/ Crash
    \/ \E d \in Dests : Foreign(d)
    \/ \E k \in {"job", "candidate"}, t \in Tracks : Restage(k, t)

Spec == Init /\ [][Next]_vars

(* The ready queue of the event loop is first in, first out: a request that *)
(* is again and again ready to go on is not passed over for ever.          *)
FairSpec == Spec /\ \A s \in Sessions : SF_vars(Proceed(s))

-----------------------------------------------------------------------------
(* Types.                                                                  *)

Files == [kind : {"backup", "temp"}, at : Dests, file : Content \cup {None}]

FilesOK ==
    /\ lib \in [Dests -> Content \cup {None}]
    /\ staged \in [{"job", "candidate"} -> [Tracks -> Content \cup {None}]]
    /\ stray \subseteq Files

StoreOK ==
    /\ db \in Database
    /\ txn \in Database
    /\ lock \in Sessions \cup {None}

SessionOK ==
    /\ pc \in [Sessions -> Steps]
    /\ rel \in [Sessions -> Releases \cup {None}]
    /\ mode \in [Sessions -> Modes \cup {None}]
    /\ want \in [Sessions -> [Tracks -> Content \cup {None}]]
    /\ idx \in [Sessions -> Nat]
    /\ tmp \in [Sessions -> Content \cup {None}]
    /\ made \in [Sessions -> SUBSET Tracks]
    /\ kept \in [Sessions -> [Tracks -> Content \cup {None}]]
    /\ \A s \in Sessions : pc[s] # "idle" =>
          /\ rel[s] \in Releases
          /\ mode[s] \in Modes
          /\ idx[s] \in DOMAIN Order[rel[s]]

(* Every variable has the type its column or Python object has, and a      *)
(* request under way is at a plan of its release (for plan in plans).      *)
TypeOK == FilesOK /\ StoreOK /\ SessionOK

-----------------------------------------------------------------------------
(* Safety.                                                                 *)

(* A track the database calls imported is in the library, with its tags    *)
(* and with the hash the database has: no failing import of another ever   *)
(* removes or overwrites a file another import committed (the rollback     *)
(* unlinks by name, and runs without the write lock after a failed commit). *)
ImportedMatchesLibrary ==
    \A t \in Tracks : db.track[t] = "imported" =>
        lib[db.dest[t]] = db.hash[t] /\ db.hash[t].tag = t

SavedAt(d) ==
    {x.file : x \in {y \in stray : y.kind = "backup" /\ y.at = d}}
    \cup UNION {{kept[s][t] : t \in {u \in Tracks : Target(mode[s], u) = d}} :
                   s \in {o \in Sessions : pc[o] # "idle"}}

(* Replacing an imported file never loses it before the replacement is     *)
(* committed: its bytes are at the destination or in a backup beside it,   *)
(* also after a crash or a failed rollback operation.                      *)
NoLoss ==
    \A t \in Tracks : db.track[t] = "imported" =>
        db.hash[t] \in {lib[db.dest[t]]} \cup SavedAt(db.dest[t])

Whole(d, r) ==
    /\ d.rel[r] # "importing"
    /\ \A t \in TracksOf(r) :
          /\ d.track[t] = "imported" <=> d.rel[r] = "imported"
          /\ d.plan[t] = "imported" <=> d.rel[r] = "imported"

(* A release is committed as imported with all of its tracks and plans, or *)
(* with none; no half-done state of execute_release_import is committed.   *)
AllOrNothing == \A r \in Releases : Whole(db, r)

(* When no request is under way no hidden temporary or backup file of an   *)
(* earlier one is left beside the library files.                           *)
NoLitter == (\A s \in Sessions : pc[s] = "idle") => stray = {}

-----------------------------------------------------------------------------
(* Liveness.                                                               *)

(* Every request ends and leaves the write lock to the others.             *)
RequestsEnd == \A s \in Sessions : pc[s] # "idle" ~> pc[s] = "idle" /\ lock # s

-----------------------------------------------------------------------------
(* The promise.  The library a request leaves if it is rolled back now: a  *)
(* backup still held counts in place of the file, a created file for none. *)

Uncommitted(s) == pc[s] \notin {"idle", "committed"}
Placed(s, t) == t \in made[s] \/ (pc[s] = "fsync" /\ t = Cur(s))

Settled(d) ==
    LET at(s, t)   == Uncommitted(s) /\ Target(mode[s], t) = d
        held(s, t) == at(s, t) /\ kept[s][t] # None
        placed(s, t) == at(s, t) /\ Placed(s, t)
    IN IF \E s \in Sessions, t \in Tracks : held(s, t)
       THEN CHOOSE c \in Content : \E s \in Sessions, t \in Tracks :
                                      held(s, t) /\ c = kept[s][t]
       ELSE IF \E s \in Sessions, t \in Tracks : placed(s, t) THEN None ELSE lib[d]

Recorded(t) == IF db.track[t] = "imported" THEN db.hash[t] ELSE None

Promise == INSTANCE AtomicImport WITH
    Album    <- [r \in Releases |-> TracksOf(r)],
    library  <- [d \in Dests |-> Settled(d)],
    recorded <- [t \in Tracks |-> Recorded(t)]

(* Library and database change together, a release at a time, or not at    *)
(* all ("Failures leave the current library unchanged").                   *)
ImportIsAtomic == Promise!Spec
=============================================================================
