------------------------- MODULE LibraryImportProofs -------------------------
(***************************************************************************)
(* Proofs about LibraryImport: type correctness, the exclusion the write   *)
(* lock gives, that a release is imported whole or not at all, and that    *)
(* what the database calls imported is in the library.                     *)
(***************************************************************************)
EXTENDS LibraryImport, TLAPS

(* A request that has not begun, or has ended, has nothing in hand; the    *)
(* copy it tags exists.                                                    *)
InHand(s) ==
    /\ pc[s] \in {"idle", "loaded", "unplanned"} =>
          idx[s] = 1 /\ tmp[s] = None /\ kept[s] = NoTracks
    /\ pc[s] \in {"verify", "tag"} => tmp[s] # None

(* The write lock is held from the first flush to the end of the           *)
(* transaction, and nothing is uncommitted while nobody holds it.          *)
Locked(s) ==
    /\ pc[s] \in LoopSteps \cup {"flush", "commit", "raised"} => lock = s
    /\ pc[s] \in {"idle", "loaded", "unplanned", "committed", "rolled_back"} => lock # s

Imported(d, t) == d.track[t] = "imported" /\ d.plan[t] = "imported"

(* The transaction touches the release of its request only, whose tracks   *)
(* are imported one by one up to the current plan.                         *)
Underway(s) ==
    lock = s =>
        /\ \A r \in Releases \ {rel[s]} : Whole(txn, r)
        /\ pc[s] \in LoopSteps =>
              \A i \in DOMAIN Order[rel[s]] : i < idx[s] => Imported(txn, Order[rel[s]][i])
        /\ pc[s] = "flush" => \A t \in TracksOf(rel[s]) : Imported(txn, t)
        /\ pc[s] = "commit" => Whole(txn, rel[s])

IInv ==
    /\ TypeOK
    /\ \A s \in Sessions : InHand(s)
    /\ \A s \in Sessions : Locked(s)
    /\ lock = None => txn = db
    /\ AllOrNothing
    /\ \A s \in Sessions : Underway(s)

-----------------------------------------------------------------------------
(* The pieces of a request under way are of the right kind.                *)
LEMMA RequestTypes ==
    ASSUME TypeOK, NEW s \in Sessions, pc[s] # "idle"
    PROVE  /\ Cur(s) \in TracksOf(rel[s])
           /\ Cur(s) \in Tracks
           /\ \A t \in Tracks : Target(mode[s], t) \in Dests
           /\ Dest(s) \in Dests
           /\ \A t \in Tracks : Staged(mode[s], t) \in Content \cup {None}
<1>1. rel[s] \in Releases /\ mode[s] \in Modes /\ idx[s] \in DOMAIN Order[rel[s]]
  BY DEF TypeOK, SessionOK
<1>2. Cur(s) \in TracksOf(rel[s])
  BY <1>1 DEF Cur, TracksOf
<1>3. Order[rel[s]] \in Seq(Tracks)
  BY <1>1, ImportAssumption
<1>4. Cur(s) \in Tracks
  BY <1>1, <1>3 DEF Cur
<1>5. \A t \in Tracks : Target(mode[s], t) \in Dests
  BY ImportAssumption DEF Target
<1>6. Dest(s) \in Dests
  BY <1>4, <1>5 DEF Dest
<1>7. \A t \in Tracks : Staged(mode[s], t) \in Content \cup {None}
  BY DEF TypeOK, FilesOK, Staged, Source
<1> QED
  BY <1>2, <1>4, <1>5, <1>6, <1>7

(* The tracks of a release are tracks.                                     *)
LEMMA TracksOfRelease ==
    ASSUME NEW r \in Releases
    PROVE  TracksOf(r) \subseteq Tracks
<1>1. Order[r] \in Seq(Tracks)
  BY ImportAssumption
<1>2. \A i \in DOMAIN Order[r] : Order[r][i] \in Tracks
  BY <1>1
<1> QED
  BY <1>2 DEF TracksOf

(* Planning produces a database.                                           *)
LEMMA PlannedType ==
    ASSUME TypeOK, NEW m \in Modes, NEW r \in Releases
    PROVE  Planned(m, r) \in Database
<1> DEFINE outcome(t) == IF Clear(m, r, t) THEN "ready" ELSE "needs_review"
<1>1. db \in Database
  BY DEF TypeOK, StoreOK
<1>2. [t \in Tracks |-> IF t \in TracksOf(r) THEN outcome(t) ELSE db.plan[t]]
        \in [Tracks -> WorkflowStates \cup {None}]
  BY <1>1 DEF Database, WorkflowStates
<1>3. [db.rel EXCEPT ![r] = IF AllClear(m, r) THEN "ready" ELSE "needs_review"]
        \in [Releases -> WorkflowStates]
  BY <1>1 DEF Database, WorkflowStates
<1>4. [t \in Tracks |-> IF t \in TracksOf(r) THEN outcome(t) ELSE db.track[t]]
        \in [Tracks -> WorkflowStates]
  BY <1>1 DEF Database, WorkflowStates
<1>5. [t \in Tracks |-> IF t \in TracksOf(r) THEN Staged(m, t) ELSE db.hash[t]]
        \in [Tracks -> Content \cup {None}]
  BY <1>1 DEF Database, TypeOK, FilesOK, Staged, Source
<1>6. [t \in Tracks |-> IF t \in TracksOf(r) THEN Target(m, t) ELSE db.dest[t]]
        \in [Tracks -> Dests \cup {None}]
  BY <1>1, ImportAssumption DEF Database, Target
<1> QED
  BY <1>2, <1>3, <1>4, <1>5, <1>6 DEF Planned, Database

(* Marking a release and its plans keeps the database a database.          *)
LEMMA ImportingType ==
    ASSUME NEW d \in Database, NEW r \in Releases
    PROVE  Importing(d, r) \in Database
<1>1. [d.rel EXCEPT ![r] = "importing"] \in [Releases -> WorkflowStates]
  BY DEF Database, WorkflowStates
<1>2. [t \in Tracks |-> IF t \in TracksOf(r) THEN "importing" ELSE d.plan[t]]
        \in [Tracks -> WorkflowStates \cup {None}]
  BY DEF Database, WorkflowStates
<1> QED
  BY <1>1, <1>2 DEF Importing, Database

LEMMA RolledBackType ==
    ASSUME NEW d \in Database, NEW r \in Releases
    PROVE  RolledBack(d, r) \in Database
<1> DEFINE fate(q) == CASE q = "imported"  -> "rolled_back"
                        [] q = "importing" -> "failed"
                        [] OTHER           -> q
<1>1. [d.rel EXCEPT ![r] = "rolled_back"] \in [Releases -> WorkflowStates]
  BY DEF Database, WorkflowStates
<1>2. [t \in Tracks |-> IF t \in TracksOf(r) THEN fate(d.plan[t]) ELSE d.plan[t]]
        \in [Tracks -> WorkflowStates \cup {None}]
  BY DEF Database, WorkflowStates
<1>3. [t \in Tracks |-> IF t \in TracksOf(r) /\ d.track[t] = "imported"
                        THEN "rolled_back" ELSE d.track[t]]
        \in [Tracks -> WorkflowStates]
  BY DEF Database, WorkflowStates
<1> QED
  BY <1>1, <1>2, <1>3 DEF RolledBack, Database

(* The hidden files of a request are files.                                *)
LEMMA HiddenTypes ==
    ASSUME TypeOK, NEW s \in Sessions, InHand(s)
    PROVE  Temps(s) \cup Backups(s) \subseteq Files
<1>1. CASE pc[s] = "idle"
  <2>1. tmp[s] = None /\ kept[s] = NoTracks
    BY <1>1 DEF InHand
  <2>2. Temps(s) = {} /\ Backups(s) = {}
    BY <2>1 DEF Temps, Backups, NoTracks
  <2> QED
    BY <2>2
<1>2. CASE pc[s] # "idle"
  <2>1. Temps(s) \subseteq Files
    BY <1>2, RequestTypes DEF Temps, Files
  <2>2. \A t \in Tracks : Backup(s, t) \in Files
    BY <1>2, RequestTypes DEF Backup, Files, TypeOK, SessionOK
  <2>3. Backups(s) \subseteq Files
    BY <2>2 DEF Backups
  <2> QED
    BY <2>1, <2>3
<1> QED
  BY <1>1, <1>2

(* A request that ends leaves files and nothing in hand.                   *)
LEMMA FinishTypes ==
    ASSUME TypeOK, NEW s \in Sessions, InHand(s), NEW gone, Finish(s, gone)
    PROVE  stray' \subseteq Files /\ SessionOK'
<1>1. stray' \subseteq Files
  BY HiddenTypes DEF Finish, TypeOK, FilesOK
<1>2. /\ pc' \in [Sessions -> Steps]
      /\ rel' \in [Sessions -> Releases \cup {None}]
      /\ mode' \in [Sessions -> Modes \cup {None}]
      /\ idx' \in [Sessions -> Nat]
      /\ tmp' \in [Sessions -> Content \cup {None}]
  BY DEF Finish, Goto, TypeOK, SessionOK, Steps
<1>3. /\ want' \in [Sessions -> [Tracks -> Content \cup {None}]]
      /\ made' \in [Sessions -> SUBSET Tracks]
      /\ kept' \in [Sessions -> [Tracks -> Content \cup {None}]]
  BY DEF Finish, TypeOK, SessionOK, NoTracks
<1>4. \A o \in Sessions : pc'[o] # "idle" =>
        o # s /\ rel'[o] = rel[o] /\ mode'[o] = mode[o] /\ idx'[o] = idx[o] /\ pc[o] # "idle"
  BY DEF Finish, Goto, TypeOK, SessionOK
<1> QED
  BY <1>1, <1>2, <1>3, <1>4 DEF SessionOK, TypeOK

-----------------------------------------------------------------------------
(* Type correctness.                                                       *)

THEOREM InitTypes == Init => TypeOK
<1> SUFFICES ASSUME Init PROVE TypeOK
  OBVIOUS
<1>1. FilesOK
  BY ImportAssumption DEF Init, FilesOK
<1>2. db \in Database /\ StoreOK
  BY DEF Init, StoreOK, Database, WorkflowStates
<1>3. SessionOK
  BY DEF Init, SessionOK, Steps, NoTracks
<1> QED
  BY <1>1, <1>2, <1>3 DEF TypeOK

(* A step of one request that leaves its release, mode and plan alone.     *)
LEMMA SessionFrame ==
    ASSUME SessionOK, NEW s \in Sessions, pc[s] # "idle",
           NEW step \in Steps, Goto(s, step), UNCHANGED request,
           tmp' \in [Sessions -> Content \cup {None}],
           made' \in [Sessions -> SUBSET Tracks],
           kept' \in [Sessions -> [Tracks -> Content \cup {None}]]
    PROVE  SessionOK'
<1>1. pc' \in [Sessions -> Steps]
  BY DEF SessionOK, Goto
<1>2. \A o \in Sessions : pc'[o] # "idle" => pc[o] # "idle"
  BY DEF SessionOK, Goto
<1> QED
  BY <1>1, <1>2 DEF SessionOK, request

(* Starting an execution.                                                  *)
LEMMA BeginTypes ==
    ASSUME TypeOK, \A o \in Sessions : InHand(o), NEW s \in Sessions,
           \/ \E r \in Releases : LoadPlans(s, r) \/ BeginUpgrade(s, r)
           \/ Begin(s) \/ BeginUnplanned(s) \/ LockFails(s)
    PROVE  TypeOK'
<1> USE DEF At
<1>1. ASSUME NEW r \in Releases, LoadPlans(s, r) PROVE TypeOK'
  <2>1. FilesOK' /\ StoreOK'
    BY <1>1 DEF LoadPlans, TypeOK, FilesOK, StoreOK, files, store
  <2>2. idx[s] = 1 /\ Order[r] \in Seq(Tracks) /\ Order[r] # <<>>
    BY <1>1, ImportAssumption DEF LoadPlans, InHand
  <2>3. 1 \in DOMAIN Order[r]
    BY <2>2
  <2>4. want' \in [Sessions -> [Tracks -> Content \cup {None}]]
    BY <1>1 DEF LoadPlans, TypeOK, SessionOK, StoreOK, Database
  <2>5. SessionOK'
    BY <1>1, <2>2, <2>3, <2>4
       DEF LoadPlans, TypeOK, SessionOK, Goto, Steps, AwaitSteps, Modes
  <2> QED
    BY <2>1, <2>5 DEF TypeOK
<1>2. ASSUME NEW r \in Releases, BeginUpgrade(s, r) PROVE TypeOK'
  <2>1. "upgrade" \in Modes
    BY DEF Modes
  <2>2. Planned("upgrade", r) \in Database
    BY <2>1, PlannedType
  <2>3. FilesOK' /\ StoreOK'
    BY <1>2, <2>2, ImportingType
       DEF BeginUpgrade, TypeOK, FilesOK, StoreOK, files
  <2>4. idx[s] = 1 /\ Order[r] \in Seq(Tracks) /\ Order[r] # <<>>
    BY <1>2, ImportAssumption DEF BeginUpgrade, InHand
  <2>5. 1 \in DOMAIN Order[r]
    BY <2>4
  <2>6. want' \in [Sessions -> [Tracks -> Content \cup {None}]]
    BY <1>2, <2>2 DEF BeginUpgrade, TypeOK, SessionOK, Database
  <2>7. SessionOK'
    BY <1>2, <2>1, <2>4, <2>5, <2>6
       DEF BeginUpgrade, TypeOK, SessionOK, Goto, Steps, LoopSteps
  <2> QED
    BY <2>3, <2>7 DEF TypeOK
<1>3. CASE Begin(s)
  <2>1. rel[s] \in Releases
    BY <1>3 DEF Begin, TypeOK, SessionOK
  <2>2. FilesOK' /\ StoreOK'
    BY <1>3, <2>1, ImportingType DEF Begin, TypeOK, FilesOK, StoreOK, files
  <2>3. SessionOK'
    BY <1>3, SessionFrame DEF Begin, TypeOK, SessionOK, Steps, LoopSteps
  <2> QED
    BY <2>2, <2>3 DEF TypeOK
<1>4. CASE BeginUnplanned(s)
  <2>1. rel[s] \in Releases /\ pc[s] # "idle" /\ "unplanned" \in Modes
    BY <1>4 DEF BeginUnplanned, TypeOK, SessionOK, Modes
  <2>2. Planned("unplanned", rel[s]) \in Database
    BY <2>1, PlannedType
  <2>3. CASE Finish(s, {}) /\ UNCHANGED <<txn, lock>>
    BY <1>4, <2>3, FinishTypes
       DEF BeginUnplanned, TypeOK, FilesOK, StoreOK
  <2>4. CASE /\ lock' = s
             /\ txn' = Importing(Planned("unplanned", rel[s]), rel[s])
             /\ want' = [want EXCEPT ![s] = Planned("unplanned", rel[s]).hash]
             /\ Goto(s, "pin")
             /\ UNCHANGED <<rel, mode, idx, tmp, made, kept, stray>>
    <3>1. FilesOK' /\ StoreOK'
      BY <1>4, <2>1, <2>2, <2>4, ImportingType
         DEF BeginUnplanned, TypeOK, FilesOK, StoreOK
    <3>2. want' \in [Sessions -> [Tracks -> Content \cup {None}]]
      BY <2>2, <2>4 DEF TypeOK, SessionOK, Database
    <3>3. SessionOK'
      BY <2>1, <2>4, <3>2 DEF TypeOK, SessionOK, Goto, Steps, LoopSteps
    <3> QED
      BY <3>1, <3>3 DEF TypeOK
  <2> QED
    BY <1>4, <2>3, <2>4 DEF BeginUnplanned
<1>5. CASE LockFails(s)
  BY <1>5, FinishTypes DEF LockFails, TypeOK, FilesOK, StoreOK, store
<1> QED
  BY <1>1, <1>2, <1>3, <1>4, <1>5

(* The import loop.                                                        *)
LEMMA LoopTypes ==
    ASSUME TypeOK, \A o \in Sessions : InHand(o), NEW s \in Sessions,
           \/ StepRaises(s) \/ Pin(s) \/ Copy(s) \/ Verify(s) \/ Tag(s) \/ Check(s)
           \/ LinkBackup(s) \/ UnlinkLive(s) \/ UnlinkRaises(s) \/ Rename(s)
           \/ Fsync(s) \/ Record(s) \/ Flush(s)
    PROVE  TypeOK'
<1> USE DEF At
<1>0. /\ pc[s] # "idle"
      /\ {"undo_tmp", "copy", "verify", "tag", "check", "link", "unlink",
          "rename", "fsync", "record", "flush", "commit", "pin"} \subseteq Steps
  BY DEF StepRaises, Pin, Copy, Verify, Tag, Check, LinkBackup, UnlinkLive, UnlinkRaises,
         Rename, Fsync, Record, Flush, Steps, LoopSteps, UndoSteps, AwaitSteps
<1>1. /\ Cur(s) \in Tracks /\ Dest(s) \in Dests
      /\ Staged(mode[s], Cur(s)) \in Content \cup {None}
  BY <1>0, RequestTypes
<1>2. CASE StepRaises(s) \/ Pin(s) \/ Verify(s) \/ Check(s)
  <2>1. \E step \in Steps : Goto(s, step)
    BY <1>0, <1>2 DEF StepRaises, Pin, Verify, Check
  <2>2. UNCHANGED <<request, tmp, made, kept, files, store>>
    BY <1>2 DEF StepRaises, Pin, Verify, Check
  <2>3. SessionOK'
    BY <1>0, <2>1, <2>2, SessionFrame DEF TypeOK, SessionOK
  <2> QED
    BY <2>2, <2>3 DEF TypeOK, FilesOK, StoreOK, files, store
<1>3. CASE Copy(s)
  <2>1. \E step \in Steps : Goto(s, step)
    BY <1>0, <1>3 DEF Copy
  <2>2. tmp' \in [Sessions -> Content \cup {None}]
    BY <1>1, <1>3 DEF Copy, TypeOK, SessionOK
  <2>3. SessionOK'
    BY <1>0, <1>3, <2>1, <2>2, SessionFrame DEF Copy, TypeOK, SessionOK
  <2> QED
    BY <1>3, <2>3 DEF Copy, TypeOK, FilesOK, StoreOK, files, store
<1>4. CASE Tag(s)
  <2>1. tmp[s] \in Content
    BY <1>4 DEF Tag, InHand, TypeOK, SessionOK
  <2>2. Tagged(Cur(s), tmp[s]) \in Content
    BY <1>1, <2>1 DEF Tagged, Content
  <2>3. tmp' \in [Sessions -> Content \cup {None}]
    BY <1>4, <2>2 DEF Tag, TypeOK, SessionOK
  <2>4. SessionOK'
    BY <1>0, <1>4, <2>3, SessionFrame DEF Tag, TypeOK, SessionOK
  <2> QED
    BY <1>4, <2>4 DEF Tag, TypeOK, FilesOK, StoreOK, files, store
<1>5. CASE LinkBackup(s) \/ UnlinkRaises(s)
  <2>1. \E step \in Steps : Goto(s, step)
    BY <1>0, <1>5 DEF LinkBackup, UnlinkRaises
  <2>2. lib[Dest(s)] \in Content \cup {None}
    BY <1>1 DEF TypeOK, FilesOK
  <2>3. kept' \in [Sessions -> [Tracks -> Content \cup {None}]]
    <3>1. PICK c \in Content \cup {None} :
            kept' = [kept EXCEPT ![s] = [kept[s] EXCEPT ![Cur(s)] = c]]
      BY <1>5, <2>2 DEF LinkBackup, UnlinkRaises
    <3>2. [kept[s] EXCEPT ![Cur(s)] = c] \in [Tracks -> Content \cup {None}]
      BY DEF TypeOK, SessionOK
    <3> QED
      BY <3>1, <3>2 DEF TypeOK, SessionOK
  <2>4. SessionOK'
    BY <1>0, <1>5, <2>1, <2>3, SessionFrame DEF LinkBackup, UnlinkRaises, TypeOK, SessionOK
  <2> QED
    BY <1>5, <2>4 DEF LinkBackup, UnlinkRaises, TypeOK, FilesOK, StoreOK, files, store
<1>6. CASE UnlinkLive(s) \/ Rename(s)
  <2>1. lib' \in [Dests -> Content \cup {None}]
    BY <1>6 DEF UnlinkLive, Rename, TypeOK, FilesOK, SessionOK
  <2>2. tmp' \in [Sessions -> Content \cup {None}]
    BY <1>6 DEF UnlinkLive, Rename, TypeOK, SessionOK
  <2>3. SessionOK'
    BY <1>0, <1>6, <2>2, SessionFrame DEF UnlinkLive, Rename, TypeOK, SessionOK
  <2> QED
    BY <1>6, <2>1, <2>3 DEF UnlinkLive, Rename, TypeOK, FilesOK, StoreOK, store
<1>7. CASE Fsync(s)
  <2>1. made' \in [Sessions -> SUBSET Tracks]
    BY <1>1, <1>7 DEF Fsync, TypeOK, SessionOK
  <2>2. SessionOK'
    BY <1>0, <1>7, <2>1, SessionFrame DEF Fsync, TypeOK, SessionOK
  <2> QED
    BY <1>7, <2>2 DEF Fsync, TypeOK, FilesOK, StoreOK, files, store
<1>8. CASE Record(s)
  <2>1. CASE ~Exists(s)
    <3>1. Goto(s, "undo_tmp") /\ UNCHANGED <<idx, txn>>
      BY <1>8, <2>1 DEF Record
    <3>2. SessionOK'
      BY <1>0, <1>8, <3>1, SessionFrame DEF Record, TypeOK, SessionOK, request
    <3> QED
      BY <1>8, <3>1, <3>2 DEF Record, TypeOK, FilesOK, StoreOK, files
  <2>2. CASE Exists(s)
    <3>1. txn' \in Database
      <4>1. txn \in Database /\ lib[Dest(s)] \in Content \cup {None}
        BY <1>1 DEF TypeOK, FilesOK, StoreOK
      <4>2. txn' = [txn EXCEPT !.track = [@ EXCEPT ![Cur(s)] = "imported"],
                               !.plan  = [@ EXCEPT ![Cur(s)] = "imported"],
                               !.hash  = [@ EXCEPT ![Cur(s)] = lib[Dest(s)]]]
        BY <1>8, <2>2 DEF Record
      <4> QED
        BY <4>1, <4>2 DEF Database, WorkflowStates
    <3>2. rel[s] \in Releases /\ idx[s] \in DOMAIN Order[rel[s]] /\ Order[rel[s]] \in Seq(Tracks)
      BY <1>0, ImportAssumption DEF TypeOK, SessionOK
    <3>3. idx[s] # Len(Order[rel[s]]) => idx[s] + 1 \in DOMAIN Order[rel[s]]
      BY <3>2
    <3>4. SessionOK'
      <4>1. PICK step \in Steps, i \in DOMAIN Order[rel[s]] :
              Goto(s, step) /\ idx' = [idx EXCEPT ![s] = i]
        <5>1. CASE idx[s] = Len(Order[rel[s]])
          <6>1. Goto(s, "flush") /\ idx' = [idx EXCEPT ![s] = idx[s]]
            BY <1>8, <2>2, <5>1 DEF Record, TypeOK, SessionOK
          <6> QED
            BY <1>0, <3>2, <6>1
        <5>2. CASE idx[s] # Len(Order[rel[s]])
          <6>1. Goto(s, "pin") /\ idx' = [idx EXCEPT ![s] = idx[s] + 1]
            BY <1>8, <2>2, <5>2 DEF Record
          <6> QED
            BY <1>0, <3>3, <5>2, <6>1
        <5> QED
          BY <5>1, <5>2
      <4>2. UNCHANGED <<rel, mode, want, tmp, made, kept>>
        BY <1>8 DEF Record
      <4>3. i \in Nat
        BY <3>2
      <4>4. pc' \in [Sessions -> Steps] /\ idx' \in [Sessions -> Nat]
        BY <4>1, <4>3 DEF Goto, TypeOK, SessionOK
      <4>5. \A o \in Sessions : pc'[o] # "idle" =>
              rel'[o] \in Releases /\ mode'[o] \in Modes /\ idx'[o] \in DOMAIN Order[rel'[o]]
        BY <1>0, <4>1, <4>2 DEF Goto, TypeOK, SessionOK
      <4> QED
        BY <4>2, <4>4, <4>5 DEF TypeOK, SessionOK
    <3> QED
      BY <1>8, <3>1, <3>4 DEF Record, TypeOK, FilesOK, StoreOK, files
  <2> QED
    BY <2>1, <2>2
<1>9. CASE Flush(s)
  <2>1. txn' \in Database
    BY <1>9 DEF Flush, TypeOK, StoreOK, Database, WorkflowStates
  <2>2. SessionOK'
    BY <1>0, <1>9, SessionFrame DEF Flush, TypeOK, SessionOK
  <2> QED
    BY <1>9, <2>1, <2>2 DEF Flush, TypeOK, FilesOK, StoreOK, files
<1> QED
  BY <1>2, <1>3, <1>4, <1>5, <1>6, <1>7, <1>8, <1>9

(* The end of the transaction and the rollback of the files.               *)
LEMMA EndTypes ==
    ASSUME TypeOK, \A o \in Sessions : InHand(o), NEW s \in Sessions,
           \/ Commit(s) \/ CommitRaises(s) \/ Finalize(s)
           \/ UndoTemp(s) \/ UndoMade(s) \/ UndoKept(s)
           \/ NoteRollback(s) \/ RollbackRequest(s) \/ EndRollback(s) \/ Cancel(s)
    PROVE  TypeOK'
<1> USE DEF At
<1>0. /\ pc[s] # "idle"
      /\ {"committed", "rolled_back", "undo_made", "undo_kept", "undone", "raised"} \subseteq Steps
  BY DEF Commit, CommitRaises, Finalize, UndoTemp, UndoMade, UndoKept, NoteRollback,
         RollbackRequest, EndRollback, Cancel, Steps, UndoSteps, AwaitSteps
<1>1. CASE Commit(s) \/ CommitRaises(s)
  <2>1. SessionOK'
    BY <1>0, <1>1, SessionFrame DEF Commit, CommitRaises, TypeOK, SessionOK
  <2> QED
    BY <1>1, <2>1 DEF Commit, CommitRaises, TypeOK, FilesOK, StoreOK, files
<1>2. CASE Finalize(s) \/ RollbackRequest(s) \/ EndRollback(s) \/ Cancel(s)
  <2>1. \E gone \in {{}} \cup SUBSET Backups(s) : Finish(s, gone)
    BY <1>2 DEF Finalize, RollbackRequest, EndRollback, Cancel
  <2>2. stray' \subseteq Files /\ SessionOK'
    BY <2>1, FinishTypes
  <2>3. db' = db /\ txn' \in {db, txn} /\ lock' \in {lock, None} /\ UNCHANGED <<lib, staged>>
    BY <1>2 DEF Finalize, RollbackRequest, EndRollback, Cancel, store
  <2> QED
    BY <2>2, <2>3 DEF TypeOK, FilesOK, StoreOK
<1>3. CASE UndoTemp(s)
  <2>1. stray' \subseteq Files
    BY <1>3, HiddenTypes DEF UndoTemp, TypeOK, FilesOK
  <2>2. tmp' \in [Sessions -> Content \cup {None}]
    BY <1>3 DEF UndoTemp, TypeOK, SessionOK
  <2>3. SessionOK'
    BY <1>0, <1>3, <2>2, SessionFrame DEF UndoTemp, TypeOK, SessionOK
  <2> QED
    BY <1>3, <2>1, <2>3 DEF UndoTemp, TypeOK, FilesOK, StoreOK, store
<1>4. CASE UndoMade(s)
  <2>1. \E step \in Steps : Goto(s, step)
    BY <1>0, <1>4 DEF UndoMade, Goto, TypeOK, SessionOK
  <2>2. lib' \in [Dests -> Content \cup {None}] /\ made' \in [Sessions -> SUBSET Tracks]
    <3>1. CASE UNCHANGED <<lib, made>>
      BY <3>1 DEF TypeOK, FilesOK, SessionOK
    <3>2. ASSUME NEW t \in made[s], made' = [made EXCEPT ![s] = made[s] \ {t}],
                 lib' \in {lib, [lib EXCEPT ![Target(mode[s], t)] = None]}
          PROVE  lib' \in [Dests -> Content \cup {None}] /\ made' \in [Sessions -> SUBSET Tracks]
      BY <3>2 DEF TypeOK, FilesOK, SessionOK
    <3> QED
      BY <1>4, <3>1, <3>2 DEF UndoMade
  <2>3. SessionOK'
    BY <1>0, <1>4, <2>1, <2>2, SessionFrame DEF UndoMade, TypeOK, SessionOK
  <2> QED
    BY <1>4, <2>2, <2>3 DEF UndoMade, TypeOK, FilesOK, StoreOK, store
<1>5. CASE UndoKept(s)
  <2>1. \E step \in Steps : Goto(s, step)
    BY <1>0, <1>5 DEF UndoKept, Goto, TypeOK, SessionOK
  <2>2. kept' \in [Sessions -> [Tracks -> Content \cup {None}]]
    <3>1. CASE UNCHANGED kept
      BY <3>1 DEF TypeOK, SessionOK
    <3>2. ASSUME NEW t \in Tracks, kept' = [kept EXCEPT ![s] = [kept[s] EXCEPT ![t] = None]]
          PROVE  kept' \in [Sessions -> [Tracks -> Content \cup {None}]]
      <4>1. [kept[s] EXCEPT ![t] = None] \in [Tracks -> Content \cup {None}]
        BY DEF TypeOK, SessionOK
      <4> QED
        BY <3>2, <4>1 DEF TypeOK, SessionOK
    <3> QED
      BY <1>5, <3>1, <3>2 DEF UndoKept
  <2>3. \A t \in Tracks : Backup(s, t) \in Files
    BY <1>0, RequestTypes DEF Backup, Files, TypeOK, SessionOK
  <2>4. lib' \in [Dests -> Content \cup {None}] /\ stray' \subseteq Files
    <3>1. CASE UNCHANGED <<lib, stray>>
      BY <3>1 DEF TypeOK, FilesOK
    <3>2. ASSUME NEW t \in Tracks,
                 \/ lib' = [lib EXCEPT ![Target(mode[s], t)] = kept[s][t]] /\ UNCHANGED stray
                 \/ stray' = stray \cup {Backup(s, t)} /\ UNCHANGED lib
          PROVE  lib' \in [Dests -> Content \cup {None}] /\ stray' \subseteq Files
      <4>1. kept[s][t] \in Content \cup {None}
        BY DEF TypeOK, SessionOK
      <4> QED
        BY <2>3, <3>2, <4>1 DEF TypeOK, FilesOK
    <3> QED
      BY <1>5, <3>1, <3>2 DEF UndoKept
  <2>5. SessionOK'
    BY <1>0, <1>5, <2>1, <2>2, SessionFrame DEF UndoKept, TypeOK, SessionOK
  <2> QED
    BY <1>5, <2>4, <2>5 DEF UndoKept, TypeOK, FilesOK, StoreOK, store
<1>6. CASE NoteRollback(s)
  <2>1. txn' \in Database
    BY <1>0, <1>6, RolledBackType DEF NoteRollback, TypeOK, StoreOK, SessionOK
  <2>2. SessionOK'
    BY <1>0, <1>6, SessionFrame DEF NoteRollback, TypeOK, SessionOK
  <2> QED
    BY <1>6, <2>1, <2>2 DEF NoteRollback, TypeOK, FilesOK, StoreOK, files
<1> QED
  BY <1>1, <1>2, <1>3, <1>4, <1>5, <1>6

(* Planning, a crash, and other programs.                                  *)
LEMMA SurroundingTypes ==
    ASSUME TypeOK, \A o \in Sessions : InHand(o),
           \/ \E r \in Releases : PlanRelease(r)
           \/ Crash
           \/ \E d \in Dests : Foreign(d)
           \/ \E k \in {"job", "candidate"}, t \in Tracks : Restage(k, t)
    PROVE  TypeOK'
<1>1. ASSUME NEW r \in Releases, PlanRelease(r) PROVE TypeOK'
  <2>1. Planned("planned", r) \in Database
    BY PlannedType DEF Modes
  <2>2. FilesOK' /\ StoreOK'
    BY <1>1, <2>1 DEF PlanRelease, TypeOK, FilesOK, StoreOK, files
  <2>3. SessionOK'
    BY <1>1 DEF PlanRelease, TypeOK, SessionOK, session
  <2> QED
    BY <2>2, <2>3 DEF TypeOK
<1>2. CASE Crash
  <2>1. \A s \in Sessions : Temps(s) \cup Backups(s) \subseteq Files
    BY HiddenTypes
  <2>2. FilesOK' /\ StoreOK'
    BY <1>2, <2>1 DEF Crash, TypeOK, FilesOK, StoreOK
  <2>3. SessionOK'
    BY <1>2 DEF Crash, TypeOK, SessionOK, Steps, NoTracks
  <2> QED
    BY <2>2, <2>3 DEF TypeOK
<1>3. ASSUME NEW d \in Dests, Foreign(d) PROVE TypeOK'
  <2>1. FilesOK'
    BY <1>3, ImportAssumption DEF Foreign, TypeOK, FilesOK
  <2> QED
    BY <1>3, <2>1 DEF Foreign, TypeOK, StoreOK, SessionOK, store, session
<1>4. ASSUME NEW k \in {"job", "candidate"}, NEW t \in Tracks, Restage(k, t) PROVE TypeOK'
  <2>1. FilesOK'
    BY <1>4, ImportAssumption DEF Restage, TypeOK, FilesOK
  <2> QED
    BY <1>4, <2>1 DEF Restage, TypeOK, StoreOK, SessionOK, store, session
<1> QED
  BY <1>1, <1>2, <1>3, <1>4

LEMMA NextTypes ==
    ASSUME TypeOK, \A s \in Sessions : InHand(s), [Next]_vars
    PROVE  TypeOK'
<1>1. ASSUME NEW s \in Sessions, Proceed(s) \/ Raise(s) PROVE TypeOK'
  BY <1>1, BeginTypes, LoopTypes, EndTypes DEF Proceed, Raise
<1>2. ASSUME NEW s \in Sessions, NEW r \in Releases, LoadPlans(s, r) \/ BeginUpgrade(s, r)
      PROVE  TypeOK'
  BY <1>2, BeginTypes
<1>3. CASE UNCHANGED vars
  BY <1>3 DEF vars, TypeOK, FilesOK, StoreOK, SessionOK
<1> QED
  BY <1>1, <1>2, <1>3, SurroundingTypes DEF Next

(* A step touches what one request has in hand, or none.                   *)
LEMMA NextInHand ==
    ASSUME TypeOK, \A s \in Sessions : InHand(s), [Next]_vars
    PROVE  \A s \in Sessions : InHand(s)'
<1> USE DEF At, Goto, TypeOK, SessionOK
<1>1. ASSUME NEW s \in Sessions, Proceed(s) \/ Raise(s) PROVE \A o \in Sessions : InHand(o)'
  <2>1. \A o \in Sessions \ {s} : /\ pc'[o] = pc[o] /\ idx'[o] = idx[o]
                                  /\ tmp'[o] = tmp[o] /\ kept'[o] = kept[o]
    <3>1. CASE \/ Begin(s) \/ LockFails(s) \/ Pin(s) \/ Copy(s) \/ Verify(s) \/ Tag(s)
               \/ Check(s) \/ StepRaises(s) \/ BeginUnplanned(s)
      BY <3>1 DEF Begin, LockFails, Pin, Copy, Verify, Tag, Check, StepRaises,
                  BeginUnplanned, Finish, request
    <3>2. CASE \/ LinkBackup(s) \/ UnlinkLive(s) \/ UnlinkRaises(s) \/ Rename(s) \/ Fsync(s)
               \/ Record(s) \/ Flush(s)
      BY <3>2 DEF LinkBackup, UnlinkLive, UnlinkRaises, Rename, Fsync, Record, Flush, request
    <3>3. CASE Commit(s) \/ CommitRaises(s) \/ Finalize(s) \/ Cancel(s)
      BY <3>3 DEF Commit, CommitRaises, Finalize, Cancel, Finish, request
    <3>4. CASE UndoTemp(s) \/ UndoMade(s) \/ UndoKept(s)
      BY <3>4 DEF UndoTemp, UndoMade, UndoKept, request
    <3>5. CASE NoteRollback(s) \/ RollbackRequest(s) \/ EndRollback(s)
      BY <3>5 DEF NoteRollback, RollbackRequest, EndRollback, Finish, request
    <3> QED
      BY <1>1, <3>1, <3>2, <3>3, <3>4, <3>5 DEF Proceed, Raise
  <2>2. InHand(s)'
    <3>1. ASSUME NEW gone, Finish(s, gone) PROVE InHand(s)'
      BY <3>1 DEF Finish, InHand
    <3>2. CASE LockFails(s) \/ Finalize(s) \/ Cancel(s) \/ RollbackRequest(s) \/ EndRollback(s)
      BY <3>1, <3>2 DEF LockFails, Finalize, Cancel, RollbackRequest, EndRollback
    <3>3. CASE Begin(s) \/ Pin(s) \/ Check(s) \/ StepRaises(s)
      BY <3>3 DEF Begin, Pin, Check, StepRaises, InHand, LoopSteps
    <3>4. CASE BeginUnplanned(s)
      BY <3>1, <3>4 DEF BeginUnplanned, InHand
    <3>5. CASE Copy(s)
      BY <3>5 DEF Copy, InHand
    <3>6. CASE Verify(s)
      BY <3>6 DEF Verify, InHand
    <3>7. CASE \/ Tag(s) \/ LinkBackup(s) \/ UnlinkLive(s) \/ UnlinkRaises(s) \/ Rename(s)
               \/ Fsync(s) \/ Record(s) \/ Flush(s) \/ Commit(s) \/ CommitRaises(s)
               \/ UndoTemp(s) \/ NoteRollback(s)
      BY <3>7 DEF Tag, LinkBackup, UnlinkLive, UnlinkRaises, Rename, Fsync, Record, Flush,
                  Commit, CommitRaises, UndoTemp, NoteRollback, InHand
    <3>8. CASE UndoMade(s) \/ UndoKept(s)
      BY <3>8 DEF UndoMade, UndoKept, InHand
    <3> QED
      BY <1>1, <3>2, <3>3, <3>4, <3>5, <3>6, <3>7, <3>8 DEF Proceed, Raise
  <2> QED
    BY <2>1, <2>2 DEF InHand
<1>2. ASSUME NEW s \in Sessions, NEW r \in Releases, LoadPlans(s, r) \/ BeginUpgrade(s, r)
      PROVE  \A o \in Sessions : InHand(o)'
  BY <1>2 DEF LoadPlans, BeginUpgrade, InHand
<1>3. CASE Crash
  BY <1>3 DEF Crash, InHand
<1>4. CASE \/ UNCHANGED vars
           \/ \E r \in Releases : PlanRelease(r)
           \/ \E d \in Dests : Foreign(d)
           \/ \E k \in {"job", "candidate"}, t \in Tracks : Restage(k, t)
  <2>1. UNCHANGED session
    BY <1>4 DEF vars, session, PlanRelease, Foreign, Restage
  <2> QED
    BY <2>1 DEF session, InHand
<1> QED
  BY <1>1, <1>2, <1>3, <1>4 DEF Next

(* In every reachable state, whatever fails, every variable has its type.  *)
THEOREM TypeCorrect == Spec => []TypeOK
<1> DEFINE Inv == TypeOK /\ \A s \in Sessions : InHand(s)
<1>1. Init => Inv
  <2>1. Init => \A s \in Sessions : InHand(s)
    BY DEF Init, InHand
  <2> QED
    BY <2>1, InitTypes
<1>2. Inv /\ [Next]_vars => Inv'
  <2> SUFFICES ASSUME Inv, [Next]_vars PROVE Inv'
    OBVIOUS
  <2> QED
    BY NextTypes, NextInHand
<1>3. Inv => TypeOK
  OBVIOUS
<1> QED
  BY <1>1, <1>2, <1>3, PTL DEF Spec

-----------------------------------------------------------------------------
(* Exclusion.                                                              *)

(* The write lock after a step of request s is as it was, or the request   *)
(* has taken it or given it up.                                            *)
LEMMA LockSteps ==
    ASSUME TypeOK, \A o \in Sessions : Locked(o), lock = None => txn = db,
           NEW s \in Sessions,
           \/ Proceed(s) \/ Raise(s)
           \/ \E r \in Releases : LoadPlans(s, r) \/ BeginUpgrade(s, r)
    PROVE  /\ \A o \in Sessions \ {s} : pc'[o] = pc[o]
           /\ lock # s /\ lock' # s => UNCHANGED store
           /\ \/ UNCHANGED lock
              \/ lock = None /\ lock' = s
              \/ lock = s /\ lock' = None
           /\ Locked(s)'
           /\ lock' = None => txn' = db'
<1> USE DEF At, Goto, TypeOK, SessionOK, StoreOK, Locked
<1>0. None \notin Sessions
  BY ImportAssumption
<1>1. CASE \E r \in Releases : LoadPlans(s, r) \/ BeginUpgrade(s, r)
  BY <1>0, <1>1 DEF LoadPlans, BeginUpgrade, store, LoopSteps
<1>2. CASE Begin(s) \/ BeginUnplanned(s) \/ LockFails(s)
  BY <1>0, <1>2 DEF Begin, BeginUnplanned, LockFails, Finish, store, LoopSteps
<1>3. CASE StepRaises(s) \/ Pin(s) \/ Copy(s) \/ Verify(s) \/ Tag(s) \/ Check(s)
  BY <1>3 DEF StepRaises, Pin, Copy, Verify, Tag, Check, store, LoopSteps, UndoSteps
<1>4. CASE LinkBackup(s) \/ UnlinkLive(s) \/ UnlinkRaises(s) \/ Rename(s) \/ Fsync(s)
  BY <1>4 DEF LinkBackup, UnlinkLive, UnlinkRaises, Rename, Fsync, store, LoopSteps, UndoSteps
<1>5. CASE Record(s) \/ Flush(s)
  BY <1>0, <1>5 DEF Record, Flush, LoopSteps, UndoSteps
<1>6. CASE Commit(s) \/ CommitRaises(s)
  BY <1>0, <1>6 DEF Commit, CommitRaises, LoopSteps
<1>7. CASE Finalize(s) \/ EndRollback(s)
  BY <1>7 DEF Finalize, EndRollback, Finish, store, LoopSteps
<1>8. CASE RollbackRequest(s) \/ Cancel(s)
  <2>1. CASE RollbackRequest(s)
    BY <1>0, <2>1 DEF RollbackRequest, Finish, LoopSteps
  <2>2. CASE Cancel(s) /\ lock = s
    BY <1>0, <2>2 DEF Cancel, Finish, LoopSteps
  <2>3. CASE Cancel(s) /\ lock # s
    BY <2>3 DEF Cancel, Finish, store, LoopSteps
  <2> QED
    BY <1>8, <2>1, <2>2, <2>3
<1>9. CASE UndoTemp(s) \/ UndoMade(s) \/ UndoKept(s)
  BY <1>9 DEF UndoTemp, UndoMade, UndoKept, store, LoopSteps
<1>10. CASE NoteRollback(s)
  BY <1>0, <1>10 DEF NoteRollback, LoopSteps
<1> QED
  BY <1>1, <1>2, <1>3, <1>4, <1>5, <1>6, <1>7, <1>8, <1>9, <1>10 DEF Proceed, Raise

LEMMA NextLocked ==
    ASSUME TypeOK, \A s \in Sessions : Locked(s), lock = None => txn = db, [Next]_vars
    PROVE  (\A s \in Sessions : Locked(s)') /\ (lock' = None => txn' = db')
<1>1. ASSUME NEW s \in Sessions,
             \/ Proceed(s) \/ Raise(s)
             \/ \E r \in Releases : LoadPlans(s, r) \/ BeginUpgrade(s, r)
      PROVE  (\A o \in Sessions : Locked(o)') /\ (lock' = None => txn' = db')
  <2>1. ASSUME NEW o \in Sessions \ {s} PROVE Locked(o)'
    <3>1. None \notin Sessions
      BY ImportAssumption
    <3>2. /\ pc'[o] = pc[o]
          /\ \/ UNCHANGED lock
             \/ lock = None /\ lock' = s
             \/ lock = s /\ lock' = None
      BY <1>1, <2>1, LockSteps
    <3> QED
      BY <3>1, <3>2 DEF Locked
  <2>2. Locked(s)' /\ (lock' = None => txn' = db')
    BY <1>1, LockSteps
  <2> QED
    BY <2>1, <2>2
<1>2. CASE Crash
  BY <1>2, ImportAssumption DEF Crash, Locked, LoopSteps
<1>3. CASE \E r \in Releases : PlanRelease(r)
  BY <1>3 DEF PlanRelease, session, Locked
<1>4. CASE \/ UNCHANGED vars
           \/ \E d \in Dests : Foreign(d)
           \/ \E k \in {"job", "candidate"}, t \in Tracks : Restage(k, t)
  BY <1>4 DEF vars, Foreign, Restage, store, session, Locked
<1> QED
  BY <1>1, <1>2, <1>3, <1>4 DEF Next

-----------------------------------------------------------------------------
(* A release is imported whole or not at all.                              *)

(* Tracks of different releases are different.                             *)
LEMMA DisjointReleases ==
    ASSUME NEW q \in Releases, NEW r \in Releases, q # r, NEW t \in TracksOf(q)
    PROVE  t \notin TracksOf(r)
  BY ImportAssumption

LEMMA PlannedWhole ==
    ASSUME TypeOK, AllOrNothing, NEW m \in Modes, NEW r \in Releases, NEW q \in Releases
    PROVE  Whole(Planned(m, r), q)
<1> DEFINE d == Planned(m, r)
<1>1. CASE q = r
  <2>1. d.rel[r] \in {"ready", "needs_review"}
    BY DEF Planned, TypeOK, StoreOK, Database
  <2>2. \A t \in TracksOf(r) : d.track[t] \in {"ready", "needs_review"}
                               /\ d.plan[t] \in {"ready", "needs_review"}
    BY TracksOfRelease DEF Planned
  <2> QED
    BY <1>1, <2>1, <2>2 DEF Whole
<1>2. CASE q # r
  <2>1. d.rel[q] = db.rel[q]
    BY <1>2 DEF Planned, TypeOK, StoreOK, Database
  <2>2. \A t \in TracksOf(q) : d.track[t] = db.track[t] /\ d.plan[t] = db.plan[t]
    BY <1>2, TracksOfRelease, DisjointReleases DEF Planned
  <2>3. Whole(db, q)
    BY DEF AllOrNothing
  <2> QED
    BY <2>1, <2>2, <2>3 DEF Whole
<1> QED
  BY <1>1, <1>2

LEMMA ImportingWhole ==
    ASSUME NEW d \in Database, NEW r \in Releases, NEW q \in Releases \ {r}, Whole(d, q)
    PROVE  Whole(Importing(d, r), q)
<1>1. Importing(d, r).rel[q] = d.rel[q]
  BY DEF Importing, Database
<1>2. \A t \in TracksOf(q) : /\ Importing(d, r).track[t] = d.track[t]
                             /\ Importing(d, r).plan[t] = d.plan[t]
  BY TracksOfRelease, DisjointReleases DEF Importing, Database
<1> QED
  BY <1>1, <1>2 DEF Whole

(* Beginning: no plan of the release is imported yet.                      *)
LEMMA BeginUnderway ==
    ASSUME IInv, NEW s \in Sessions,
           Begin(s) \/ BeginUnplanned(s) \/ \E r \in Releases : BeginUpgrade(s, r)
    PROVE  Underway(s)' /\ db' = db
<1> USE DEF At, Goto, TypeOK, SessionOK, StoreOK
<1>1. CASE Begin(s)
  <2>1. rel[s] \in Releases /\ idx[s] = 1 /\ Order[rel[s]] \in Seq(Tracks)
    BY <1>1, ImportAssumption DEF Begin, IInv, InHand
  <2>2. \A q \in Releases \ {rel[s]} : Whole(txn', q)
    BY <1>1, <2>1, ImportingWhole DEF Begin, IInv, AllOrNothing
  <2>3. /\ rel' = rel /\ idx' = idx /\ pc'[s] = "pin" /\ db' = db
    BY <1>1 DEF Begin, request, IInv
  <2>4. \A i \in DOMAIN Order[rel[s]] : ~(i < 1)
    BY <2>1
  <2> QED
    BY <2>1, <2>2, <2>3, <2>4 DEF Underway
<1>2. CASE BeginUnplanned(s)
  <2>1. rel[s] \in Releases /\ idx[s] = 1 /\ Order[rel[s]] \in Seq(Tracks)
    BY <1>2, ImportAssumption DEF BeginUnplanned, IInv, InHand
  <2>2. CASE Finish(s, {}) /\ UNCHANGED <<txn, lock>>
    BY <1>2, <2>2 DEF BeginUnplanned, IInv, Locked, Underway
  <2>3. CASE /\ txn' = Importing(Planned("unplanned", rel[s]), rel[s])
             /\ Goto(s, "pin")
             /\ UNCHANGED <<rel, idx>>
    <3>1. Planned("unplanned", rel[s]) \in Database
      BY <2>1, PlannedType DEF IInv, Modes
    <3>2. \A q \in Releases \ {rel[s]} : Whole(txn', q)
      BY <2>1, <2>3, <3>1, ImportingWhole, PlannedWhole DEF IInv, Modes
    <3>3. \A i \in DOMAIN Order[rel[s]] : ~(i < 1)
      BY <2>1
    <3>4. pc'[s] = "pin" /\ db' = db
      BY <1>2, <2>3 DEF BeginUnplanned, IInv
    <3> QED
      BY <2>1, <2>3, <3>2, <3>3, <3>4 DEF Underway
  <2> QED
    BY <1>2, <2>2, <2>3 DEF BeginUnplanned
<1>3. ASSUME NEW r \in Releases, BeginUpgrade(s, r) PROVE Underway(s)' /\ db' = db
  <2>1. idx[s] = 1 /\ Order[r] \in Seq(Tracks)
    BY <1>3, ImportAssumption DEF BeginUpgrade, IInv, InHand
  <2>2. Planned("upgrade", r) \in Database
    BY PlannedType DEF IInv, Modes
  <2>3. \A q \in Releases \ {r} : Whole(txn', q)
    BY <1>3, <2>2, ImportingWhole, PlannedWhole DEF BeginUpgrade, IInv, Modes
  <2>4. \A i \in DOMAIN Order[r] : ~(i < 1)
    BY <2>1
  <2>5. rel'[s] = r /\ idx' = idx /\ pc'[s] = "pin" /\ db' = db
    BY <1>3 DEF BeginUpgrade, IInv
  <2> QED
    BY <2>1, <2>3, <2>4, <2>5 DEF Underway
<1> QED
  BY <1>1, <1>2, <1>3

(* Recording a plan imports one track more of the release.                 *)
LEMMA RecordUnderway ==
    ASSUME IInv, NEW s \in Sessions, Record(s)
    PROVE  Underway(s)' /\ db' = db
<1> USE DEF At, Goto, TypeOK, SessionOK, StoreOK
<1>1. /\ lock = s /\ pc[s] = "record" /\ pc[s] \in LoopSteps
      /\ UNCHANGED <<db, lock, rel>>
  BY DEF Record, IInv, Locked, LoopSteps
<1>2. /\ rel[s] \in Releases /\ idx[s] \in DOMAIN Order[rel[s]]
      /\ Order[rel[s]] \in Seq(Tracks) /\ idx[s] \in Nat
      /\ Cur(s) = Order[rel[s]][idx[s]]
  BY <1>1, ImportAssumption DEF IInv, Cur
<1>3. Cur(s) \in TracksOf(rel[s]) /\ Cur(s) \in Tracks
  BY <1>1, RequestTypes DEF IInv
<1>4. CASE ~Exists(s)
  BY <1>1, <1>4 DEF Record, IInv, Underway, LoopSteps
<1>5. CASE Exists(s)
  <2>1. txn' = [txn EXCEPT !.track = [@ EXCEPT ![Cur(s)] = "imported"],
                           !.plan  = [@ EXCEPT ![Cur(s)] = "imported"],
                           !.hash  = [@ EXCEPT ![Cur(s)] = lib[Dest(s)]]]
    BY <1>5 DEF Record
  <2>2. txn \in Database
    BY DEF IInv
  <2>3. /\ txn'.rel = txn.rel
        /\ txn'.track = [txn.track EXCEPT ![Cur(s)] = "imported"]
        /\ txn'.plan = [txn.plan EXCEPT ![Cur(s)] = "imported"]
    BY <2>1, <2>2 DEF Database
  <2>4. \A t \in Tracks : /\ t # Cur(s) => /\ txn'.track[t] = txn.track[t]
                                           /\ txn'.plan[t] = txn.plan[t]
                          /\ Imported(txn, t) => Imported(txn', t)
        /\ Imported(txn', Cur(s))
    BY <1>3, <2>2, <2>3 DEF Database, Imported
  <2>5. ASSUME NEW q \in Releases \ {rel[s]} PROVE Whole(txn', q)
    <3>1. Whole(txn, q)
      BY <1>1 DEF IInv, Underway
    <3>2. \A t \in TracksOf(q) : txn'.track[t] = txn.track[t] /\ txn'.plan[t] = txn.plan[t]
      BY <1>2, <1>3, <2>4, TracksOfRelease, DisjointReleases
    <3> QED
      BY <2>3, <3>1, <3>2 DEF Whole
  <2>6. ASSUME NEW i \in DOMAIN Order[rel[s]], i <= idx[s]
        PROVE  Imported(txn', Order[rel[s]][i])
    <3>1. CASE i = idx[s]
      BY <1>2, <2>4, <3>1
    <3>2. CASE i < idx[s]
      <4>1. Imported(txn, Order[rel[s]][i])
        BY <1>1, <3>2 DEF IInv, Underway
      <4>2. Order[rel[s]][i] \in Tracks
        BY <1>2
      <4> QED
        BY <2>4, <4>1, <4>2
    <3> QED
      BY <1>2, <2>6, <3>1, <3>2
  <2>7. CASE idx[s] = Len(Order[rel[s]])
    <3>1. pc'[s] = "flush"
      BY <1>1, <1>5, <2>7 DEF Record, IInv
    <3>2. \A i \in DOMAIN Order[rel[s]] : i <= idx[s]
      BY <1>2, <2>7
    <3>3. \A t \in TracksOf(rel[s]) : Imported(txn', t)
      BY <2>6, <3>2 DEF TracksOf
    <3> QED
      BY <1>1, <2>5, <3>1, <3>3 DEF Underway, LoopSteps
  <2>8. CASE idx[s] # Len(Order[rel[s]])
    <3>1. pc'[s] = "pin" /\ idx'[s] = idx[s] + 1
      BY <1>1, <1>5, <2>8 DEF Record, IInv
    <3>2. \A i \in DOMAIN Order[rel[s]] : i < idx[s] + 1 => i <= idx[s]
      BY <1>2
    <3> QED
      BY <1>1, <2>5, <2>6, <3>1, <3>2 DEF Underway
  <2> QED
    BY <2>7, <2>8
<1> QED
  BY <1>1, <1>4, <1>5

(* Any other step of a request.                                            *)
LEMMA SessionUnderway ==
    ASSUME IInv, NEW s \in Sessions,
           \/ Proceed(s) \/ Raise(s)
           \/ \E r \in Releases : LoadPlans(s, r) \/ BeginUpgrade(s, r)
    PROVE  Underway(s)' /\ AllOrNothing'
<1> USE DEF At, Goto, TypeOK, SessionOK, StoreOK
<1>0. None \notin Sessions /\ (db' = db => AllOrNothing')
  BY ImportAssumption DEF IInv, AllOrNothing, Whole
<1>1. CASE Begin(s) \/ BeginUnplanned(s) \/ \E r \in Releases : BeginUpgrade(s, r)
  BY <1>0, <1>1, BeginUnderway
<1>2. CASE Record(s)
  BY <1>0, <1>2, RecordUnderway
<1>3. CASE (\E r \in Releases : LoadPlans(s, r)) \/ LockFails(s) \/ Finalize(s) \/ EndRollback(s)
  <2>1. lock' # s /\ db' = db
    BY <1>3 DEF LoadPlans, LockFails, Finalize, EndRollback, IInv, Locked, store
  <2> QED
    BY <1>0, <2>1 DEF Underway
<1>4. CASE RollbackRequest(s) \/ Cancel(s) \/ CommitRaises(s)
  <2>1. lock' # s /\ db' = db
    BY <1>0, <1>4 DEF RollbackRequest, Cancel, CommitRaises, IInv
  <2> QED
    BY <1>0, <2>1 DEF Underway
<1>5. CASE Commit(s)
  <2>1. lock = s /\ lock' # s /\ db' = txn
    BY <1>0, <1>5 DEF Commit, IInv, Locked, LoopSteps
  <2>2. \A r \in Releases : Whole(txn, r)
    BY <1>5, <2>1 DEF Commit, IInv, Underway
  <2>3. AllOrNothing'
    BY <2>1, <2>2 DEF AllOrNothing, Whole
  <2> QED
    BY <2>1, <2>3 DEF Underway
<1>6. CASE \/ Pin(s) \/ Copy(s) \/ Verify(s) \/ Tag(s) \/ Check(s) \/ StepRaises(s)
           \/ LinkBackup(s) \/ UnlinkLive(s) \/ UnlinkRaises(s) \/ Rename(s) \/ Fsync(s)
  <2>1. UNCHANGED <<db, txn, lock, rel, idx>>
    BY <1>6 DEF Pin, Copy, Verify, Tag, Check, StepRaises, LinkBackup, UnlinkLive,
                UnlinkRaises, Rename, Fsync, request, store
  <2>2. /\ pc'[s] \in LoopSteps \cup {"undo_tmp"}
        /\ pc'[s] \in LoopSteps => pc[s] \in LoopSteps
    BY <1>6 DEF Pin, Copy, Verify, Tag, Check, StepRaises, LinkBackup, UnlinkLive,
                UnlinkRaises, Rename, Fsync, LoopSteps, IInv
  <2>3. pc'[s] \notin {"flush", "commit"}
    BY <2>2 DEF LoopSteps
  <2> QED
    BY <1>0, <2>1, <2>2, <2>3 DEF IInv, Underway, Whole, Imported
<1>7. CASE UndoTemp(s) \/ UndoMade(s) \/ UndoKept(s)
  <2>1. UNCHANGED <<db, txn, lock, rel, idx>>
    BY <1>7 DEF UndoTemp, UndoMade, UndoKept, request, store
  <2>2. pc'[s] \in {"undo_made", "undo_kept", "undone"}
    BY <1>7 DEF UndoTemp, UndoMade, UndoKept, IInv
  <2>3. pc'[s] \notin LoopSteps \cup {"flush", "commit"}
    BY <2>2 DEF LoopSteps
  <2> QED
    BY <1>0, <2>1, <2>3 DEF IInv, Underway, Whole
<1>8. CASE NoteRollback(s)
  <2>1. /\ rel[s] \in Releases /\ txn \in Database /\ lock = s
        /\ txn' = RolledBack(txn, rel[s])
        /\ UNCHANGED <<db, lock, rel>> /\ pc'[s] = "raised"
    BY <1>8 DEF NoteRollback, IInv, request
  <2>2. ASSUME NEW q \in Releases \ {rel[s]} PROVE Whole(txn', q)
    <3>1. Whole(txn, q)
      BY <2>1 DEF IInv, Underway
    <3>2. txn'.rel[q] = txn.rel[q]
      BY <2>1 DEF RolledBack, Database
    <3>3. \A t \in TracksOf(q) : txn'.track[t] = txn.track[t] /\ txn'.plan[t] = txn.plan[t]
      BY <2>1, TracksOfRelease, DisjointReleases DEF RolledBack, Database
    <3> QED
      BY <3>1, <3>2, <3>3 DEF Whole
  <2>3. pc'[s] \notin LoopSteps \cup {"flush", "commit"}
    BY <2>1 DEF LoopSteps
  <2> QED
    BY <1>0, <2>1, <2>2, <2>3 DEF Underway
<1>9. CASE Flush(s)
  <2>1. /\ rel[s] \in Releases /\ txn \in Database /\ lock = s
        /\ txn' = [txn EXCEPT !.rel = [@ EXCEPT ![rel[s]] = "imported"]]
        /\ UNCHANGED <<db, lock, rel>> /\ pc[s] = "flush" /\ pc'[s] = "commit"
    BY <1>9 DEF Flush, IInv, Locked, request
  <2>2. /\ txn'.track = txn.track /\ txn'.plan = txn.plan
        /\ txn'.rel = [txn.rel EXCEPT ![rel[s]] = "imported"]
        /\ txn.rel \in [Releases -> WorkflowStates]
    BY <2>1 DEF Database
  <2>3. \A q \in Releases \ {rel[s]} : Whole(txn', q)
    BY <2>1, <2>2 DEF IInv, Underway, Whole
  <2>4. Whole(txn', rel[s])
    BY <2>1, <2>2 DEF IInv, Underway, Whole, Imported
  <2>5. pc'[s] \notin LoopSteps \cup {"flush"}
    BY <2>1 DEF LoopSteps
  <2> QED
    BY <1>0, <2>1, <2>3, <2>4, <2>5 DEF Underway
<1> QED
  BY <1>1, <1>2, <1>3, <1>4, <1>5, <1>6, <1>7, <1>8, <1>9 DEF Proceed, Raise

(* A step of another request leaves the transaction of o alone.            *)
LEMMA OtherUnderway ==
    ASSUME IInv, NEW s \in Sessions, NEW o \in Sessions \ {s},
           \/ Proceed(s) \/ Raise(s)
           \/ \E r \in Releases : LoadPlans(s, r) \/ BeginUpgrade(s, r)
    PROVE  Underway(o)'
<1> USE DEF At, Goto, TypeOK, SessionOK
<1>1. None \notin Sessions
  BY ImportAssumption
<1>2. /\ pc'[o] = pc[o]
      /\ lock' = o => lock = o /\ UNCHANGED txn
  BY <1>1, LockSteps DEF IInv, store
<1>3. rel'[o] = rel[o] /\ idx'[o] = idx[o]
  <2>1. CASE \/ Begin(s) \/ LockFails(s) \/ Pin(s) \/ Copy(s) \/ Verify(s) \/ Tag(s)
             \/ Check(s) \/ StepRaises(s) \/ BeginUnplanned(s)
             \/ \E r \in Releases : LoadPlans(s, r) \/ BeginUpgrade(s, r)
    BY <2>1 DEF Begin, LockFails, Pin, Copy, Verify, Tag, Check, StepRaises,
                BeginUnplanned, LoadPlans, BeginUpgrade, Finish, request, IInv
  <2>2. CASE \/ LinkBackup(s) \/ UnlinkLive(s) \/ UnlinkRaises(s) \/ Rename(s) \/ Fsync(s)
             \/ Record(s) \/ Flush(s) \/ Commit(s) \/ CommitRaises(s)
    BY <2>2 DEF LinkBackup, UnlinkLive, UnlinkRaises, Rename, Fsync, Record, Flush,
                Commit, CommitRaises, request, IInv
  <2>3. CASE \/ UndoTemp(s) \/ UndoMade(s) \/ UndoKept(s) \/ NoteRollback(s)
             \/ RollbackRequest(s) \/ EndRollback(s) \/ Finalize(s) \/ Cancel(s)
    BY <2>3 DEF UndoTemp, UndoMade, UndoKept, NoteRollback, RollbackRequest, EndRollback,
                Finalize, Cancel, Finish, request, IInv
  <2> QED
    BY <2>1, <2>2, <2>3 DEF Proceed, Raise
<1> QED
  BY <1>2, <1>3 DEF IInv, Underway, Whole, Imported

LEMMA NextWhole ==
    ASSUME IInv, [Next]_vars
    PROVE  AllOrNothing' /\ \A s \in Sessions : Underway(s)'
<1>1. ASSUME NEW s \in Sessions,
             \/ Proceed(s) \/ Raise(s)
             \/ \E r \in Releases : LoadPlans(s, r) \/ BeginUpgrade(s, r)
      PROVE  AllOrNothing' /\ \A o \in Sessions : Underway(o)'
  <2>1. \A o \in Sessions \ {s} : Underway(o)'
    BY <1>1, OtherUnderway
  <2>2. Underway(s)' /\ AllOrNothing'
    BY <1>1, SessionUnderway
  <2> QED
    BY <2>1, <2>2
<1>2. ASSUME NEW r \in Releases, PlanRelease(r)
      PROVE  AllOrNothing' /\ \A s \in Sessions : Underway(s)'
  <2>1. db' = Planned("planned", r) /\ lock' = None
    BY <1>2 DEF PlanRelease
  <2>2. \A q \in Releases : Whole(db', q)
    BY <2>1, PlannedWhole DEF IInv, Modes
  <2> QED
    BY <2>1, <2>2, ImportAssumption DEF AllOrNothing, Whole, Underway
<1>3. CASE Crash
  BY <1>3, ImportAssumption DEF Crash, IInv, AllOrNothing, Whole, Underway
<1>4. CASE \/ UNCHANGED vars
           \/ \E d \in Dests : Foreign(d)
           \/ \E k \in {"job", "candidate"}, t \in Tracks : Restage(k, t)
  <2>1. UNCHANGED <<store, session>>
    BY <1>4 DEF vars, store, session, Foreign, Restage
  <2> QED
    BY <2>1 DEF store, session, IInv, AllOrNothing, Whole, Underway, Imported
<1> QED
  BY <1>1, <1>2, <1>3, <1>4 DEF Next

LEMMA InitInv == Init => IInv
<1> SUFFICES ASSUME Init PROVE IInv
  OBVIOUS
<1>1. (\A s \in Sessions : InHand(s)) /\ (\A s \in Sessions : Locked(s)) /\ txn = db
  BY ImportAssumption DEF Init, InHand, Locked, LoopSteps
<1>2. AllOrNothing
  <2>1. \A r \in Releases : \A t \in TracksOf(r) :
          /\ db.rel[r] = "discovered"
          /\ db.track[t] = "discovered" /\ db.plan[t] = None
    BY TracksOfRelease DEF Init
  <2>2. \A r \in Releases : db.rel[r] = "discovered"
    BY DEF Init
  <2> QED
    BY <2>1, <2>2, ImportAssumption DEF AllOrNothing, Whole, WorkflowStates
<1>3. \A s \in Sessions : Underway(s)
  BY ImportAssumption DEF Init, Underway
<1> QED
  BY <1>1, <1>2, <1>3, InitTypes DEF IInv

LEMMA StepInv == IInv /\ [Next]_vars => IInv'
<1> SUFFICES ASSUME IInv, [Next]_vars PROVE IInv'
  OBVIOUS
<1>1. TypeOK' /\ \A s \in Sessions : InHand(s)'
  BY NextTypes, NextInHand DEF IInv
<1>2. (\A s \in Sessions : Locked(s)') /\ (lock' = None => txn' = db')
  BY NextLocked DEF IInv
<1>3. AllOrNothing' /\ \A s \in Sessions : Underway(s)'
  BY NextWhole
<1> QED
  BY <1>1, <1>2, <1>3 DEF IInv

(* Whatever fails, is cancelled, dies, or is changed by other programs, the *)
(* database never has a release that is imported in part.                  *)
THEOREM ImportedWholly == Spec => []AllOrNothing
<1>1. IInv => AllOrNothing
  BY DEF IInv
<1> QED
  BY <1>1, InitInv, StepInv, PTL DEF Spec

-----------------------------------------------------------------------------
(* What the database calls imported is in the library, whatever fails, is  *)
(* cancelled or dies, if nothing is replaced and no other program touches  *)
(* the library or the staged files.                                        *)

Undisturbed == "upgrade" \notin Kinds /\ {"foreign", "restage"} \cap Faults = {}

(* The file an import makes of a track.                                    *)
FileOf(t) == Tagged(t, Arrives["job"][t])

(* A destination that a request has created and may still remove.          *)
Owns(s, t) == \/ t \in made[s] /\ pc[s] # "committed"
              \/ pc[s] = "fsync" /\ t = Cur(s)

(* A request has its copy in hand, and only renames to a free path.        *)
OnItsWay(s) ==
    /\ pc[s] \in {"idle", "loaded", "unplanned"} => made[s] = {}
    /\ pc[s] # "idle" => mode[s] \in {"planned", "unplanned"}
    /\ pc[s] = "loaded" => mode[s] = "planned"
    /\ pc[s] = "unplanned" => mode[s] = "unplanned"
    /\ pc[s] \notin {"link", "unlink"} /\ kept[s] = NoTracks
    /\ pc[s] \in {"verify", "tag"} => tmp[s] = Arrives["job"][Cur(s)]
    /\ pc[s] \in {"check", "rename"} => tmp[s] = FileOf(Cur(s))
    /\ pc[s] = "rename" => lib[Dest(s)] = None
    /\ pc[s] = "record" => Cur(s) \in made[s]

(* What requests have created is there, apart from each other and from     *)
(* everything that is imported.                                            *)
Created ==
    /\ \A s \in Sessions, t \in Tracks : Owns(s, t) =>
          /\ lib[Target(mode[s], t)] = FileOf(t)
          /\ \A u \in Tracks : db.track[u] = "imported" => db.dest[u] # Target(mode[s], t)
    /\ \A s, o \in Sessions, t, u \in Tracks :
          Owns(s, t) /\ Owns(o, u) /\ Target(mode[s], t) = Target(mode[o], u) => s = o /\ t = u

Recording ==
    \A t \in Tracks : db.track[t] = "imported" =>
        /\ db.dest[t] \in Dests
        /\ lib[db.dest[t]] = FileOf(t) /\ db.hash[t] = FileOf(t)

(* Plans that wait are by the configured template; a request that has      *)
(* loaded them finds them so, or the track imported by another.            *)
Waiting ==
    /\ \A t \in Tracks : db.plan[t] = "ready" => db.dest[t] = Target("planned", t)
    /\ \A s \in Sessions : pc[s] # "idle" /\ mode[s] = "planned" =>
          \A t \in TracksOf(rel[s]) :
              db.dest[t] = Target("planned", t) \/ db.track[t] = "imported"

Done(s, i) == i < idx[s] \/ pc[s] \in {"flush", "commit"}

(* The transaction of a request touches no track of another release, has   *)
(* the destinations of its plans, and the files it has created so far.     *)
Untouched(s) ==
    \A t \in Tracks \ TracksOf(rel[s]) :
        /\ txn.track[t] = db.track[t] /\ txn.plan[t] = db.plan[t]
        /\ txn.hash[t] = db.hash[t] /\ txn.dest[t] = db.dest[t]

Aimed(s) ==
    \A t \in TracksOf(rel[s]) :
        /\ txn.plan[t] # "ready"
        /\ \/ txn.dest[t] = Target(mode[s], t)
           \/ db.track[t] = "imported" /\ txn.dest[t] = db.dest[t]

Entered(s, t) == t \in made[s] /\ txn.track[t] = "imported" /\ txn.hash[t] = FileOf(t)

Finished(s) ==
    \A i \in DOMAIN Order[rel[s]] : Done(s, i) => Entered(s, Order[rel[s]][i])

Written(s) ==
    pc[s] \in LoopSteps \cup {"flush", "commit"} => Untouched(s) /\ Aimed(s) /\ Finished(s)

RecInv ==
    /\ IInv
    /\ staged["job"] = Arrives["job"]
    /\ \A s \in Sessions : OnItsWay(s)
    /\ Created /\ Recording /\ Waiting
    /\ \A s \in Sessions : Written(s)

-----------------------------------------------------------------------------
(* What a step of request s does to the others: nothing, and none of them  *)
(* is inside its loop.                                                     *)
OthersStay(s) ==
    /\ Alone(s)
    /\ \A o \in Sessions \ {s} :
          /\ pc'[o] = pc[o] /\ rel'[o] = rel[o] /\ mode'[o] = mode[o] /\ idx'[o] = idx[o]
          /\ tmp'[o] = tmp[o] /\ made'[o] = made[o] /\ kept'[o] = kept[o]

Moves(s) == Proceed(s) \/ Raise(s) \/ \E r \in Releases : LoadPlans(s, r)

LEMMA StepsAlone ==
    ASSUME TypeOK, NEW s \in Sessions, Moves(s)
    PROVE  OthersStay(s) /\ UNCHANGED staged
<1> USE DEF At, Goto, TypeOK, SessionOK, OthersStay
<1>1. CASE \/ Begin(s) \/ LockFails(s) \/ Pin(s) \/ Copy(s) \/ Verify(s) \/ Tag(s)
           \/ Check(s) \/ StepRaises(s) \/ BeginUnplanned(s)
           \/ \E r \in Releases : LoadPlans(s, r)
  BY <1>1 DEF Begin, LockFails, Pin, Copy, Verify, Tag, Check, StepRaises,
              BeginUnplanned, LoadPlans, Finish, request, files
<1>2. CASE \/ LinkBackup(s) \/ UnlinkLive(s) \/ UnlinkRaises(s) \/ Rename(s) \/ Fsync(s)
           \/ Record(s) \/ Flush(s) \/ Commit(s) \/ CommitRaises(s)
  BY <1>2 DEF LinkBackup, UnlinkLive, UnlinkRaises, Rename, Fsync, Record, Flush,
              Commit, CommitRaises, request, files
<1>3. CASE \/ UndoTemp(s) \/ UndoMade(s) \/ UndoKept(s) \/ NoteRollback(s)
           \/ RollbackRequest(s) \/ EndRollback(s) \/ Finalize(s) \/ Cancel(s)
  BY <1>3 DEF UndoTemp, UndoMade, UndoKept, NoteRollback, RollbackRequest, EndRollback,
              Finalize, Cancel, Finish, request, files
<1> QED
  BY <1>1, <1>2, <1>3 DEF Moves, Proceed, Raise

(* Others keep what they have in hand and what they have written: while    *)
(* one is about to commit the database does not change.                    *)
LEMMA OthersKeep ==
    ASSUME RecInv, NEW s \in Sessions, Moves(s), NEW o \in Sessions \ {s}
    PROVE  OnItsWay(o)' /\ Written(o)'
<1>1. OthersStay(s)
  BY StepsAlone DEF RecInv, IInv
<1>2. pc[o] \notin LoopSteps
  BY <1>1 DEF OthersStay, Alone
<1>3. OnItsWay(o)'
  BY <1>1, <1>2 DEF OthersStay, RecInv, OnItsWay, LoopSteps
<1>4. ASSUME pc[o] \in {"flush", "commit"} PROVE UNCHANGED <<db, txn>>
  <2>1. lock = o
    BY <1>4 DEF RecInv, IInv, Locked
  <2>2. None \notin Sessions
    BY ImportAssumption
  <2>3. /\ lock # s /\ lock' # s => UNCHANGED store
        /\ \/ UNCHANGED lock
           \/ lock = None /\ lock' = s
           \/ lock = s /\ lock' = None
    BY LockSteps DEF RecInv, IInv, Moves
  <2> QED
    BY <2>1, <2>2, <2>3 DEF store
<1>5. /\ pc'[o] = pc[o] /\ rel'[o] = rel[o] /\ mode'[o] = mode[o]
      /\ idx'[o] = idx[o] /\ made'[o] = made[o]
  BY <1>1 DEF OthersStay
<1>6. Written(o)'
  <2> SUFFICES ASSUME pc[o] \in {"flush", "commit"} PROVE Written(o)'
    BY <1>2, <1>5 DEF Written
  <2>1. UNCHANGED <<db, txn>> /\ Untouched(o) /\ Aimed(o) /\ Finished(o)
    BY <1>4 DEF RecInv, Written
  <2>2. Untouched(o)' /\ Aimed(o)'
    BY <1>5, <2>1 DEF Untouched, Aimed, Target
  <2>3. Finished(o)'
    BY <1>5, <2>1 DEF Finished, Done, Entered
  <2> QED
    BY <2>2, <2>3 DEF Written
<1> QED
  BY <1>3, <1>6

(* Request s changes neither the library nor the database, and creates     *)
(* nothing.                                                                *)
Quiet(s) ==
    /\ UNCHANGED <<lib, db>>
    /\ pc'[s] = "idle" \/ (pc[s] # "idle" /\ rel'[s] = rel[s] /\ mode'[s] = mode[s])
    /\ \A t \in Tracks : Owns(s, t)' => Owns(s, t) /\ mode'[s] = mode[s]

LEMMA OwnsAlone ==
    ASSUME NEW s \in Sessions, OthersStay(s), NEW o \in Sessions \ {s}, NEW t
    PROVE  Owns(o, t)' <=> Owns(o, t)
  BY DEF OthersStay, Owns, Cur

LEMMA QuietKeeps ==
    ASSUME RecInv, NEW s \in Sessions, OthersStay(s), Quiet(s)
    PROVE  Created' /\ Recording' /\ Waiting'
<1>1. \A o \in Sessions, t \in Tracks : Owns(o, t)' => Owns(o, t) /\ mode'[o] = mode[o]
  BY OwnsAlone DEF Quiet, OthersStay
<1>2. \A o \in Sessions, t \in Tracks :
        Owns(o, t)' => Owns(o, t) /\ Target(mode[o], t)' = Target(mode[o], t)
  BY <1>1 DEF Target
<1>3. Created'
  BY <1>2 DEF RecInv, Created, Quiet
<1>4. Recording'
  BY DEF RecInv, Recording, Quiet
<1>5. Waiting'
  <2>1. \A o \in Sessions : pc'[o] # "idle" /\ mode'[o] = "planned" =>
          pc[o] # "idle" /\ mode[o] = "planned" /\ rel'[o] = rel[o]
    BY DEF OthersStay, Quiet
  <2> QED
    BY <2>1 DEF RecInv, Waiting, Quiet
<1> QED
  BY <1>3, <1>4, <1>5

(* So a quiet step has only to show what its own request has.              *)
LEMMA QuietStep ==
    ASSUME RecInv, NEW s \in Sessions, Moves(s), Quiet(s), OnItsWay(s)', Written(s)', IInv'
    PROVE  RecInv'
<1>1. OthersStay(s) /\ UNCHANGED staged
  BY StepsAlone DEF RecInv, IInv
<1>2. Created' /\ Recording' /\ Waiting'
  BY <1>1, QuietKeeps
<1>3. \A o \in Sessions \ {s} : OnItsWay(o)' /\ Written(o)'
  BY OthersKeep
<1> QED
  BY <1>1, <1>2, <1>3 DEF RecInv

-----------------------------------------------------------------------------
(* Beginnings and ends.                                                    *)

LEMMA FinishQuiet ==
    ASSUME RecInv, NEW s \in Sessions, NEW gone, Finish(s, gone), UNCHANGED <<lib, db>>
    PROVE  Quiet(s) /\ OnItsWay(s)' /\ Written(s)'
<1>1. pc'[s] = "idle" /\ made'[s] = {} /\ kept'[s] = NoTracks
  BY DEF Finish, Goto, RecInv, IInv, TypeOK, SessionOK
<1>2. \A t \in Tracks : ~Owns(s, t)'
  BY <1>1 DEF Owns
<1> QED
  BY <1>1, <1>2 DEF Quiet, OnItsWay, Written, LoopSteps

(* A request that has just loaded has created nothing.                     *)
LEMMA LoadKeeps ==
    ASSUME RecInv, NEW s \in Sessions, NEW r \in Releases, LoadPlans(s, r), IInv'
    PROVE  RecInv'
<1>1. /\ pc[s] = "idle" /\ UNCHANGED <<lib, db, idx, tmp, made, kept>>
      /\ pc'[s] \in {"loaded", "unplanned"} /\ rel'[s] = r
      /\ pc'[s] = "loaded" <=> mode'[s] = "planned"
      /\ mode'[s] \in {"planned", "unplanned"}
      /\ mode'[s] = "planned" => \A t \in TracksOf(r) : db.plan[t] = "ready"
  BY DEF LoadPlans, At, Goto, files, store, RecInv, IInv, TypeOK, SessionOK
<1>2. OthersStay(s) /\ UNCHANGED staged
  BY StepsAlone DEF Moves, RecInv, IInv
<1>3. made[s] = {} /\ kept[s] = NoTracks
  BY <1>1 DEF RecInv, OnItsWay
<1>4. OnItsWay(s)' /\ Written(s)'
  BY <1>1, <1>3 DEF OnItsWay, Written, LoopSteps
<1>5. \A t \in Tracks : ~Owns(s, t)'
  BY <1>1, <1>3 DEF Owns
<1>6. \A o \in Sessions, t \in Tracks :
        Owns(o, t)' => Owns(o, t) /\ Target(mode[o], t)' = Target(mode[o], t)
  BY <1>2, <1>5, OwnsAlone DEF OthersStay, Target
<1>7. Created' /\ Recording'
  BY <1>1, <1>6 DEF RecInv, Created, Recording
<1>8. Waiting'
  <2>1. ASSUME NEW o \in Sessions \ {s}, pc'[o] # "idle", mode'[o] = "planned"
        PROVE  \A t \in TracksOf(rel'[o]) :
                 db.dest[t] = Target("planned", t) \/ db.track[t] = "imported"
    BY <1>2, <2>1 DEF OthersStay, RecInv, Waiting
  <2>2. mode'[s] = "planned" => \A t \in TracksOf(r) : db.dest[t] = Target("planned", t)
    BY <1>1, TracksOfRelease DEF RecInv, Waiting
  <2> QED
    BY <1>1, <2>1, <2>2 DEF RecInv, Waiting
<1>9. \A o \in Sessions \ {s} : OnItsWay(o)' /\ Written(o)'
  BY OthersKeep DEF Moves
<1> QED
  BY <1>2, <1>4, <1>7, <1>8, <1>9 DEF RecInv

(* Marking plans as importing changes nothing but the plans of the release.*)
LEMMA BeginKeeps ==
    ASSUME RecInv, NEW s \in Sessions, Begin(s), IInv'
    PROVE  RecInv'
<1>1. /\ pc[s] = "loaded" /\ pc'[s] = "pin" /\ txn' = Importing(db, rel[s])
      /\ UNCHANGED <<lib, db, rel, mode, idx, tmp, made, kept>>
  BY DEF Begin, At, Goto, files, request, RecInv, IInv, TypeOK, SessionOK
<1>2. /\ made[s] = {} /\ kept[s] = NoTracks /\ mode[s] = "planned" /\ idx[s] = 1
      /\ rel[s] \in Releases
  BY <1>1 DEF RecInv, OnItsWay, IInv, InHand, TypeOK, SessionOK
<1>3. Quiet(s)
  BY <1>1, <1>2 DEF Quiet, Owns
<1>4. OnItsWay(s)'
  BY <1>1, <1>2 DEF OnItsWay
<1>5. db \in Database
  BY DEF RecInv, IInv, TypeOK, StoreOK
<1>6. /\ txn'.track = db.track /\ txn'.hash = db.hash /\ txn'.dest = db.dest
      /\ \A t \in Tracks : txn'.plan[t] = IF t \in TracksOf(rel[s]) THEN "importing" ELSE db.plan[t]
  BY <1>1, <1>5 DEF Importing, Database
<1>7. Untouched(s)'
  BY <1>1, <1>6 DEF Untouched
<1>8. Aimed(s)'
  <2>1. \A t \in TracksOf(rel[s]) :
          db.dest[t] = Target("planned", t) \/ db.track[t] = "imported"
    BY <1>1, <1>2 DEF RecInv, Waiting
  <2> QED
    BY <1>1, <1>2, <1>6, <2>1, TracksOfRelease DEF Aimed
<1>9. Finished(s)'
  <2>1. Order[rel[s]] \in Seq(Tracks)
    BY <1>2, ImportAssumption
  <2>2. \A i \in DOMAIN Order[rel[s]] : ~(i < 1)
    BY <2>1
  <2> QED
    BY <1>1, <1>2, <2>2 DEF Finished, Done
<1>10. Written(s)'
  BY <1>7, <1>8, <1>9 DEF Written
<1> QED
  BY <1>3, <1>4, <1>10, QuietStep DEF Moves, Proceed

LEMMA BeginUnplannedKeeps ==
    ASSUME RecInv, NEW s \in Sessions, BeginUnplanned(s), IInv'
    PROVE  RecInv'
<1> DEFINE r == rel[s]
           d == Planned("unplanned", r)
<1>1. pc[s] = "unplanned" /\ UNCHANGED <<lib, db>>
  BY DEF BeginUnplanned, At
<1>2. CASE Finish(s, {})
  BY <1>1, <1>2, FinishQuiet, QuietStep DEF Moves, Proceed
<1>3. CASE /\ txn' = Importing(d, r) /\ Goto(s, "pin")
           /\ UNCHANGED <<rel, mode, idx, tmp, made, kept, stray>>
  <2>1. /\ made[s] = {} /\ kept[s] = NoTracks /\ mode[s] = "unplanned" /\ idx[s] = 1
        /\ r \in Releases /\ pc'[s] = "pin"
    BY <1>1, <1>3 DEF Goto, RecInv, OnItsWay, IInv, InHand, TypeOK, SessionOK
  <2>2. Quiet(s) /\ OnItsWay(s)'
    BY <1>1, <1>3, <2>1 DEF Quiet, Owns, OnItsWay
  <2>3. d \in Database
    BY <2>1, PlannedType DEF RecInv, IInv, Modes
  <2>4. /\ txn'.track = d.track /\ txn'.hash = d.hash /\ txn'.dest = d.dest
        /\ \A t \in Tracks : txn'.plan[t] = IF t \in TracksOf(r) THEN "importing" ELSE d.plan[t]
    BY <1>3, <2>3 DEF Importing, Database
  <2>5. \A t \in Tracks \ TracksOf(r) :
          /\ d.track[t] = db.track[t] /\ d.plan[t] = db.plan[t]
          /\ d.hash[t] = db.hash[t] /\ d.dest[t] = db.dest[t]
    BY DEF Planned
  <2>6. \A t \in TracksOf(r) : t \in Tracks /\ d.dest[t] = Target("unplanned", t)
    BY <2>1, TracksOfRelease DEF Planned
  <2>7. Untouched(s)'
    BY <1>1, <1>3, <2>4, <2>5 DEF Untouched
  <2>8. Aimed(s)'
    BY <1>3, <2>1, <2>4, <2>6 DEF Aimed
  <2>9. Finished(s)'
    <3>1. Order[r] \in Seq(Tracks)
      BY <2>1, ImportAssumption
    <3>2. \A i \in DOMAIN Order[r] : ~(i < 1)
      BY <3>1
    <3> QED
      BY <1>3, <2>1, <3>2 DEF Finished, Done
  <2>10. Written(s)'
    BY <2>7, <2>8, <2>9 DEF Written
  <2> QED
    BY <2>2, <2>10, QuietStep DEF Moves, Proceed
<1> QED
  BY <1>2, <1>3 DEF BeginUnplanned

(* Requests that end, or roll back their transaction.                      *)
LEMMA EndKeeps ==
    ASSUME RecInv, NEW s \in Sessions, IInv',
           \/ LockFails(s) \/ Finalize(s) \/ RollbackRequest(s) \/ EndRollback(s) \/ Cancel(s)
    PROVE  RecInv'
<1>1. UNCHANGED <<lib, db>> /\ \E gone : Finish(s, gone)
  BY DEF LockFails, Finalize, RollbackRequest, EndRollback, Cancel, store
<1>2. Quiet(s) /\ OnItsWay(s)' /\ Written(s)'
  BY <1>1, FinishQuiet
<1> QED
  BY <1>2, QuietStep DEF Moves, Proceed, Raise

-----------------------------------------------------------------------------
(* The import loop.                                                        *)

(* A step inside the loop leaves what is written and created; an exception *)
(* leaves the loop.                                                        *)
LEMMA LoopQuiet ==
    ASSUME RecInv, NEW s \in Sessions, pc[s] \in LoopSteps \cup {"flush"},
           UNCHANGED <<lib, db, txn, rel, mode, idx, made>>,
           pc'[s] \in (LoopSteps \ {"fsync"}) \cup {"undo_tmp"},
           pc'[s] = "undo_tmp" \/ pc[s] # "flush"
    PROVE  Quiet(s) /\ Written(s)'
<1>1. pc[s] # "idle" /\ pc'[s] # "committed" /\ pc[s] # "committed"
  BY DEF LoopSteps
<1>2. \A t \in Tracks : Owns(s, t)' => Owns(s, t)
  BY <1>1 DEF Owns, LoopSteps
<1>3. Quiet(s)
  BY <1>1, <1>2 DEF Quiet
<1>4. CASE pc'[s] = "undo_tmp"
  BY <1>3, <1>4 DEF Written, LoopSteps
<1>5. CASE pc'[s] # "undo_tmp"
  <2>1. pc[s] \in LoopSteps /\ pc'[s] \in LoopSteps /\ pc'[s] \notin {"flush", "commit"}
    BY <1>5 DEF LoopSteps
  <2>2. Untouched(s) /\ Aimed(s) /\ Finished(s)
    BY <2>1 DEF RecInv, Written
  <2>3. Untouched(s)' /\ Aimed(s)'
    BY <2>2 DEF Untouched, Aimed, Target
  <2>4. Finished(s)'
    BY <2>1, <2>2 DEF Finished, Done, Entered
  <2> QED
    BY <1>3, <2>3, <2>4 DEF Written
<1> QED
  BY <1>4, <1>5

LEMMA LookKeeps ==
    ASSUME RecInv, NEW s \in Sessions, IInv',
           StepRaises(s) \/ Pin(s) \/ Copy(s) \/ Verify(s) \/ Tag(s) \/ Check(s)
    PROVE  RecInv'
<1>1. /\ pc[s] \in LoopSteps \cup {"flush"}
      /\ UNCHANGED <<lib, db, txn, rel, mode, idx, made, kept>>
      /\ pc'[s] \in {"copy", "verify", "tag", "check", "link", "rename", "undo_tmp"}
      /\ pc'[s] = "undo_tmp" \/ pc[s] # "flush"
  BY DEF StepRaises, Pin, Copy, Verify, Tag, Check, At, Goto, files, store, request, LoopSteps,
         RecInv, IInv, TypeOK, SessionOK
<1>2. Quiet(s) /\ Written(s)'
  BY <1>1, LoopQuiet DEF LoopSteps
<1>3. mode[s] \in {"planned", "unplanned"} /\ kept[s] = NoTracks
  BY <1>1 DEF RecInv, OnItsWay, LoopSteps
<1>4. /\ pc'[s] \in {"verify", "tag"} => tmp'[s] = Arrives["job"][Cur(s)]
      /\ pc'[s] \in {"check", "rename"} => tmp'[s] = FileOf(Cur(s))
      /\ pc'[s] = "rename" => lib[Dest(s)] = None
      /\ pc'[s] # "link"
  <2>1. Staged(mode[s], Cur(s)) = Arrives["job"][Cur(s)]
    BY <1>3 DEF RecInv, Staged, Source
  <2>2. CASE StepRaises(s) \/ Pin(s)
    BY <2>2 DEF StepRaises, Pin, Goto, RecInv, IInv, TypeOK, SessionOK
  <2>3. CASE Copy(s)
    BY <2>1, <2>3 DEF Copy, At, Goto, RecInv, IInv, TypeOK, SessionOK
  <2>4. CASE Verify(s)
    BY <2>4 DEF Verify, At, Goto, RecInv, OnItsWay, IInv, TypeOK, SessionOK
  <2>5. CASE Tag(s)
    BY <2>5 DEF Tag, At, Goto, RecInv, OnItsWay, FileOf, IInv, TypeOK, SessionOK
  <2>6. CASE Check(s)
    BY <1>3, <2>6 DEF Check, At, Goto, Exists, RecInv, OnItsWay, IInv, TypeOK, SessionOK
  <2> QED
    BY <2>2, <2>3, <2>4, <2>5, <2>6
<1>5. Cur(s)' = Cur(s) /\ Dest(s)' = Dest(s)
  BY <1>1 DEF Cur, Dest, Target
<1>6. OnItsWay(s)'
  BY <1>1, <1>3, <1>4, <1>5 DEF OnItsWay, FileOf
<1> QED
  BY <1>2, <1>6, QuietStep DEF Moves, Proceed, Raise

(* What the request has renamed counts as created once the directory is    *)
(* synced; it was its own already.                                         *)
LEMMA FsyncKeeps ==
    ASSUME RecInv, NEW s \in Sessions, Fsync(s), IInv'
    PROVE  RecInv'
<1>1. /\ pc[s] = "fsync" /\ pc'[s] = "record" /\ made'[s] = made[s] \cup {Cur(s)}
      /\ UNCHANGED <<lib, db, txn, rel, mode, idx, tmp, kept>>
  BY DEF Fsync, At, Goto, files, store, request, RecInv, IInv, TypeOK, SessionOK
<1>2. Cur(s)' = Cur(s)
  BY <1>1 DEF Cur
<1>3. Quiet(s)
  BY <1>1 DEF Quiet, Owns
<1>4. OnItsWay(s)'
  BY <1>1, <1>2 DEF RecInv, OnItsWay
<1>5. Untouched(s) /\ Aimed(s) /\ Finished(s)
  BY <1>1 DEF RecInv, Written, LoopSteps
<1>6. Untouched(s)' /\ Aimed(s)'
  BY <1>1, <1>5 DEF Untouched, Aimed, Target
<1>7. Finished(s)'
  BY <1>1, <1>5 DEF Finished, Done, Entered
<1>8. Written(s)'
  BY <1>6, <1>7 DEF Written
<1> QED
  BY <1>3, <1>4, <1>8, QuietStep DEF Moves, Proceed

(* A file appears at a path that was free, so nobody's.                    *)
LEMMA RenameKeeps ==
    ASSUME RecInv, NEW s \in Sessions, Rename(s), IInv'
    PROVE  RecInv'
<1> DEFINE c == Cur(s)
           d == Dest(s)
<1>1. /\ pc[s] = "rename" /\ pc'[s] = "fsync"
      /\ UNCHANGED <<db, txn, rel, mode, idx, made, kept>>
  BY DEF Rename, At, Goto, store, request, RecInv, IInv, TypeOK, SessionOK
<1>2. OthersStay(s) /\ UNCHANGED staged
  BY StepsAlone DEF Moves, Proceed, RecInv, IInv
<1>3. c \in Tracks /\ d \in Dests /\ d = Target(mode[s], c) /\ (\A t \in Tracks : FileOf(t) # None)
  <2>1. \A t \in Tracks : FileOf(t) \in Content
    BY ImportAssumption DEF FileOf, Tagged, Content
  <2> QED
    BY <1>1, <2>1, RequestTypes, ImportAssumption DEF Dest, RecInv, IInv
<1>4. tmp[s] = FileOf(c) /\ lib[d] = None
  BY <1>1 DEF RecInv, OnItsWay
<1>5. /\ lib'[d] = FileOf(c)
      /\ \A e \in Dests \ {d} : lib'[e] = lib[e]
  BY <1>3, <1>4 DEF Rename, RecInv, IInv, TypeOK, FilesOK
<1>6. Cur(s)' = c /\ \A o \in Sessions, t \in Tracks : Target(mode[o], t)' = Target(mode[o], t)
  BY <1>1, <1>2 DEF Cur, OthersStay, Target
<1>7. \A o \in Sessions, t \in Tracks : Owns(o, t)' => Owns(o, t) \/ (o = s /\ t = c)
  BY <1>1, <1>6, <1>2, OwnsAlone DEF Owns
<1>8. \A o \in Sessions, t \in Tracks : Owns(o, t) =>
        Target(mode[o], t) \in Dests \ {d} /\ lib[Target(mode[o], t)] = FileOf(t)
  <2> SUFFICES ASSUME NEW o \in Sessions, NEW t \in Tracks, Owns(o, t)
               PROVE  Target(mode[o], t) \in Dests \ {d} /\ lib[Target(mode[o], t)] = FileOf(t)
    OBVIOUS
  <2>1. lib[Target(mode[o], t)] = FileOf(t)
    BY DEF RecInv, Created
  <2>2. Target(mode[o], t) \in Dests
    BY ImportAssumption DEF Target
  <2> QED
    BY <1>3, <1>4, <2>1, <2>2
<1>9. \A u \in Tracks : db.track[u] = "imported" => db.dest[u] \in Dests \ {d}
  BY <1>3, <1>4 DEF RecInv, Recording
<1>10. Created'
  <2>1. ASSUME NEW o \in Sessions, NEW t \in Tracks, Owns(o, t)'
        PROVE  /\ lib'[Target(mode[o], t)] = FileOf(t)
               /\ \A u \in Tracks : db.track[u] = "imported" => db.dest[u] # Target(mode[o], t)
    <3>1. CASE Owns(o, t)
      BY <1>5, <1>8, <3>1 DEF RecInv, Created
    <3>2. CASE o = s /\ t = c
      BY <1>3, <1>5, <1>9, <3>2
    <3> QED
      BY <1>7, <2>1, <3>1, <3>2
  <2>2. ASSUME NEW o \in Sessions, NEW p \in Sessions, NEW t \in Tracks, NEW u \in Tracks,
               Owns(o, t)', Owns(p, u)', Target(mode[o], t) = Target(mode[p], u)
        PROVE  o = p /\ t = u
    <3>1. CASE Owns(o, t) /\ Owns(p, u)
      BY <2>2, <3>1 DEF RecInv, Created
    <3>2. CASE o = s /\ t = c /\ Owns(p, u)
      BY <1>3, <1>8, <2>2, <3>2
    <3>3. CASE p = s /\ u = c /\ Owns(o, t)
      BY <1>3, <1>8, <2>2, <3>3
    <3>4. CASE o = s /\ t = c /\ p = s /\ u = c
      BY <3>4
    <3> QED
      BY <1>7, <2>2, <3>1, <3>2, <3>3, <3>4
  <2> QED
    BY <1>1, <1>6, <2>1, <2>2 DEF Created, FileOf
<1>11. Recording'
  BY <1>1, <1>5, <1>9 DEF RecInv, Recording, FileOf
<1>12. Waiting'
  BY <1>1, <1>2 DEF RecInv, Waiting, OthersStay
<1>13. OnItsWay(s)'
  BY <1>1 DEF RecInv, OnItsWay
<1>14. Written(s)'
  <2>1. Untouched(s) /\ Aimed(s) /\ Finished(s)
    BY <1>1 DEF RecInv, Written, LoopSteps
  <2>2. Untouched(s)' /\ Aimed(s)'
    BY <1>1, <2>1 DEF Untouched, Aimed, Target
  <2>3. Finished(s)'
    BY <1>1, <2>1 DEF Finished, Done, Entered
  <2> QED
    BY <2>2, <2>3 DEF Written
<1>15. \A o \in Sessions \ {s} : OnItsWay(o)' /\ Written(o)'
  BY OthersKeep DEF Moves, Proceed
<1> QED
  BY <1>2, <1>10, <1>11, <1>12, <1>13, <1>14, <1>15 DEF RecInv

(* What is recorded for the track is the file the request has put there.   *)
LEMMA RecordKeeps ==
    ASSUME RecInv, NEW s \in Sessions, Record(s), IInv'
    PROVE  RecInv'
<1> DEFINE c == Cur(s)
           r == rel[s]
<1>1. /\ pc[s] = "record" /\ pc'[s] \in {"undo_tmp", "flush", "pin"}
      /\ UNCHANGED <<lib, db, rel, mode, made, kept>>
  BY DEF Record, At, Goto, files, RecInv, IInv, TypeOK, SessionOK
<1>2. mode[s] \in {"planned", "unplanned"} /\ kept[s] = NoTracks /\ c \in made[s]
  BY <1>1 DEF RecInv, OnItsWay
<1>3. Quiet(s) /\ OnItsWay(s)'
  BY <1>1, <1>2 DEF Quiet, Owns, OnItsWay
<1>4. CASE ~Exists(s)
  <2>1. pc'[s] = "undo_tmp"
    BY <1>4 DEF Record, Goto, RecInv, IInv, TypeOK, SessionOK
  <2>2. Written(s)'
    BY <2>1 DEF Written, LoopSteps
  <2> QED
    BY <1>3, <2>2, QuietStep DEF Moves, Proceed
<1>5. CASE Exists(s)
  <2>1. /\ c \in Tracks /\ c \in TracksOf(r) /\ r \in Releases /\ idx[s] \in DOMAIN Order[r]
        /\ Order[r] \in Seq(Tracks)
    BY <1>1, RequestTypes, ImportAssumption DEF RecInv, IInv, TypeOK, SessionOK
  <2>2. lib[Dest(s)] = FileOf(c)
    <3>1. Owns(s, c)
      BY <1>1, <1>2 DEF Owns
    <3> QED
      BY <2>1, <3>1 DEF RecInv, Created, Dest
  <2>3. /\ txn'.track = [txn.track EXCEPT ![c] = "imported"]
        /\ txn'.plan = [txn.plan EXCEPT ![c] = "imported"]
        /\ txn'.hash = [txn.hash EXCEPT ![c] = FileOf(c)]
        /\ txn'.dest = txn.dest /\ txn \in Database
    <3>1. txn \in Database
      BY DEF RecInv, IInv, TypeOK, StoreOK
    <3>2. txn' = [txn EXCEPT !.track = [txn.track EXCEPT ![c] = "imported"],
                             !.plan  = [txn.plan EXCEPT ![c] = "imported"],
                             !.hash  = [txn.hash EXCEPT ![c] = FileOf(c)]]
      BY <1>5, <2>2 DEF Record
    <3> HIDE DEF c
    <3> QED
      BY <3>1, <3>2 DEF Database
  <2>4. /\ txn'.track[c] = "imported" /\ txn'.hash[c] = FileOf(c) /\ txn'.plan[c] # "ready"
        /\ \A t \in Tracks \ {c} : /\ txn'.track[t] = txn.track[t]
                                   /\ txn'.plan[t] = txn.plan[t] /\ txn'.hash[t] = txn.hash[t]
    BY <2>1, <2>3 DEF Database
  <2>5. Untouched(s) /\ Aimed(s) /\ Finished(s)
    BY <1>1 DEF RecInv, Written, LoopSteps
  <2>6. Untouched(s)'
    BY <1>1, <2>1, <2>3, <2>4, <2>5 DEF Untouched
  <2>7. Aimed(s)'
    <3>1. \A t \in TracksOf(r) : t \in Tracks
      BY <2>1, TracksOfRelease
    <3> QED
      BY <1>1, <2>3, <2>4, <2>5, <3>1 DEF Aimed, Target
  <2>8. Finished(s)'
    <3> SUFFICES ASSUME NEW i \in DOMAIN Order[r], Done(s, i)'
                 PROVE  Entered(s, Order[r][i])'
      BY <1>1 DEF Finished
    <3>1. i \in Nat /\ idx[s] \in Nat /\ Order[r][i] \in Tracks
      BY <2>1
    <3>2. i <= idx[s]
      <4>1. CASE idx[s] = Len(Order[r])
        BY <2>1, <4>1
      <4>2. CASE idx[s] # Len(Order[r])
        <5>1. pc'[s] = "pin" /\ idx'[s] = idx[s] + 1
          BY <1>1, <1>5, <4>2 DEF Record, Goto, RecInv, IInv, TypeOK, SessionOK
        <5> QED
          BY <3>1, <5>1 DEF Done
      <4> QED
        BY <4>1, <4>2
    <3>3. CASE i = idx[s]
      BY <1>1, <1>2, <2>4, <3>3 DEF Entered, Cur, FileOf
    <3>4. CASE i # idx[s]
      <4>1. Entered(s, Order[r][i])
        BY <2>5, <3>1, <3>2, <3>4 DEF Finished, Done
      <4> QED
        BY <1>1, <1>2, <2>4, <3>1, <4>1 DEF Entered, FileOf
    <3> QED
      BY <3>3, <3>4
  <2>9. Written(s)'
    BY <2>6, <2>7, <2>8 DEF Written
  <2> QED
    BY <1>3, <2>9, QuietStep DEF Moves, Proceed
<1> QED
  BY <1>4, <1>5

-----------------------------------------------------------------------------
(* The end of the transaction.                                             *)

LEMMA FlushKeeps ==
    ASSUME RecInv, NEW s \in Sessions, Flush(s), IInv'
    PROVE  RecInv'
<1>1. /\ pc[s] = "flush" /\ pc'[s] = "commit"
      /\ UNCHANGED <<lib, db, rel, mode, idx, made, kept>>
  BY DEF Flush, At, Goto, files, request, RecInv, IInv, TypeOK, SessionOK
<1>2. txn' = [txn EXCEPT !.rel = [txn.rel EXCEPT ![rel[s]] = "imported"]] /\ txn \in Database
  BY DEF Flush, RecInv, IInv, TypeOK, StoreOK
<1>3. /\ txn'.track = txn.track /\ txn'.plan = txn.plan
      /\ txn'.hash = txn.hash /\ txn'.dest = txn.dest
  BY <1>2 DEF Database
<1>4. Quiet(s) /\ OnItsWay(s)'
  BY <1>1 DEF Quiet, Owns, RecInv, OnItsWay
<1>5. Untouched(s) /\ Aimed(s) /\ Finished(s)
  BY <1>1 DEF RecInv, Written
<1>6. Untouched(s)' /\ Aimed(s)'
  BY <1>1, <1>3, <1>5 DEF Untouched, Aimed, Target
<1>7. Finished(s)'
  BY <1>1, <1>3, <1>5 DEF Finished, Done, Entered
<1>8. Written(s)'
  BY <1>6, <1>7 DEF Written
<1> QED
  BY <1>4, <1>8, QuietStep DEF Moves, Proceed

(* What is committed is the library's, and no longer the request's to undo.*)
LEMMA CommitKeeps ==
    ASSUME RecInv, NEW s \in Sessions, Commit(s), IInv'
    PROVE  RecInv'
<1> DEFINE r == rel[s]
<1>1. /\ pc[s] = "commit" /\ pc'[s] = "committed" /\ db' = txn
      /\ UNCHANGED <<lib, rel, mode, idx, tmp, made, kept>>
  BY DEF Commit, At, Goto, files, request, RecInv, IInv, TypeOK, SessionOK
<1>2. OthersStay(s) /\ UNCHANGED staged
  BY StepsAlone DEF Moves, Proceed, RecInv, IInv
<1>3. Untouched(s) /\ Aimed(s) /\ Finished(s)
  BY <1>1 DEF RecInv, Written
<1>4. r \in Releases /\ TracksOf(r) \subseteq Tracks /\ mode[s] \in {"planned", "unplanned"}
  BY <1>1, TracksOfRelease DEF RecInv, OnItsWay, IInv, TypeOK, SessionOK
<1>5. \A t \in TracksOf(r) : Entered(s, t) /\ Owns(s, t)
  BY <1>1, <1>3 DEF Finished, Done, TracksOf, Entered, Owns
<1>6. \A t \in TracksOf(r) : Target(mode[s], t) \in Dests /\ lib[Target(mode[s], t)] = FileOf(t)
  <2>1. \A t \in TracksOf(r) : lib[Target(mode[s], t)] = FileOf(t)
    BY <1>4, <1>5 DEF RecInv, Created
  <2>2. \A t \in Tracks : Target(mode[s], t) \in Dests
    BY ImportAssumption DEF Target
  <2> QED
    BY <1>4, <2>1, <2>2
<1>7. Recording'
  <2> SUFFICES ASSUME NEW t \in Tracks, txn.track[t] = "imported"
               PROVE  /\ txn.dest[t] \in Dests
                      /\ lib[txn.dest[t]] = FileOf(t) /\ txn.hash[t] = FileOf(t)
    BY <1>1 DEF Recording, FileOf
  <2>1. CASE t \notin TracksOf(r)
    BY <1>3, <2>1 DEF Untouched, RecInv, Recording
  <2>2. CASE t \in TracksOf(r)
    <3>1. txn.hash[t] = FileOf(t)
      BY <1>5, <2>2 DEF Entered
    <3>2. CASE txn.dest[t] = Target(mode[s], t)
      BY <1>6, <2>2, <3>1, <3>2
    <3>3. CASE db.track[t] = "imported" /\ txn.dest[t] = db.dest[t]
      BY <3>1, <3>3 DEF RecInv, Recording
    <3> QED
      BY <1>3, <2>2, <3>2, <3>3 DEF Aimed
  <2> QED
    BY <2>1, <2>2
<1>8. \A o \in Sessions, t \in Tracks : Owns(o, t)' =>
        o # s /\ Owns(o, t) /\ Target(mode[o], t)' = Target(mode[o], t)
  BY <1>1, <1>2, OwnsAlone DEF Owns, OthersStay, Target
<1>9. Created'
  <2>1. ASSUME NEW o \in Sessions, NEW t \in Tracks, o # s, Owns(o, t),
               NEW u \in Tracks, txn.track[u] = "imported"
        PROVE  txn.dest[u] # Target(mode[o], t)
    <3>1. db.track[u] = "imported" => db.dest[u] # Target(mode[o], t)
      BY <2>1 DEF RecInv, Created
    <3>2. CASE u \notin TracksOf(r)
      BY <1>3, <2>1, <3>1, <3>2 DEF Untouched
    <3>3. CASE u \in TracksOf(r)
      <4>1. Target(mode[s], u) # Target(mode[o], t)
        BY <1>5, <2>1, <3>3 DEF RecInv, Created
      <4> QED
        BY <1>3, <3>1, <3>3, <4>1 DEF Aimed
    <3> QED
      BY <3>2, <3>3
  <2>2. \A o \in Sessions, t \in Tracks : Owns(o, t) => lib[Target(mode[o], t)] = FileOf(t)
    BY DEF RecInv, Created
  <2>3. \A o, p \in Sessions, t, u \in Tracks :
          Owns(o, t) /\ Owns(p, u) /\ Target(mode[o], t) = Target(mode[p], u) => o = p /\ t = u
    BY DEF RecInv, Created
  <2> QED
    BY <1>1, <1>8, <2>1, <2>2, <2>3 DEF Created, FileOf
<1>10. Waiting'
  <2>1. ASSUME NEW t \in Tracks, txn.plan[t] = "ready" PROVE txn.dest[t] = Target("planned", t)
    <3>1. t \notin TracksOf(r)
      BY <1>3, <2>1 DEF Aimed
    <3> QED
      BY <1>3, <2>1, <3>1 DEF Untouched, RecInv, Waiting
  <2>2. ASSUME NEW o \in Sessions, pc'[o] # "idle", mode'[o] = "planned",
               NEW t \in TracksOf(rel'[o])
        PROVE  txn.dest[t] = Target("planned", t) \/ txn.track[t] = "imported"
    <3>1. pc[o] # "idle" /\ mode[o] = "planned" /\ rel'[o] = rel[o]
      BY <1>1, <1>2, <2>2 DEF OthersStay
    <3>2. db.dest[t] = Target("planned", t) \/ db.track[t] = "imported"
      BY <2>2, <3>1 DEF RecInv, Waiting
    <3>3. CASE t \in TracksOf(r)
      BY <1>5, <3>3 DEF Entered
    <3>4. CASE t \notin TracksOf(r)
      <4>1. t \in Tracks
        BY <2>2, <3>1, TracksOfRelease DEF RecInv, IInv, TypeOK, SessionOK
      <4> QED
        BY <1>3, <3>2, <3>4, <4>1 DEF Untouched
    <3> QED
      BY <3>3, <3>4
  <2> QED
    BY <1>1, <2>1, <2>2 DEF Waiting
<1>11. OnItsWay(s)' /\ Written(s)'
  BY <1>1 DEF RecInv, OnItsWay, Written, LoopSteps
<1>12. \A o \in Sessions \ {s} : OnItsWay(o)' /\ Written(o)'
  BY OthersKeep DEF Moves, Proceed
<1> QED
  BY <1>2, <1>7, <1>9, <1>10, <1>11, <1>12 DEF RecInv

-----------------------------------------------------------------------------
(* Rolling back.                                                           *)

LEMMA BackKeeps ==
    ASSUME RecInv, NEW s \in Sessions, IInv',
           CommitRaises(s) \/ UndoTemp(s) \/ UndoKept(s) \/ NoteRollback(s)
    PROVE  RecInv'
<1>1. kept[s] = NoTracks
  BY DEF RecInv, OnItsWay
<1>2. /\ pc[s] \in {"commit", "undo_tmp", "rolled_back", "undo_kept", "undone"}
      /\ pc'[s] \in {"rolled_back", "undo_made", "undone", "raised"}
      /\ UNCHANGED <<lib, db, rel, mode, idx, made, kept>>
  <2> DEFINE Same == UNCHANGED <<lib, db, rel, mode, idx, made, kept>>
  <2>1. CASE CommitRaises(s)
    <3>1. pc[s] = "commit" /\ Goto(s, "rolled_back") /\ Same
      BY <2>1 DEF CommitRaises, At, files, request
    <3> QED
      BY <3>1 DEF Goto, RecInv, IInv, TypeOK, SessionOK
  <2>2. CASE UndoTemp(s)
    <3>1. pc[s] \in {"undo_tmp", "rolled_back"} /\ Goto(s, "undo_made") /\ Same
      BY <2>2 DEF UndoTemp, store, request
    <3> QED
      BY <3>1 DEF Goto, RecInv, IInv, TypeOK, SessionOK
  <2>3. CASE UndoKept(s)
    <3>1. \A t \in Tracks : kept[s][t] = None
      BY <1>1 DEF NoTracks
    <3>2. pc[s] = "undo_kept" /\ Goto(s, "undone") /\ Same
      BY <2>3, <3>1 DEF UndoKept, At, store, request
    <3> QED
      BY <3>2 DEF Goto, RecInv, IInv, TypeOK, SessionOK
  <2>4. CASE NoteRollback(s)
    <3>1. pc[s] = "undone" /\ Goto(s, "raised") /\ Same
      BY <2>4 DEF NoteRollback, At, files, request
    <3> QED
      BY <3>1 DEF Goto, RecInv, IInv, TypeOK, SessionOK
  <2> QED
    BY <2>1, <2>2, <2>3, <2>4
<1>3. Quiet(s) /\ Written(s)'
  BY <1>2 DEF Quiet, Owns, Written, LoopSteps
<1>4. OnItsWay(s)'
  BY <1>2 DEF RecInv, OnItsWay
<1> QED
  BY <1>3, <1>4, QuietStep DEF Moves, Proceed, Raise

(* The request removes what it has created: no other file is at that path. *)
LEMMA UndoMadeKeeps ==
    ASSUME RecInv, NEW s \in Sessions, UndoMade(s), IInv'
    PROVE  RecInv'
<1>1. pc[s] = "undo_made" /\ UNCHANGED <<db, txn, rel, mode, idx, tmp, kept>>
  BY DEF UndoMade, At, store, request
<1>2. CASE Goto(s, "undo_kept") /\ UNCHANGED <<lib, made>>
  <2>1. pc'[s] = "undo_kept"
    BY <1>2 DEF Goto, RecInv, IInv, TypeOK, SessionOK
  <2>2. Quiet(s) /\ OnItsWay(s)' /\ Written(s)'
    BY <1>1, <1>2, <2>1 DEF Quiet, Owns, RecInv, OnItsWay, Written, LoopSteps
  <2> QED
    BY <2>2, QuietStep DEF Moves, Proceed
<1>3. ASSUME NEW t \in made[s],
             lib' = [lib EXCEPT ![Target(mode[s], t)] = None] \/ UNCHANGED lib,
             made' = [made EXCEPT ![s] = @ \ {t}], UNCHANGED pc
      PROVE  RecInv'
  <2> DEFINE d == Target(mode[s], t)
  <2>1. t \in Tracks /\ Owns(s, t) /\ d \in Dests
    BY <1>1, <1>3, ImportAssumption DEF Owns, Target, RecInv, IInv, TypeOK, SessionOK
  <2>2. OthersStay(s) /\ UNCHANGED staged
    BY StepsAlone DEF Moves, Proceed, RecInv, IInv
  <2>3. made'[s] = made[s] \ {t}
    BY <1>3 DEF RecInv, IInv, TypeOK, SessionOK
  <2>4. \A e \in Dests \ {d} : lib'[e] = lib[e]
    BY <1>3, <2>1 DEF RecInv, IInv, TypeOK, FilesOK
  <2>5. \A o \in Sessions, u \in Tracks : Owns(o, u)' =>
          /\ Owns(o, u) /\ Target(mode[o], u)' = Target(mode[o], u)
          /\ o # s \/ u # t
    BY <1>1, <1>3, <2>2, <2>3, OwnsAlone DEF Owns, OthersStay, Target
  <2>6. \A o \in Sessions, u \in Tracks :
          Owns(o, u) /\ (o # s \/ u # t) => Target(mode[o], u) \in Dests \ {d}
    <3>1. \A o \in Sessions, u \in Tracks : Target(mode[o], u) \in Dests
      BY ImportAssumption DEF Target
    <3> QED
      BY <2>1, <3>1 DEF RecInv, Created
  <2>7. Created'
    BY <1>1, <2>4, <2>5, <2>6 DEF RecInv, Created, FileOf
  <2>8. Recording'
    BY <1>1, <2>1, <2>4 DEF RecInv, Created, Recording, FileOf
  <2>9. Waiting'
    BY <1>1, <1>3 DEF RecInv, Waiting
  <2>10. OnItsWay(s)' /\ Written(s)'
    BY <1>1, <1>3 DEF RecInv, OnItsWay, Written, LoopSteps
  <2>11. \A o \in Sessions \ {s} : OnItsWay(o)' /\ Written(o)'
    BY OthersKeep DEF Moves, Proceed
  <2> QED
    BY <2>2, <2>7, <2>8, <2>9, <2>10, <2>11 DEF RecInv
<1> QED
  BY <1>2, <1>3 DEF UndoMade

-----------------------------------------------------------------------------
(* Planning, and the end of the process.                                   *)

(* A release that is planned is no longer imported, and no transaction is  *)
(* under way.                                                              *)
LEMMA PlanKeeps ==
    ASSUME RecInv, NEW r \in Releases, PlanRelease(r), IInv'
    PROVE  RecInv'
<1> DEFINE d == Planned("planned", r)
<1>1. lock = None /\ db' = d /\ UNCHANGED <<files, session>>
  BY DEF PlanRelease
<1>2. /\ UNCHANGED <<lib, staged, pc, rel, mode, idx, tmp, made, kept>>
  BY <1>1 DEF files, session
<1>3. \A t \in Tracks \ TracksOf(r) :
        d.track[t] = db.track[t] /\ d.plan[t] = db.plan[t]
        /\ d.hash[t] = db.hash[t] /\ d.dest[t] = db.dest[t]
  BY DEF Planned
<1>4. \A t \in TracksOf(r) :
        t \in Tracks /\ d.track[t] # "imported" /\ d.dest[t] = Target("planned", t)
  BY TracksOfRelease DEF Planned
<1>5. \A t \in Tracks : d.track[t] = "imported" =>
        /\ db.track[t] = "imported" /\ d.dest[t] = db.dest[t] /\ d.hash[t] = db.hash[t]
  BY <1>3, <1>4
<1>6. \A s \in Sessions : OnItsWay(s)'
  BY <1>2 DEF RecInv, OnItsWay, Cur, Dest, Target
<1>7. Created'
  <2>1. \A s \in Sessions, t \in Tracks :
          (Owns(s, t)' <=> Owns(s, t)) /\ Target(mode[s], t)' = Target(mode[s], t)
    BY <1>2 DEF Owns, Cur, Target
  <2> QED
    BY <1>1, <1>2, <1>5, <2>1 DEF RecInv, Created, FileOf
<1>8. Recording'
  BY <1>1, <1>2, <1>5 DEF RecInv, Recording, FileOf
<1>9. Waiting'
  <2>1. \A t \in Tracks : d.plan[t] = "ready" => d.dest[t] = Target("planned", t)
    BY <1>3, <1>4 DEF RecInv, Waiting
  <2>2. ASSUME NEW s \in Sessions, pc[s] # "idle", mode[s] = "planned", NEW t \in TracksOf(rel[s])
        PROVE  d.dest[t] = Target("planned", t) \/ d.track[t] = "imported"
    <3>1. t \in Tracks
      BY <2>2, TracksOfRelease DEF RecInv, IInv, TypeOK, SessionOK
    <3>2. db.dest[t] = Target("planned", t) \/ db.track[t] = "imported"
      BY <2>2 DEF RecInv, Waiting
    <3> QED
      BY <1>3, <1>4, <3>1, <3>2
  <2> QED
    BY <1>1, <1>2, <2>1, <2>2 DEF Waiting, Target
<1>10. \A s \in Sessions : Written(s)'
  <2>1. \A s \in Sessions : pc[s] \notin LoopSteps \cup {"flush", "commit"}
    BY <1>1, ImportAssumption DEF RecInv, IInv, Locked
  <2> QED
    BY <1>2, <2>1 DEF Written
<1> QED
  BY <1>2, <1>6, <1>7, <1>8, <1>9, <1>10 DEF RecInv

LEMMA CrashKeeps ==
    ASSUME RecInv, Crash, IInv'
    PROVE  RecInv'
<1>1. /\ UNCHANGED <<lib, staged, db>>
      /\ \A s \in Sessions : pc'[s] = "idle" /\ made'[s] = {} /\ kept'[s] = NoTracks
  BY DEF Crash
<1>2. \A s \in Sessions : OnItsWay(s)' /\ Written(s)'
  BY <1>1 DEF OnItsWay, Written, LoopSteps
<1>3. Created'
  <2>1. \A s \in Sessions, t \in Tracks : ~Owns(s, t)'
    BY <1>1 DEF Owns
  <2> QED
    BY <2>1 DEF Created
<1>4. Recording' /\ Waiting'
  BY <1>1 DEF RecInv, Recording, Waiting, FileOf
<1> QED
  BY <1>1, <1>2, <1>3, <1>4 DEF RecInv

LEMMA RecInit == Init => RecInv
<1> SUFFICES ASSUME Init PROVE RecInv
  OBVIOUS
<1>1. IInv
  BY InitInv
<1>2. \A s \in Sessions : OnItsWay(s) /\ Written(s) /\ \A t \in Tracks : ~Owns(s, t)
  BY DEF Init, OnItsWay, Written, Owns, LoopSteps
<1>3. Created
  BY <1>2 DEF Created
<1>4. Recording
  BY DEF Init, Recording
<1>5. Waiting
  BY ImportAssumption DEF Init, Waiting, WorkflowStates
<1> QED
  BY <1>1, <1>2, <1>3, <1>4, <1>5 DEF Init, RecInv

LEMMA RecNext ==
    ASSUME Undisturbed
    PROVE  RecInv /\ [Next]_vars => RecInv'
<1> SUFFICES ASSUME RecInv, [Next]_vars PROVE RecInv'
  OBVIOUS
<1>0. IInv'
  BY StepInv DEF RecInv
<1>1. ASSUME NEW s \in Sessions,
             \/ Begin(s) \/ BeginUnplanned(s) \/ LockFails(s) \/ Finalize(s)
             \/ RollbackRequest(s) \/ EndRollback(s) \/ Cancel(s)
      PROVE  RecInv'
  BY <1>0, <1>1, BeginKeeps, BeginUnplannedKeeps, EndKeeps
<1>2. ASSUME NEW s \in Sessions,
             \/ StepRaises(s) \/ Pin(s) \/ Copy(s) \/ Verify(s) \/ Tag(s) \/ Check(s)
             \/ Rename(s) \/ Fsync(s) \/ Record(s) \/ Flush(s) \/ Commit(s)
      PROVE  RecInv'
  BY <1>0, <1>2, LookKeeps, RenameKeeps, FsyncKeeps, RecordKeeps, FlushKeeps, CommitKeeps
<1>3. ASSUME NEW s \in Sessions,
             \/ CommitRaises(s) \/ UndoTemp(s) \/ UndoKept(s) \/ NoteRollback(s) \/ UndoMade(s)
      PROVE  RecInv'
  BY <1>0, <1>3, BackKeeps, UndoMadeKeeps
<1>4. ASSUME NEW s \in Sessions PROVE ~LinkBackup(s) /\ ~UnlinkLive(s) /\ ~UnlinkRaises(s)
  BY DEF RecInv, OnItsWay, LinkBackup, UnlinkLive, UnlinkRaises, At
<1>5. ASSUME NEW s \in Sessions, NEW r \in Releases, LoadPlans(s, r) \/ BeginUpgrade(s, r)
      PROVE  RecInv'
  BY <1>0, <1>5, LoadKeeps DEF Undisturbed, BeginUpgrade
<1>6. ASSUME NEW r \in Releases, PlanRelease(r) PROVE RecInv'
  BY <1>0, <1>6, PlanKeeps
<1>7. CASE Crash
  BY <1>0, <1>7, CrashKeeps
<1>8. ~(\E d \in Dests : Foreign(d)) /\ ~(\E k \in {"job", "candidate"}, t \in Tracks : Restage(k, t))
  BY DEF Undisturbed, Foreign, Restage
<1>9. CASE UNCHANGED vars
  <2>1. /\ UNCHANGED <<lib, staged, db, txn, lock>>
        /\ UNCHANGED <<pc, rel, mode, want, idx, tmp, made, kept>>
    BY <1>9 DEF vars
  <2>2. \A s \in Sessions : OnItsWay(s)'
    BY <2>1 DEF RecInv, OnItsWay, Cur, Dest, Target
  <2>3. \A s \in Sessions : Written(s)'
    BY <2>1 DEF RecInv, Written, Untouched, Aimed, Finished, Done, Entered, Target
  <2>4. Created' /\ Recording' /\ Waiting'
    BY <2>1 DEF RecInv, Created, Recording, Waiting, Owns, Cur, Target
  <2> QED
    BY <1>0, <2>1, <2>2, <2>3, <2>4 DEF RecInv
<1> QED
  BY <1>1, <1>2, <1>3, <1>4, <1>5, <1>6, <1>7, <1>8, <1>9 DEF Next, Proceed, Raise

(* Whatever fails, is cancelled or dies, and however requests interleave   *)
(* with the rollback of others, a track the database calls imported is in  *)
(* the library with its tags and its hash (execute_release_import,         *)
(* _rollback_pinned_filesystem).                                           *)
THEOREM RecordedIsThere ==
    ASSUME Undisturbed
    PROVE  Spec => []ImportedMatchesLibrary
<1>1. RecInv => ImportedMatchesLibrary
  <2>1. \A t \in Tracks : FileOf(t).tag = t
    BY ImportAssumption DEF FileOf, Tagged, Content
  <2> QED
    BY <2>1 DEF RecInv, Recording, ImportedMatchesLibrary
<1>2. RecInv /\ [Next]_vars => RecInv'
  BY RecNext
<1> QED
  BY <1>1, <1>2, RecInit, PTL DEF Spec
=============================================================================
