-------------------------- MODULE ImportFilesProofs --------------------------
(***************************************************************************)
(* Proofs about the files of LibraryImport, replacement included: nothing  *)
(* is left behind if every operation of a rollback or a clean-up is done,  *)
(* what a request has in its hands is its own (FileInv), no imported file  *)
(* is lost before its replacement is committed, and a release is imported  *)
(* as a whole or not at all (AtomicImport).                                *)
(***************************************************************************)
EXTENDS LibraryImportProofs

(* A step of s as far as the others are concerned, of whatever kind.       *)
Acts(s) == Moves(s) \/ \E r \in Releases : BeginUpgrade(s, r)

LEMMA ActsAlone ==
    ASSUME TypeOK, NEW s \in Sessions, Acts(s)
    PROVE  OthersStay(s) /\ UNCHANGED staged
<1>1. ASSUME NEW r \in Releases, BeginUpgrade(s, r)
      PROVE  OthersStay(s) /\ UNCHANGED staged
  BY <1>1 DEF BeginUpgrade, At, Goto, OthersStay, TypeOK, SessionOK, files
<1> QED
  BY <1>1, StepsAlone DEF Acts

-----------------------------------------------------------------------------
(* No operation of a rollback or a clean-up fails, and none is cut short.  *)
Unbroken == {"undo", "cleanup", "cancel", "crash"} \cap Faults = {}

(* A temporary is renamed or removed before the request goes on, and the   *)
(* backups are moved back before a rollback is over.                       *)
Cleared(s) ==
    /\ tmp[s] # None =>
          pc[s] \in {"verify", "tag", "check", "link", "unlink", "rename", "undo_tmp"}
    /\ pc[s] \in {"undone", "raised"} => kept[s] = NoTracks

ClearInv ==
    /\ IInv
    /\ stray = {}
    /\ \A s \in Sessions : Cleared(s)

(* A request that ends with nothing in hand leaves nothing.                *)
LEMMA FinishClears ==
    ASSUME ClearInv, NEW s \in Sessions, NEW gone, Finish(s, gone),
           tmp[s] = None, kept[s] = NoTracks \/ gone = Backups(s)
    PROVE  stray' = {} /\ Cleared(s)'
<1>1. Temps(s) = {}
  BY DEF Temps
<1>2. Backups(s) \subseteq gone
  BY DEF Backups, NoTracks
<1>3. stray' = {}
  BY <1>1, <1>2 DEF Finish, ClearInv
<1>4. tmp'[s] = None /\ kept'[s] = NoTracks
  BY DEF Finish, ClearInv, IInv, TypeOK, SessionOK
<1> QED
  BY <1>3, <1>4 DEF Cleared

LEMMA ActClears ==
    ASSUME Unbroken, ClearInv, NEW s \in Sessions, Acts(s)
    PROVE  stray' = {} /\ Cleared(s)'
<1> USE DEF At, Goto, ClearInv, IInv, TypeOK, SessionOK
<1>1. CASE \/ Begin(s) \/ Pin(s) \/ Copy(s) \/ Verify(s) \/ Tag(s) \/ Check(s) \/ StepRaises(s)
           \/ \E r \in Releases : LoadPlans(s, r) \/ BeginUpgrade(s, r)
  BY <1>1 DEF Begin, Pin, Copy, Verify, Tag, Check, StepRaises, LoadPlans, BeginUpgrade,
              Cleared, files, LoopSteps
<1>2. CASE \/ LinkBackup(s) \/ UnlinkLive(s) \/ UnlinkRaises(s) \/ Rename(s) \/ Fsync(s)
           \/ Record(s) \/ Flush(s) \/ Commit(s) \/ CommitRaises(s)
  BY <1>2 DEF LinkBackup, UnlinkLive, UnlinkRaises, Rename, Fsync, Record, Flush, Commit,
              CommitRaises, Cleared, files
<1>3. CASE UndoTemp(s) \/ UndoMade(s) \/ NoteRollback(s)
  BY <1>3 DEF UndoTemp, UndoMade, NoteRollback, Cleared, files, Unbroken
<1>4. CASE UndoKept(s)
  BY <1>4 DEF UndoKept, Cleared, Unbroken
<1>5. CASE BeginUnplanned(s)
  <2>1. tmp[s] = None /\ kept[s] = NoTracks /\ pc[s] = "unplanned"
    BY <1>5 DEF BeginUnplanned, InHand
  <2> QED
    BY <1>5, <2>1, FinishClears DEF BeginUnplanned, Cleared
<1>6. CASE LockFails(s) \/ RollbackRequest(s) \/ EndRollback(s)
  <2>1. Finish(s, {})
    BY <1>6 DEF LockFails, RollbackRequest, EndRollback
  <2>2. tmp[s] = None /\ kept[s] = NoTracks
    BY <1>6 DEF LockFails, RollbackRequest, EndRollback, Cleared, InHand
  <2> QED
    BY <2>1, <2>2, FinishClears
<1>7. CASE Finalize(s)
  <2>1. PICK gone \in SUBSET Backups(s) : gone = Backups(s) /\ Finish(s, gone)
    BY <1>7 DEF Finalize, Unbroken
  <2>2. tmp[s] = None
    BY <1>7 DEF Finalize, Cleared
  <2> QED
    BY <2>1, <2>2, FinishClears
<1>8. ~Cancel(s)
  BY DEF Unbroken, Cancel
<1> QED
  BY <1>1, <1>2, <1>3, <1>4, <1>5, <1>6, <1>7, <1>8 DEF Acts, Moves, Proceed, Raise

LEMMA ClearNext ==
    ASSUME Unbroken
    PROVE  ClearInv /\ [Next]_vars => ClearInv'
<1> SUFFICES ASSUME ClearInv, [Next]_vars PROVE ClearInv'
  OBVIOUS
<1>1. IInv'
  BY StepInv DEF ClearInv
<1>2. ASSUME NEW s \in Sessions, Acts(s) PROVE ClearInv'
  <2>1. stray' = {} /\ Cleared(s)'
    BY <1>2, ActClears
  <2>2. \A o \in Sessions \ {s} : Cleared(o)'
    BY <1>2, ActsAlone DEF ClearInv, IInv, OthersStay, Cleared
  <2> QED
    BY <1>1, <2>1, <2>2 DEF ClearInv
<1>3. CASE UNCHANGED <<stray, pc, tmp, kept>>
  BY <1>1, <1>3 DEF ClearInv, Cleared
<1>4. ASSUME \/ \E r \in Releases : PlanRelease(r)
             \/ \E d \in Dests : Foreign(d)
             \/ \E k \in {"job", "candidate"}, t \in Tracks : Restage(k, t)
             \/ UNCHANGED vars
      PROVE  UNCHANGED <<stray, pc, tmp, kept>>
  BY <1>4 DEF PlanRelease, Foreign, Restage, vars, files, session
<1>5. ~Crash
  BY DEF Unbroken, Crash
<1> QED
  BY <1>2, <1>3, <1>4, <1>5 DEF Next, Acts, Moves

(* A request that raises anywhere, also in COMMIT, leaves no temporary and *)
(* no backup beside the library files, as long as the operations of        *)
(* _rollback_pinned_filesystem and of finalize_filesystem_commit are done. *)
THEOREM NothingLeftBehind ==
    ASSUME Unbroken
    PROVE  Spec => []NoLitter
<1>1. Init => ClearInv
  <2> SUFFICES ASSUME Init PROVE ClearInv
    OBVIOUS
  <2>1. IInv
    BY InitInv
  <2>2. \A s \in Sessions : Cleared(s)
    BY DEF Init, Cleared
  <2> QED
    BY <2>1, <2>2 DEF Init, ClearInv
<1>2. ClearInv /\ [Next]_vars => ClearInv'
  BY ClearNext
<1>3. ClearInv => NoLitter
  BY DEF ClearInv, NoLitter
<1> QED
  BY <1>1, <1>2, <1>3, PTL DEF Spec

-----------------------------------------------------------------------------
(* One request at a time is between its first flush and its end, if no     *)
(* request rolls back after it has lost the write lock to another.         *)
Exclusive == "commit" \in Faults => \A s, o \in Sessions : s = o

(* No other program writes to the library.                                 *)
Private == "foreign" \notin Faults

(* The tracks of a release that is upgraded have paths of their own.       *)
Parted ==
    "upgrade" \in Kinds =>
        \A r \in Releases : \A t, u \in TracksOf(r) :
            DestOf["default"][t] = DestOf["default"][u] => t = u

Active(s) == pc[s] \notin {"idle", "loaded", "unplanned", "committed"}
Solo(s) == Active(s) /\ "commit" \notin Faults => lock = s

Held(s, t) == t \in made[s] \/ kept[s][t] # None

(* What a request has created or moved aside: files of its release, and in *)
(* an upgrade nothing is created that has no backup.                       *)
Hands(s) ==
    /\ pc[s] \in {"idle", "loaded", "unplanned", "undo_kept", "undone", "raised"} => made[s] = {}
    /\ pc[s] \in {"undone", "raised"} => kept[s] = NoTracks
    /\ pc[s] # "idle" /\ mode[s] = "upgrade" => "upgrade" \in Kinds
    /\ Active(s) =>
          /\ \A t \in Tracks : Held(s, t) => t \in TracksOf(rel[s])
          /\ mode[s] # "upgrade" => kept[s] = NoTracks
          /\ mode[s] = "upgrade" => \A t \in made[s] : kept[s][t] # None

(* The tracks from the current one on are as they were; the current one    *)
(* has its backup, then no file, then its new file.                        *)
Ahead(s) ==
    pc[s] \in LoopSteps =>
        /\ \A i \in DOMAIN Order[rel[s]] : i > idx[s] => ~Held(s, Order[rel[s]][i])
        /\ pc[s] \in {"pin", "copy", "verify", "tag", "check", "link"} => ~Held(s, Cur(s))
        /\ pc[s] \in {"link", "unlink"} => mode[s] = "upgrade"
        /\ pc[s] = "unlink" => /\ Cur(s) \notin made[s]
                               /\ kept[s][Cur(s)] = lib[Dest(s)] /\ lib[Dest(s)] # None
        /\ pc[s] = "rename" => lib[Dest(s)] = None
        /\ pc[s] \in {"rename", "fsync", "record"} /\ mode[s] = "upgrade" => kept[s][Cur(s)] # None
        /\ pc[s] = "record" => Cur(s) \in made[s]

(* The tracks before it are created, and recorded as they are.             *)
Replaced(s, t) ==
    /\ t \in made[s]
    /\ txn.track[t] = "imported"
    /\ txn.hash[t] = lib[Target(mode[s], t)] /\ txn.hash[t] # None

Behind(s) ==
    pc[s] \in LoopSteps \cup {"flush", "commit"} =>
        /\ Untouched(s)
        /\ \A i \in DOMAIN Order[rel[s]] : Done(s, i) => Replaced(s, Order[rel[s]][i])

FileInv ==
    /\ IInv
    /\ \A s \in Sessions : Solo(s) /\ Hands(s) /\ Ahead(s) /\ Behind(s)

-----------------------------------------------------------------------------
LEMMA OneActive ==
    ASSUME Exclusive, FileInv, NEW s \in Sessions, NEW o \in Sessions, Active(s), Active(o)
    PROVE  s = o
  BY DEF Exclusive, FileInv, Solo

(* While one request is active the steps of the others change neither the  *)
(* library nor the database.                                               *)
LEMMA OthersWait ==
    ASSUME Exclusive, FileInv, NEW s \in Sessions, Acts(s), NEW o \in Sessions \ {s}, Active(o)
    PROVE  UNCHANGED <<lib, db, txn, lock>> /\ ~Active(s)
<1>1. ~Active(s) /\ lock = o
  BY OneActive DEF Exclusive, FileInv, Solo
<1>2. UNCHANGED store
  <2>1. /\ lock # s /\ lock' # s => UNCHANGED store
        /\ \/ UNCHANGED lock
           \/ lock = None /\ lock' = s
           \/ lock = s /\ lock' = None
    BY LockSteps DEF FileInv, IInv, Acts, Moves
  <2> QED
    BY <1>1, <2>1, ImportAssumption
<1>3. UNCHANGED lib
  <2> USE DEF At, files
  <2>1. CASE \/ Begin(s) \/ BeginUnplanned(s) \/ LockFails(s) \/ Pin(s) \/ Copy(s) \/ Verify(s)
             \/ Tag(s) \/ Check(s) \/ StepRaises(s) \/ LinkBackup(s) \/ UnlinkRaises(s)
             \/ \E r \in Releases : LoadPlans(s, r) \/ BeginUpgrade(s, r)
    BY <2>1 DEF Begin, BeginUnplanned, LockFails, Pin, Copy, Verify, Tag, Check, StepRaises,
                LinkBackup, UnlinkRaises, LoadPlans, BeginUpgrade
  <2>2. CASE \/ Fsync(s) \/ Record(s) \/ Flush(s) \/ Commit(s) \/ CommitRaises(s)
             \/ UndoTemp(s) \/ NoteRollback(s) \/ RollbackRequest(s) \/ EndRollback(s)
             \/ Finalize(s) \/ Cancel(s)
    BY <2>2 DEF Fsync, Record, Flush, Commit, CommitRaises, UndoTemp, NoteRollback,
                RollbackRequest, EndRollback, Finalize, Cancel
  <2>3. ~UnlinkLive(s) /\ ~Rename(s) /\ ~UndoMade(s) /\ ~UndoKept(s)
    BY <1>1 DEF UnlinkLive, Rename, UndoMade, UndoKept, Active
  <2> QED
    BY <2>1, <2>2, <2>3 DEF Acts, Moves, Proceed, Raise
<1> QED
  BY <1>1, <1>2, <1>3 DEF store

LEMMA FileOthers ==
    ASSUME Exclusive, FileInv, NEW s \in Sessions, Acts(s), NEW o \in Sessions \ {s}
    PROVE  Solo(o)' /\ Hands(o)' /\ Ahead(o)' /\ Behind(o)'
<1>1. OthersStay(s)
  BY ActsAlone DEF FileInv, IInv
<1>2. /\ pc'[o] = pc[o] /\ rel'[o] = rel[o] /\ mode'[o] = mode[o] /\ idx'[o] = idx[o]
      /\ made'[o] = made[o] /\ kept'[o] = kept[o]
  BY <1>1 DEF OthersStay
<1>3. Solo(o) /\ Hands(o) /\ Ahead(o) /\ Behind(o)
  BY DEF FileInv
<1>4. Hands(o)'
  BY <1>2, <1>3 DEF Hands, Held, Active
<1>5. CASE ~Active(o)
  BY <1>2, <1>4, <1>5 DEF Active, Solo, Ahead, Behind, LoopSteps
<1>6. CASE Active(o)
  <2>1. UNCHANGED <<lib, db, txn, lock>>
    BY <1>6, OthersWait
  <2>2. Solo(o)'
    BY <1>2, <1>3, <2>1 DEF Solo, Active
  <2>3. Ahead(o)'
    <3>1. Cur(o)' = Cur(o) /\ Dest(o)' = Dest(o)
      BY <1>2 DEF Cur, Dest, Target
    <3>2. \A t : Held(o, t)' <=> Held(o, t)
      BY <1>2 DEF Held
    <3> QED
      BY <1>2, <1>3, <2>1, <3>1, <3>2 DEF Ahead
  <2>4. Untouched(o) => Untouched(o)'
    BY <1>2, <2>1 DEF Untouched
  <2>5. Behind(o)'
    BY <1>2, <1>3, <2>1, <2>4 DEF Behind, Replaced, Done, Target
  <2> QED
    BY <1>4, <2>2, <2>3, <2>5
<1> QED
  BY <1>5, <1>6

(* So a step of s has to show only what s has.                             *)
LEMMA FileStep ==
    ASSUME Exclusive, FileInv, NEW s \in Sessions, Acts(s), IInv',
           Solo(s)', Hands(s)', Ahead(s)', Behind(s)'
    PROVE  FileInv'
  BY FileOthers DEF FileInv

(* What a plan is for when it is being imported.                           *)
LEMMA CurrentPlan ==
    ASSUME FileInv, NEW s \in Sessions, pc[s] # "idle"
    PROVE  /\ rel[s] \in Releases /\ mode[s] \in Modes /\ idx[s] \in DOMAIN Order[rel[s]]
           /\ Order[rel[s]] \in Seq(Tracks) /\ idx[s] \in Nat
           /\ DOMAIN Order[rel[s]] = 1..Len(Order[rel[s]]) /\ Len(Order[rel[s]]) \in Nat
           /\ Cur(s) = Order[rel[s]][idx[s]]
           /\ Cur(s) \in Tracks /\ Cur(s) \in TracksOf(rel[s])
           /\ \A i \in DOMAIN Order[rel[s]] : i \in Nat /\ Order[rel[s]][i] \in Tracks
                                             /\ Order[rel[s]][i] \in TracksOf(rel[s])
           /\ \A i, j \in DOMAIN Order[rel[s]] : Order[rel[s]][i] = Order[rel[s]][j] => i = j
           /\ Dest(s) = Target(mode[s], Cur(s))
           /\ \A t \in Tracks : Target(mode[s], t) \in Dests
<1>1. rel[s] \in Releases /\ mode[s] \in Modes /\ idx[s] \in DOMAIN Order[rel[s]]
  BY DEF FileInv, IInv, TypeOK, SessionOK
<1>2. Order[rel[s]] \in Seq(Tracks)
  BY <1>1, ImportAssumption
<1>3. /\ DOMAIN Order[rel[s]] = 1..Len(Order[rel[s]]) /\ Len(Order[rel[s]]) \in Nat
      /\ idx[s] \in Nat
      /\ \A i \in DOMAIN Order[rel[s]] : i \in Nat /\ Order[rel[s]][i] \in Tracks
  BY <1>1, <1>2
<1>4. \A i \in DOMAIN Order[rel[s]] : Order[rel[s]][i] \in TracksOf(rel[s])
  BY DEF TracksOf
<1>5. \A i, j \in DOMAIN Order[rel[s]] : Order[rel[s]][i] = Order[rel[s]][j] => i = j
  BY <1>1, ImportAssumption
<1>6. /\ Cur(s) \in Tracks /\ Cur(s) \in TracksOf(rel[s])
      /\ \A t \in Tracks : Target(mode[s], t) \in Dests
  BY RequestTypes DEF FileInv, IInv
<1> QED
  BY <1>1, <1>2, <1>3, <1>4, <1>5, <1>6 DEF Cur, Dest

(* The other plans are for other tracks.                                   *)
LEMMA OtherPlans ==
    ASSUME FileInv, NEW s \in Sessions, pc[s] # "idle", NEW i \in DOMAIN Order[rel[s]]
    PROVE  /\ i > idx[s] \/ i < idx[s] \/ i = idx[s]
           /\ i > idx[s] => ~(i < idx[s])
           /\ i > idx[s] \/ i < idx[s] => Order[rel[s]][i] # Cur(s)
<1>1. i \in Nat /\ idx[s] \in Nat
  BY CurrentPlan
<1>2. i # idx[s] => Order[rel[s]][i] # Cur(s)
  BY CurrentPlan
<1> QED
  BY <1>1, <1>2

-----------------------------------------------------------------------------
(* Beginnings and ends.                                                    *)

LEMMA FinishFiles ==
    ASSUME FileInv, NEW s \in Sessions, NEW gone, Finish(s, gone)
    PROVE  Solo(s)' /\ Hands(s)' /\ Ahead(s)' /\ Behind(s)'
<1>1. pc'[s] = "idle" /\ made'[s] = {} /\ kept'[s] = NoTracks
  BY DEF Finish, Goto, FileInv, IInv, TypeOK, SessionOK
<1> QED
  BY <1>1 DEF Solo, Active, Hands, Ahead, Behind, LoopSteps

(* What a transaction begins with is the database outside its release.     *)
LEMMA ImportingElsewhere ==
    ASSUME FileInv, NEW r \in Releases, NEW d \in Database,
           d = db \/ \E m \in Modes : d = Planned(m, r)
    PROVE  \A t \in Tracks \ TracksOf(r) :
             LET e == Importing(d, r) IN
             /\ e.track[t] = db.track[t] /\ e.plan[t] = db.plan[t]
             /\ e.hash[t] = db.hash[t] /\ e.dest[t] = db.dest[t]
<1>1. \A t \in Tracks \ TracksOf(r) :
        /\ d.track[t] = db.track[t] /\ d.plan[t] = db.plan[t]
        /\ d.hash[t] = db.hash[t] /\ d.dest[t] = db.dest[t]
  BY DEF Planned
<1>2. /\ Importing(d, r).track = d.track /\ Importing(d, r).hash = d.hash
      /\ Importing(d, r).dest = d.dest
      /\ \A t \in Tracks \ TracksOf(r) : Importing(d, r).plan[t] = d.plan[t]
  BY DEF Importing, Database
<1> QED
  BY <1>1, <1>2

(* A request enters its loop with nothing in hand.                         *)
LEMMA EnterFiles ==
    ASSUME FileInv, NEW s \in Sessions, NEW r \in Releases,
           pc[s] \in {"idle", "loaded", "unplanned"}, pc'[s] = "pin", rel'[s] = r,
           UNCHANGED <<db, idx, made, kept>>, lock' = s, mode'[s] = "upgrade" => "upgrade" \in Kinds,
           NEW d \in Database, d = db \/ \E m \in Modes : d = Planned(m, r), txn' = Importing(d, r)
    PROVE  Solo(s)' /\ Hands(s)' /\ Ahead(s)' /\ Behind(s)'
<1>1. idx[s] = 1 /\ made[s] = {} /\ kept[s] = NoTracks
  BY DEF FileInv, IInv, InHand, Hands
<1>2. \A t \in Tracks : ~Held(s, t)'
  BY <1>1 DEF Held, NoTracks
<1>3. Order[r] \in Seq(Tracks) /\ Order[r] # <<>>
  BY ImportAssumption
<1>4. /\ \A i \in DOMAIN Order[r] : Order[r][i] \in Tracks /\ ~(i < 1)
      /\ 1 \in DOMAIN Order[r]
  BY <1>3
<1>5. Solo(s)' /\ Hands(s)'
  BY <1>1, <1>2 DEF Solo, Hands
<1>6. Ahead(s)'
  BY <1>1, <1>2, <1>4 DEF Ahead, Cur
<1>7. Untouched(s)'
  BY ImportingElsewhere DEF Untouched
<1>8. Behind(s)'
  BY <1>1, <1>4, <1>7 DEF Behind, Done
<1> QED
  BY <1>5, <1>6, <1>8

LEMMA BeginFiles ==
    ASSUME Exclusive, FileInv, NEW s \in Sessions, IInv',
           \/ \E r \in Releases : LoadPlans(s, r) \/ BeginUpgrade(s, r)
           \/ Begin(s) \/ BeginUnplanned(s)
    PROVE  FileInv'
<1> USE DEF At, Goto, FileInv, IInv, TypeOK, SessionOK
<1>1. Acts(s)
  BY DEF Acts, Moves, Proceed
<1>2. ASSUME NEW r \in Releases, LoadPlans(s, r) PROVE FileInv'
  <2>1. /\ pc[s] = "idle" /\ pc'[s] \in {"loaded", "unplanned"} /\ UNCHANGED made
        /\ mode'[s] # "upgrade"
    BY <1>2 DEF LoadPlans
  <2>2. Solo(s)' /\ Hands(s)' /\ Ahead(s)' /\ Behind(s)'
    BY <2>1 DEF Solo, Active, Hands, Ahead, Behind, LoopSteps
  <2> QED
    BY <1>1, <2>2, FileStep
<1>3. ASSUME NEW r \in Releases, BeginUpgrade(s, r) PROVE FileInv'
  <2>1. Planned("upgrade", r) \in Database
    BY PlannedType DEF Modes
  <2>2. Solo(s)' /\ Hands(s)' /\ Ahead(s)' /\ Behind(s)'
    <3>1. /\ pc[s] = "idle" /\ pc'[s] = "pin" /\ rel'[s] = r /\ mode'[s] = "upgrade"
          /\ "upgrade" \in Kinds /\ lock' = s /\ UNCHANGED <<db, idx, made, kept>>
          /\ txn' = Importing(Planned("upgrade", r), r)
      BY <1>3 DEF BeginUpgrade
    <3> QED
      BY <2>1, <3>1, EnterFiles DEF Modes
  <2> QED
    BY <1>1, <2>2, FileStep
<1>4. CASE Begin(s)
  <2>1. /\ pc[s] = "loaded" /\ pc'[s] = "pin" /\ rel'[s] = rel[s] /\ lock' = s
        /\ mode'[s] = mode[s] /\ UNCHANGED <<db, idx, made, kept>> /\ txn' = Importing(db, rel[s])
    BY <1>4 DEF Begin, request
  <2>2. rel[s] \in Releases /\ db \in Database /\ (mode[s] = "upgrade" => "upgrade" \in Kinds)
    BY <2>1 DEF StoreOK, Hands
  <2>3. Solo(s)' /\ Hands(s)' /\ Ahead(s)' /\ Behind(s)'
    BY <2>1, <2>2, EnterFiles
  <2> QED
    BY <1>1, <2>3, FileStep
<1>5. CASE BeginUnplanned(s)
  <2> DEFINE d == Planned("unplanned", rel[s])
  <2>1. CASE Finish(s, {})
    BY <1>1, <2>1, FinishFiles, FileStep
  <2>2. CASE /\ lock' = s /\ txn' = Importing(d, rel[s]) /\ Goto(s, "pin")
             /\ UNCHANGED <<rel, mode, idx, tmp, made, kept, stray>>
    <3>1. pc[s] = "unplanned" /\ pc'[s] = "pin" /\ UNCHANGED db
      BY <1>5, <2>2 DEF BeginUnplanned
    <3>2. rel[s] \in Releases /\ (mode[s] = "upgrade" => "upgrade" \in Kinds)
      BY <3>1 DEF Hands
    <3>3. d \in Database /\ "unplanned" \in Modes
      BY <3>2, PlannedType DEF Modes
    <3>4. Solo(s)' /\ Hands(s)' /\ Ahead(s)' /\ Behind(s)'
      BY <2>2, <3>1, <3>2, <3>3, EnterFiles
    <3> QED
      BY <1>1, <3>4, FileStep
  <2> QED
    BY <1>5, <2>1, <2>2 DEF BeginUnplanned
<1> QED
  BY <1>2, <1>3, <1>4, <1>5

LEMMA EndFiles ==
    ASSUME Exclusive, FileInv, NEW s \in Sessions, IInv',
           \/ LockFails(s) \/ Finalize(s) \/ RollbackRequest(s) \/ EndRollback(s) \/ Cancel(s)
    PROVE  FileInv'
<1>1. Acts(s) /\ \E gone : Finish(s, gone)
  BY DEF Acts, Moves, Proceed, Raise, LockFails, Finalize, RollbackRequest, EndRollback, Cancel
<1> QED
  BY <1>1, FinishFiles, FileStep

-----------------------------------------------------------------------------
(* The import loop.                                                        *)

(* Steps that only look, or prepare the temporary.                         *)
LEMMA LookFiles ==
    ASSUME Exclusive, FileInv, NEW s \in Sessions, IInv',
           StepRaises(s) \/ Pin(s) \/ Copy(s) \/ Verify(s) \/ Tag(s) \/ Check(s)
    PROVE  FileInv'
<1>1. Acts(s)
  BY DEF Acts, Moves, Proceed, Raise
<1>2. /\ pc[s] \in LoopSteps \cup {"flush"} /\ (pc'[s] = "undo_tmp" \/ pc[s] \in LoopSteps)
      /\ UNCHANGED <<lib, db, txn, lock, rel, mode, idx, made, kept>>
      /\ pc'[s] \in {"copy", "verify", "tag", "check", "link", "rename", "undo_tmp"}
  BY DEF StepRaises, Pin, Copy, Verify, Tag, Check, At, Goto, files, store, request, LoopSteps,
         FileInv, IInv, TypeOK, SessionOK
<1>3. /\ pc[s] \in {"pin", "copy", "verify", "tag", "check"} \/ pc'[s] = "undo_tmp"
      /\ pc'[s] = "link" => mode[s] = "upgrade"
      /\ pc'[s] = "rename" => lib[Dest(s)] = None /\ mode[s] # "upgrade"
  BY DEF StepRaises, Pin, Copy, Verify, Tag, Check, At, Goto, Exists, FileInv, IInv, TypeOK, SessionOK
<1>4. Cur(s)' = Cur(s) /\ Dest(s)' = Dest(s) /\ \A t : Held(s, t)' <=> Held(s, t)
  BY <1>2 DEF Cur, Dest, Target, Held
<1>5. Solo(s) /\ Hands(s) /\ Ahead(s) /\ Behind(s)
  BY DEF FileInv
<1>6. Solo(s)' /\ Hands(s)'
  BY <1>2, <1>4, <1>5 DEF Solo, Active, Hands, LoopSteps
<1>7. Ahead(s)'
  BY <1>2, <1>3, <1>4, <1>5 DEF Ahead, LoopSteps
<1>8. Behind(s)'
  <2> SUFFICES ASSUME pc'[s] # "undo_tmp" PROVE Behind(s)'
    BY DEF Behind, LoopSteps
  <2>1. Untouched(s)'
    BY <1>2, <1>5 DEF Behind, Untouched
  <2>2. \A i : Done(s, i)' => Done(s, i)
    BY <1>2, <1>3 DEF Done
  <2>3. \A t : Replaced(s, t)' <=> Replaced(s, t)
    BY <1>2 DEF Replaced, Target
  <2> QED
    BY <1>2, <1>5, <2>1, <2>2, <2>3 DEF Behind
<1> QED
  BY <1>1, <1>6, <1>7, <1>8, FileStep

(* The live file gets a second name, or keeps its only one.                *)
LEMMA BackupFiles ==
    ASSUME Exclusive, FileInv, NEW s \in Sessions, LinkBackup(s) \/ UnlinkRaises(s), IInv'
    PROVE  FileInv'
<1> DEFINE c == Cur(s)
<1>1. Acts(s)
  BY DEF Acts, Moves, Proceed, Raise
<1>2. /\ pc[s] \in {"link", "unlink"} /\ pc'[s] \in {"unlink", "undo_tmp"}
      /\ pc'[s] = "unlink" => pc[s] = "link" /\ lib[Dest(s)] # None
      /\ UNCHANGED <<lib, db, txn, lock, rel, mode, idx, made>>
  BY DEF LinkBackup, UnlinkRaises, At, Goto, Exists, files, store, request,
         FileInv, IInv, TypeOK, SessionOK
<1>3. /\ kept[s] \in [Tracks -> Content \cup {None}]
      /\ kept'[s] = [kept[s] EXCEPT ![c] = IF pc[s] = "link" THEN lib[Dest(s)] ELSE None]
  BY DEF LinkBackup, UnlinkRaises, At, FileInv, IInv, TypeOK, SessionOK
<1>4. Solo(s) /\ Hands(s) /\ Ahead(s) /\ Behind(s)
  BY DEF FileInv
<1>5. /\ c \in Tracks /\ c \in TracksOf(rel[s]) /\ c \notin made[s] /\ mode[s] = "upgrade"
      /\ Cur(s)' = c /\ Dest(s)' = Dest(s)
  BY <1>2, <1>4, CurrentPlan DEF Ahead, Held, LoopSteps, Cur, Dest, Target
<1>6. /\ \A t \in Tracks \ {c} : kept'[s][t] = kept[s][t]
      /\ kept'[s][c] = IF pc[s] = "link" THEN lib[Dest(s)] ELSE None
  BY <1>3, <1>5
<1>7. Solo(s)' /\ Hands(s)'
  <2>1. made[s] \subseteq Tracks /\ Active(s) /\ Active(s)'
    BY <1>2 DEF Active, FileInv, IInv, TypeOK, SessionOK
  <2>2. \A t \in Tracks : Held(s, t)' => Held(s, t) \/ t = c
    BY <1>2, <1>6 DEF Held
  <2>3. \A t \in made[s] : kept'[s][t] = kept[s][t]
    BY <1>5, <1>6, <2>1
  <2> QED
    BY <1>2, <1>4, <1>5, <2>1, <2>2, <2>3 DEF Solo, Hands
<1>8. Ahead(s)'
  <2>1. \A i \in DOMAIN Order[rel[s]] : i > idx[s] => Order[rel[s]][i] \in Tracks \ {c}
    BY <1>2, CurrentPlan, OtherPlans
  <2> QED
    BY <1>2, <1>4, <1>5, <1>6, <2>1 DEF Ahead, Held, LoopSteps
<1>9. Behind(s)'
  <2>1. Untouched(s) /\ Untouched(s)'
    BY <1>2, <1>4 DEF Behind, Untouched, LoopSteps
  <2>2. \A i : Done(s, i)' => Done(s, i)
    BY <1>2 DEF Done
  <2>3. \A t : Replaced(s, t)' <=> Replaced(s, t)
    BY <1>2 DEF Replaced, Target
  <2> QED
    BY <1>2, <1>4, <2>1, <2>2, <2>3 DEF Behind, LoopSteps
<1> QED
  BY <1>1, <1>7, <1>8, <1>9, FileStep

(* The current path changes; the paths of the files created before do not. *)
LEMMA PlaceFiles ==
    ASSUME Exclusive, Parted, FileInv, NEW s \in Sessions, UnlinkLive(s) \/ Rename(s), IInv'
    PROVE  FileInv'
<1> DEFINE c == Cur(s)
           d == Dest(s)
<1>1. Acts(s)
  BY DEF Acts, Moves, Proceed
<1>2. /\ pc[s] \in {"unlink", "rename"}
      /\ pc'[s] = IF pc[s] = "unlink" THEN "rename" ELSE "fsync"
      /\ UNCHANGED <<db, txn, lock, rel, mode, idx, made, kept>>
      /\ \E f : lib' = [lib EXCEPT ![d] = f]
      /\ pc[s] = "unlink" => lib' = [lib EXCEPT ![d] = None]
  BY DEF UnlinkLive, Rename, At, Goto, store, request, FileInv, IInv, TypeOK, SessionOK
<1>3. Solo(s) /\ Hands(s) /\ Ahead(s) /\ Behind(s)
  BY DEF FileInv
<1>4. /\ Cur(s)' = c /\ Dest(s)' = d /\ d \in Dests /\ \A t : Held(s, t)' <=> Held(s, t)
      /\ d = Target(mode[s], c) /\ c \in Tracks
  BY <1>2, CurrentPlan DEF Cur, Dest, Target, Held
<1>5. /\ lib \in [Dests -> Content \cup {None}]
      /\ \A e \in Dests \ {d} : lib'[e] = lib[e]
      /\ pc[s] = "unlink" => lib'[d] = None
  BY <1>2, <1>4 DEF FileInv, IInv, TypeOK, FilesOK
<1>6. Solo(s)' /\ Hands(s)'
  BY <1>2, <1>3, <1>4 DEF Solo, Active, Hands
<1>7. Ahead(s)'
  BY <1>2, <1>3, <1>4, <1>5 DEF Ahead, LoopSteps
<1>8. ASSUME NEW i \in DOMAIN Order[rel[s]], Done(s, i)
      PROVE  Target(mode[s], Order[rel[s]][i]) \in Dests \ {d}
  <2> DEFINE t == Order[rel[s]][i]
  <2>1. i < idx[s] /\ Replaced(s, t)
    BY <1>2, <1>3, <1>8 DEF Behind, Done, LoopSteps
  <2>2. t \in Tracks /\ t \in TracksOf(rel[s]) /\ c \in TracksOf(rel[s]) /\ rel[s] \in Releases
        /\ Target(mode[s], t) \in Dests
    BY <1>2, CurrentPlan
  <2>5. t # c
    BY <1>2, <2>1, OtherPlans
  <2>3. CASE pc[s] = "unlink"
    <3>1. mode[s] = "upgrade" /\ "upgrade" \in Kinds
      BY <1>3, <2>3 DEF Ahead, Hands, LoopSteps
    <3> QED
      BY <1>4, <2>2, <2>5, <3>1 DEF Parted, Target
  <2>4. CASE pc[s] = "rename"
    <3>1. lib[d] = None
      BY <1>3, <2>4 DEF Ahead, LoopSteps
    <3> QED
      BY <2>1, <2>2, <3>1 DEF Replaced
  <2> QED
    BY <1>2, <2>3, <2>4
<1>9. Behind(s)'
  <2>1. Untouched(s) /\ Untouched(s)'
    BY <1>2, <1>3 DEF Behind, Untouched, LoopSteps
  <2>2. \A i : Done(s, i)' => Done(s, i)
    BY <1>2 DEF Done
  <2>3. ASSUME NEW i \in DOMAIN Order[rel[s]], Done(s, i) PROVE Replaced(s, Order[rel[s]][i])'
    <3>1. Replaced(s, Order[rel[s]][i])
      BY <1>2, <1>3, <2>3 DEF Behind, LoopSteps
    <3>2. Target(mode[s], Order[rel[s]][i])' = Target(mode[s], Order[rel[s]][i])
      BY <1>2 DEF Target
    <3> QED
      BY <1>2, <1>5, <1>8, <2>3, <3>1, <3>2 DEF Replaced
  <2> QED
    BY <1>2, <2>1, <2>2, <2>3 DEF Behind
<1> QED
  BY <1>1, <1>6, <1>7, <1>9, FileStep

LEMMA FsyncFiles ==
    ASSUME Exclusive, FileInv, NEW s \in Sessions, Fsync(s), IInv'
    PROVE  FileInv'
<1> DEFINE c == Cur(s)
<1>1. Acts(s)
  BY DEF Acts, Moves, Proceed
<1>2. /\ pc[s] = "fsync" /\ pc'[s] = "record" /\ made'[s] = made[s] \cup {c}
      /\ UNCHANGED <<lib, db, txn, lock, rel, mode, idx, kept>>
  BY DEF Fsync, At, Goto, files, store, request, FileInv, IInv, TypeOK, SessionOK
<1>3. Solo(s) /\ Hands(s) /\ Ahead(s) /\ Behind(s)
  BY DEF FileInv
<1>4. Cur(s)' = c /\ Dest(s)' = Dest(s) /\ c \in Tracks /\ c \in TracksOf(rel[s])
  BY <1>2, CurrentPlan DEF Cur, Dest, Target
<1>5. mode[s] = "upgrade" => kept[s][c] # None
  BY <1>2, <1>3 DEF Ahead, LoopSteps
<1>6. Solo(s)' /\ Hands(s)'
  BY <1>2, <1>3, <1>4, <1>5 DEF Solo, Active, Hands, Held
<1>7. Ahead(s)'
  <2>1. \A i \in DOMAIN Order[rel[s]] : i > idx[s] => Order[rel[s]][i] # c
    BY <1>2, OtherPlans
  <2> QED
    BY <1>2, <1>3, <1>4, <1>5, <2>1 DEF Ahead, Held, LoopSteps
<1>8. Behind(s)'
  <2>1. Untouched(s) /\ Untouched(s)'
    BY <1>2, <1>3 DEF Behind, Untouched, LoopSteps
  <2>2. \A i : Done(s, i)' => Done(s, i)
    BY <1>2 DEF Done
  <2>3. \A t : Replaced(s, t) => Replaced(s, t)'
    BY <1>2 DEF Replaced, Target
  <2> QED
    BY <1>2, <1>3, <2>1, <2>2, <2>3 DEF Behind, LoopSteps
<1> QED
  BY <1>1, <1>6, <1>7, <1>8, FileStep

(* The current track is recorded as it is, and the next one is taken.      *)
LEMMA RecordFiles ==
    ASSUME Exclusive, FileInv, NEW s \in Sessions, Record(s), IInv'
    PROVE  FileInv'
<1>0. PICK c, r : c = Cur(s) /\ r = rel[s]
  OBVIOUS
<1>1. Acts(s)
  BY DEF Acts, Moves, Proceed
<1>2. /\ pc[s] = "record" /\ pc'[s] \in {"undo_tmp", "flush", "pin"}
      /\ UNCHANGED <<lib, db, lock, rel, mode, made, kept>>
  BY DEF Record, At, Goto, files, FileInv, IInv, TypeOK, SessionOK
<1>3. Solo(s) /\ Hands(s) /\ Ahead(s) /\ Behind(s)
  BY DEF FileInv
<1>4. Solo(s)' /\ Hands(s)'
  BY <1>2, <1>3 DEF Solo, Active, Hands, Held
<1>5. CASE ~Exists(s)
  <2>1. pc'[s] = "undo_tmp"
    BY <1>5 DEF Record, Goto, FileInv, IInv, TypeOK, SessionOK
  <2>2. Ahead(s)' /\ Behind(s)'
    BY <2>1 DEF Ahead, Behind, LoopSteps
  <2> QED
    BY <1>1, <1>4, <2>2, FileStep
<1>6. CASE Exists(s)
  <2>1. /\ c \in Tracks /\ c \in TracksOf(r) /\ Order[r] \in Seq(Tracks)
        /\ idx[s] \in 1..Len(Order[r]) /\ c = Order[r][idx[s]] /\ Len(Order[r]) \in Nat
        /\ Dest(s) = Target(mode[s], c)
    BY <1>0, <1>2, CurrentPlan
  <2>2. /\ txn'.track = [txn.track EXCEPT ![c] = "imported"]
        /\ txn'.plan = [txn.plan EXCEPT ![c] = "imported"]
        /\ txn'.hash = [txn.hash EXCEPT ![c] = lib[Dest(s)]]
        /\ txn'.dest = txn.dest /\ txn \in Database
    <3>1. txn \in Database
      BY DEF FileInv, IInv, TypeOK, StoreOK
    <3>2. txn' = [txn EXCEPT !.track = [txn.track EXCEPT ![c] = "imported"],
                             !.plan  = [txn.plan EXCEPT ![c] = "imported"],
                             !.hash  = [txn.hash EXCEPT ![c] = lib[Dest(s)]]]
      BY <1>0, <1>6 DEF Record
    <3> QED
      BY <3>1, <3>2 DEF Database
  <2>3. /\ txn'.track[c] = "imported" /\ txn'.hash[c] = lib[Dest(s)]
        /\ \A t \in Tracks \ {c} : /\ txn'.track[t] = txn.track[t]
                                   /\ txn'.plan[t] = txn.plan[t] /\ txn'.hash[t] = txn.hash[t]
    BY <2>1, <2>2 DEF Database
  <2>4. \/ idx[s] = Len(Order[r]) /\ pc'[s] = "flush" /\ idx'[s] = idx[s]
        \/ idx[s] # Len(Order[r]) /\ pc'[s] = "pin" /\ idx'[s] = idx[s] + 1
    BY <1>0, <1>6 DEF Record, Goto, FileInv, IInv, TypeOK, SessionOK
  <2>5. Untouched(s)'
    <3>1. Untouched(s)
      BY <1>2, <1>3 DEF Behind, LoopSteps
    <3> QED
      BY <1>0, <1>2, <2>1, <2>2, <2>3, <3>1 DEF Untouched
  <2>6. Replaced(s, c)'
    <3>1. c \in made[s] /\ lib[Dest(s)] # None
      BY <1>0, <1>2, <1>3, <1>6 DEF Ahead, LoopSteps, Exists
    <3>2. Target(mode[s], c)' = Dest(s)
      BY <1>2, <2>1 DEF Target
    <3> QED
      BY <1>2, <2>3, <3>1, <3>2 DEF Replaced
  <2>7. Behind(s)'
    <3>1. ASSUME NEW i \in DOMAIN Order[r], Done(s, i)' PROVE Replaced(s, Order[r][i])'
      <4>1. i \in Nat /\ i <= idx[s] /\ Order[r][i] \in Tracks
        BY <1>2, <2>1, <2>4, <3>1 DEF Done
      <4>2. CASE i = idx[s]
        BY <2>1, <2>6, <4>2
      <4>3. CASE i # idx[s]
        <5>1. Replaced(s, Order[r][i])
          BY <1>0, <1>2, <1>3, <2>1, <4>1, <4>3 DEF Behind, Done, LoopSteps
        <5>2. Order[r][i] # c
          BY <1>0, <1>2, <4>3, OtherPlans
        <5>3. Target(mode[s], Order[r][i])' = Target(mode[s], Order[r][i])
          BY <1>2 DEF Target
        <5> QED
          BY <1>2, <2>3, <4>1, <5>1, <5>2, <5>3 DEF Replaced
      <4> QED
        BY <4>2, <4>3
    <3> QED
      BY <1>0, <1>2, <2>5, <3>1 DEF Behind
  <2>8. Ahead(s)'
    <3>1. CASE pc'[s] = "flush"
      BY <3>1 DEF Ahead, LoopSteps
    <3>2. CASE pc'[s] = "pin"
      <4>1. idx'[s] = idx[s] + 1 /\ idx'[s] \in DOMAIN Order[r]
        BY <2>1, <2>4, <3>2
      <4>2. \A i \in DOMAIN Order[r] : i > idx[s] => ~Held(s, Order[r][i])
        BY <1>0, <1>2, <1>3 DEF Ahead, LoopSteps
      <4>3. \A i \in DOMAIN Order[r] : i >= idx[s] + 1 => ~Held(s, Order[r][i])'
        <5>1. \A i \in DOMAIN Order[r] : i >= idx[s] + 1 => i > idx[s]
          BY <2>1
        <5> QED
          BY <1>2, <4>2, <5>1 DEF Held
      <4>4. \A i \in DOMAIN Order[r] : i > idx[s] + 1 => i >= idx[s] + 1
        BY <2>1
      <4>5. Cur(s)' = Order[r][idx[s] + 1] /\ idx[s] + 1 \in DOMAIN Order[r] /\ idx[s] + 1 >= idx[s] + 1
        BY <1>0, <1>2, <2>1, <4>1 DEF Cur
      <4> QED
        BY <1>0, <1>2, <3>2, <4>1, <4>3, <4>4, <4>5 DEF Ahead
    <3> QED
      BY <2>4, <3>1, <3>2
  <2> QED
    BY <1>1, <1>4, <2>7, <2>8, FileStep
<1> QED
  BY <1>5, <1>6

-----------------------------------------------------------------------------
(* The end of the transaction, and the rollback.                           *)

LEMMA CommitFiles ==
    ASSUME Exclusive, FileInv, NEW s \in Sessions, Flush(s) \/ Commit(s) \/ CommitRaises(s), IInv'
    PROVE  FileInv'
<1>1. Acts(s)
  BY DEF Acts, Moves, Proceed, Raise
<1>2. Solo(s) /\ Hands(s) /\ Ahead(s) /\ Behind(s)
  BY DEF FileInv
<1>3. CASE Flush(s)
  <2>1. /\ pc[s] = "flush" /\ pc'[s] = "commit"
        /\ UNCHANGED <<lib, db, lock, rel, mode, idx, made, kept>>
    BY <1>3 DEF Flush, At, Goto, files, request, FileInv, IInv, TypeOK, SessionOK
  <2>2. txn' = [txn EXCEPT !.rel = [txn.rel EXCEPT ![rel[s]] = "imported"]] /\ txn \in Database
    BY <1>3 DEF Flush, FileInv, IInv, TypeOK, StoreOK
  <2>3. /\ txn'.track = txn.track /\ txn'.plan = txn.plan
        /\ txn'.hash = txn.hash /\ txn'.dest = txn.dest
    BY <2>2 DEF Database
  <2>4. Solo(s)' /\ Hands(s)' /\ Ahead(s)'
    BY <1>2, <2>1 DEF Solo, Active, Hands, Held, Ahead, LoopSteps
  <2>5. Untouched(s)' /\ \A i : Done(s, i)
    BY <1>2, <2>1, <2>3 DEF Behind, Untouched, Done
  <2>6. \A t : Replaced(s, t) => Replaced(s, t)'
    BY <2>1, <2>3 DEF Replaced, Target
  <2>7. Behind(s)'
    BY <1>2, <2>1, <2>5, <2>6 DEF Behind
  <2> QED
    BY <1>1, <2>4, <2>7, FileStep
<1>4. CASE Commit(s) \/ CommitRaises(s)
  <2>1. /\ pc[s] = "commit" /\ pc'[s] \in {"committed", "rolled_back"}
        /\ pc'[s] = "rolled_back" => "commit" \in Faults
        /\ UNCHANGED <<rel, mode, made, kept>>
    BY <1>4 DEF Commit, CommitRaises, At, Goto, request, FileInv, IInv, TypeOK, SessionOK
  <2>2. Solo(s)' /\ Hands(s)' /\ Ahead(s)' /\ Behind(s)'
    BY <1>2, <2>1 DEF Solo, Active, Hands, Held, Ahead, Behind, LoopSteps
  <2> QED
    BY <1>1, <2>2, FileStep
<1> QED
  BY <1>3, <1>4

LEMMA UndoFiles ==
    ASSUME Exclusive, FileInv, NEW s \in Sessions, IInv',
           UndoTemp(s) \/ UndoMade(s) \/ UndoKept(s) \/ NoteRollback(s)
    PROVE  FileInv'
<1>1. Acts(s)
  BY DEF Acts, Moves, Proceed
<1>2. Solo(s) /\ Hands(s) /\ Ahead(s) /\ Behind(s)
  BY DEF FileInv
<1>3. /\ pc[s] \in {"undo_tmp", "rolled_back", "undo_made", "undo_kept", "undone"}
      /\ pc'[s] \in {"undo_made", "undo_kept", "undone", "raised"}
      /\ UNCHANGED <<lock, rel, mode>>
  BY DEF UndoTemp, UndoMade, UndoKept, NoteRollback, At, Goto, request, store,
         FileInv, IInv, TypeOK, SessionOK
<1>4. Solo(s)' /\ Ahead(s)' /\ Behind(s)'
  BY <1>2, <1>3 DEF Solo, Active, Ahead, Behind, LoopSteps
<1>5. Hands(s)'
  <2>1. CASE UndoTemp(s) \/ NoteRollback(s)
    <3>1. /\ UNCHANGED <<made, kept>>
          /\ (pc[s] = "undone" /\ pc'[s] = "raised") \/ pc'[s] = "undo_made"
      BY <2>1 DEF UndoTemp, NoteRollback, At, Goto, FileInv, IInv, TypeOK, SessionOK
    <3> QED
      BY <1>2, <1>3, <3>1 DEF Hands, Held, Active
  <2>2. CASE UndoMade(s)
    <3>1. /\ UNCHANGED kept /\ made'[s] \subseteq made[s] /\ pc[s] = "undo_made"
          /\ pc'[s] = "undo_made" \/ (pc'[s] = "undo_kept" /\ made'[s] = {})
      BY <2>2 DEF UndoMade, At, Goto, FileInv, IInv, TypeOK, SessionOK
    <3> QED
      BY <1>2, <1>3, <3>1 DEF Hands, Held, Active
  <2>3. CASE UndoKept(s)
    <3>1. /\ UNCHANGED made /\ pc[s] = "undo_kept" /\ made[s] = {}
          /\ \/ pc'[s] = "undone" /\ kept'[s] = NoTracks
             \/ pc'[s] = "undo_kept" /\ \E t \in Tracks : kept'[s] = [kept[s] EXCEPT ![t] = None]
      BY <1>2, <2>3 DEF UndoKept, At, Goto, Hands, FileInv, IInv, TypeOK, SessionOK
    <3>2. kept[s] \in [Tracks -> Content \cup {None}]
      BY DEF FileInv, IInv, TypeOK, SessionOK
    <3>3. \A t \in Tracks : kept'[s][t] \in {kept[s][t], None}
      BY <3>1, <3>2 DEF NoTracks
    <3>4. mode[s] # "upgrade" => kept'[s] = NoTracks
      <4>1. mode[s] # "upgrade" => kept[s] = NoTracks
        BY <1>2, <1>3 DEF Hands, Active
      <4> QED
        BY <3>1, <4>1 DEF NoTracks
    <3> QED
      BY <1>2, <1>3, <3>1, <3>3, <3>4 DEF Hands, Held, Active
  <2> QED
    BY <1>3, <2>1, <2>2, <2>3
<1> QED
  BY <1>1, <1>4, <1>5, FileStep

-----------------------------------------------------------------------------
(* The surroundings.                                                       *)

LEMMA SurroundingFiles ==
    ASSUME Private, FileInv, IInv',
           \/ \E r \in Releases : PlanRelease(r)
           \/ Crash
           \/ \E d \in Dests : Foreign(d)
           \/ \E k \in {"job", "candidate"}, t \in Tracks : Restage(k, t)
           \/ UNCHANGED vars
    PROVE  FileInv'
<1>1. ~(\E d \in Dests : Foreign(d))
  BY DEF Private, Foreign
<1>2. CASE Crash
  <2>1. \A s \in Sessions : pc'[s] = "idle" /\ made'[s] = {}
    BY <1>2 DEF Crash
  <2> QED
    BY <2>1 DEF FileInv, Solo, Active, Hands, Ahead, Behind, LoopSteps
<1>3. ASSUME UNCHANGED <<lib, lock>>, UNCHANGED session,
             lock = None \/ UNCHANGED <<db, txn>>
      PROVE  FileInv'
  <2> SUFFICES ASSUME NEW s \in Sessions PROVE Solo(s)' /\ Hands(s)' /\ Ahead(s)' /\ Behind(s)'
    BY DEF FileInv
  <2>1. UNCHANGED <<pc, rel, mode, idx, made, kept>>
    BY <1>3 DEF session
  <2>2. Solo(s) /\ Hands(s) /\ Ahead(s) /\ Behind(s)
    BY DEF FileInv
  <2>3. /\ Cur(s)' = Cur(s) /\ Dest(s)' = Dest(s) /\ \A t : Held(s, t)' <=> Held(s, t)
        /\ Active(s)' <=> Active(s)
    BY <2>1 DEF Cur, Dest, Target, Held, Active
  <2>4. Solo(s)' /\ Hands(s)' /\ Ahead(s)'
    BY <1>3, <2>1, <2>2, <2>3 DEF Solo, Hands, Ahead
  <2>5. Behind(s)'
    <3>1. CASE lock = None
      <4>1. pc[s] \notin LoopSteps \cup {"flush", "commit"}
        BY <3>1, ImportAssumption DEF FileInv, IInv, Locked
      <4> QED
        BY <2>1, <4>1 DEF Behind
    <3>2. CASE UNCHANGED <<db, txn>>
      <4>1. Untouched(s)' <=> Untouched(s)
        BY <2>1, <3>2 DEF Untouched
      <4>2. \A t : Replaced(s, t)' <=> Replaced(s, t)
        BY <1>3, <2>1, <3>2 DEF Replaced, Target
      <4> QED
        BY <2>1, <2>2, <4>1, <4>2 DEF Behind, Done
    <3> QED
      BY <1>3, <3>1, <3>2
  <2> QED
    BY <2>4, <2>5
<1>4. CASE \/ \E r \in Releases : PlanRelease(r)
           \/ \E k \in {"job", "candidate"}, t \in Tracks : Restage(k, t)
           \/ UNCHANGED vars
  BY <1>3, <1>4 DEF PlanRelease, Restage, files, store, session, vars
<1> QED
  BY <1>1, <1>2, <1>4

LEMMA FileInit == Init => FileInv
<1> SUFFICES ASSUME Init PROVE FileInv
  OBVIOUS
<1>1. IInv
  BY InitInv
<1>2. ASSUME NEW s \in Sessions PROVE pc[s] = "idle" /\ made[s] = {}
  BY DEF Init
<1> QED
  BY <1>1, <1>2 DEF FileInv, Solo, Active, Hands, Ahead, Behind, LoopSteps

LEMMA FileNext ==
    ASSUME Private, Exclusive, Parted
    PROVE  FileInv /\ [Next]_vars => FileInv'
<1> SUFFICES ASSUME FileInv, [Next]_vars PROVE FileInv'
  OBVIOUS
<1>0. IInv'
  BY StepInv DEF FileInv
<1>1. ASSUME NEW s \in Sessions,
             \/ \E r \in Releases : LoadPlans(s, r) \/ BeginUpgrade(s, r)
             \/ Begin(s) \/ BeginUnplanned(s)
             \/ LockFails(s) \/ Finalize(s) \/ RollbackRequest(s) \/ EndRollback(s) \/ Cancel(s)
      PROVE  FileInv'
  BY <1>0, <1>1, BeginFiles, EndFiles
<1>2. ASSUME NEW s \in Sessions,
             \/ StepRaises(s) \/ Pin(s) \/ Copy(s) \/ Verify(s) \/ Tag(s) \/ Check(s)
             \/ LinkBackup(s) \/ UnlinkRaises(s) \/ UnlinkLive(s) \/ Rename(s)
             \/ Fsync(s) \/ Record(s)
      PROVE  FileInv'
  BY <1>0, <1>2, LookFiles, BackupFiles, PlaceFiles, FsyncFiles, RecordFiles
<1>3. ASSUME NEW s \in Sessions,
             \/ Flush(s) \/ Commit(s) \/ CommitRaises(s)
             \/ UndoTemp(s) \/ UndoMade(s) \/ UndoKept(s) \/ NoteRollback(s)
      PROVE  FileInv'
  BY <1>0, <1>3, CommitFiles, UndoFiles
<1>4. CASE \/ \E r \in Releases : PlanRelease(r)
           \/ Crash
           \/ \E d \in Dests : Foreign(d)
           \/ \E k \in {"job", "candidate"}, t \in Tracks : Restage(k, t)
           \/ UNCHANGED vars
  BY <1>0, <1>4, SurroundingFiles
<1> QED
  BY <1>1, <1>2, <1>3, <1>4 DEF Next, Proceed, Raise

-----------------------------------------------------------------------------
(* Every track has a path of its own, whichever template plans it.         *)
OnePathEach ==
    \A m, n \in {"settings", "default"}, t, u \in Tracks :
        DestOf[m][t] = DestOf[n][u] <=> t = u

Home(t) == DestOf["default"][t]

(* The backups of the file of a track: those nobody owns any more, and     *)
(* those a request may still move back.                                    *)
Left(t) == {x.file : x \in {y \in stray : y.kind = "backup" /\ y.at = Home(t)}}
Spare(t) == Left(t) \cup {kept[s][t] : s \in {o \in Sessions : Active(o)}}

IsImported(t) == db.track[t] = "imported"

Homes ==
    \A t \in Tracks : db.plan[t] # None \/ IsImported(t) => db.dest[t] = Home(t)

Homeward(s) ==
    /\ pc[s] = "loaded" => \A t \in TracksOf(rel[s]) : db.dest[t] = Home(t)
    /\ pc[s] \in LoopSteps \cup {"flush", "commit"} =>
          \A t \in TracksOf(rel[s]) : txn.dest[t] = Home(t)

Safe ==
    \A t \in Tracks : IsImported(t) =>
        db.hash[t] # None /\ db.hash[t] \in {lib[Home(t)]} \cup Spare(t)

(* Where a request has moved a file aside, or has put a new one, the       *)
(* imported file is in a backup.                                           *)
Moved(s, t) == Held(s, t) \/ (pc[s] = "fsync" /\ t = Cur(s))
Covered(s) ==
    Active(s) =>
        \A t \in Tracks : Moved(s, t) /\ IsImported(t) => db.hash[t] \in Spare(t)

LossInv ==
    /\ FileInv
    /\ Homes /\ Safe
    /\ \A s \in Sessions : Homeward(s) /\ Covered(s)

-----------------------------------------------------------------------------
LEMMA AtHome ==
    ASSUME OnePathEach
    PROVE  /\ \A m, t : t \in Tracks => Target(m, t) = Home(t)
           /\ \A t, u \in Tracks : Home(t) = Home(u) => t = u
           /\ \A t \in Tracks : Home(t) \in Dests
           /\ Parted
<1>1. \A t, u \in Tracks : DestOf["default"][t] = DestOf["default"][u] => t = u
  BY DEF OnePathEach
<1>2. \A t \in Tracks : DestOf["settings"][t] = DestOf["default"][t]
  BY DEF OnePathEach
<1>3. Parted
  BY <1>1, TracksOfRelease DEF Parted
<1> QED
  BY <1>1, <1>2, <1>3, ImportAssumption DEF Home, Target

(* Hidden files are never taken away from where nobody owns them, and what *)
(* a request has not finished with stays behind when it ends.              *)
LEMMA StrayGrows ==
    ASSUME NEW s \in Sessions, Acts(s)
    PROVE  stray \subseteq stray'
<1>1. CASE \/ Begin(s) \/ BeginUnplanned(s) \/ LockFails(s) \/ Pin(s) \/ Copy(s) \/ Verify(s)
           \/ Tag(s) \/ Check(s) \/ StepRaises(s) \/ LinkBackup(s) \/ UnlinkRaises(s)
           \/ \E r \in Releases : LoadPlans(s, r) \/ BeginUpgrade(s, r)
  BY <1>1 DEF Begin, BeginUnplanned, LockFails, Pin, Copy, Verify, Tag, Check, StepRaises,
              LinkBackup, UnlinkRaises, LoadPlans, BeginUpgrade, Finish, files
<1>2. CASE \/ Fsync(s) \/ Record(s) \/ Flush(s) \/ Commit(s) \/ CommitRaises(s)
           \/ UndoTemp(s) \/ NoteRollback(s) \/ RollbackRequest(s) \/ EndRollback(s)
           \/ Finalize(s) \/ Cancel(s) \/ UnlinkLive(s) \/ Rename(s) \/ UndoMade(s) \/ UndoKept(s)
  BY <1>2 DEF Fsync, Record, Flush, Commit, CommitRaises, UndoTemp, NoteRollback,
              RollbackRequest, EndRollback, Finalize, Cancel, UnlinkLive, Rename, UndoMade,
              UndoKept, Finish, files
<1> QED
  BY <1>1, <1>2 DEF Acts, Moves, Proceed, Raise

LEMMA LeftGrows ==
    ASSUME stray \subseteq stray', NEW t
    PROVE  Left(t) \subseteq Left(t)'
  BY DEF Left

(* A spare file stays one, if the request keeps it or leaves it.           *)
LEMMA SpareKept ==
    ASSUME NEW s \in Sessions, OthersStay(s), stray \subseteq stray', NEW t \in Tracks,
           NEW f \in Spare(t), f # None,
           Active(s) /\ f = kept[s][t] => (Active(s)' /\ kept'[s][t] = f) \/ f \in Left(t)'
    PROVE  f \in Spare(t)'
<1>1. CASE f \in Left(t)
  BY <1>1, LeftGrows DEF Spare
<1>2. ASSUME NEW o \in Sessions, Active(o), f = kept[o][t] PROVE f \in Spare(t)'
  <2>1. CASE o = s
    BY <1>2, <2>1 DEF Spare
  <2>2. CASE o # s
    <3>1. Active(o)' /\ kept'[o][t] = f
      BY <1>2, <2>2 DEF OthersStay, Active
    <3> QED
      BY <3>1 DEF Spare
  <2> QED
    BY <2>1, <2>2
<1> QED
  BY <1>1, <1>2 DEF Spare

(* The backups of a request that ends are left.                            *)
LEMMA BackupLeft ==
    ASSUME OnePathEach, NEW s \in Sessions, NEW t \in Tracks, kept[s][t] # None,
           Backups(s) \subseteq stray'
    PROVE  kept[s][t] \in Left(t)'
<1>1. Backup(s, t) \in stray'
  BY DEF Backups
<1>2. Backup(s, t).kind = "backup" /\ Backup(s, t).at = Home(t) /\ Backup(s, t).file = kept[s][t]
  BY AtHome DEF Backup
<1> QED
  BY <1>1, <1>2 DEF Left

(* A path once given to a track is the track's for ever.                   *)
LEMMA HomesStay ==
    ASSUME LossInv, NEW s \in Sessions, Acts(s), NEW t \in Tracks, db.dest[t] = Home(t)
    PROVE  db'.dest[t] = Home(t)
<1>1. CASE Commit(s)
  <2>1. pc[s] = "commit" /\ db' = txn
    BY <1>1 DEF Commit, At
  <2>2. Untouched(s) /\ \A u \in TracksOf(rel[s]) : txn.dest[u] = Home(u)
    BY <2>1 DEF LossInv, FileInv, Behind, Homeward
  <2> QED
    BY <2>1, <2>2 DEF Untouched
<1>2. CASE ~Commit(s)
  <2>1. UNCHANGED db
    <3>1. CASE \/ Begin(s) \/ BeginUnplanned(s) \/ LockFails(s) \/ Pin(s) \/ Copy(s) \/ Verify(s)
               \/ Tag(s) \/ Check(s) \/ StepRaises(s) \/ LinkBackup(s) \/ UnlinkRaises(s)
               \/ \E r \in Releases : LoadPlans(s, r) \/ BeginUpgrade(s, r)
      BY <3>1 DEF Begin, BeginUnplanned, LockFails, Pin, Copy, Verify, Tag, Check, StepRaises,
                  LinkBackup, UnlinkRaises, LoadPlans, BeginUpgrade, store
    <3>2. CASE \/ Fsync(s) \/ Record(s) \/ Flush(s) \/ CommitRaises(s)
               \/ UndoTemp(s) \/ NoteRollback(s) \/ RollbackRequest(s) \/ EndRollback(s)
               \/ Finalize(s) \/ Cancel(s) \/ UnlinkLive(s) \/ Rename(s) \/ UndoMade(s) \/ UndoKept(s)
      BY <3>2 DEF Fsync, Record, Flush, CommitRaises, UndoTemp, NoteRollback,
                  RollbackRequest, EndRollback, Finalize, Cancel, UnlinkLive, Rename, UndoMade,
                  UndoKept, store
    <3> QED
      BY <1>2, <3>1, <3>2 DEF Acts, Moves, Proceed, Raise
  <2> QED
    BY <2>1
<1> QED
  BY <1>1, <1>2

LEMMA LossOthers ==
    ASSUME Exclusive, LossInv, NEW s \in Sessions, Acts(s), NEW o \in Sessions \ {s}
    PROVE  Homeward(o)' /\ Covered(o)'
<1>1. OthersStay(s)
  BY ActsAlone DEF LossInv, FileInv, IInv
<1>2. pc'[o] = pc[o] /\ rel'[o] = rel[o] /\ made'[o] = made[o] /\ kept'[o] = kept[o] /\ Cur(o)' = Cur(o)
  BY <1>1 DEF OthersStay, Cur
<1>3. pc[o] = "loaded" => \A t \in TracksOf(rel[o]) : db'.dest[t] = Home(t)
  <2> SUFFICES ASSUME pc[o] = "loaded", NEW t \in TracksOf(rel[o]) PROVE db'.dest[t] = Home(t)
    OBVIOUS
  <2>1. t \in Tracks
    BY TracksOfRelease DEF LossInv, FileInv, IInv, TypeOK, SessionOK
  <2>2. db.dest[t] = Home(t)
    BY DEF LossInv, Homeward
  <2> QED
    BY <2>1, <2>2, HomesStay
<1>4. CASE ~Active(o)
  BY <1>2, <1>3, <1>4 DEF Homeward, Covered, Active, LoopSteps
<1>5. CASE Active(o)
  <2>1. UNCHANGED <<lib, db, txn>> /\ ~Active(s)
    BY <1>5, OthersWait DEF LossInv
  <2>2. Homeward(o)'
    BY <1>2, <1>3, <2>1 DEF LossInv, Homeward
  <2>3. ASSUME NEW t \in Tracks, Moved(o, t), IsImported(t) PROVE db.hash[t] \in Spare(t)'
    <3>1. db.hash[t] \in Spare(t) /\ db.hash[t] # None
      BY <1>5, <2>3 DEF LossInv, Covered, Safe
    <3>2. stray \subseteq stray'
      BY StrayGrows
    <3> QED
      BY <1>1, <2>1, <3>1, <3>2, SpareKept
  <2>4. \A t : Moved(o, t)' <=> Moved(o, t)
    BY <1>2 DEF Moved, Held
  <2>5. Covered(o)'
    BY <2>1, <2>3, <2>4 DEF Covered, IsImported
  <2> QED
    BY <2>2, <2>5
<1> QED
  BY <1>4, <1>5

(* A step of s has to show what becomes of the imported files, and what s  *)
(* has.                                                                    *)
LEMMA LossStep ==
    ASSUME Exclusive, LossInv, NEW s \in Sessions, Acts(s), FileInv',
           Homes', Safe', Homeward(s)', Covered(s)'
    PROVE  LossInv'
  BY LossOthers DEF LossInv

(* The spare files of all tracks stay.                                     *)
Keeps == \A t \in Tracks : \A f \in Spare(t) : f # None => f \in Spare(t)'

LEMMA SafeStays ==
    ASSUME LossInv, UNCHANGED <<lib, db>>, Keeps
    PROVE  Homes' /\ Safe'
<1>1. Homes'
  BY DEF LossInv, Homes, IsImported
<1>2. Safe'
  BY DEF LossInv, Safe, IsImported, Keeps
<1> QED
  BY <1>1, <1>2

LEMMA CoverStays ==
    ASSUME LossInv, NEW s \in Sessions, UNCHANGED db, Keeps, Active(s),
           \A t \in Tracks : Moved(s, t)' => Moved(s, t)
    PROVE  Covered(s)'
  BY DEF LossInv, Covered, Safe, IsImported, Keeps

-----------------------------------------------------------------------------
(* Beginnings and ends.                                                    *)

LEMMA FinishLoses ==
    ASSUME Exclusive, OnePathEach, LossInv, NEW s \in Sessions, Acts(s), FileInv',
           UNCHANGED <<lib, db>>, NEW gone, Finish(s, gone), gone = {} \/ ~Active(s)
    PROVE  LossInv'
<1>1. pc'[s] = "idle" /\ OthersStay(s)
  BY ActsAlone DEF Finish, Goto, LossInv, FileInv, IInv, TypeOK, SessionOK
<1>2. Keeps
  <2> SUFFICES ASSUME NEW t \in Tracks, NEW f \in Spare(t), f # None PROVE f \in Spare(t)'
    BY DEF Keeps
  <2>1. stray \subseteq stray'
    BY StrayGrows
  <2>2. Active(s) /\ f = kept[s][t] => f \in Left(t)'
    <3>1. gone = {} => Backups(s) \subseteq stray'
      BY DEF Finish
    <3> QED
      BY <3>1, BackupLeft
  <2> QED
    BY <1>1, <2>1, <2>2, SpareKept
<1>3. Homeward(s)' /\ Covered(s)'
  BY <1>1 DEF Homeward, Covered, Active, LoopSteps
<1> QED
  BY <1>2, <1>3, SafeStays, LossStep

LEMMA EndLoses ==
    ASSUME Exclusive, OnePathEach, LossInv, NEW s \in Sessions, FileInv',
           \/ LockFails(s) \/ Finalize(s) \/ RollbackRequest(s) \/ EndRollback(s) \/ Cancel(s)
    PROVE  LossInv'
<1>1. Acts(s) /\ UNCHANGED <<lib, db>>
  BY DEF Acts, Moves, Proceed, Raise, LockFails, Finalize, RollbackRequest, EndRollback, Cancel, store
<1>2. \E gone : Finish(s, gone) /\ (gone = {} \/ ~Active(s))
  BY DEF LockFails, Finalize, RollbackRequest, EndRollback, Cancel, At, Active
<1> QED
  BY <1>1, <1>2, FinishLoses

(* A request that begins has moved nothing.                                *)
LEMMA BeginsBare ==
    ASSUME Exclusive, LossInv, NEW s \in Sessions, Acts(s), FileInv',
           pc[s] \in {"idle", "loaded", "unplanned"}, UNCHANGED <<lib, db, made, kept>>,
           pc'[s] \in {"loaded", "unplanned", "pin"}, Homeward(s)'
    PROVE  LossInv'
<1>1. made[s] = {} /\ kept[s] = NoTracks /\ OthersStay(s) /\ ~Active(s)
  BY ActsAlone DEF LossInv, FileInv, IInv, InHand, Hands, Active
<1>2. Keeps
  BY <1>1, StrayGrows, SpareKept DEF Keeps
<1>3. \A t \in Tracks : ~Moved(s, t)'
  BY <1>1 DEF Moved, Held, NoTracks
<1>4. Covered(s)'
  BY <1>3 DEF Covered
<1> QED
  BY <1>2, <1>4, SafeStays, LossStep

LEMMA BeginLoses ==
    ASSUME Exclusive, OnePathEach, LossInv, NEW s \in Sessions, FileInv',
           \/ \E r \in Releases : LoadPlans(s, r) \/ BeginUpgrade(s, r)
           \/ Begin(s) \/ BeginUnplanned(s)
    PROVE  LossInv'
<1> USE DEF At, Goto, files, store, LossInv, FileInv, IInv, TypeOK, SessionOK
<1>1. Acts(s)
  BY DEF Acts, Moves, Proceed
<1>2. ASSUME NEW r \in Releases, LoadPlans(s, r) PROVE LossInv'
  <2>1. /\ pc[s] = "idle" /\ pc'[s] \in {"loaded", "unplanned"} /\ UNCHANGED <<lib, db, made, kept>>
        /\ rel'[s] = r
    BY <1>2 DEF LoadPlans
  <2>2. pc'[s] = "loaded" => \A t \in TracksOf(r) : db.plan[t] = "ready"
    BY <1>2 DEF LoadPlans
  <2>3. pc'[s] = "loaded" => \A t \in TracksOf(r) : db.dest[t] = Home(t)
    BY <2>2, TracksOfRelease, ImportAssumption DEF Homes, WorkflowStates
  <2>4. Homeward(s)'
    BY <2>1, <2>3 DEF Homeward, LoopSteps
  <2> QED
    BY <1>1, <2>1, <2>4, BeginsBare
<1>3. ASSUME NEW r \in Releases, NEW m \in Modes, pc[s] \in {"idle", "loaded", "unplanned"},
             UNCHANGED <<lib, db, made, kept>>, pc'[s] = "pin", rel'[s] = r,
             txn' = Importing(Planned(m, r), r)
      PROVE  LossInv'
  <2>1. Planned(m, r) \in Database
    BY <1>3, PlannedType
  <2>2. \A t \in TracksOf(r) : txn'.dest[t] = Home(t)
    <3>1. txn'.dest = Planned(m, r).dest
      BY <1>3, <2>1 DEF Importing, Database
    <3>2. \A t \in TracksOf(r) : t \in Tracks /\ Planned(m, r).dest[t] = Target(m, t)
      BY <1>3, TracksOfRelease DEF Planned
    <3> QED
      BY <3>1, <3>2, AtHome
  <2>3. Homeward(s)'
    BY <1>3, <2>2 DEF Homeward
  <2> QED
    BY <1>1, <1>3, <2>3, BeginsBare
<1>4. ASSUME NEW r \in Releases, BeginUpgrade(s, r) PROVE LossInv'
  <2>1. /\ pc[s] = "idle" /\ pc'[s] = "pin" /\ UNCHANGED <<lib, db, made, kept>> /\ rel'[s] = r
        /\ txn' = Importing(Planned("upgrade", r), r)
    BY <1>4 DEF BeginUpgrade
  <2> QED
    BY <1>3, <2>1 DEF Modes
<1>5. CASE BeginUnplanned(s)
  <2>1. pc[s] = "unplanned" /\ UNCHANGED <<lib, db>>
    BY <1>5 DEF BeginUnplanned
  <2>2. CASE Finish(s, {})
    BY <1>1, <2>1, <2>2, FinishLoses
  <2>3. CASE /\ txn' = Importing(Planned("unplanned", rel[s]), rel[s]) /\ Goto(s, "pin")
             /\ UNCHANGED <<rel, mode, idx, tmp, made, kept, stray>>
    <3>1. pc'[s] = "pin" /\ rel'[s] = rel[s] /\ rel[s] \in Releases
      BY <2>1, <2>3
    <3> QED
      BY <1>3, <2>1, <2>3, <3>1 DEF Modes
  <2> QED
    BY <1>5, <2>2, <2>3 DEF BeginUnplanned
<1>6. CASE Begin(s)
  <2>1. /\ pc[s] = "loaded" /\ pc'[s] = "pin" /\ UNCHANGED <<lib, db, rel, made, kept>>
        /\ txn' = Importing(db, rel[s])
    BY <1>6 DEF Begin, request
  <2>2. txn'.dest = db.dest
    BY <2>1 DEF Importing, StoreOK, Database
  <2>3. Homeward(s)'
    BY <2>1, <2>2 DEF Homeward
  <2> QED
    BY <1>1, <2>1, <2>3, BeginsBare
<1> QED
  BY <1>2, <1>4, <1>5, <1>6

-----------------------------------------------------------------------------
(* The import loop.                                                        *)

(* Steps that move no file.                                                *)
LEMMA CalmLoses ==
    ASSUME Exclusive, LossInv, NEW s \in Sessions, FileInv',
           \/ StepRaises(s) \/ Pin(s) \/ Copy(s) \/ Verify(s) \/ Tag(s) \/ Check(s)
           \/ Fsync(s) \/ Record(s) \/ Flush(s) \/ CommitRaises(s)
           \/ UndoTemp(s) \/ NoteRollback(s)
    PROVE  LossInv'
<1> USE DEF At, Goto, files, store, request, LossInv, FileInv, IInv, TypeOK, SessionOK
<1>1. Acts(s) /\ OthersStay(s)
  <2>1. Acts(s)
    BY DEF Acts, Moves, Proceed, Raise
  <2> QED
    BY <2>1, ActsAlone
<1>2. /\ UNCHANGED <<lib, db, kept, rel>> /\ Active(s) /\ Active(s)'
      /\ pc'[s] \in {"loaded"} \cup LoopSteps \cup {"flush", "commit"} =>
           pc[s] \in LoopSteps \cup {"flush", "commit"}
      /\ pc'[s] # "loaded"
  <2>1. CASE StepRaises(s) \/ Pin(s) \/ Copy(s) \/ Verify(s) \/ Tag(s) \/ Check(s)
    BY <2>1 DEF StepRaises, Pin, Copy, Verify, Tag, Check, Active, LoopSteps
  <2>2. CASE Fsync(s) \/ Record(s) \/ Flush(s) \/ CommitRaises(s) \/ UndoTemp(s) \/ NoteRollback(s)
    BY <2>2 DEF Fsync, Record, Flush, CommitRaises, UndoTemp, NoteRollback, Active, LoopSteps
  <2> QED
    BY <2>1, <2>2
<1>3. pc[s] \in LoopSteps \cup {"flush", "commit"} /\ pc'[s] \in LoopSteps \cup {"flush", "commit"} =>
        txn'.dest = txn.dest
  <2>1. CASE \/ StepRaises(s) \/ Pin(s) \/ Copy(s) \/ Verify(s) \/ Tag(s) \/ Check(s)
             \/ Fsync(s) \/ UndoTemp(s)
    BY <2>1 DEF StepRaises, Pin, Copy, Verify, Tag, Check, Fsync, UndoTemp
  <2>2. CASE Flush(s)
    BY <2>2 DEF Flush, StoreOK, Database
  <2>3. CASE Record(s)
    BY <2>3 DEF Record, StoreOK, Database
  <2>4. CASE CommitRaises(s) \/ NoteRollback(s)
    BY <2>4 DEF CommitRaises, NoteRollback, LoopSteps
  <2> QED
    BY <2>1, <2>2, <2>3, <2>4
<1>4. Homeward(s)'
  BY <1>2, <1>3 DEF Homeward
<1>5. Keeps
  BY <1>1, <1>2, StrayGrows, SpareKept DEF Keeps
<1>6. \A t \in Tracks : Moved(s, t)' => Moved(s, t)
  <2>1. CASE Fsync(s)
    BY <2>1 DEF Fsync, Moved, Held, Cur
  <2>2. CASE ~Fsync(s)
    <3>1. made'[s] = made[s] /\ pc'[s] # "fsync"
      BY <2>2 DEF StepRaises, Pin, Copy, Verify, Tag, Check, Record, Flush, CommitRaises,
                  UndoTemp, NoteRollback
    <3> QED
      BY <1>2, <3>1 DEF Moved, Held
  <2> QED
    BY <2>1, <2>2
<1>7. Covered(s)'
  BY <1>2, <1>5, <1>6, CoverStays
<1> QED
  BY <1>1, <1>2, <1>4, <1>5, <1>7, SafeStays, LossStep

(* The imported file that is moved aside is in the backup.                 *)
LEMMA LinkLoses ==
    ASSUME Exclusive, OnePathEach, LossInv, NEW s \in Sessions, LinkBackup(s), FileInv'
    PROVE  LossInv'
<1>1. Acts(s)
  BY DEF Acts, Moves, Proceed
<1>2. /\ pc[s] = "link" /\ pc'[s] \in {"unlink", "undo_tmp"} /\ Active(s) /\ Active(s)'
      /\ UNCHANGED <<lib, db, txn, rel, made>> /\ Cur(s)' = Cur(s)
  BY DEF LinkBackup, At, Goto, files, store, request, Active, Cur,
         LossInv, FileInv, IInv, TypeOK, SessionOK
<1>3. PICK c \in Tracks : c = Cur(s) /\ Dest(s) = Home(c)
  BY <1>2, CurrentPlan, AtHome DEF LossInv
<1>4. kept[s][c] = None
  BY <1>2, <1>3 DEF LossInv, FileInv, Ahead, Held, LoopSteps
<1>5. kept'[s][c] = lib[Home(c)] /\ \A t \in Tracks \ {c} : kept'[s][t] = kept[s][t]
  BY <1>2, <1>3 DEF LinkBackup, LossInv, FileInv, IInv, TypeOK, SessionOK
<1>6. Keeps
  BY <1>1, <1>2, <1>4, <1>5, ActsAlone, StrayGrows, SpareKept
     DEF Keeps, LossInv, FileInv, IInv
<1>7. Covered(s)'
  <2> SUFFICES ASSUME NEW t \in Tracks, Moved(s, t)', IsImported(t)
               PROVE  db.hash[t] \in Spare(t)'
    BY <1>2 DEF Covered, IsImported
  <2>1. CASE t # c
    <3>1. Moved(s, t)
      BY <1>2, <1>3, <1>5, <2>1 DEF Moved, Held
    <3> QED
      BY <1>2, <1>6, <3>1 DEF LossInv, Covered, Safe, Keeps
  <2>2. CASE t = c
    <3>1. lib[Home(c)] \in Spare(c)'
      BY <1>2, <1>5 DEF Spare
    <3>2. db.hash[c] # None /\ db.hash[c] \in {lib[Home(c)]} \cup Spare(c)
      BY <2>2 DEF LossInv, Safe
    <3> QED
      BY <1>6, <2>2, <3>1, <3>2 DEF Keeps
  <2> QED
    BY <2>1, <2>2
<1>8. Homeward(s)'
  BY <1>2 DEF LossInv, Homeward, LoopSteps
<1> QED
  BY <1>1, <1>2, <1>6, <1>7, <1>8, SafeStays, LossStep

(* The backup that is dropped has its live name still.                     *)
LEMMA UnlinkRaisesLoses ==
    ASSUME Exclusive, OnePathEach, LossInv, NEW s \in Sessions, UnlinkRaises(s), FileInv'
    PROVE  LossInv'
<1>1. Acts(s)
  BY DEF Acts, Moves, Proceed, Raise
<1>2. /\ pc[s] = "unlink" /\ pc'[s] = "undo_tmp" /\ Active(s) /\ Active(s)'
      /\ UNCHANGED <<lib, db, made>>
  BY DEF UnlinkRaises, At, Goto, files, store, request, Active,
         LossInv, FileInv, IInv, TypeOK, SessionOK
<1>3. PICK c \in Tracks : c = Cur(s) /\ Dest(s) = Home(c)
  BY <1>2, CurrentPlan, AtHome DEF LossInv
<1>4. kept[s][c] = lib[Home(c)] /\ c \notin made[s]
  BY <1>2, <1>3 DEF LossInv, FileInv, Ahead, LoopSteps
<1>5. kept'[s][c] = None /\ \A t \in Tracks \ {c} : kept'[s][t] = kept[s][t]
  BY <1>3 DEF UnlinkRaises, LossInv, FileInv, IInv, TypeOK, SessionOK
<1>6. ASSUME NEW t \in Tracks, NEW f \in Spare(t), f # None, t # c \/ f # lib[Home(c)]
      PROVE  f \in Spare(t)'
  BY <1>1, <1>2, <1>4, <1>5, <1>6, ActsAlone, StrayGrows, SpareKept DEF LossInv, FileInv, IInv
<1>7. Homes' /\ Safe'
  BY <1>2, <1>6 DEF LossInv, Homes, Safe, IsImported
<1>8. Covered(s)'
  <2>1. \A t \in Tracks : Moved(s, t)' => t # c /\ Moved(s, t)
    BY <1>2, <1>4, <1>5 DEF Moved, Held
  <2> QED
    BY <1>2, <1>6, <2>1 DEF LossInv, Covered, Safe, IsImported
<1>9. Homeward(s)'
  BY <1>2 DEF Homeward, LoopSteps
<1> QED
  BY <1>1, <1>7, <1>8, <1>9, LossStep

(* What is removed or overwritten has a backup if it is imported.          *)
LEMMA PlaceLoses ==
    ASSUME Exclusive, OnePathEach, LossInv, NEW s \in Sessions, UnlinkLive(s) \/ Rename(s), FileInv'
    PROVE  LossInv'
<1>1. Acts(s)
  BY DEF Acts, Moves, Proceed
<1>2. /\ pc[s] \in {"unlink", "rename"} /\ pc'[s] \in {"rename", "fsync"}
      /\ Active(s) /\ Active(s)'
      /\ UNCHANGED <<db, txn, rel, made, kept>> /\ Cur(s)' = Cur(s)
      /\ \E f : lib' = [lib EXCEPT ![Dest(s)] = f]
  BY DEF UnlinkLive, Rename, At, Goto, store, request, Active, Cur,
         LossInv, FileInv, IInv, TypeOK, SessionOK
<1>3. PICK c \in Tracks : c = Cur(s) /\ Dest(s) = Home(c) /\ Home(c) \in Dests
  BY <1>2, CurrentPlan, AtHome DEF LossInv
<1>4. \A t \in Tracks \ {c} : lib'[Home(t)] = lib[Home(t)]
  BY <1>2, <1>3, AtHome DEF LossInv, FileInv, IInv, TypeOK, FilesOK
<1>5. IsImported(c) => db.hash[c] \in Spare(c)
  <2> SUFFICES ASSUME IsImported(c), db.hash[c] = lib[Home(c)] PROVE db.hash[c] \in Spare(c)
    BY DEF LossInv, Safe
  <2>1. lib[Home(c)] # None
    BY DEF LossInv, Safe
  <2>2. kept[s][c] = lib[Home(c)]
    BY <1>2, <1>3, <2>1 DEF LossInv, FileInv, Ahead, LoopSteps
  <2> QED
    BY <1>2, <2>2 DEF Spare
<1>6. Keeps
  BY <1>1, <1>2, ActsAlone, StrayGrows, SpareKept DEF Keeps, LossInv, FileInv, IInv
<1>7. Homes' /\ Safe'
  <2>1. Homes'
    BY <1>2 DEF LossInv, Homes, IsImported
  <2>2. Safe'
    BY <1>2, <1>4, <1>5, <1>6 DEF LossInv, Safe, IsImported, Keeps
  <2> QED
    BY <2>1, <2>2
<1>8. Covered(s)'
  <2>1. \A t \in Tracks : Moved(s, t)' => t = c \/ Moved(s, t)
    BY <1>2, <1>3 DEF Moved, Held
  <2> QED
    BY <1>2, <1>5, <1>6, <2>1 DEF LossInv, Covered, Safe, IsImported, Keeps
<1>9. Homeward(s)'
  BY <1>2 DEF LossInv, Homeward, LoopSteps
<1> QED
  BY <1>1, <1>7, <1>8, <1>9, LossStep

-----------------------------------------------------------------------------
(* The commit, the rollback, and the surroundings.                         *)

(* What is committed is in the library; the backups are not needed for it. *)
LEMMA CommitLoses ==
    ASSUME Exclusive, OnePathEach, LossInv, NEW s \in Sessions, Commit(s), FileInv'
    PROVE  LossInv'
<1> DEFINE r == rel[s]
<1>1. Acts(s)
  BY DEF Acts, Moves, Proceed
<1>2. /\ pc[s] = "commit" /\ pc'[s] = "committed" /\ db' = txn
      /\ UNCHANGED <<lib, kept>>
  BY DEF Commit, At, Goto, files, LossInv, FileInv, IInv, TypeOK, SessionOK
<1>3. /\ Untouched(s) /\ (\A t \in TracksOf(r) : Replaced(s, t) /\ txn.dest[t] = Home(t))
      /\ TracksOf(r) \subseteq Tracks
  <2>1. Untouched(s) /\ \A i \in DOMAIN Order[r] : Replaced(s, Order[r][i])
    BY <1>2 DEF LossInv, FileInv, Behind, Done
  <2>2. r \in Releases
    BY <1>2 DEF LossInv, FileInv, IInv, TypeOK, SessionOK
  <2> QED
    BY <1>2, <2>1, <2>2, TracksOfRelease DEF TracksOf, LossInv, Homeward
<1>4. ASSUME NEW t \in Tracks \ TracksOf(r), NEW f \in Spare(t), f # None PROVE f \in Spare(t)'
  <2>1. Active(s)
    BY <1>2 DEF Active
  <2>2. kept[s][t] = None
    BY <2>1 DEF LossInv, FileInv, Hands, Held
  <2> QED
    BY <1>1, <1>4, <2>2, ActsAlone, StrayGrows, SpareKept DEF LossInv, FileInv, IInv
<1>5. Homes'
  BY <1>2, <1>3 DEF LossInv, Homes, IsImported, Untouched
<1>6. Safe'
  <2> SUFFICES ASSUME NEW t \in Tracks, txn.track[t] = "imported"
               PROVE  txn.hash[t] # None /\ txn.hash[t] \in {lib[Home(t)]} \cup Spare(t)'
    BY <1>2 DEF Safe, IsImported
  <2>1. CASE t \in TracksOf(r)
    <3>1. Target(mode[s], t) = Home(t)
      BY AtHome
    <3> QED
      BY <1>3, <2>1, <3>1 DEF Replaced
  <2>2. CASE t \notin TracksOf(r)
    <3>1. db.track[t] = "imported" /\ txn.hash[t] = db.hash[t]
      BY <1>3, <2>2 DEF Untouched
    <3> QED
      BY <1>4, <2>2, <3>1 DEF LossInv, Safe, IsImported
  <2> QED
    BY <2>1, <2>2
<1>7. Homeward(s)' /\ Covered(s)'
  BY <1>2 DEF Homeward, Covered, Active, LoopSteps
<1> QED
  BY <1>1, <1>5, <1>6, <1>7, LossStep

(* What a rollback removes has a backup if it is imported.                 *)
LEMMA UndoMadeLoses ==
    ASSUME Exclusive, OnePathEach, LossInv, NEW s \in Sessions, UndoMade(s), FileInv'
    PROVE  LossInv'
<1>1. Acts(s)
  BY DEF Acts, Moves, Proceed
<1>2. /\ pc[s] = "undo_made" /\ pc'[s] \in {"undo_made", "undo_kept"}
      /\ Active(s) /\ Active(s)' /\ UNCHANGED <<db, kept>> /\ made'[s] \subseteq made[s]
      /\ \/ UNCHANGED lib
         \/ \E t \in made[s] : lib' = [lib EXCEPT ![Target(mode[s], t)] = None]
  BY DEF UndoMade, At, Goto, store, Active, LossInv, FileInv, IInv, TypeOK, SessionOK
<1>3. Keeps
  BY <1>1, <1>2, ActsAlone, StrayGrows, SpareKept DEF Keeps, LossInv, FileInv, IInv
<1>4. ASSUME NEW u \in Tracks, IsImported(u)
      PROVE  lib'[Home(u)] = lib[Home(u)] \/ db.hash[u] \in Spare(u)
  <2> SUFFICES ASSUME NEW t \in made[s], lib' = [lib EXCEPT ![Target(mode[s], t)] = None]
               PROVE  lib'[Home(u)] = lib[Home(u)] \/ db.hash[u] \in Spare(u)
    BY <1>2
  <2>1. t \in Tracks /\ Target(mode[s], t) = Home(t)
    BY AtHome DEF LossInv, FileInv, IInv, TypeOK, SessionOK
  <2>2. CASE u = t
    BY <1>2, <1>4, <2>2 DEF LossInv, Covered, Moved, Held
  <2>3. CASE u # t
    BY <2>1, <2>3, AtHome DEF LossInv, FileInv, IInv, TypeOK, FilesOK
  <2> QED
    BY <2>2, <2>3
<1>5. Homes' /\ Safe'
  <2>1. Homes'
    BY <1>2 DEF LossInv, Homes, IsImported
  <2>2. Safe'
    BY <1>2, <1>3, <1>4 DEF LossInv, Safe, IsImported, Keeps
  <2> QED
    BY <2>1, <2>2
<1>6. Covered(s)'
  <2>1. \A t \in Tracks : Moved(s, t)' => Moved(s, t)
    BY <1>2 DEF Moved, Held
  <2> QED
    BY <1>2, <1>3, <2>1, CoverStays
<1>7. Homeward(s)'
  BY <1>2 DEF Homeward, LoopSteps
<1> QED
  BY <1>1, <1>5, <1>6, <1>7, LossStep

(* A backup goes back to its live name, or stays behind.                   *)
LEMMA UndoKeptLoses ==
    ASSUME Exclusive, OnePathEach, LossInv, NEW s \in Sessions, UndoKept(s), FileInv'
    PROVE  LossInv'
<1>1. Acts(s) /\ OthersStay(s)
  <2>1. Acts(s)
    BY DEF Acts, Moves, Proceed
  <2> QED
    BY <2>1, ActsAlone DEF LossInv, FileInv, IInv
<1>2. /\ pc[s] = "undo_kept" /\ pc'[s] \in {"undo_kept", "undone"}
      /\ Active(s) /\ Active(s)' /\ UNCHANGED <<db, made>>
  BY DEF UndoKept, At, Goto, store, Active, LossInv, FileInv, IInv, TypeOK, SessionOK
<1>3. Homeward(s)'
  BY <1>2 DEF Homeward, LoopSteps
<1>4. CASE UNCHANGED <<lib, stray, kept>>
  <2>1. Keeps
    BY <1>1, <1>2, <1>4, SpareKept DEF Keeps
  <2>2. \A t \in Tracks : Moved(s, t)' => Moved(s, t)
    BY <1>2, <1>4 DEF Moved, Held
  <2> QED
    BY <1>1, <1>2, <1>3, <1>4, <2>1, <2>2, SafeStays, CoverStays, LossStep
<1>5. ASSUME NEW t \in Tracks, kept[s][t] # None, kept' = [kept EXCEPT ![s][t] = None],
             \/ lib' = [lib EXCEPT ![Target(mode[s], t)] = kept[s][t]]
             \/ stray' = stray \cup {Backup(s, t)} /\ UNCHANGED lib
      PROVE  LossInv'
  <2>1. Target(mode[s], t) = Home(t) /\ Home(t) \in Dests
    BY AtHome
  <2>2. kept'[s][t] = None /\ \A u \in Tracks \ {t} : kept'[s][u] = kept[s][u]
    BY <1>5 DEF LossInv, FileInv, IInv, TypeOK, SessionOK
  <2>3. \A u \in Tracks \ {t} : lib'[Home(u)] = lib[Home(u)]
    BY <1>5, <2>1, AtHome DEF LossInv, FileInv, IInv, TypeOK, FilesOK
  <2>4. ASSUME NEW u \in Tracks, NEW f \in Spare(u), f # None, u # t \/ f # kept[s][t]
        PROVE  f \in Spare(u)'
    BY <1>1, <1>2, <2>2, <2>4, StrayGrows, SpareKept
  <2>5. kept[s][t] = lib'[Home(t)] \/ kept[s][t] \in Spare(t)'
    <3>1. CASE lib' = [lib EXCEPT ![Target(mode[s], t)] = kept[s][t]]
      BY <2>1, <3>1 DEF LossInv, FileInv, IInv, TypeOK, FilesOK
    <3>2. CASE stray' = stray \cup {Backup(s, t)}
      <4>1. Backup(s, t).kind = "backup" /\ Backup(s, t).at = Home(t) /\ Backup(s, t).file = kept[s][t]
        BY <2>1 DEF Backup
      <4>2. kept[s][t] \in Left(t)'
        BY <3>2, <4>1 DEF Left
      <4> QED
        BY <4>2 DEF Spare
    <3> QED
      BY <1>5, <3>1, <3>2
  <2>6. IsImported(t) => db.hash[t] \in Spare(t) /\ db.hash[t] # None
    BY <1>2, <1>5 DEF LossInv, Covered, Moved, Held, Safe
  <2>7. Homes'
    BY <1>2 DEF LossInv, Homes, IsImported
  <2>8. Safe'
    <3> SUFFICES ASSUME NEW u \in Tracks, IsImported(u)
                 PROVE  db.hash[u] # None /\ db.hash[u] \in {lib'[Home(u)]} \cup Spare(u)'
      BY <1>2 DEF Safe, IsImported
    <3>1. CASE u = t
      BY <2>4, <2>5, <2>6, <3>1
    <3>2. CASE u # t
      BY <2>3, <2>4, <3>2 DEF LossInv, Safe
    <3> QED
      BY <3>1, <3>2
  <2>9. Covered(s)'
    <3>1. made[s] = {}
      BY <1>2 DEF LossInv, FileInv, Hands
    <3>2. \A u \in Tracks : Moved(s, u)' => u # t /\ Moved(s, u)
      BY <1>2, <2>2, <3>1 DEF Moved, Held
    <3> QED
      BY <1>2, <2>4, <3>2 DEF LossInv, Covered, Safe, IsImported
  <2> QED
    BY <1>1, <1>3, <2>7, <2>8, <2>9, LossStep
<1> QED
  BY <1>4, <1>5 DEF UndoKept

(* A release that is planned again is imported no longer.                  *)
LEMMA PlanLoses ==
    ASSUME OnePathEach, LossInv, NEW r \in Releases, PlanRelease(r), FileInv'
    PROVE  LossInv'
<1> DEFINE d == Planned("planned", r)
<1>1. /\ lock = None /\ db' = d
      /\ UNCHANGED <<lib, stray, pc, rel, mode, idx, made, kept>>
  BY DEF PlanRelease, files, session
<1>2. \A t \in Tracks \ TracksOf(r) :
        d.track[t] = db.track[t] /\ d.plan[t] = db.plan[t]
        /\ d.hash[t] = db.hash[t] /\ d.dest[t] = db.dest[t]
  BY DEF Planned
<1>3. \A t \in TracksOf(r) : t \in Tracks /\ d.track[t] # "imported" /\ d.dest[t] = Home(t)
  BY TracksOfRelease, AtHome DEF Planned
<1>4. \A t \in Tracks : Spare(t)' = Spare(t)
  BY <1>1 DEF Spare, Left, Active
<1>5. Homes' /\ Safe'
  BY <1>1, <1>2, <1>3, <1>4 DEF LossInv, Homes, Safe, IsImported
<1>6. ASSUME NEW s \in Sessions PROVE Homeward(s)' /\ Covered(s)'
  <2>1. pc[s] \notin LoopSteps \cup {"flush", "commit"}
    BY <1>1, ImportAssumption DEF LossInv, FileInv, IInv, Locked
  <2>2. Homeward(s)'
    <3> SUFFICES ASSUME pc[s] = "loaded", NEW t \in TracksOf(rel[s]) PROVE d.dest[t] = Home(t)
      BY <1>1, <2>1 DEF Homeward
    <3>1. t \in Tracks /\ db.dest[t] = Home(t)
      BY TracksOfRelease DEF LossInv, Homeward, FileInv, IInv, TypeOK, SessionOK
    <3> QED
      BY <1>2, <1>3, <3>1
  <2>3. \A t \in Tracks : (Moved(s, t)' <=> Moved(s, t)) /\ (Active(s)' <=> Active(s))
    BY <1>1 DEF Moved, Held, Cur, Active
  <2>4. Covered(s)'
    BY <1>1, <1>2, <1>3, <1>4, <2>3 DEF LossInv, Covered, IsImported
  <2> QED
    BY <2>2, <2>4
<1> QED
  BY <1>5, <1>6 DEF LossInv

(* The process dies: the backups stay where they are.                      *)
LEMMA CrashLoses ==
    ASSUME OnePathEach, LossInv, Crash, FileInv'
    PROVE  LossInv'
<1>1. /\ UNCHANGED <<lib, db>> /\ \A s \in Sessions : pc'[s] = "idle"
      /\ \A s \in Sessions : Backups(s) \subseteq stray'
      /\ stray \subseteq stray'
  BY DEF Crash
<1>2. ASSUME NEW t \in Tracks, NEW f \in Spare(t), f # None PROVE f \in Spare(t)'
  <2>1. CASE f \in Left(t)
    BY <1>1, <2>1, LeftGrows DEF Spare
  <2>2. ASSUME NEW s \in Sessions, f = kept[s][t] PROVE f \in Left(t)'
    BY <1>1, <1>2, <2>2, BackupLeft
  <2> QED
    BY <2>1, <2>2 DEF Spare
<1>3. Homes' /\ Safe'
  BY <1>1, <1>2, SafeStays DEF Keeps
<1>4. \A s \in Sessions : Homeward(s)' /\ Covered(s)'
  BY <1>1 DEF Homeward, Covered, Active, LoopSteps
<1> QED
  BY <1>3, <1>4 DEF LossInv

LEMMA OthersLose ==
    ASSUME LossInv, FileInv',
           \/ \E k \in {"job", "candidate"}, t \in Tracks : Restage(k, t)
           \/ UNCHANGED vars
    PROVE  LossInv'
<1>1. UNCHANGED <<lib, stray, db, txn, pc, rel, mode, idx, made, kept>>
  BY DEF Restage, vars, store, session
<1>2. \A t \in Tracks : Spare(t)' = Spare(t)
  BY <1>1 DEF Spare, Left, Active
<1>3. Homes' /\ Safe'
  BY <1>1, <1>2 DEF LossInv, Homes, Safe, IsImported
<1>4. \A s \in Sessions : Homeward(s)' /\ Covered(s)'
  BY <1>1, <1>2 DEF LossInv, Homeward, Covered, Active, Moved, Held, Cur, IsImported
<1> QED
  BY <1>3, <1>4 DEF LossInv

LEMMA LossInit == Init => LossInv
<1> SUFFICES ASSUME Init PROVE LossInv
  OBVIOUS
<1>1. FileInv
  BY FileInit
<1>2. /\ \A s \in Sessions : pc[s] = "idle"
      /\ \A t \in Tracks : db.plan[t] = None /\ db.track[t] = "discovered"
  BY DEF Init
<1> QED
  BY <1>1, <1>2 DEF LossInv, Homes, Safe, IsImported, Homeward, Covered, Active, LoopSteps

LEMMA LossNext ==
    ASSUME Private, Exclusive, OnePathEach
    PROVE  LossInv /\ [Next]_vars => LossInv'
<1> SUFFICES ASSUME LossInv, [Next]_vars PROVE LossInv'
  OBVIOUS
<1>0. FileInv'
  BY FileNext, AtHome DEF LossInv
<1>1. ASSUME NEW s \in Sessions,
             \/ \E r \in Releases : LoadPlans(s, r) \/ BeginUpgrade(s, r)
             \/ Begin(s) \/ BeginUnplanned(s)
             \/ LockFails(s) \/ Finalize(s) \/ RollbackRequest(s) \/ EndRollback(s) \/ Cancel(s)
      PROVE  LossInv'
  BY <1>0, <1>1, BeginLoses, EndLoses
<1>2. ASSUME NEW s \in Sessions,
             \/ StepRaises(s) \/ Pin(s) \/ Copy(s) \/ Verify(s) \/ Tag(s) \/ Check(s)
             \/ Fsync(s) \/ Record(s) \/ Flush(s) \/ CommitRaises(s)
             \/ UndoTemp(s) \/ NoteRollback(s)
      PROVE  LossInv'
  BY <1>0, <1>2, CalmLoses
<1>3. ASSUME NEW s \in Sessions,
             \/ LinkBackup(s) \/ UnlinkRaises(s) \/ UnlinkLive(s) \/ Rename(s)
             \/ Commit(s) \/ UndoMade(s) \/ UndoKept(s)
      PROVE  LossInv'
  BY <1>0, <1>3, LinkLoses, UnlinkRaisesLoses, PlaceLoses, CommitLoses, UndoMadeLoses, UndoKeptLoses
<1>4. CASE \/ \E r \in Releases : PlanRelease(r)
           \/ Crash
           \/ \E k \in {"job", "candidate"}, t \in Tracks : Restage(k, t)
           \/ UNCHANGED vars
  BY <1>0, <1>4, PlanLoses, CrashLoses, OthersLose
<1>5. ~(\E d \in Dests : Foreign(d))
  BY DEF Private, Foreign
<1> QED
  BY <1>1, <1>2, <1>3, <1>4, <1>5 DEF Next, Proceed, Raise

(* Whatever raises, is cancelled or dies, and also if operations of the    *)
(* rollback fail, the bytes of an imported file are at its path or in a    *)
(* backup beside it (backup_existing, _rollback_pinned_filesystem,         *)
(* finalize_filesystem_commit).                                            *)
THEOREM NothingIsLost ==
    ASSUME Private, Exclusive, OnePathEach
    PROVE  Spec => []NoLoss
<1>1. LossInv => NoLoss
  <2> SUFFICES ASSUME LossInv, NEW t \in Tracks, IsImported(t)
               PROVE  db.hash[t] \in {lib[db.dest[t]]} \cup SavedAt(db.dest[t])
    BY DEF NoLoss, IsImported
  <2>1. db.dest[t] = Home(t) /\ db.hash[t] \in {lib[Home(t)]} \cup Spare(t)
    BY DEF LossInv, Homes, Safe
  <2>2. Left(t) \subseteq SavedAt(Home(t))
    BY DEF Left, SavedAt
  <2>3. \A s \in Sessions : Active(s) => kept[s][t] \in SavedAt(Home(t))
    <3> SUFFICES ASSUME NEW s \in Sessions, Active(s) PROVE kept[s][t] \in SavedAt(Home(t))
      OBVIOUS
    <3>1. Target(mode[s], t) = Home(t) /\ pc[s] # "idle"
      BY AtHome DEF Active
    <3>2. kept[s][t] \in {kept[s][u] : u \in {v \in Tracks : Target(mode[s], v) = Home(t)}}
      BY <3>1
    <3> QED
      BY <3>1, <3>2 DEF SavedAt
  <2> QED
    BY <2>1, <2>2, <2>3 DEF Spare
<1>2. LossInv /\ [Next]_vars => LossInv'
  BY LossNext
<1> QED
  BY <1>1, <1>2, LossInit, PTL DEF Spec

-----------------------------------------------------------------------------
(***************************************************************************)
(* That LibraryImport implements AtomicImport: the library, as a rollback  *)
(* would leave it, and what the database records change together, for a    *)
(* whole release or not at all.                                            *)
(***************************************************************************)

(* Nothing keeps a request from undoing what it has done: no operation of  *)
(* a rollback fails, none is cut short, and no file is created unnoticed.  *)
Undoable == {"fsync", "undo", "cancel", "crash"} \cap Faults = {}

(* The library a rollback would leave, by the one request that is active.  *)
Settling ==
    \A d \in Dests :
        /\ (\A s \in Sessions : ~Active(s)) => Settled(d) = lib[d]
        /\ \A s \in Sessions : Active(s) =>
              /\ \A t \in Tracks :
                    kept[s][t] # None /\ Target(mode[s], t) = d => Settled(d) = kept[s][t]
              /\ (\A t \in Tracks : Target(mode[s], t) = d => kept[s][t] = None) =>
                    Settled(d) = IF \E t \in Tracks : Placed(s, t) /\ Target(mode[s], t) = d
                                 THEN None ELSE lib[d]

(* In an upgrade no other track of the release has the same path.          *)
LEMMA OwnPath ==
    ASSUME Parted, FileInv, NEW s \in Sessions, Active(s), mode[s] = "upgrade",
           NEW t \in TracksOf(rel[s]), NEW u \in TracksOf(rel[s]),
           Target(mode[s], t) = Target(mode[s], u)
    PROVE  t = u
<1>1. "upgrade" \in Kinds /\ rel[s] \in Releases
  BY DEF FileInv, Hands, Active, IInv, TypeOK, SessionOK
<1> QED
  BY <1>1 DEF Parted, Target

(* A request that is not active has nothing in hand.                       *)
LEMMA BareHands ==
    ASSUME FileInv, NEW s \in Sessions, ~Active(s), Uncommitted(s)
    PROVE  \A t \in Tracks : kept[s][t] = None /\ ~Placed(s, t)
<1>1. pc[s] \in {"loaded", "unplanned"}
  BY DEF Active, Uncommitted
<1>2. kept[s] = NoTracks /\ made[s] = {}
  BY <1>1 DEF FileInv, Hands, IInv, InHand
<1> QED
  BY <1>1, <1>2 DEF Placed, NoTracks

LEMMA SettledIs ==
    ASSUME Exclusive, Parted
    PROVE  FileInv => Settling
<1> SUFFICES ASSUME FileInv, NEW d \in Dests
             PROVE  /\ (\A s \in Sessions : ~Active(s)) => Settled(d) = lib[d]
                    /\ \A s \in Sessions : Active(s) =>
                         /\ \A t \in Tracks :
                              kept[s][t] # None /\ Target(mode[s], t) = d => Settled(d) = kept[s][t]
                         /\ (\A t \in Tracks : Target(mode[s], t) = d => kept[s][t] = None) =>
                              Settled(d) = IF \E t \in Tracks : Placed(s, t) /\ Target(mode[s], t) = d
                                           THEN None ELSE lib[d]
  BY DEF Settling
<1> DEFINE at(s, t) == Uncommitted(s) /\ Target(mode[s], t) = d
           held(s, t) == at(s, t) /\ kept[s][t] # None
           placed(s, t) == at(s, t) /\ Placed(s, t)
           first == CHOOSE c \in Content : \E s \in Sessions, t \in Tracks :
                                              held(s, t) /\ c = kept[s][t]
<1>1. Settled(d) = IF \E s \in Sessions, t \in Tracks : held(s, t) THEN first
                   ELSE IF \E s \in Sessions, t \in Tracks : placed(s, t) THEN None ELSE lib[d]
  BY DEF Settled
<1>2. \A s \in Sessions, t \in Tracks : held(s, t) \/ placed(s, t) => Active(s)
  BY BareHands
<1>3. \A s \in Sessions : Active(s) => Uncommitted(s)
  BY DEF Active, Uncommitted
<1>4. ASSUME \A s \in Sessions : ~Active(s) PROVE Settled(d) = lib[d]
  BY <1>1, <1>2, <1>4
<1>5. ASSUME NEW s \in Sessions, Active(s), NEW t \in Tracks, kept[s][t] # None, Target(mode[s], t) = d
      PROVE  Settled(d) = kept[s][t]
  <2>1. held(s, t)
    BY <1>3, <1>5
  <2>2. kept[s][t] \in Content
    BY <1>5 DEF FileInv, IInv, TypeOK, SessionOK
  <2>3. \A o \in Sessions, u \in Tracks : held(o, u) => kept[o][u] = kept[s][t]
    <3> SUFFICES ASSUME NEW o \in Sessions, NEW u \in Tracks, held(o, u)
                 PROVE  kept[o][u] = kept[s][t]
      OBVIOUS
    <3>1. o = s
      BY <1>2, <1>5, OneActive
    <3>2. mode[s] = "upgrade"
      BY <1>5 DEF FileInv, Hands, NoTracks
    <3>3. u \in TracksOf(rel[s]) /\ t \in TracksOf(rel[s])
      BY <1>5, <3>1 DEF FileInv, Hands, Held
    <3>4. Target(mode[s], t) = Target(mode[s], u)
      BY <1>5, <3>1
    <3> QED
      BY <1>5, <3>1, <3>2, <3>3, <3>4, OwnPath
  <2>4. first = kept[s][t]
    <3> HIDE DEF held
    <3>1. \E c \in Content : \E o \in Sessions, u \in Tracks : held(o, u) /\ c = kept[o][u]
      BY <2>1, <2>2
    <3>2. \E o \in Sessions, u \in Tracks : held(o, u) /\ first = kept[o][u]
      BY <3>1
    <3> QED
      BY <2>3, <3>2
  <2> QED
    BY <1>1, <2>1, <2>4
<1>6. ASSUME NEW s \in Sessions, Active(s),
             \A t \in Tracks : Target(mode[s], t) = d => kept[s][t] = None
      PROVE  Settled(d) = IF \E t \in Tracks : Placed(s, t) /\ Target(mode[s], t) = d
                          THEN None ELSE lib[d]
  <2>1. \A o \in Sessions, t \in Tracks : held(o, t) \/ placed(o, t) => o = s
    BY <1>2, <1>6, OneActive
  <2>2. ~\E o \in Sessions, t \in Tracks : held(o, t)
    BY <1>6, <2>1
  <2>3. (\E o \in Sessions, t \in Tracks : placed(o, t))
          <=> \E t \in Tracks : Placed(s, t) /\ Target(mode[s], t) = d
    BY <1>3, <1>6, <2>1
  <2> QED
    BY <1>1, <2>2, <2>3
<1> QED
  BY <1>4, <1>5, <1>6

-----------------------------------------------------------------------------
(* The invariant of the refinement.                                        *)
Steady == FileInv /\ Settling

Same == \A d \in Dests : Settled(d)' = Settled(d)

(* At a path where the active request has moved nothing in a step, nothing *)
(* changes.                                                                *)
LEMMA SamePath ==
    ASSUME Settling, Settling', NEW s \in Sessions, Active(s), Active(s)', mode'[s] = mode[s],
           NEW d \in Dests, lib'[d] = lib[d],
           \A t \in Tracks : Target(mode[s], t) = d =>
              kept'[s][t] = kept[s][t] /\ (Placed(s, t)' <=> Placed(s, t))
    PROVE  Settled(d)' = Settled(d)
<1>1. \A t \in Tracks : Target(mode[s], t)' = Target(mode[s], t)
  BY DEF Target
<1>2. CASE \E t \in Tracks : kept[s][t] # None /\ Target(mode[s], t) = d
  <2>1. PICK t \in Tracks : kept[s][t] # None /\ Target(mode[s], t) = d
    BY <1>2
  <2>2. Settled(d) = kept[s][t]
    BY <2>1 DEF Settling
  <2>3. Settled(d)' = kept'[s][t]
    BY <1>1, <2>1 DEF Settling
  <2> QED
    BY <2>1, <2>2, <2>3
<1>3. CASE \A t \in Tracks : Target(mode[s], t) = d => kept[s][t] = None
  <2>1. Settled(d) = IF \E t \in Tracks : Placed(s, t) /\ Target(mode[s], t) = d
                     THEN None ELSE lib[d]
    BY <1>3 DEF Settling
  <2>2. \A t \in Tracks : Target(mode[s], t)' = d => kept'[s][t] = None
    BY <1>1, <1>3
  <2>3. Settled(d)' = IF \E t \in Tracks : Placed(s, t)' /\ Target(mode[s], t)' = d
                      THEN None ELSE lib'[d]
    BY <2>2 DEF Settling
  <2>4. \A t \in Tracks : Placed(s, t)' /\ Target(mode[s], t)' = d
                            <=> Placed(s, t) /\ Target(mode[s], t) = d
    BY <1>1
  <2> QED
    BY <2>1, <2>3, <2>4
<1> QED
  BY <1>2, <1>3

(* A request that is not active, before or after, and the end of one that  *)
(* has nothing in hand, change nothing.                                    *)
LEMMA IdleSame ==
    ASSUME Exclusive, Steady, Settling', NEW s \in Sessions, Acts(s), UNCHANGED lib,
           ~Active(s) \/ (made[s] = {} /\ kept[s] = NoTracks /\ pc[s] # "fsync"),
           ~Active(s)' \/ (made'[s] = {} /\ kept'[s] = NoTracks /\ pc'[s] # "fsync")
    PROVE  Same
<1>1. OthersStay(s)
  BY ActsAlone DEF Steady, FileInv, IInv
<1>2. \A o \in Sessions \ {s} : Active(o)' <=> Active(o)
  BY <1>1 DEF OthersStay, Active
<1> SUFFICES ASSUME NEW d \in Dests PROVE Settled(d)' = Settled(d)
  BY DEF Same
<1>3. ASSUME NEW o \in Sessions \ {s}, Active(o) PROVE Settled(d)' = Settled(d)
  <2>1. mode'[o] = mode[o] /\ kept'[o] = kept[o] /\ \A t : Placed(o, t)' <=> Placed(o, t)
    BY <1>1 DEF OthersStay, Placed, Cur
  <2> QED
    BY <1>2, <1>3, <2>1, SamePath DEF Steady
<1>4. ASSUME \A o \in Sessions \ {s} : ~Active(o) PROVE Settled(d)' = Settled(d)
  <2>1. Settled(d) = lib[d]
    <3>1. CASE ~Active(s)
      BY <1>4, <3>1 DEF Steady, Settling
    <3>2. CASE Active(s)
      BY <3>2 DEF Steady, Settling, Placed, NoTracks
    <3> QED
      BY <3>1, <3>2
  <2>2. Settled(d)' = lib'[d]
    <3>1. CASE ~Active(s)'
      BY <1>2, <1>4, <3>1 DEF Settling
    <3>2. CASE Active(s)'
      <4>1. \A t \in Tracks : kept'[s][t] = None /\ ~Placed(s, t)'
        BY <3>2 DEF Placed, NoTracks
      <4> QED
        BY <3>2, <4>1 DEF Settling
    <3> QED
      BY <3>1, <3>2
  <2> QED
    BY <2>1, <2>2
<1> QED
  BY <1>3, <1>4

(* Steps that begin or end a request, but for the commit.                  *)
LEMMA EdgeSame ==
    ASSUME Exclusive, Undoable, Steady, Settling', NEW s \in Sessions,
           \/ \E r \in Releases : LoadPlans(s, r) \/ BeginUpgrade(s, r)
           \/ Begin(s) \/ BeginUnplanned(s) \/ LockFails(s) \/ Finalize(s)
           \/ RollbackRequest(s) \/ EndRollback(s) \/ Cancel(s)
    PROVE  Same /\ UNCHANGED db
<1> USE DEF At, Goto, Steady, FileInv, IInv, TypeOK, SessionOK
<1>1. Acts(s)
  BY DEF Acts, Moves, Proceed, Raise
<1>2. UNCHANGED <<lib, db>>
  <2>1. CASE \/ \E r \in Releases : LoadPlans(s, r) \/ BeginUpgrade(s, r)
             \/ Begin(s) \/ BeginUnplanned(s) \/ LockFails(s)
    BY <2>1 DEF LoadPlans, BeginUpgrade, Begin, BeginUnplanned, LockFails, files, store
  <2>2. CASE Finalize(s) \/ RollbackRequest(s) \/ EndRollback(s) \/ Cancel(s)
    BY <2>2 DEF Finalize, RollbackRequest, EndRollback, Cancel, store
  <2> QED
    BY <2>1, <2>2
<1>3. ~Cancel(s)
  BY DEF Undoable, Cancel
<1>4. /\ pc[s] \in {"idle", "loaded", "unplanned", "committed", "raised", "undone"}
      /\ pc[s] # "committed" => made[s] = {} /\ kept[s] = NoTracks
  <2>1. pc[s] \in {"idle", "loaded", "unplanned", "committed", "raised", "undone"}
    BY <1>3 DEF LoadPlans, BeginUpgrade, Begin, BeginUnplanned, LockFails, Finalize,
                RollbackRequest, EndRollback
  <2>2. pc[s] # "committed" => made[s] = {} /\ kept[s] = NoTracks
    BY <2>1 DEF Hands, InHand
  <2> QED
    BY <2>1, <2>2
<1>5. \/ pc'[s] \in {"idle", "loaded", "unplanned"}
      \/ pc[s] # "committed" /\ pc'[s] = "pin" /\ UNCHANGED <<made, kept>>
  <2>1. CASE \/ \E r \in Releases : LoadPlans(s, r) \/ BeginUpgrade(s, r)
             \/ Begin(s)
    BY <2>1 DEF LoadPlans, BeginUpgrade, Begin
  <2>2. CASE BeginUnplanned(s)
    BY <2>2 DEF BeginUnplanned, Finish
  <2>3. CASE LockFails(s) \/ Finalize(s) \/ RollbackRequest(s) \/ EndRollback(s)
    BY <2>3 DEF LockFails, Finalize, RollbackRequest, EndRollback, Finish
  <2> QED
    BY <1>3, <2>1, <2>2, <2>3
<1>6. ~Active(s) \/ (made[s] = {} /\ kept[s] = NoTracks /\ pc[s] # "fsync")
  BY <1>4 DEF Active
<1>7. ~Active(s)' \/ (made'[s] = {} /\ kept'[s] = NoTracks /\ pc'[s] # "fsync")
  BY <1>4, <1>5 DEF Active
<1> QED
  BY <1>1, <1>2, <1>6, <1>7, IdleSame

(* Steps that move no file.                                                *)
LEMMA CalmSame ==
    ASSUME Undoable, Steady, Settling', NEW s \in Sessions,
           \/ StepRaises(s) \/ Pin(s) \/ Copy(s) \/ Verify(s) \/ Tag(s) \/ Check(s)
           \/ Fsync(s) \/ Record(s) \/ Flush(s) \/ CommitRaises(s)
           \/ UndoTemp(s) \/ NoteRollback(s)
    PROVE  Same /\ UNCHANGED db
<1> USE DEF At, Goto, files, store, request, Steady, FileInv, IInv, TypeOK, SessionOK
<1>1. UNCHANGED <<lib, db, kept, mode, rel>> /\ Active(s) /\ Active(s)'
  <2>1. CASE StepRaises(s) \/ Pin(s) \/ Copy(s) \/ Verify(s) \/ Tag(s) \/ Check(s)
    BY <2>1 DEF StepRaises, Pin, Copy, Verify, Tag, Check, Active, LoopSteps
  <2>2. CASE Fsync(s) \/ Record(s) \/ Flush(s) \/ CommitRaises(s) \/ UndoTemp(s) \/ NoteRollback(s)
    BY <2>2 DEF Fsync, Record, Flush, CommitRaises, UndoTemp, NoteRollback, Active
  <2> QED
    BY <2>1, <2>2
<1>2. \A t \in Tracks : Placed(s, t)' <=> Placed(s, t)
  <2>1. CASE Fsync(s)
    BY <2>1 DEF Fsync, Placed, Cur
  <2>2. CASE ~Fsync(s)
    <3>1. made'[s] = made[s] /\ pc'[s] # "fsync"
      BY <2>2 DEF StepRaises, Pin, Copy, Verify, Tag, Check, Record, Flush, CommitRaises,
                  UndoTemp, NoteRollback
    <3>2. pc[s] # "fsync"
      BY <2>2 DEF StepRaises, Pin, Copy, Verify, Tag, Check, Record, Flush, CommitRaises,
                  UndoTemp, NoteRollback, Undoable
    <3> QED
      BY <3>1, <3>2 DEF Placed
  <2> QED
    BY <2>1, <2>2
<1> QED
  BY <1>1, <1>2, SamePath DEF Same

-----------------------------------------------------------------------------
(* Steps of the active request at the path of one track.                   *)

LEMMA LinkSame ==
    ASSUME Parted, Steady, Settling', NEW s \in Sessions, LinkBackup(s) \/ UnlinkRaises(s)
    PROVE  Same /\ UNCHANGED db
<1>1. /\ pc[s] \in {"link", "unlink"} /\ pc'[s] \in {"unlink", "undo_tmp"}
      /\ Active(s) /\ Active(s)' /\ UNCHANGED <<lib, db, made, mode, rel, idx>>
  BY DEF LinkBackup, UnlinkRaises, At, Goto, files, store, request, Active,
         Steady, FileInv, IInv, TypeOK, SessionOK
<1>2. PICK c \in Tracks : c = Cur(s) /\ Dest(s) = Target(mode[s], c) /\ c \in TracksOf(rel[s])
  BY <1>1, CurrentPlan DEF Steady
<1> DEFINE d == Dest(s)
<1>3. mode[s] = "upgrade" /\ c \notin made[s]
  BY <1>1, <1>2 DEF Steady, FileInv, Ahead, Held, LoopSteps
<1>4. /\ kept'[s][c] = (IF LinkBackup(s) THEN lib[d] ELSE None)
      /\ \A t \in Tracks \ {c} : kept'[s][t] = kept[s][t]
      /\ IF LinkBackup(s) THEN kept[s][c] = None ELSE kept[s][c] = lib[d] /\ lib[d] # None
  <2>1. LinkBackup(s) <=> pc[s] = "link"
    BY DEF LinkBackup, UnlinkRaises, At
  <2>2. /\ kept'[s][c] = (IF LinkBackup(s) THEN lib[d] ELSE None)
        /\ \A t \in Tracks \ {c} : kept'[s][t] = kept[s][t]
    BY <1>2, <2>1 DEF LinkBackup, UnlinkRaises, At, Steady, FileInv, IInv, TypeOK, SessionOK
  <2>3. IF LinkBackup(s) THEN kept[s][c] = None ELSE kept[s][c] = lib[d] /\ lib[d] # None
    BY <1>1, <1>2, <2>1 DEF Steady, FileInv, Ahead, Held, LoopSteps
  <2> QED
    BY <2>2, <2>3
<1>5. ASSUME NEW t \in Tracks, Held(s, t), Target(mode[s], t) = d PROVE t = c
  <2>1. t \in TracksOf(rel[s])
    BY <1>1, <1>5 DEF Steady, FileInv, Hands
  <2> QED
    BY <1>1, <1>2, <1>3, <1>5, <2>1, OwnPath DEF Steady
<1>6. \A t \in Tracks : (Placed(s, t)' <=> Placed(s, t)) /\ (Placed(s, t) <=> t \in made[s])
  BY <1>1 DEF Placed
<1>7. \A t \in Tracks : Target(mode[s], t) = d => ~Placed(s, t)
  BY <1>3, <1>5, <1>6 DEF Held
<1>8. \A t \in Tracks : Target(mode[s], t)' = Target(mode[s], t)
  BY <1>1 DEF Target
<1>9. d \in Dests => Settled(d) = lib[d] /\ Settled(d)' = lib[d]
  <2> SUFFICES ASSUME d \in Dests PROVE Settled(d) = lib[d] /\ Settled(d)' = lib[d]
    OBVIOUS
  <2>0. PICK e \in Dests : e = d
    OBVIOUS
  <2>1. CASE LinkBackup(s)
    <3>1. \A t \in Tracks : Target(mode[s], t) = d => kept[s][t] = None
      BY <1>4, <1>5, <2>1 DEF Held
    <3>2. Settled(e) = lib[e]
      BY <1>1, <1>7, <2>0, <3>1 DEF Steady, Settling
    <3>3. Settled(e)' = lib[e]
      <4>1. CASE lib[d] # None
        BY <1>1, <1>2, <1>4, <1>8, <2>0, <2>1, <4>1 DEF Settling
      <4>2. CASE lib[d] = None
        <5>1. \A t \in Tracks : Target(mode[s], t)' = e => kept'[s][t] = None /\ ~Placed(s, t)'
          BY <1>4, <1>6, <1>7, <1>8, <2>0, <2>1, <3>1, <4>2
        <5> QED
          BY <1>1, <5>1 DEF Settling
      <4> QED
        BY <4>1, <4>2
    <3>4. Settled(d)' = lib[d]
      BY <1>1, <1>2, <1>8, <2>0, <3>3 DEF Dest, Cur
    <3> QED
      BY <2>0, <3>2, <3>4
  <2>2. CASE ~LinkBackup(s)
    <3>1. Settled(e) = lib[e]
      BY <1>1, <1>2, <1>4, <2>0, <2>2 DEF Steady, Settling
    <3>2. \A t \in Tracks : Target(mode[s], t)' = e => kept'[s][t] = None /\ ~Placed(s, t)'
      BY <1>4, <1>5, <1>6, <1>7, <1>8, <2>0, <2>2 DEF Held
    <3>3. Settled(e)' = lib[e]
      BY <1>1, <3>2 DEF Settling
    <3> QED
      BY <1>1, <1>2, <1>8, <2>0, <3>1, <3>3 DEF Dest, Cur
  <2> QED
    BY <2>1, <2>2
<1>10. \A e \in Dests : e # d => Settled(e)' = Settled(e)
  BY <1>1, <1>2, <1>4, <1>6, SamePath DEF Steady
<1>11. d' = d
  BY <1>1 DEF Dest, Cur, Target
<1> QED
  BY <1>1, <1>9, <1>10, <1>11 DEF Same

LEMMA PlaceSame ==
    ASSUME Steady, Settling', NEW s \in Sessions, UnlinkLive(s) \/ Rename(s)
    PROVE  Same /\ UNCHANGED db
<1>1. /\ pc[s] \in {"unlink", "rename"} /\ pc'[s] \in {"rename", "fsync"}
      /\ Rename(s) => pc[s] = "rename" /\ pc'[s] = "fsync"
      /\ UnlinkLive(s) => pc[s] = "unlink" /\ pc'[s] = "rename"
      /\ Active(s) /\ Active(s)' /\ UNCHANGED <<db, made, kept, mode, rel, idx>>
  BY DEF UnlinkLive, Rename, At, Goto, store, request, Active,
         Steady, FileInv, IInv, TypeOK, SessionOK
<1>2. PICK c \in Tracks : c = Cur(s) /\ Dest(s) = Target(mode[s], c) /\ c \in TracksOf(rel[s])
  BY <1>1, CurrentPlan DEF Steady
<1>3. PICK d \in Dests : d = Dest(s) /\ d = Target(mode[s], c)
  BY <1>1, <1>2, CurrentPlan DEF Steady
<1>4. Cur(s)' = c /\ \A t \in Tracks : Target(mode[s], t)' = Target(mode[s], t)
  BY <1>1, <1>2 DEF Cur, Target
<1>5. \A e \in Dests \ {d} : lib'[e] = lib[e]
  BY <1>3 DEF UnlinkLive, Rename, Steady, FileInv, IInv, TypeOK, FilesOK
<1>6. \A t \in Tracks \ {c} : Placed(s, t)' <=> Placed(s, t)
  BY <1>1, <1>2, <1>4 DEF Placed
<1>7. \A e \in Dests \ {d} : Settled(e)' = Settled(e)
  BY <1>1, <1>3, <1>5, <1>6, SamePath DEF Steady
<1>8. Settled(d)' = Settled(d)
  <2>1. CASE kept[s][c] # None
    <3>1. Settled(d) = kept[s][c]
      BY <1>1, <1>3, <2>1 DEF Steady, Settling
    <3>2. Settled(d)' = kept'[s][c]
      BY <1>1, <1>3, <1>4, <2>1 DEF Settling
    <3> QED
      BY <1>1, <3>1, <3>2
  <2>2. CASE kept[s][c] = None
    <3>1. Rename(s) /\ mode[s] # "upgrade" /\ lib[d] = None
      BY <1>1, <1>2, <1>3, <2>2 DEF Steady, FileInv, Ahead, LoopSteps
    <3>2. kept[s] = NoTracks
      BY <1>1, <3>1 DEF Steady, FileInv, Hands
    <3>3. \A t \in Tracks : kept[s][t] = None /\ kept'[s][t] = None
      BY <1>1, <3>2 DEF NoTracks
    <3>4. Settled(d) = None
      BY <1>1, <3>1, <3>3 DEF Steady, Settling
    <3>5. Placed(s, c)' /\ Target(mode[s], c)' = d
      BY <1>1, <1>3, <1>4, <3>1 DEF Placed
    <3>6. Settled(d)' = None
      BY <1>1, <3>3, <3>5 DEF Settling
    <3> QED
      BY <3>4, <3>6
  <2> QED
    BY <2>1, <2>2
<1> QED
  BY <1>1, <1>7, <1>8 DEF Same

LEMMA UndoMadeSame ==
    ASSUME Undoable, Steady, Settling', NEW s \in Sessions, UndoMade(s)
    PROVE  Same /\ UNCHANGED db
<1>1. /\ pc[s] = "undo_made" /\ pc'[s] \in {"undo_made", "undo_kept"}
      /\ Active(s) /\ Active(s)' /\ UNCHANGED <<db, kept, mode, rel, idx>>
  BY DEF UndoMade, At, Goto, store, request, Active, Steady, FileInv, IInv, TypeOK, SessionOK
<1>2. \A t \in Tracks : Target(mode[s], t)' = Target(mode[s], t)
  BY <1>1 DEF Target
<1>3. \A t \in Tracks : (Placed(s, t) <=> t \in made[s]) /\ (Placed(s, t)' <=> t \in made'[s])
  BY <1>1 DEF Placed
<1>4. CASE UNCHANGED <<lib, made>>
  BY <1>1, <1>3, <1>4, SamePath DEF Same, Steady
<1>5. ASSUME NEW c \in made[s], lib' = [lib EXCEPT ![Target(mode[s], c)] = None],
             made' = [made EXCEPT ![s] = @ \ {c}]
      PROVE  Same
  <2>1. c \in Tracks /\ \A t \in Tracks : t # c => (t \in made'[s] <=> t \in made[s])
    BY <1>5 DEF Steady, FileInv, IInv, TypeOK, SessionOK
  <2>2. PICK d \in Dests : d = Target(mode[s], c)
    BY <1>1, <2>1, CurrentPlan DEF Steady
  <2>3. lib'[d] = None /\ \A e \in Dests \ {d} : lib'[e] = lib[e]
    BY <1>5, <2>2 DEF Steady, FileInv, IInv, TypeOK, FilesOK
  <2>4. \A e \in Dests \ {d} : Settled(e)' = Settled(e)
    BY <1>1, <1>3, <2>1, <2>2, <2>3, SamePath DEF Steady
  <2>5. Settled(d)' = Settled(d)
    <3>1. CASE kept[s][c] # None
      <4>1. Settled(d) = kept[s][c]
        BY <1>1, <2>1, <2>2, <3>1 DEF Steady, Settling
      <4>2. Settled(d)' = kept'[s][c]
        BY <1>1, <1>2, <2>1, <2>2, <3>1 DEF Settling
      <4> QED
        BY <1>1, <4>1, <4>2
    <3>2. CASE kept[s][c] = None
      <4>1. kept[s] = NoTracks
        BY <1>1, <1>5, <3>2 DEF Steady, FileInv, Hands
      <4>2. \A t \in Tracks : kept[s][t] = None /\ kept'[s][t] = None
        BY <1>1, <4>1 DEF NoTracks
      <4>3. Settled(d) = None
        BY <1>1, <1>3, <1>5, <2>1, <2>2, <4>2 DEF Steady, Settling
      <4>4. Settled(d)' = None
        BY <1>1, <2>3, <4>2 DEF Settling
      <4> QED
        BY <4>3, <4>4
    <3> QED
      BY <3>1, <3>2
  <2> QED
    BY <2>4, <2>5 DEF Same
<1> QED
  BY <1>1, <1>4, <1>5 DEF UndoMade, Undoable

LEMMA UndoKeptSame ==
    ASSUME Parted, Undoable, Steady, Settling', NEW s \in Sessions, UndoKept(s)
    PROVE  Same /\ UNCHANGED db
<1>1. /\ pc[s] = "undo_kept" /\ pc'[s] \in {"undo_kept", "undone"} /\ made[s] = {}
      /\ Active(s) /\ Active(s)' /\ UNCHANGED <<db, made, mode, rel, idx>>
  BY DEF UndoKept, At, Goto, store, request, Active, Steady, FileInv, Hands, IInv, TypeOK, SessionOK
<1>2. \A t \in Tracks : Target(mode[s], t)' = Target(mode[s], t)
  BY <1>1 DEF Target
<1>3. \A t \in Tracks : ~Placed(s, t) /\ ~Placed(s, t)'
  BY <1>1 DEF Placed
<1>4. CASE UNCHANGED <<lib, kept>>
  BY <1>1, <1>3, <1>4, SamePath DEF Same, Steady
<1>5. ASSUME NEW c \in Tracks, kept[s][c] # None,
             lib' = [lib EXCEPT ![Target(mode[s], c)] = kept[s][c]],
             kept' = [kept EXCEPT ![s][c] = None]
      PROVE  Same
  <2>1. kept'[s][c] = None /\ \A t \in Tracks \ {c} : kept'[s][t] = kept[s][t]
    BY <1>5 DEF Steady, FileInv, IInv, TypeOK, SessionOK
  <2>2. PICK d \in Dests : d = Target(mode[s], c)
    BY <1>1, CurrentPlan DEF Steady
  <2>3. lib'[d] = kept[s][c] /\ \A e \in Dests \ {d} : lib'[e] = lib[e]
    BY <1>5, <2>2 DEF Steady, FileInv, IInv, TypeOK, FilesOK
  <2>4. \A e \in Dests \ {d} : Settled(e)' = Settled(e)
    BY <1>1, <1>3, <2>1, <2>2, <2>3, SamePath DEF Steady
  <2>5. mode[s] = "upgrade" /\ \A t \in Tracks : Held(s, t) => t \in TracksOf(rel[s])
    BY <1>1, <1>5 DEF Steady, FileInv, Hands, NoTracks
  <2>6. \A t \in Tracks : Target(mode[s], t) = d => kept'[s][t] = None
    BY <1>1, <1>5, <2>1, <2>2, <2>5, OwnPath DEF Steady, Held
  <2>7. Settled(d) = kept[s][c]
    BY <1>1, <1>5, <2>2 DEF Steady, Settling
  <2>8. Settled(d)' = lib'[d]
    BY <1>1, <1>2, <1>3, <2>6 DEF Settling
  <2> QED
    BY <2>3, <2>4, <2>7, <2>8 DEF Same
<1> QED
  BY <1>1, <1>4, <1>5 DEF UndoKept, Undoable

-----------------------------------------------------------------------------
(* The commit: all files of the release appear, and are recorded, at once. *)

LEMMA CommitSettles ==
    ASSUME Exclusive, Steady, Settling', NEW s \in Sessions, Commit(s)
    PROVE  \A d \in Dests :
              /\ Settled(d)' = lib[d]
              /\ (\A t \in TracksOf(rel[s]) : Target(mode[s], t) # d) => Settled(d) = lib[d]
<1>1. /\ pc[s] = "commit" /\ pc'[s] = "committed" /\ UNCHANGED <<lib, made, kept, mode, rel, idx>>
      /\ Active(s) /\ ~Active(s)'
  BY DEF Commit, At, Goto, files, request, Active, Steady, FileInv, IInv, TypeOK, SessionOK
<1>2. Acts(s)
  BY DEF Acts, Moves, Proceed
<1>3. \A o \in Sessions : ~Active(o)'
  <2> SUFFICES ASSUME NEW o \in Sessions, o # s PROVE ~Active(o)'
    BY <1>1
  <2>1. ~Active(o)
    BY <1>1, OneActive DEF Steady
  <2>2. pc'[o] = pc[o]
    BY <1>2, ActsAlone DEF Steady, FileInv, IInv, OthersStay
  <2> QED
    BY <2>1, <2>2 DEF Active
<1>4. \A d \in Dests : Settled(d)' = lib[d]
  BY <1>1, <1>3 DEF Settling
<1>5. ASSUME NEW d \in Dests, \A t \in TracksOf(rel[s]) : Target(mode[s], t) # d
      PROVE  Settled(d) = lib[d]
  <2>1. \A t \in Tracks : Target(mode[s], t) = d => ~Held(s, t)
    BY <1>1, <1>5 DEF Steady, FileInv, Hands
  <2>2. \A t \in Tracks : Target(mode[s], t) = d => kept[s][t] = None /\ ~Placed(s, t)
    BY <1>1, <2>1 DEF Held, Placed
  <2> QED
    BY <1>1, <2>2 DEF Steady, Settling
<1> QED
  BY <1>4, <1>5

LEMMA CommitRecords ==
    ASSUME Exclusive, Steady, NEW s \in Sessions, Commit(s)
    PROVE  /\ \A t \in TracksOf(rel[s]) :
                 /\ Recorded(t)' \in Content
                 /\ Recorded(t)' = lib[Target(mode[s], t)]
                 /\ t \in made[s]
           /\ \A t \in Tracks \ TracksOf(rel[s]) : Recorded(t)' = Recorded(t)
<1>1. pc[s] = "commit" /\ db' = txn /\ rel[s] \in Releases
  BY DEF Commit, At, Steady, FileInv, IInv, TypeOK, SessionOK
<1>2. \A i \in DOMAIN Order[rel[s]] : Replaced(s, Order[rel[s]][i])
  BY <1>1 DEF Steady, FileInv, Behind, Done
<1>3. \A t \in TracksOf(rel[s]) : t \in Tracks /\ Replaced(s, t)
  BY <1>1, <1>2, TracksOfRelease DEF TracksOf
<1>4. \A t \in TracksOf(rel[s]) : txn.hash[t] \in Content
  BY <1>3 DEF Replaced, Steady, FileInv, IInv, TypeOK, StoreOK, Database
<1>5. \A t \in Tracks \ TracksOf(rel[s]) :
         txn.track[t] = db.track[t] /\ txn.hash[t] = db.hash[t]
  BY <1>1 DEF Steady, FileInv, Behind, Untouched
<1>6. \A t \in TracksOf(rel[s]) : Recorded(t)' = txn.hash[t]
  BY <1>1, <1>3 DEF Recorded, Replaced
<1>7. \A t \in Tracks \ TracksOf(rel[s]) : Recorded(t)' = Recorded(t)
  BY <1>1, <1>5 DEF Recorded
<1> QED
  BY <1>3, <1>4, <1>6, <1>7 DEF Replaced

(* The paths were all free for the abstract library, or all in use.        *)
LEMMA CommitPaths ==
    ASSUME Exclusive, Steady, NEW s \in Sessions, Commit(s)
    PROVE  \/ \A t \in TracksOf(rel[s]) : Settled(Target(mode[s], t)) = None
           \/ \A t \in TracksOf(rel[s]) : Settled(Target(mode[s], t)) # None
<1>1. pc[s] = "commit" /\ Active(s) /\ rel[s] \in Releases
  BY DEF Commit, At, Active, Steady, FileInv, IInv, TypeOK, SessionOK
<1>2. \A t \in TracksOf(rel[s]) : t \in Tracks /\ t \in made[s] /\ Target(mode[s], t) \in Dests
  BY <1>1, CommitRecords, TracksOfRelease, CurrentPlan DEF Steady
<1>3. CASE mode[s] = "upgrade"
  <2> SUFFICES ASSUME NEW t \in TracksOf(rel[s]) PROVE Settled(Target(mode[s], t)) # None
    OBVIOUS
  <2>1. PICK d \in Dests : d = Target(mode[s], t)
    BY <1>2
  <2>2. kept[s][t] # None
    BY <1>1, <1>2, <1>3 DEF Steady, FileInv, Hands
  <2>3. Settled(d) = kept[s][t]
    BY <1>1, <1>2, <2>1, <2>2 DEF Steady, Settling
  <2> QED
    BY <2>1, <2>2, <2>3
<1>4. CASE mode[s] # "upgrade"
  <2> SUFFICES ASSUME NEW t \in TracksOf(rel[s]) PROVE Settled(Target(mode[s], t)) = None
    OBVIOUS
  <2>1. PICK d \in Dests : d = Target(mode[s], t)
    BY <1>2
  <2>2. \A u \in Tracks : kept[s][u] = None
    BY <1>1, <1>4 DEF Steady, FileInv, Hands, NoTracks
  <2>3. Placed(s, t)
    BY <1>2 DEF Placed
  <2>4. Settled(d) = None
    BY <1>1, <1>2, <2>1, <2>2, <2>3 DEF Steady, Settling
  <2> QED
    BY <2>1, <2>4
<1> QED
  BY <1>3, <1>4

LEMMA CommitImports ==
    ASSUME Exclusive, Steady, Settling', NEW s \in Sessions, Commit(s)
    PROVE  Promise!Import(rel[s])
<1> DEFINE r == rel[s]
           library == [d \in Dests |-> Settled(d)]
           recorded == [t \in Tracks |-> Recorded(t)]
           album == [q \in Releases |-> TracksOf(q)]
           path == [t \in TracksOf(r) |-> Target(mode[s], t)]
<1>1. pc[s] = "commit" /\ r \in Releases
  BY DEF Commit, At, Steady, FileInv, IInv, TypeOK, SessionOK
<1>2. \A t \in TracksOf(r) : t \in Tracks /\ Target(mode[s], t) \in Dests
  BY <1>1, TracksOfRelease, CurrentPlan DEF Steady
<1>3. album[r] = TracksOf(r) /\ path \in [TracksOf(r) -> Dests]
  BY <1>1, <1>2
<1>4. /\ \A d \in Dests : library[d] = Settled(d) /\ library'[d] = Settled(d)'
      /\ \A t \in Tracks : recorded[t] = Recorded(t) /\ recorded'[t] = Recorded(t)'
  OBVIOUS
<1>5. \/ \A t \in TracksOf(r) : library[path[t]] = None
      \/ \A t \in TracksOf(r) : library[path[t]] # None
  BY <1>2, CommitPaths
<1>6. \A t \in TracksOf(r) : recorded'[t] \in Content /\ library'[path[t]] = recorded'[t]
  BY <1>2, <1>4, CommitSettles, CommitRecords
<1>7. recorded' = [t \in Tracks |-> IF t \in TracksOf(r) THEN recorded'[t] ELSE recorded[t]]
  BY CommitRecords
<1>8. library' = [d \in Dests |-> IF \E t \in TracksOf(r) : path[t] = d
                                  THEN library'[d] ELSE library[d]]
  BY CommitSettles
<1>9. PICK p : p = path
  OBVIOUS
<1>10. /\ p \in [album[r] -> Dests]
       /\ \/ \A t \in album[r] : library[p[t]] = None
          \/ \A t \in album[r] : library[p[t]] # None
       /\ \A t \in album[r] : recorded'[t] \in Content /\ library'[p[t]] = recorded'[t]
  BY <1>3, <1>5, <1>6, <1>9
<1>11. /\ recorded' = [t \in Tracks |-> IF t \in album[r] THEN recorded'[t] ELSE recorded[t]]
       /\ library' = [d \in Dests |-> IF \E t \in album[r] : p[t] = d
                                      THEN library'[d] ELSE library[d]]
  <2>1. recorded' = [t \in Tracks |-> IF t \in album[r] THEN recorded'[t] ELSE recorded[t]]
    <3> HIDE DEF album, recorded
    <3> QED
      BY <1>3, <1>7
  <2>2. \A d \in Dests : (\E t \in album[r] : p[t] = d) <=> \E t \in TracksOf(r) : path[t] = d
    <3> HIDE DEF album, path
    <3> QED
      BY <1>3, <1>9
  <2> HIDE DEF album, library, path
  <2>3. library' = [d \in Dests |-> IF \E t \in album[r] : p[t] = d
                                    THEN library'[d] ELSE library[d]]
    BY <1>8, <2>2
  <2> QED
    BY <2>1, <2>3
<1> HIDE DEF library, recorded, album, r
<1> QED
  BY <1>10, <1>11 DEF Promise!Import, library, recorded, album, r

(* Planning puts a release under review and touches nothing else.          *)
LEMMA PlanReviews ==
    ASSUME Steady, NEW r \in Releases, PlanRelease(r)
    PROVE  Promise!Review(r)
<1>1. db' = Planned("planned", r) /\ UNCHANGED <<lib, pc, rel, mode, idx, made, kept>>
  BY DEF PlanRelease, files, session
<1>2. \A d \in Dests : Settled(d)' = Settled(d)
  BY <1>1 DEF Settled, Uncommitted, Placed, Cur, Target
<1>3. \A t \in Tracks : Recorded(t)' = IF t \in TracksOf(r) THEN None ELSE Recorded(t)
  BY <1>1 DEF Recorded, Planned
<1>4. [t \in Tracks |-> Recorded(t)']
        = [t \in Tracks |-> IF t \in TracksOf(r) THEN None ELSE [u \in Tracks |-> Recorded(u)][t]]
  BY <1>3
<1> QED
  BY <1>2, <1>4 DEF Promise!Review

-----------------------------------------------------------------------------
LEMMA StepIsAtomic ==
    ASSUME Private, Exclusive, Parted, Undoable, Steady, Settling', [Next]_vars
    PROVE  [Promise!Next]_<<[d \in Dests |-> Settled(d)], [t \in Tracks |-> Recorded(t)]>>
<1>1. ASSUME Same, UNCHANGED db
      PROVE  UNCHANGED <<[d \in Dests |-> Settled(d)], [t \in Tracks |-> Recorded(t)]>>
  <2>1. \A t \in Tracks : Recorded(t)' = Recorded(t)
    BY <1>1 DEF Recorded
  <2> QED
    BY <1>1, <2>1 DEF Same
<1>2. ASSUME NEW s \in Sessions, Acts(s)
      PROVE  (Same /\ UNCHANGED db) \/ Commit(s)
  <2>1. CASE \/ \E r \in Releases : LoadPlans(s, r) \/ BeginUpgrade(s, r)
             \/ Begin(s) \/ BeginUnplanned(s) \/ LockFails(s) \/ Finalize(s)
             \/ RollbackRequest(s) \/ EndRollback(s) \/ Cancel(s)
    BY <2>1, EdgeSame
  <2>2. CASE \/ StepRaises(s) \/ Pin(s) \/ Copy(s) \/ Verify(s) \/ Tag(s) \/ Check(s)
             \/ Fsync(s) \/ Record(s) \/ Flush(s) \/ CommitRaises(s)
             \/ UndoTemp(s) \/ NoteRollback(s)
    BY <2>2, CalmSame
  <2>3. CASE LinkBackup(s) \/ UnlinkRaises(s)
    BY <2>3, LinkSame
  <2>4. CASE UnlinkLive(s) \/ Rename(s)
    BY <2>4, PlaceSame
  <2>5. CASE UndoMade(s)
    BY <2>5, UndoMadeSame
  <2>6. CASE UndoKept(s)
    BY <2>6, UndoKeptSame
  <2> QED
    BY <1>2, <2>1, <2>2, <2>3, <2>4, <2>5, <2>6 DEF Acts, Moves, Proceed, Raise
<1>3. ASSUME NEW s \in Sessions, Commit(s) PROVE Promise!Next
  <2>1. rel[s] \in Releases
    BY <1>3 DEF Commit, At, Steady, FileInv, IInv, TypeOK, SessionOK
  <2> QED
    BY <1>3, <2>1, CommitImports DEF Promise!Next
<1>4. ASSUME NEW r \in Releases, PlanRelease(r) PROVE Promise!Next
  BY <1>4, PlanReviews DEF Promise!Next
<1>5. CASE \/ \E k \in {"job", "candidate"}, t \in Tracks : Restage(k, t)
           \/ UNCHANGED vars
  <2>1. UNCHANGED <<lib, db, pc, rel, mode, idx, made, kept>>
    BY <1>5 DEF Restage, vars, store, session
  <2>2. Same
    BY <2>1 DEF Same, Settled, Uncommitted, Placed, Cur, Target
  <2> QED
    BY <1>1, <2>1, <2>2
<1>6. ~Crash /\ \A d \in Dests : ~Foreign(d)
  BY DEF Private, Undoable, Crash, Foreign
<1> QED
  BY <1>1, <1>2, <1>3, <1>4, <1>5, <1>6 DEF Next, Acts, Moves

(* execute_release_import and execute_quality_upgrade keep the promise     *)
(* "Failures leave the current library unchanged": however their steps     *)
(* interleave and raise, seen through the rollbacks that are still to come *)
(* library and database change a whole release at a time.                  *)
THEOREM ImportsAreAtomic ==
    ASSUME Private, Exclusive, Parted, Undoable
    PROVE  Spec => ImportIsAtomic
<1>1. Init => FileInv
  BY FileInit
<1>2. FileInv /\ [Next]_vars => FileInv'
  BY FileNext
<1>3. FileInv => Settling
  BY SettledIs
<1>4. Init => Promise!Init
  <2> SUFFICES ASSUME Init PROVE Promise!Init
    OBVIOUS
  <2>1. \A s \in Sessions : ~Active(s)
    BY DEF Init, Active
  <2>2. \A d \in Dests : Settled(d) = lib[d]
    BY <1>1, <1>3, <2>1 DEF Settling
  <2>3. lib \in [Dests -> Content \cup {None}]
    BY <1>1 DEF FileInv, IInv, TypeOK, FilesOK
  <2>4. \A t \in Tracks : Recorded(t) = None
    BY DEF Init, Recorded
  <2> QED
    BY <2>2, <2>3, <2>4 DEF Promise!Init
<1>5. FileInv /\ Settling /\ Settling' /\ [Next]_vars
        => [Promise!Next]_<<[d \in Dests |-> Settled(d)], [t \in Tracks |-> Recorded(t)]>>
  BY StepIsAtomic DEF Steady
<1> QED
  BY <1>1, <1>2, <1>3, <1>4, <1>5, PTL DEF Spec, ImportIsAtomic, Promise!Spec
=============================================================================
