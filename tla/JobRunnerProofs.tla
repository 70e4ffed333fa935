--------------------------- MODULE JobRunnerProofs ---------------------------
(***************************************************************************)
(* Proofs about JobRunner: type correctness, the exclusion of tasks by the *)
(* write lock, and that a job has one verdict, which fits its tracks.      *)
(***************************************************************************)
EXTENDS JobRunner, FiniteSetTheorems, SequenceTheorems, TLAPS

(* The tasks that have begun and not ended are those with the write lock.  *)
OneTask == \A j \in Jobs : pc[j] \in Running <=> lock = j

(* Until its task has ended a job is committed as it was created.          *)
Undecided ==
    \A j \in Jobs : /\ pc[j] = "absent" <=> db[j] = None
                    /\ pc[j] \in {"queued"} \cup Running => db[j] = NewJob(j)

(* The jobs of a batch come into being together, and while one of them has *)
(* not ended those after it wait.                                          *)
InOrder ==
    \A b \in Batches : \A i, k \in DOMAIN b : i < k =>
        /\ pc[b[i]] = "absent" <=> pc[b[k]] = "absent"
        /\ pc[b[i]] \in {"queued"} \cup Running => pc[b[k]] = "queued"

(* The counters of a task tell which of its first n tracks are alive.      *)
Tally(j, n) ==
    /\ created[j] + bad[j] = n
    /\ created[j] > 0 <=> \E i \in 1 .. n : i \in Live(row[j])
    /\ bad[j] > 0 <=> \E i \in 1 .. n : i \notin Live(row[j])

Acquiring == {"acquire", "enqueue", "check", "preview"}

(* A task has a track for every result it is done with, and one for the    *)
(* result it is at, if it is at one.                                       *)
Counted(j) ==
    /\ pc[j] = "search" => row[j].tracks = <<>> /\ created[j] = 0 /\ bad[j] = 0
    /\ pc[j] \in {"track"} \cup Acquiring => found[j] # <<>>
    /\ pc[j] = "track" => /\ Last(j) = at[j] - 1
                          /\ at[j] <= Len(found[j]) + 1
                          /\ Tally(j, Last(j))
    /\ pc[j] \in Acquiring => /\ Last(j) = at[j]
                              /\ at[j] <= Len(found[j])
                              /\ Tally(j, at[j] - 1)
                              /\ at[j] \in Live(row[j])
    /\ pc[j] = "flush" => row[j].status \in Verdicts /\ Fits(j, row[j])
    /\ pc[j] \notin Running => row[j] = NewJob(j) /\ created[j] = 0 /\ bad[j] = 0 /\ at[j] = 1

IInv ==
    TypeOK /\ OneTask /\ Undecided /\ InOrder /\ VerdictFits /\ \A j \in Jobs : Counted(j)

-----------------------------------------------------------------------------
(* Operators.                                                              *)

States == {"acquiring", "downloaded", "failed", "cancelled"}

(* A new job has no tracks and is pending.                                 *)
LEMMA NewJobType ==
    ASSUME NEW j \in Jobs
    PROVE  NewJob(j) \in Job /\ NewJob(j).tracks = <<>> /\ NewJob(j).status = "pending"
  BY JobAssumption DEF NewJob, Job, JobAssumption, Ask

(* Changing the state of the last track changes nothing else.              *)
LEMMA WithStateType ==
    ASSUME NEW r \in Job, r.tracks # <<>>, NEW state \in States
    PROVE  /\ WithState(r, state) \in Job
           /\ WithState(r, state).status = r.status
           /\ WithState(r, state).tracks =
                 [r.tracks EXCEPT ![Len(r.tracks)] = [r.tracks[Len(r.tracks)] EXCEPT !.state = state]]
           /\ Len(WithState(r, state).tracks) = Len(r.tracks)
<1> DEFINE n == Len(r.tracks)
           t == [r.tracks[n] EXCEPT !.state = state]
           ts == [r.tracks EXCEPT ![n] = t]
<1>1. r.tracks \in Seq(Track) /\ n \in 1 .. Len(r.tracks)
  BY DEF Job
<1>2. t \in Track
  <2>1. r.tracks[n] \in Track
    BY <1>1
  <2> QED BY <2>1 DEF Track, States
<1>3. ts \in Seq(Track) /\ Len(ts) = Len(r.tracks)
  <2> HIDE DEF t
  <2> QED BY <1>1, <1>2
<1>4. WithState(r, state) = [r EXCEPT !.tracks = ts]
  BY DEF WithState
<1> HIDE DEF ts
<1> QED BY <1>3, <1>4 DEF Job, ts

(* Nor does naming what the last track is fetched from.                    *)
LEMMA WithRefType ==
    ASSUME NEW r \in Job, r.tracks # <<>>, NEW ref \in Media
    PROVE  /\ WithRef(r, ref) \in Job
           /\ WithRef(r, ref).status = r.status
           /\ WithRef(r, ref).tracks =
                 [r.tracks EXCEPT ![Len(r.tracks)] = [r.tracks[Len(r.tracks)] EXCEPT !.ref = ref]]
           /\ Len(WithRef(r, ref).tracks) = Len(r.tracks)
<1> DEFINE n == Len(r.tracks)
           t == [r.tracks[n] EXCEPT !.ref = ref]
           ts == [r.tracks EXCEPT ![n] = t]
<1>1. r.tracks \in Seq(Track) /\ n \in 1 .. Len(r.tracks)
  BY DEF Job
<1>2. t \in Track
  <2>1. r.tracks[n] \in Track
    BY <1>1
  <2> QED BY <2>1 DEF Track
<1>3. ts \in Seq(Track) /\ Len(ts) = Len(r.tracks)
  <2> HIDE DEF t
  <2> QED BY <1>1, <1>2
<1>4. WithRef(r, ref) = [r EXCEPT !.tracks = ts]
  BY DEF WithRef
<1> HIDE DEF ts
<1> QED BY <1>3, <1>4 DEF Job, ts

(* A cancelled job keeps its tracks, none of them in flight.               *)
LEMMA CancelledType ==
    ASSUME NEW j \in Jobs, NEW r \in Job
    PROVE  Cancelled(r) \in Job /\ Cancelled(r).status = "cancelled" /\ Fits(j, Cancelled(r))
<1> DEFINE fate(t) == IF t.state = "acquiring" THEN [t EXCEPT !.state = "cancelled"] ELSE t
           ts == [i \in DOMAIN r.tracks |-> fate(r.tracks[i])]
<1>1. r.tracks \in Seq(Track) /\ DOMAIN r.tracks = 1 .. Len(r.tracks) /\ Len(r.tracks) \in Nat
  BY DEF Job
<1>2. \A i \in DOMAIN r.tracks : fate(r.tracks[i]) \in Track /\ fate(r.tracks[i]).state # "acquiring"
  <2>1. \A i \in DOMAIN r.tracks : r.tracks[i] \in Track
    BY <1>1
  <2> QED BY <2>1 DEF Track
<1>3. ts \in Seq(Track) /\ \A i \in DOMAIN ts : ts[i].state # "acquiring"
  <2> HIDE DEF fate
  <2> QED BY <1>1, <1>2
<1>4. Cancelled(r) = [r EXCEPT !.status = "cancelled", !.tried = <<>>, !.served = None, !.tracks = ts]
  BY DEF Cancelled
<1> HIDE DEF ts
<1>5. Cancelled(r) \in Job /\ Cancelled(r).status = "cancelled" /\ Cancelled(r).tracks = ts
  <2>1. <<>> \in Seq(Sources)
    OBVIOUS
  <2> QED BY <1>3, <1>4, <2>1 DEF Job, Verdicts
<1>6. Fits(j, Cancelled(r))
  <2>1. \A i \in Live(Cancelled(r)) : Cancelled(r).tracks[i].state = "downloaded"
    BY <1>3, <1>5 DEF Live
  <2> QED BY <1>5, <2>1 DEF Fits
<1> QED BY <1>5, <1>6

(* The result a task is at is one, and it is for a catalog track or none.  *)
LEMMA CatalogTrackType ==
    ASSUME TypeOK, NEW j \in Jobs, at[j] <= Len(found[j])
    PROVE  CatalogTrack(j) \in Catalog \cup {None} /\ Current(j) \in Result
<1>1. Asks[j].album \in Seq(Catalog) /\ Asks[j].track \in Catalog \cup {None}
  BY JobAssumption DEF JobAssumption, Ask
<1>2. at[j] \in 1 .. Len(found[j]) /\ found[j] \in Seq(Result)
  BY DEF TypeOK
<1>3. Current(j) \in Result
  BY <1>2 DEF Current
<1>4. AlbumTracks(j) \subseteq Catalog
  BY <1>1 DEF AlbumTracks, Album
<1>5. \A i \in DOMAIN Album(j) : Album(j)[i] \in Catalog
  BY <1>1 DEF Album
<1> QED BY <1>1, <1>3, <1>4, <1>5 DEF CatalogTrack, Result

(* Fewer tracks than an album has cannot be all of it.                     *)
LEMMA SomeMissing ==
    ASSUME NEW album \in Seq(Catalog), NEW n \in Nat, n < Len(album), NEW of,
           \A i, k \in DOMAIN album : album[i] = album[k] => i = k
    PROVE  \E i \in DOMAIN album : \A k \in 1 .. n : of[k] # album[i]
<1> SUFFICES ASSUME \A i \in DOMAIN album : \E k \in 1 .. n : of[k] = album[i]
             PROVE  FALSE
  BY Zenon
<1> DEFINE g == [i \in 1 .. Len(album) |-> CHOOSE k \in 1 .. n : of[k] = album[i]]
<1>1. \A i \in 1 .. Len(album) : g[i] \in 1 .. n /\ of[g[i]] = album[i]
  <2> TAKE i \in 1 .. Len(album)
  <2>1. \E k \in 1 .. n : of[k] = album[i]
    OBVIOUS
  <2>2. g[i] = CHOOSE k \in 1 .. n : of[k] = album[i]
    OBVIOUS
  <2> HIDE DEF g
  <2> QED BY <2>1, <2>2
<1>2. g \in [1 .. Len(album) -> 1 .. n]
  BY <1>1
<1>3. \A m \in Nat : IsFiniteSet(1 .. m) /\ Cardinality(1 .. m) = m
  <2> TAKE m \in Nat
  <2>1. 1 \in Int /\ m \in Int
    OBVIOUS
  <2>2. IsFiniteSet(1 .. m) /\ Cardinality(1 .. m) = IF 1 > m THEN 0 ELSE m - 1 + 1
    BY <2>1, FS_Interval
  <2> QED BY <2>2
<1> DEFINE S == 1 .. Len(album)
           T == 1 .. n
<1>4. \E i, k \in S : i # k /\ g[i] = g[k]
  <2>1. IsFiniteSet(S) /\ IsFiniteSet(T) /\ Cardinality(T) < Cardinality(S)
    BY <1>3
  <2>2. g \in [S -> T]
    BY <1>2
  <2> HIDE DEF g, S, T
  <2> QED BY <2>1, <2>2, FS_PigeonHole
<1> HIDE DEF g
<1> QED BY <1>1, <1>4

-----------------------------------------------------------------------------
(* Batches.                                                                *)

(* A job has one batch, at one place.                                      *)
LEMMA OneBatch ==
    ASSUME NEW j \in Jobs
    PROVE  /\ BatchOf(j) \in Batches
           /\ \E n \in DOMAIN BatchOf(j) : BatchOf(j)[n] = j
           /\ \A b \in Batches : \A n \in DOMAIN b : b[n] = j => b = BatchOf(j)
<1>1. \E b \in Batches : \E i \in DOMAIN b : b[i] = j
  BY JobAssumption DEF JobAssumption
<1>2. BatchOf(j) \in Batches /\ \E n \in DOMAIN BatchOf(j) : BatchOf(j)[n] = j
  BY <1>1 DEF BatchOf
<1>3. \A a, b \in Batches : \A i \in DOMAIN a, k \in DOMAIN b :
          a[i] = b[k] => a = b /\ i = k
  BY JobAssumption DEF JobAssumption
<1> QED BY <1>2, <1>3

(* While a job has not ended, those that follow it wait.                   *)
LEMMA TheRestWaits ==
    ASSUME IInv, NEW j \in Jobs, pc[j] \in {"queued"} \cup Running,
           NEW k \in FromOn(j), k # j
    PROVE  pc[k] = "queued"
<1> DEFINE b == BatchOf(j)
<1>1. b \in Batches /\ b \in Seq(Jobs)
  BY OneBatch, JobAssumption DEF JobAssumption
<1>2. PICK i \in DOMAIN b, n \in DOMAIN b : k = b[i] /\ n <= i /\ b[n] = j
  BY DEF FromOn
<1>3. n < i
  <2>1. n \in Nat /\ i \in Nat /\ n # i
    BY <1>1, <1>2
  <2> QED BY <1>2, <2>1
<1> QED BY <1>1, <1>2, <1>3 DEF IInv, InOrder

(* When a job ends, and others of its batch with it, the order holds if    *)
(* those that follow it end too or the job was the first to run.           *)
LEMMA OrderKept ==
    ASSUME IInv, NEW j \in Jobs, pc[j] \in Running \/ Due(j),
           NEW S, j \in S, S = {j} \/ S = FromOn(j),
           \A k \in Jobs : IF k \in S THEN pc'[k] \in Final ELSE pc'[k] = pc[k]
    PROVE  InOrder'
<1> SUFFICES ASSUME NEW b \in Batches, NEW i \in DOMAIN b, NEW n \in DOMAIN b, i < n
             PROVE  /\ pc'[b[i]] = "absent" <=> pc'[b[n]] = "absent"
                    /\ pc'[b[i]] \in {"queued"} \cup Running => pc'[b[n]] = "queued"
  BY DEF InOrder
<1>1. b \in Seq(Jobs) /\ b[i] \in Jobs /\ b[n] \in Jobs /\ i \in Nat /\ n \in Nat
  BY JobAssumption DEF JobAssumption
<1>2. /\ pc[b[i]] = "absent" <=> pc[b[n]] = "absent"
      /\ pc[b[i]] \in {"queued"} \cup Running => pc[b[n]] = "queued"
  BY DEF IInv, InOrder
<1>3. \A k \in S : k \in Jobs => pc[k] \in {"queued"} \cup Running
  BY TheRestWaits DEF Due
<1>4. \A k \in Jobs : pc'[k] = "absent" <=> pc[k] = "absent"
  BY <1>3 DEF Final, Running
<1>5. ASSUME pc'[b[i]] \in {"queued"} \cup Running
      PROVE  pc'[b[n]] = "queued"
  <2>1. b[i] \notin S /\ pc[b[i]] \in {"queued"} \cup Running
    BY <1>1, <1>5 DEF Final, Running
  <2>2. pc[b[n]] = "queued"
    BY <1>2, <2>1
  <2>3. CASE b[n] \in S
    <3>1. b = BatchOf(j) /\ \E m \in DOMAIN b : b[m] = j /\ m <= n
      <4>1. CASE b[n] = j
        BY <4>1, <1>1, OneBatch
      <4>2. CASE b[n] \in FromOn(j)
        <5>1. BatchOf(b[n]) = b
          BY <1>1, OneBatch
        <5>2. PICK p \in DOMAIN BatchOf(j), m \in DOMAIN BatchOf(j) :
                  b[n] = BatchOf(j)[p] /\ m <= p /\ BatchOf(j)[m] = j
          BY <4>2 DEF FromOn
        <5>3. BatchOf(j) = b /\ p = n
          BY <5>2, <1>1, OneBatch, JobAssumption DEF JobAssumption
        <5> QED BY <5>2, <5>3
      <4> QED BY <2>3, <4>1, <4>2
    <3>2. PICK m \in DOMAIN b : b[m] = j /\ m <= n
      BY <3>1
    <3>3. m \in Nat
      BY <1>1
    <3>4. CASE m <= i
      <4>1. b[i] \in FromOn(j)
        BY <3>1, <3>2, <3>4 DEF FromOn
      <4>2. S = {j} /\ b[n] = j
        BY <2>1, <2>3, <4>1
      <4>3. m = n
        BY <3>2, <4>2, JobAssumption DEF JobAssumption
      <4> QED BY <3>4, <4>3, <1>1
    <3>5. CASE i < m
      <4>1. pc[j] = "queued"
        BY <2>1, <3>2, <3>5 DEF IInv, InOrder
      <4>2. Due(j)
        BY <4>1 DEF Running
      <4>3. b[i] # j
        BY <3>2, <3>5, <3>3, <1>1, JobAssumption DEF JobAssumption
      <4>4. b[i] \in UpTo(j)
        BY <3>1, <3>2, <3>5, <3>3, <1>1 DEF UpTo
      <4>5. pc[b[i]] = "ended"
        BY <4>2, <4>3, <4>4 DEF Due
      <4> QED BY <2>1, <4>5 DEF Running
    <3> QED BY <3>4, <3>5, <3>3, <1>1
  <2>4. CASE b[n] \notin S
    BY <2>2, <2>4, <1>1
  <2> QED BY <2>3, <2>4
<1> QED BY <1>2, <1>1, <1>4, <1>5

-----------------------------------------------------------------------------
(* A step of a task.                                                       *)

(* What a step of one task leaves alone.                                   *)
OthersKept(j) ==
    \A k \in Jobs \ {j} : /\ row'[k] = row[k] /\ pc'[k] = pc[k] /\ found'[k] = found[k]
                          /\ at'[k] = at[k] /\ created'[k] = created[k] /\ bad'[k] = bad[k]

(* What is counted for a task depends on its own state.                    *)
LEMMA CountedKept ==
    ASSUME NEW k \in Jobs, Counted(k),
           row'[k] = row[k], pc'[k] = pc[k], found'[k] = found[k],
           at'[k] = at[k], created'[k] = created[k], bad'[k] = bad[k]
    PROVE  Counted(k)'
  BY DEF Counted, Tally, Last, Live, Fits, NewJob, Album

(* The type of the variables a task works on.                              *)
Shape ==
    /\ row \in [Jobs -> Job] /\ pc \in [Jobs -> Steps] /\ found \in [Jobs -> Seq(Result)]
    /\ at \in [Jobs -> Nat \ {0}] /\ created \in [Jobs -> Nat] /\ bad \in [Jobs -> Nat]
    /\ staged \subseteq [media : Media, job : Jobs]
    /\ queued \subseteq [job : Jobs, nth : Nat \ {0}]

(* A step inside the transaction keeps the invariant if it counts right.   *)
LEMMA StepInside ==
    ASSUME IInv, NEW j \in Jobs, pc[j] \in Running, pc'[j] \in Running,
           UNCHANGED <<db, lock>>, OthersKept(j), Shape', Counted(j)'
    PROVE  IInv'
<1>1. \A k \in Jobs : Counted(k)'
  BY CountedKept DEF IInv, OthersKept
<1>2. TypeOK'
  <2>1. \A k \in Jobs : (pc[k] \in Acquiring => Last(k) = at[k] /\ at[k] \in DOMAIN found[k])'
    <3> TAKE k \in Jobs
    <3>1. (pc[k] \in Acquiring => Last(k) = at[k] /\ at[k] <= Len(found[k]))'
      BY <1>1 DEF Counted
    <3>2. at'[k] \in Nat \ {0} /\ DOMAIN found'[k] = 1 .. Len(found'[k]) /\ Len(found'[k]) \in Nat
      BY DEF Shape
    <3> QED BY <3>1, <3>2
  <2> QED BY <2>1 DEF TypeOK, Shape, IInv, Acquiring
<1>3. OneTask'
  BY DEF IInv, OneTask, OthersKept
<1>4. Undecided'
  BY DEF IInv, Undecided, OthersKept, Running, NewJob
<1>5. VerdictFits'
  BY DEF IInv, VerdictFits, Fits, Live, Album
<1>6. InOrder'
  <2> SUFFICES ASSUME NEW b \in Batches, NEW i \in DOMAIN b, NEW n \in DOMAIN b, i < n
               PROVE  /\ pc'[b[i]] = "absent" <=> pc'[b[n]] = "absent"
                      /\ pc'[b[i]] \in {"queued"} \cup Running => pc'[b[n]] = "queued"
    BY DEF InOrder
  <2>1. b[i] \in Jobs /\ b[n] \in Jobs
    BY JobAssumption DEF JobAssumption
  <2>2. /\ pc[b[i]] = "absent" <=> pc[b[n]] = "absent"
        /\ pc[b[i]] \in {"queued"} \cup Running => pc[b[n]] = "queued"
    BY DEF IInv, InOrder
  <2> QED BY <2>1, <2>2 DEF OthersKept, Running
<1> QED BY <1>1, <1>2, <1>3, <1>4, <1>5, <1>6 DEF IInv

(* The types of the invariant, for the use of the steps.                   *)
LEMMA ShapeHolds == IInv => Shape
  BY DEF IInv, TypeOK, Shape

(* While a task acquires something there is a track, the last.             *)
LEMMA AtTrack ==
    ASSUME IInv, NEW j \in Jobs, pc[j] \in Acquiring
    PROVE  /\ row[j] \in Job /\ row[j].tracks # <<>> /\ row[j].tracks \in Seq(Track)
           /\ Last(j) = at[j] /\ at[j] \in DOMAIN found[j] /\ at[j] \in Nat \ {0}
           /\ found[j] # <<>> /\ Tally(j, at[j] - 1) /\ at[j] \in Live(row[j])
           /\ Current(j) \in Result /\ Current(j).media \in Media
<1>1. row[j] \in Job /\ at[j] \in Nat \ {0} /\ Last(j) = at[j] /\ found[j] \in Seq(Result)
  BY DEF IInv, TypeOK, Acquiring
<1>2. row[j].tracks \in Seq(Track) /\ row[j].tracks # <<>>
  BY <1>1 DEF Job, Last
<1>3. at[j] \in DOMAIN found[j] /\ found[j] # <<>>
  BY <1>1 DEF IInv, TypeOK, Acquiring
<1>4. Current(j) \in Result
  BY <1>1, <1>3 DEF Current
<1>5. Tally(j, at[j] - 1) /\ at[j] \in Live(row[j])
  BY DEF IInv, Counted
<1> QED BY <1>1, <1>2, <1>3, <1>4, <1>5 DEF Result

(* A track that fails is counted among the failures.                       *)
LEMMA FailKeeps ==
    ASSUME IInv, NEW j \in Jobs, pc[j] \in Acquiring, FailTrack(j),
           UNCHANGED <<db, lock, found, created>>,
           staged' \subseteq [media : Media, job : Jobs],
           queued' \subseteq [job : Jobs, nth : Nat \ {0}]
    PROVE  IInv'
<1> DEFINE n == at[j]
<1>1. /\ row[j] \in Job /\ row[j].tracks # <<>> /\ row[j].tracks \in Seq(Track)
      /\ Last(j) = n /\ n \in DOMAIN found[j] /\ n \in Nat \ {0} /\ found[j] # <<>>
      /\ Tally(j, n - 1)
  BY AtTrack
<1>2. Shape
  BY ShapeHolds
<1>3. /\ WithState(row[j], "failed") \in Job
      /\ WithState(row[j], "failed").tracks =
            [row[j].tracks EXCEPT ![n] = [row[j].tracks[n] EXCEPT !.state = "failed"]]
      /\ Len(WithState(row[j], "failed").tracks) = n
  BY <1>1, WithStateType DEF States, Last
<1>4. /\ row'[j] = WithState(row[j], "failed") /\ pc'[j] = "track"
      /\ at'[j] = n + 1 /\ bad'[j] = bad[j] + 1 /\ created'[j] = created[j] /\ found'[j] = found[j]
  BY <1>2 DEF FailTrack, Goto, Shape
<1>5. Shape' /\ OthersKept(j)
  BY <1>1, <1>2, <1>3 DEF FailTrack, Goto, Shape, OthersKept, Steps, Running
<1>6. row'[j].tracks \in Seq(Track) /\ n = Len(row'[j].tracks)
  BY <1>3, <1>4 DEF Job
<1>7. \A i \in 1 .. n : row'[j].tracks[i] = IF i = n THEN [row[j].tracks[n] EXCEPT !.state = "failed"]
                                                     ELSE row[j].tracks[i]
  BY <1>1, <1>3, <1>4 DEF Last
<1>8. row'[j].tracks[n].state = "failed"
  <2>1. row[j].tracks[n] \in Track
    BY <1>1 DEF Last
  <2> QED BY <1>7, <1>1, <2>1 DEF Track
<1>9. /\ n \notin Live(row'[j])
      /\ \A i \in 1 .. n - 1 : i \in Live(row'[j]) <=> i \in Live(row[j])
  <2>1. DOMAIN row'[j].tracks = 1 .. n /\ DOMAIN row[j].tracks = 1 .. n
    BY <1>1, <1>6 DEF Last
  <2> QED BY <1>1, <1>7, <1>8, <2>1 DEF Live
<1>10. /\ created'[j] + bad'[j] = n
       /\ created'[j] > 0 <=> \E i \in 1 .. n : i \in Live(row'[j])
       /\ bad'[j] > 0 <=> \E i \in 1 .. n : i \notin Live(row'[j])
  <2>1. created[j] \in Nat /\ bad[j] \in Nat
    BY <1>2 DEF Shape
  <2>2. created[j] + bad[j] = n - 1 /\ (created[j] > 0 <=> \E i \in 1 .. n - 1 : i \in Live(row[j]))
    BY <1>1 DEF Tally
  <2>3. (\E i \in 1 .. n : i \in Live(row'[j])) <=> \E i \in 1 .. n - 1 : i \in Live(row[j])
    <3> HIDE DEF n
    <3> QED BY <1>1, <1>9
  <2>4. \E i \in 1 .. n : i \notin Live(row'[j])
    BY <1>1, <1>9
  <2>5. created'[j] + bad'[j] = n /\ bad'[j] > 0
    <3>1. n \in Nat
      BY <1>1
    <3> QED BY <3>1, <1>4, <2>1, <2>2
  <2>6. created'[j] > 0 <=> \E i \in 1 .. n : i \in Live(row'[j])
    BY <1>4, <2>2, <2>3
  <2> QED BY <2>4, <2>5, <2>6
<1>11. Counted(j)'
  <2>1. n + 1 <= Len(found'[j]) + 1
    BY <1>1, <1>2, <1>4 DEF Shape
  <2>2. Tally(j, Last(j))'
    BY <1>6, <1>10 DEF Tally, Last, Live
  <2> QED BY <1>1, <1>4, <1>6, <2>1, <2>2 DEF Counted, Acquiring, Running, Last
<1> QED BY <1>4, <1>5, <1>11, StepInside DEF FailTrack, Acquiring, Running

(* A step that changes a reference, or makes the last track downloaded,    *)
(* counts nothing.                                                         *)
LEMMA SameTally ==
    ASSUME IInv, NEW j \in Jobs, pc[j] \in Acquiring, pc'[j] \in Acquiring,
           NEW step \in Steps, Goto(j, step),
           UNCHANGED <<db, lock, found, at, created, bad>>,
           NEW r \in Job, row' = [row EXCEPT ![j] = r],
           r.tracks \in Seq(Track), Len(r.tracks) = Last(j),
           \A i \in DOMAIN r.tracks : IF i = Last(j) THEN i \in Live(r)
                                                     ELSE r.tracks[i] = row[j].tracks[i],
           staged' \subseteq [media : Media, job : Jobs],
           queued' \subseteq [job : Jobs, nth : Nat \ {0}]
    PROVE  IInv'
<1> DEFINE n == at[j]
<1>1. /\ row[j] \in Job /\ row[j].tracks \in Seq(Track)
      /\ Last(j) = n /\ n \in DOMAIN found[j] /\ n \in Nat \ {0} /\ found[j] # <<>>
      /\ Tally(j, n - 1)
  BY AtTrack
<1>2. Shape
  BY ShapeHolds
<1>3. Shape' /\ OthersKept(j) /\ row'[j] = r
  BY <1>2 DEF Shape, OthersKept, Goto
<1>4. /\ n \in Live(r)
      /\ \A i \in 1 .. n - 1 : i \in Live(r) <=> i \in Live(row[j])
  <2>1. DOMAIN r.tracks = 1 .. n /\ DOMAIN row[j].tracks = 1 .. n
    BY <1>1 DEF Last
  <2>2. n \in Live(r)
    BY <1>1, <2>1
  <2>3. ASSUME NEW i \in 1 .. n - 1 PROVE i \in Live(r) <=> i \in Live(row[j])
    <3>1. i \in 1 .. n /\ i # n
      BY <1>1
    <3>2. r.tracks[i] = row[j].tracks[i]
      BY <1>1, <2>1, <3>1
    <3> QED BY <2>1, <3>1, <3>2 DEF Live
  <2> QED BY <2>2, <2>3
<1>5. Tally(j, n - 1)'
  <2>1. /\ created[j] + bad[j] = n - 1
        /\ created[j] > 0 <=> \E i \in 1 .. n - 1 : i \in Live(row[j])
        /\ bad[j] > 0 <=> \E i \in 1 .. n - 1 : i \notin Live(row[j])
    BY <1>1 DEF Tally
  <2>2. /\ created'[j] + bad'[j] = n - 1
        /\ created'[j] > 0 <=> \E i \in 1 .. n - 1 : i \in Live(row'[j])
        /\ bad'[j] > 0 <=> \E i \in 1 .. n - 1 : i \notin Live(row'[j])
    <3> HIDE DEF n
    <3> QED BY <1>3, <1>4, <2>1
  <2> QED BY <2>2 DEF Tally, Live
<1>6. Counted(j)'
  <2>1. n <= Len(found'[j]) /\ Last(j)' = n /\ at'[j] = n
    BY <1>1, <1>2, <1>3 DEF Shape, Last
  <2>2. (at[j] \in Live(row[j]))'
    BY <1>3, <1>4, <2>1 DEF Live
  <2> QED BY <1>1, <1>5, <2>1, <2>2 DEF Counted, Acquiring, Running
<1> QED BY <1>3, <1>6, StepInside DEF Acquiring, Running

-----------------------------------------------------------------------------
(* The actions.                                                            *)

(* The sources in turn are sources.                                        *)
LEMMA PriorityType ==
    ASSUME NEW j \in Jobs
    PROVE  Priority(j) \in Seq(Sources)
<1>1. Asks[j].source \in Sources \cup {"priority"} /\ Enabled \in Seq(Sources)
  BY JobAssumption DEF JobAssumption, Ask
<1>2. "slskd" \in Sources
  BY DEF Sources
<1> QED BY <1>1, <1>2 DEF Priority

(* While sources are searched there are no tracks.                         *)
LEMMA SearchKeeps ==
    ASSUME IInv, NEW j \in Jobs, PassesOver(j) \/ Serves(j) \/ Exhausted(j)
    PROVE  IInv'
<1>1. Shape /\ row[j] \in Job /\ pc[j] = "search"
  BY ShapeHolds DEF Shape, PassesOver, Serves, Exhausted, Trying
<1>2. /\ row[j].tracks = <<>> /\ created[j] = 0 /\ bad[j] = 0
  BY <1>1 DEF IInv, Counted
<1>3. Trying(j) => Append(row[j].tried, Priority(j)[at[j]]) \in Seq(Sources) /\ Priority(j)[at[j]] \in Sources
  <2> SUFFICES ASSUME Trying(j)
               PROVE  /\ Append(row[j].tried, Priority(j)[at[j]]) \in Seq(Sources)
                      /\ Priority(j)[at[j]] \in Sources
    OBVIOUS
  <2>1. at[j] \in 1 .. Len(Priority(j))
    BY <1>1, PriorityType DEF Shape, Trying
  <2>2. Priority(j)[at[j]] \in Sources
    BY <2>1, PriorityType
  <2> QED BY <1>1, <2>2 DEF Job
<1>4. CASE PassesOver(j)
  <2> DEFINE r == [row[j] EXCEPT !.tried = Append(@, Priority(j)[at[j]])]
  <2>1. r \in Job /\ r.tracks = <<>>
    BY <1>1, <1>2, <1>3, <1>4 DEF Job, PassesOver
  <2>2. /\ row' = [row EXCEPT ![j] = r] /\ pc' = pc /\ at' = [at EXCEPT ![j] = at[j] + 1]
        /\ UNCHANGED <<found, created, bad, staged, queued>>
    BY <1>4 DEF PassesOver, outside
  <2> HIDE DEF r
  <2>3. Shape' /\ OthersKept(j) /\ pc'[j] = "search" /\ row'[j] = r
    <3>1. at[j] + 1 \in Nat \ {0}
      BY <1>1 DEF Shape
    <3> QED BY <1>1, <2>1, <2>2, <3>1 DEF Shape, OthersKept
  <2>4. Counted(j)'
    BY <1>2, <1>4, <2>1, <2>3 DEF PassesOver, Counted, Acquiring, Running
  <2> QED BY <1>1, <1>4, <2>3, <2>4, StepInside DEF PassesOver, Running
<1>5. CASE Serves(j)
  <2> DEFINE source == Priority(j)[at[j]]
             r == [row[j] EXCEPT !.tried = Append(@, source), !.source = source, !.served = source]
  <2>1. r \in Job /\ r.tracks = <<>>
    BY <1>1, <1>2, <1>3, <1>5 DEF Job, Serves
  <2>2. row' = [row EXCEPT ![j] = r] /\ at' = [at EXCEPT ![j] = 1]
    BY <1>5 DEF Serves
  <2>3. PICK offer \in Seq(Result) : offer # <<>> /\ found' = [found EXCEPT ![j] = offer]
    <3>1. Offers[source] \in SUBSET (Seq(Result) \ {<<>>})
      BY <1>3, <1>5, JobAssumption DEF JobAssumption, Serves
    <3> QED BY <1>5, <3>1 DEF Serves
  <2> HIDE DEF r
  <2>4. /\ Shape' /\ OthersKept(j)
        /\ pc'[j] = "track" /\ row'[j] = r /\ at'[j] = 1 /\ found'[j] # <<>>
        /\ created'[j] = 0 /\ bad'[j] = 0
    BY <1>1, <1>2, <1>5, <2>1, <2>2, <2>3
    DEF Serves, Goto, Shape, OthersKept, outside, Steps, Running
  <2>5. Tally(j, 0)' /\ Last(j)' = 0
    BY <2>1, <2>4 DEF Tally, Last
  <2>6. Len(found'[j]) \in Nat
    BY <2>4 DEF Shape
  <2>7. Counted(j)'
    BY <2>4, <2>5, <2>6 DEF Counted, Acquiring, Running
  <2> QED BY <1>1, <1>5, <2>4, <2>7, StepInside DEF Serves, Running
<1>6. CASE Exhausted(j)
  <2> DEFINE r == [row[j] EXCEPT !.status = "failed", !.tried = <<>>, !.served = None]
  <2>1. r \in Job /\ r.tracks = <<>> /\ r.status = "failed"
    <3>1. <<>> \in Seq(Sources)
      OBVIOUS
    <3> QED BY <1>1, <1>2, <3>1 DEF Job, Verdicts
  <2>2. row' = [row EXCEPT ![j] = r]
    BY <1>6 DEF Exhausted
  <2> HIDE DEF r
  <2>3. Shape' /\ OthersKept(j) /\ pc'[j] = "flush" /\ row'[j] = r
    BY <1>1, <1>6, <2>1, <2>2
    DEF Exhausted, Goto, Shape, OthersKept, outside, progress, Steps, Running
  <2>4. Fits(j, r)
    BY <2>1 DEF Fits, Live
  <2>5. Fits(j, row[j])'
    BY <2>3, <2>4 DEF Fits, Live, Album
  <2>6. Counted(j)'
    BY <2>1, <2>3, <2>5 DEF Counted, Acquiring, Running, Verdicts
  <2> QED BY <1>1, <1>6, <2>3, <2>6, StepInside DEF Exhausted, Running
<1> QED BY <1>4, <1>5, <1>6

(* The next result becomes a track in flight.                              *)
LEMMA NewTrackKeeps ==
    ASSUME IInv, NEW j \in Jobs, NewTrack(j)
    PROVE  IInv'
<1> DEFINE n == at[j]
           t == [of |-> CatalogTrack(j), media |-> Current(j).media,
                 state |-> "acquiring", ref |-> None]
           ts == Append(row[j].tracks, t)
           r == [row[j] EXCEPT !.tracks = ts]
<1>1. Shape /\ row[j] \in Job /\ pc[j] = "track" /\ n <= Len(found[j]) /\ n \in Nat \ {0}
  BY ShapeHolds DEF Shape, NewTrack
<1>2. Last(j) = n - 1 /\ Tally(j, n - 1) /\ found[j] # <<>>
  <2>1. Last(j) = n - 1 /\ Tally(j, Last(j)) /\ found[j] # <<>>
    BY <1>1 DEF IInv, Counted
  <2> QED BY <2>1
<1>3. t \in Track
  <2>1. CatalogTrack(j) \in Catalog \cup {None} /\ Current(j) \in Result
    BY <1>1, CatalogTrackType DEF IInv
  <2> QED BY <2>1 DEF Track, Result
<1>4. row[j].tracks \in Seq(Track) /\ Len(row[j].tracks) = n - 1
  BY <1>1, <1>2 DEF Job, Last
<1>5. t.state = "acquiring"
  OBVIOUS
<1>6. row' = [row EXCEPT ![j] = r] /\ pc'[j] \in {"acquire", "enqueue"}
  <2>1. row' = [row EXCEPT ![j] = r]
    BY <1>1 DEF NewTrack, Shape
  <2> QED BY <1>1, <2>1 DEF NewTrack, Goto, Shape
<1> HIDE DEF t
<1>7. /\ ts \in Seq(Track) /\ Len(ts) = n /\ ts[n] = t
      /\ \A i \in 1 .. n - 1 : ts[i] = row[j].tracks[i]
  BY <1>1, <1>3, <1>4
<1> HIDE DEF ts
<1>8. r \in Job /\ r.tracks = ts
  BY <1>1, <1>7 DEF Job
<1> HIDE DEF r
<1>9. Shape' /\ OthersKept(j) /\ row'[j] = r
  BY <1>1, <1>6, <1>8 DEF NewTrack, Goto, Shape, OthersKept, outside, Steps, Running
<1>10. /\ n \in Live(r)
       /\ \A i \in 1 .. n - 1 : i \in Live(r) <=> i \in Live(row[j])
  <2>1. DOMAIN ts = 1 .. n /\ DOMAIN row[j].tracks = 1 .. n - 1
    BY <1>1, <1>4, <1>7
  <2> QED BY <1>1, <1>5, <1>7, <1>8, <2>1 DEF Live
<1>11. Tally(j, n - 1)'
  <2>1. /\ created[j] + bad[j] = n - 1
        /\ created[j] > 0 <=> \E i \in 1 .. n - 1 : i \in Live(row[j])
        /\ bad[j] > 0 <=> \E i \in 1 .. n - 1 : i \notin Live(row[j])
    BY <1>2 DEF Tally
  <2>2. created'[j] = created[j] /\ bad'[j] = bad[j] /\ at'[j] = n
    BY DEF NewTrack
  <2>3. /\ created'[j] + bad'[j] = n - 1
        /\ created'[j] > 0 <=> \E i \in 1 .. n - 1 : i \in Live(row'[j])
        /\ bad'[j] > 0 <=> \E i \in 1 .. n - 1 : i \notin Live(row'[j])
    <3> HIDE DEF n
    <3> QED BY <1>9, <1>10, <2>1, <2>2
  <2> QED BY <2>2, <2>3 DEF Tally, Live
<1>12. Counted(j)'
  <2>1. found'[j] = found[j] /\ at'[j] = n /\ Last(j)' = n
    BY <1>7, <1>8, <1>9 DEF NewTrack, Last
  <2>2. (at[j] \in Live(row[j]))'
    BY <1>9, <1>10, <2>1 DEF Live
  <2> QED BY <1>1, <1>2, <1>6, <1>11, <2>1, <2>2 DEF Counted, Acquiring, Running
<1> QED BY <1>1, <1>6, <1>9, <1>12, StepInside DEF NewTrack, Running

(* A download is staged and names its file.                                *)
LEMMA DownloadKeeps ==
    ASSUME IInv, NEW j \in Jobs, Download(j)
    PROVE  IInv'
<1> DEFINE d == WithState(row[j], "downloaded")
           r == WithRef(d, Current(j).media)
<1>1. pc[j] \in Acquiring
  BY DEF Download, Acquiring
<1>2. /\ row[j] \in Job /\ row[j].tracks # <<>> /\ row[j].tracks \in Seq(Track)
      /\ Current(j).media \in Media /\ Last(j) \in DOMAIN row[j].tracks
  BY <1>1, AtTrack DEF Last
<1>3. /\ d \in Job /\ Len(d.tracks) = Last(j)
      /\ d.tracks = [row[j].tracks EXCEPT ![Last(j)] =
                        [row[j].tracks[Last(j)] EXCEPT !.state = "downloaded"]]
  BY <1>2, WithStateType DEF States, Last
<1>4. d.tracks \in Seq(Track) /\ d.tracks # <<>>
  BY <1>2, <1>3 DEF Job
<1> HIDE DEF d
<1>5. /\ r \in Job /\ Len(r.tracks) = Last(j)
      /\ r.tracks = [d.tracks EXCEPT ![Last(j)] = [d.tracks[Last(j)] EXCEPT !.ref = Current(j).media]]
  <2> DEFINE ref == Current(j).media
  <2>1. d \in Job /\ d.tracks # <<>> /\ ref \in Media
    BY <1>2, <1>3, <1>4
  <2> HIDE DEF ref
  <2>2. /\ WithRef(d, ref) \in Job /\ Len(WithRef(d, ref).tracks) = Len(d.tracks)
        /\ WithRef(d, ref).tracks =
              [d.tracks EXCEPT ![Len(d.tracks)] = [d.tracks[Len(d.tracks)] EXCEPT !.ref = ref]]
    BY <2>1, WithRefType
  <2> QED BY <1>3, <2>2 DEF ref
<1>6. row' = [row EXCEPT ![j] = r]
  BY DEF Download, d
<1> HIDE DEF r
<1>7. r.tracks \in Seq(Track) /\ DOMAIN r.tracks = 1 .. Last(j) /\ DOMAIN d.tracks = 1 .. Last(j)
      /\ DOMAIN row[j].tracks = 1 .. Last(j)
  BY <1>2, <1>3, <1>4, <1>5 DEF Job, Last
<1>8. \A i \in DOMAIN r.tracks : IF i = Last(j) THEN i \in Live(r)
                                                ELSE r.tracks[i] = row[j].tracks[i]
  <2>1. d.tracks[Last(j)].state = "downloaded" /\ d.tracks[Last(j)] \in Track
    <3>1. row[j].tracks[Last(j)] \in Track
      BY <1>2
    <3> QED BY <1>2, <1>3, <1>7, <3>1 DEF Track
  <2>2. r.tracks[Last(j)].state = "downloaded"
    BY <1>2, <1>5, <1>7, <2>1 DEF Track
  <2>3. \A i \in DOMAIN r.tracks : i # Last(j) => r.tracks[i] = row[j].tracks[i]
    BY <1>3, <1>5, <1>7
  <2> QED BY <2>2, <2>3 DEF Live
<1>9. staged' \subseteq [media : Media, job : Jobs] /\ queued' \subseteq [job : Jobs, nth : Nat \ {0}]
  BY <1>2, ShapeHolds DEF Shape, Download
<1>10. Goto(j, "preview") /\ pc'[j] \in Acquiring
  BY ShapeHolds DEF Download, Goto, Shape, Acquiring
<1> QED BY <1>1, <1>5, <1>6, <1>7, <1>8, <1>9, <1>10, SameTally
        DEF Download, progress, Steps, Running

(* A transfer is accepted.                                                 *)
LEMMA AcceptedType ==
    ASSUME IInv, NEW j \in Jobs, pc[j] \in Acquiring, Accepted(j)
    PROVE  queued' \subseteq [job : Jobs, nth : Nat \ {0}]
<1>1. Last(j) \in Nat \ {0}
  BY AtTrack
<1> QED BY <1>1, ShapeHolds DEF Shape, Accepted

(* A transfer is named, or asked for.                                      *)
LEMMA RefKeeps ==
    ASSUME IInv, NEW j \in Jobs, Enqueue(j) \/ StatusKnown(j)
    PROVE  IInv'
<1> DEFINE s == WithRef(row[j], Current(j).media)
<1>1. pc[j] \in Acquiring
  BY DEF Enqueue, StatusKnown, Acquiring
<1>2. /\ row[j] \in Job /\ row[j].tracks # <<>> /\ row[j].tracks \in Seq(Track)
      /\ Current(j).media \in Media /\ Last(j) \in DOMAIN row[j].tracks
      /\ Last(j) = at[j] /\ at[j] \in Live(row[j])
  BY <1>1, AtTrack DEF Last
<1>3. /\ s \in Job /\ Len(s.tracks) = Last(j)
      /\ s.tracks = [row[j].tracks EXCEPT ![Last(j)] =
                        [row[j].tracks[Last(j)] EXCEPT !.ref = Current(j).media]]
  BY <1>2, WithRefType DEF Last
<1>4. PICK r \in {s, row[j]} : row' = [row EXCEPT ![j] = r]
  BY <1>2, ShapeHolds DEF Enqueue, StatusKnown, Shape
<1>5. PICK step \in {"preview", "check"} : Goto(j, step)
  BY DEF Enqueue, StatusKnown
<1> HIDE DEF s
<1>6. r \in Job /\ r.tracks \in Seq(Track) /\ Len(r.tracks) = Last(j) /\ DOMAIN r.tracks = 1 .. Last(j)
  BY <1>2, <1>3 DEF Job, Last
<1>7. \A i \in DOMAIN r.tracks : IF i = Last(j) THEN i \in Live(r)
                                                ELSE r.tracks[i] = row[j].tracks[i]
  <2>1. DOMAIN row[j].tracks = 1 .. Last(j) /\ row[j].tracks[Last(j)] \in Track
    BY <1>2 DEF Last
  <2>2. row[j].tracks[Last(j)].state \in {"acquiring", "downloaded"}
    BY <1>2 DEF Live
  <2>3. r.tracks[Last(j)].state = row[j].tracks[Last(j)].state
    BY <1>2, <1>3, <1>6, <2>1 DEF Track
  <2>4. \A i \in DOMAIN r.tracks : i # Last(j) => r.tracks[i] = row[j].tracks[i]
    BY <1>3, <1>6, <2>1
  <2> QED BY <2>2, <2>3, <2>4 DEF Live
<1>8. staged' \subseteq [media : Media, job : Jobs] /\ queued' \subseteq [job : Jobs, nth : Nat \ {0}]
  BY <1>1, AcceptedType, ShapeHolds DEF Shape, Enqueue, StatusKnown, outside
<1>9. pc'[j] \in Acquiring
  BY <1>5, ShapeHolds DEF Goto, Shape, Acquiring
<1> QED BY <1>1, <1>4, <1>5, <1>6, <1>7, <1>8, <1>9, SameTally
        DEF Enqueue, StatusKnown, progress, Steps, Running

(* A track that is complete counts as created.                             *)
LEMMA PreviewKeeps ==
    ASSUME IInv, NEW j \in Jobs, Preview(j)
    PROVE  IInv'
<1> DEFINE n == at[j]
<1>1. pc[j] \in Acquiring
  BY DEF Preview, Acquiring
<1>2. /\ Last(j) = n /\ n \in DOMAIN found[j] /\ n \in Nat \ {0} /\ found[j] # <<>>
      /\ Tally(j, n - 1) /\ n \in Live(row[j])
  BY <1>1, AtTrack
<1>3. Shape
  BY ShapeHolds
<1>4. /\ row'[j] = row[j] /\ pc'[j] = "track" /\ at'[j] = n + 1
      /\ created'[j] = created[j] + 1 /\ bad'[j] = bad[j] /\ found'[j] = found[j]
  BY <1>3 DEF Preview, Goto, Shape
<1>5. Shape' /\ OthersKept(j)
  <2>1. at[j] + 1 \in Nat \ {0} /\ created[j] + 1 \in Nat
    BY <1>3 DEF Shape
  <2> QED BY <1>3, <2>1 DEF Preview, Goto, Shape, OthersKept, outside, Steps, Running
<1>6. /\ created[j] + bad[j] = n - 1
      /\ bad[j] > 0 <=> \E i \in 1 .. n - 1 : i \notin Live(row[j])
  BY <1>2 DEF Tally
<1>7. created'[j] + bad'[j] = n /\ created'[j] > 0
  BY <1>2, <1>3, <1>4, <1>6 DEF Shape
<1>8. (\E i \in 1 .. n : i \notin Live(row[j])) <=> \E i \in 1 .. n - 1 : i \notin Live(row[j])
  <2> HIDE DEF n
  <2> QED BY <1>2
<1>9. \E i \in 1 .. n : i \in Live(row[j])
  BY <1>2
<1>10. /\ created'[j] + bad'[j] = n
       /\ created'[j] > 0 <=> \E i \in 1 .. n : i \in Live(row'[j])
       /\ bad'[j] > 0 <=> \E i \in 1 .. n : i \notin Live(row'[j])
  BY <1>4, <1>6, <1>7, <1>8, <1>9
<1>11. Counted(j)'
  <2>1. n + 1 <= Len(found'[j]) + 1
    BY <1>2, <1>3, <1>4 DEF Shape
  <2>2. Last(j)' = n
    BY <1>2, <1>4 DEF Last
  <2>3. Tally(j, Last(j))'
    BY <1>10, <2>2 DEF Tally, Last, Live
  <2> QED BY <1>2, <1>4, <2>1, <2>2, <2>3 DEF Counted, Acquiring, Running
<1> QED BY <1>1, <1>4, <1>5, <1>11, StepInside DEF Preview, Acquiring, Running

(* Whatever fails for a track fails that track only.                       *)
LEMMA FailuresKeep ==
    ASSUME IInv, NEW j \in Jobs,
           DownloadFails(j) \/ EnqueueFails(j) \/ StatusUnknown(j) \/ PreviewFails(j)
    PROVE  IInv'
<1>1. pc[j] \in Acquiring /\ FailTrack(j) /\ UNCHANGED <<db, lock, found, created, staged>>
  BY DEF DownloadFails, EnqueueFails, StatusUnknown, PreviewFails, Acquiring, outside
<1>2. staged' \subseteq [media : Media, job : Jobs] /\ queued' \subseteq [job : Jobs, nth : Nat \ {0}]
  BY <1>1, AcceptedType, ShapeHolds
  DEF Shape, DownloadFails, EnqueueFails, StatusUnknown, PreviewFails, outside
<1> QED BY <1>1, <1>2, FailKeeps

(* An album of which fewer tracks were acquired than it has lacks one.     *)
LEMMA AlbumLacks ==
    ASSUME NEW j \in Jobs, row[j].tracks \in Seq(Track), Last(j) < Len(Album(j))
    PROVE  AlbumTracks(j) \ Acquired(j) # {}
<1> DEFINE album == Album(j)
           n == Last(j)
           of == [i \in 1 .. n |-> row[j].tracks[i].of]
<1>1. /\ album \in Seq(Catalog) /\ n \in Nat /\ n < Len(album)
      /\ \A i, k \in DOMAIN album : album[i] = album[k] => i = k
  BY JobAssumption DEF JobAssumption, Ask, Album, Last
<1>2. \E i \in DOMAIN album : \A k \in 1 .. n : of[k] # album[i]
  <2> HIDE DEF of, album, n
  <2> QED BY <1>1, SomeMissing
<1>3. DOMAIN row[j].tracks = 1 .. n
  BY DEF Last
<1> QED BY <1>2, <1>3 DEF AlbumTracks, Acquired

(* The verdict fits the tracks.                                            *)
LEMMA DecideKeeps ==
    ASSUME IInv, NEW j \in Jobs, Decide(j)
    PROVE  IInv'
<1>1. Shape /\ row[j] \in Job /\ pc[j] = "track" /\ at[j] > Len(found[j])
  BY ShapeHolds DEF Shape, Decide
<1> DEFINE n == Last(j)
<1>2. /\ n = at[j] - 1 /\ at[j] <= Len(found[j]) + 1 /\ found[j] # <<>>
      /\ created[j] + bad[j] = n
      /\ created[j] > 0 <=> \E i \in 1 .. n : i \in Live(row[j])
      /\ bad[j] > 0 <=> \E i \in 1 .. n : i \notin Live(row[j])
  BY <1>1 DEF IInv, Counted, Tally
<1>3. row[j].tracks \in Seq(Track) /\ DOMAIN row[j].tracks = 1 .. n /\ n \in Nat
  BY <1>1 DEF Job, Last
<1>4. n > 0 /\ created[j] \in Nat /\ bad[j] \in Nat
  <2>1. Len(found[j]) > 0 /\ at[j] \in Nat
    BY <1>1, <1>2 DEF Shape
  <2> QED BY <1>1, <1>2, <2>1 DEF Shape
<1>5. Live(row[j]) \subseteq 1 .. n
  BY <1>3 DEF Live
<1>6. PICK r \in Job :
          /\ row' = [row EXCEPT ![j] = r] /\ r.tracks = row[j].tracks
          /\ \/ r.status = "done" /\ bad[j] = 0 /\ created[j] >= Len(Album(j))
             \/ r.status = "partial" /\ bad[j] > 0 /\ created[j] > 0
             \/ r.status = "partial" /\ bad[j] = 0 /\ r.missing # {}
             \/ r.status = "failed" /\ created[j] = 0
  <2>1. Len(Album(j)) \in Nat /\ AlbumTracks(j) \in SUBSET Catalog
    BY JobAssumption DEF JobAssumption, Ask, Album, AlbumTracks
  <2>2. CASE bad[j] > 0
    <3> DEFINE r == [row[j] EXCEPT !.status = IF created[j] > 0 THEN "partial" ELSE "failed"]
    <3>1. row' = [row EXCEPT ![j] = r]
      BY <1>4, <2>2 DEF Decide
    <3>2. /\ r \in Job /\ r.tracks = row[j].tracks
          /\ r.status = IF created[j] > 0 THEN "partial" ELSE "failed"
      BY <1>1 DEF Job, Verdicts
    <3> HIDE DEF r
    <3>3. \/ r.status = "partial" /\ bad[j] > 0 /\ created[j] > 0
          \/ r.status = "failed" /\ created[j] = 0
      BY <1>4, <2>2, <3>2
    <3> QED BY <3>1, <3>2, <3>3
  <2>3. CASE bad[j] = 0 /\ created[j] < Len(Album(j))
    <3> DEFINE r == [row[j] EXCEPT !.status = "partial", !.missing = AlbumTracks(j) \ Acquired(j)]
    <3>1. AlbumTracks(j) \ Acquired(j) # {}
      <4>1. n < Len(Album(j))
        BY <1>2, <1>4, <2>3
      <4> QED BY <1>3, <4>1, AlbumLacks
    <3>2. row' = [row EXCEPT ![j] = r]
      BY <1>4, <2>1, <2>3 DEF Decide
    <3>3. r \in Job /\ r.tracks = row[j].tracks /\ r.status = "partial" /\ r.missing # {}
      BY <1>1, <2>1, <3>1 DEF Job, Verdicts
    <3> HIDE DEF r
    <3> QED BY <2>3, <3>2, <3>3
  <2>4. CASE bad[j] = 0 /\ created[j] >= Len(Album(j))
    <3> DEFINE r == [row[j] EXCEPT !.status = "done"]
    <3>1. row' = [row EXCEPT ![j] = r]
      BY <1>4, <2>1, <2>4 DEF Decide
    <3>2. r \in Job /\ r.tracks = row[j].tracks /\ r.status = "done"
      BY <1>1 DEF Job, Verdicts
    <3> HIDE DEF r
    <3> QED BY <2>4, <3>1, <3>2
  <2> QED BY <1>4, <2>1, <2>2, <2>3, <2>4
<1>9. Live(r) = Live(row[j])
  BY <1>6 DEF Live
<1>10. Fits(j, r)
  <2>1. CASE r.status = "done" /\ bad[j] = 0 /\ created[j] >= Len(Album(j))
    <3>1. created[j] = n /\ n >= Len(Album(j))
      BY <1>2, <1>4, <2>1
    <3>2. \A i \in 1 .. n : i \in Live(row[j])
      BY <1>2, <2>1
    <3>3. Live(r) = DOMAIN r.tracks
      BY <1>3, <1>5, <1>6, <1>9, <3>2
    <3>4. Len(r.tracks) >= Len(Album(j)) /\ r.tracks # <<>>
      BY <1>4, <1>3, <1>6, <3>1 DEF Last
    <3> QED BY <2>1, <3>3, <3>4 DEF Fits
  <2>2. CASE r.status = "partial" /\ created[j] > 0 /\ (bad[j] > 0 \/ r.missing # {})
    <3>1. Live(r) # {}
      BY <1>2, <1>9, <2>2
    <3>2. Live(r) # DOMAIN r.tracks \/ r.missing # {}
      BY <1>2, <1>3, <1>6, <1>9, <2>2
    <3> QED BY <2>2, <3>1, <3>2 DEF Fits
  <2>3. CASE r.status = "failed" /\ created[j] = 0
    <3>1. \A i \in 1 .. n : i \notin Live(row[j])
      BY <1>2, <2>3
    <3>2. Live(r) = {}
      BY <1>5, <1>9, <3>1
    <3> QED BY <2>3, <3>2 DEF Fits
  <2>4. bad[j] = 0 => created[j] > 0
    BY <1>2, <1>4
  <2> QED BY <1>6, <2>1, <2>2, <2>3, <2>4
<1>11. Shape' /\ OthersKept(j) /\ row'[j] = r /\ pc'[j] = "flush"
  BY <1>1, <1>6 DEF Decide, Goto, Shape, OthersKept, outside, progress, Steps, Running
<1>12. Counted(j)'
  <2>1. Fits(j, row[j])'
    BY <1>10, <1>11 DEF Fits, Live, Album
  <2> QED BY <1>6, <1>11, <2>1 DEF Counted, Acquiring, Running, Verdicts
<1> QED BY <1>1, <1>11, <1>12, StepInside DEF Decide, Running

(* A task that is cancelled gives up what is in flight.                    *)
LEMMA CancelKeeps ==
    ASSUME IInv, NEW j \in Jobs, Cancel(j)
    PROVE  IInv'
<1> DEFINE r == Cancelled(row[j])
<1>1. Shape /\ row[j] \in Job /\ pc[j] \in {"search", "acquire", "enqueue", "check", "preview"}
  BY ShapeHolds DEF Shape, Cancel
<1>2. r \in Job /\ r.status = "cancelled" /\ Fits(j, r)
  BY <1>1, CancelledType
<1>3. row' = [row EXCEPT ![j] = r]
  BY DEF Cancel
<1> HIDE DEF r
<1>4. queued' \subseteq [job : Jobs, nth : Nat \ {0}]
  BY <1>1, AcceptedType DEF Cancel, Shape, Acquiring
<1>5. Shape' /\ OthersKept(j) /\ row'[j] = r /\ pc'[j] = "flush"
  <2>1. UNCHANGED <<found, at, created, bad, staged>> /\ pc' = [pc EXCEPT ![j] = "flush"]
    BY DEF Cancel, progress, Goto
  <2> QED BY <1>1, <1>2, <1>3, <1>4, <2>1 DEF Shape, OthersKept, Steps, Running
<1>6. Counted(j)'
  <2>1. Fits(j, row[j])'
    BY <1>2, <1>5 DEF Fits, Live, Album
  <2> QED BY <1>2, <1>5, <2>1 DEF Counted, Acquiring, Running, Verdicts
<1> QED BY <1>1, <1>5, <1>6, StepInside DEF Cancel, Running

(* The request that commits its jobs changes no others.                    *)
LEMMA CreateKeeps ==
    ASSUME IInv, NEW c \in Batches, Create(c)
    PROVE  IInv'
<1> DEFINE In(j) == \E i \in DOMAIN c : c[i] = j
<1>1. /\ \A j \in Jobs : In(j) => pc[j] = "absent"
      /\ db' = [j \in Jobs |-> IF In(j) THEN NewJob(j) ELSE db[j]]
      /\ pc' = [j \in Jobs |-> IF In(j) THEN "queued" ELSE pc[j]]
      /\ UNCHANGED <<row, lock, found, at, created, bad, staged, queued>>
  BY DEF Create, progress, outside
<1>2. \A j \in Jobs : \A b \in Batches : \A i \in DOMAIN b : b[i] = j => (In(j) <=> b = c)
  BY JobAssumption DEF JobAssumption
<1> HIDE DEF In
<1>3. TypeOK'
  <2>1. db' \in [Jobs -> Job \cup {None}]
    BY <1>1, NewJobType DEF IInv, TypeOK
  <2>2. pc' \in [Jobs -> Steps]
    BY <1>1 DEF IInv, TypeOK, Steps
  <2>3. \A j \in Jobs : (pc[j] \in Acquiring => Last(j) = at[j] /\ at[j] \in DOMAIN found[j])'
    BY <1>1 DEF IInv, TypeOK, Acquiring, Last
  <2> QED BY <1>1, <2>1, <2>2, <2>3 DEF IInv, TypeOK, Acquiring
<1>4. OneTask'
  BY <1>1 DEF IInv, OneTask, Running
<1>5. Undecided'
  <2> SUFFICES ASSUME NEW j \in Jobs
               PROVE  /\ pc'[j] = "absent" <=> db'[j] = None
                      /\ pc'[j] \in {"queued"} \cup Running => db'[j] = NewJob(j)
    BY DEF Undecided, NewJob
  <2>1. NewJob(j) # None
    BY NewJobType, NoneAssumption DEF NoneAssumption
  <2> QED BY <1>1, <2>1 DEF IInv, Undecided
<1>6. InOrder'
  <2> SUFFICES ASSUME NEW b \in Batches, NEW i \in DOMAIN b, NEW n \in DOMAIN b, i < n
               PROVE  /\ pc'[b[i]] = "absent" <=> pc'[b[n]] = "absent"
                      /\ pc'[b[i]] \in {"queued"} \cup Running => pc'[b[n]] = "queued"
    BY DEF InOrder
  <2>1. b[i] \in Jobs /\ b[n] \in Jobs
    BY JobAssumption DEF JobAssumption
  <2>2. In(b[i]) <=> In(b[n])
    BY <1>2, <2>1
  <2> QED BY <1>1, <2>1, <2>2 DEF IInv, InOrder
<1>7. VerdictFits'
  <2> SUFFICES ASSUME NEW j \in Jobs, db'[j] # None
               PROVE  Fits(j, db'[j])
    BY DEF VerdictFits, Fits, Live, Album
  <2>1. Fits(j, NewJob(j))
    BY NewJobType DEF Fits
  <2> QED BY <1>1, <2>1 DEF IInv, VerdictFits
<1>8. \A j \in Jobs : Counted(j)'
  <2> TAKE j \in Jobs
  <2>1. Counted(j)
    BY DEF IInv
  <2>2. CASE In(j)
    <3>1. pc[j] \notin Running /\ pc'[j] = "queued"
      BY <1>1, <2>2 DEF Running
    <3> QED BY <1>1, <2>1, <3>1 DEF Counted, Acquiring, Running, NewJob
  <2>3. CASE ~In(j)
    BY <1>1, <2>1, <2>3, CountedKept
  <2> QED BY <2>2, <2>3
<1> QED BY <1>3, <1>4, <1>5, <1>6, <1>7, <1>8 DEF IInv

(* A task begins when nobody has the write lock.                           *)
LEMMA StartKeeps ==
    ASSUME IInv, NEW j \in Jobs, Start(j)
    PROVE  IInv'
<1> DEFINE r == [db[j] EXCEPT !.status = "running"]
<1>1. Shape /\ pc[j] = "queued" /\ lock = None /\ lock' = j /\ Due(j)
  BY ShapeHolds DEF Start, Due
<1>2. db[j] = NewJob(j) /\ NewJob(j) \in Job /\ NewJob(j).tracks = <<>>
  BY <1>1, NewJobType DEF IInv, Undecided
<1>3. r \in Job /\ r.tracks = <<>>
  BY <1>2 DEF Job
<1>4. row' = [row EXCEPT ![j] = r]
  BY DEF Start
<1> HIDE DEF r
<1>5. created[j] = 0 /\ bad[j] = 0 /\ at[j] = 1
  BY <1>1 DEF IInv, Counted, Running
<1>6. /\ UNCHANGED <<db, at, created, bad, staged, queued>>
      /\ \/ pc' = [pc EXCEPT ![j] = "search"] /\ UNCHANGED found
         \/ /\ pc' = [pc EXCEPT ![j] = "track"]
            /\ Asks[j].selected \in Result
            /\ found' = [found EXCEPT ![j] = <<Asks[j].selected>>]
  BY JobAssumption DEF Start, Goto, outside, JobAssumption, Ask
<1>7. /\ Shape' /\ OthersKept(j) /\ row'[j] = r
      /\ pc'[j] = "search" \/ (pc'[j] = "track" /\ found'[j] # <<>>)
  <2>1. CASE pc' = [pc EXCEPT ![j] = "search"] /\ UNCHANGED found
    <3>1. Shape'
      BY <1>1, <1>3, <1>4, <1>6, <2>1 DEF Shape, Steps, Running
    <3>2. OthersKept(j)
      BY <1>1, <1>4, <1>6, <2>1 DEF Shape, OthersKept
    <3> QED BY <1>1, <1>4, <2>1, <3>1, <3>2 DEF Shape
  <2>2. CASE /\ pc' = [pc EXCEPT ![j] = "track"]
             /\ Asks[j].selected \in Result
             /\ found' = [found EXCEPT ![j] = <<Asks[j].selected>>]
    <3> DEFINE f == <<Asks[j].selected>>
    <3>1. f \in Seq(Result) /\ f # <<>>
      BY <2>2
    <3>2. found' = [found EXCEPT ![j] = f]
      BY <2>2
    <3> HIDE DEF f
    <3>3. pc' = [pc EXCEPT ![j] = "track"]
      BY <2>2
    <3> QED BY <1>1, <1>3, <1>4, <1>6, <3>1, <3>2, <3>3 DEF Shape, OthersKept, Steps, Running
  <2> QED BY <1>6, <2>1, <2>2
<1>8. pc'[j] = "search" \/ (pc'[j] = "track" /\ found'[j] # <<>>)
  BY <1>7
<1>9. Counted(j)'
  <2>1. Tally(j, 0)' /\ Last(j)' = 0 /\ Len(found'[j]) \in Nat
    BY <1>3, <1>5, <1>6, <1>7 DEF Tally, Last, Shape
  <2> QED BY <1>3, <1>5, <1>6, <1>7, <1>8, <2>1 DEF Counted, Acquiring, Running
<1>10. \A k \in Jobs : Counted(k)'
  BY <1>7, <1>9, CountedKept DEF IInv, OthersKept
<1>11. \A k \in Jobs : pc[k] \notin Running
  BY <1>1, JobAssumption DEF IInv, OneTask, JobAssumption
<1>12. TypeOK'
  <2>1. \A k \in Jobs : (pc[k] \in Acquiring => Last(k) = at[k] /\ at[k] \in DOMAIN found[k])'
    BY <1>7, <1>8, <1>11 DEF Acquiring, OthersKept, Running
  <2> QED BY <1>1, <1>6, <1>7, <2>1 DEF IInv, TypeOK, Shape, Acquiring
<1>13. OneTask'
  BY <1>1, <1>7, <1>8, <1>11 DEF OneTask, OthersKept, Running
<1>14. Undecided'
  BY <1>1, <1>2, <1>6, <1>7, <1>8 DEF IInv, Undecided, OthersKept, NewJob
<1>15. VerdictFits'
  BY <1>6 DEF IInv, VerdictFits, Fits, Live, Album
<1>16. InOrder'
  <2> SUFFICES ASSUME NEW b \in Batches, NEW i \in DOMAIN b, NEW n \in DOMAIN b, i < n
               PROVE  /\ pc'[b[i]] = "absent" <=> pc'[b[n]] = "absent"
                      /\ pc'[b[i]] \in {"queued"} \cup Running => pc'[b[n]] = "queued"
    BY DEF InOrder
  <2>1. b \in Seq(Jobs) /\ b[i] \in Jobs /\ b[n] \in Jobs /\ i \in Nat /\ n \in Nat /\ i # n
    BY JobAssumption DEF JobAssumption
  <2>2. b[i] # b[n]
    BY <2>1, JobAssumption DEF JobAssumption
  <2>3. b[n] = j => pc[b[i]] = "ended"
    <3> SUFFICES ASSUME b[n] = j
                 PROVE  pc[b[i]] = "ended"
      OBVIOUS
    <3>1. b = BatchOf(j)
      BY <1>1, OneBatch
    <3>2. b[i] \in UpTo(j) \ {j}
      BY <2>1, <2>2, <3>1 DEF UpTo
    <3> QED BY <1>1, <3>2 DEF Due
  <2>4. /\ pc[b[i]] = "absent" <=> pc[b[n]] = "absent"
        /\ pc[b[i]] \in {"queued"} \cup Running => pc[b[n]] = "queued"
    BY DEF IInv, InOrder
  <2> QED BY <1>1, <1>7, <1>8, <2>1, <2>2, <2>3, <2>4 DEF OthersKept, Running
<1> QED BY <1>10, <1>12, <1>13, <1>14, <1>15, <1>16 DEF IInv

(* A task that ends, with the jobs that end with it, forgets everything    *)
(* and leaves the write lock if it had it.                                 *)
LEMMA EndKeeps ==
    ASSUME IInv, NEW j \in Jobs, pc[j] \in Running \/ Due(j), Forget({j}),
           NEW S, j \in S, S = {j} \/ S = FromOn(j), pc' \in [Jobs -> Steps],
           \A k \in Jobs : IF k \in S THEN pc'[k] \in Final ELSE pc'[k] = pc[k],
           lock' = IF lock = j THEN None ELSE lock,
           db' \in [Jobs -> Job \cup {None}],
           \A k \in Jobs : db'[k] = db[k] \/ (k = j /\ db'[k] # None /\ Fits(k, db'[k])),
           UNCHANGED <<staged, queued>>
    PROVE  IInv'
<1>1. \A k \in S \cap Jobs : pc[k] \in {"queued"} \cup Running /\ (k # j => pc[k] = "queued")
  BY TheRestWaits DEF Due
<1>2. /\ row' = [k \in Jobs |-> IF k = j THEN NewJob(k) ELSE row[k]]
      /\ found' = [k \in Jobs |-> IF k = j THEN <<>> ELSE found[k]]
      /\ at' = [k \in Jobs |-> IF k = j THEN 1 ELSE at[k]]
      /\ created' = [k \in Jobs |-> IF k = j THEN 0 ELSE created[k]]
      /\ bad' = [k \in Jobs |-> IF k = j THEN 0 ELSE bad[k]]
  BY DEF Forget
<1>3. Shape'
  <2>1. Shape
    BY ShapeHolds
  <2>2. row' \in [Jobs -> Job]
    BY <1>2, <2>1, NewJobType DEF Shape
  <2>3. <<>> \in Seq(Result)
    OBVIOUS
  <2> QED BY <1>2, <2>1, <2>2, <2>3 DEF Shape
<1>4. TypeOK'
  <2>1. \A k \in Jobs : (pc[k] \in Acquiring => Last(k) = at[k] /\ at[k] \in DOMAIN found[k])'
    <3> TAKE k \in Jobs
    <3>1. CASE k \in S
      BY <3>1 DEF Final, Acquiring
    <3>2. CASE k \notin S
      <4>1. k # j /\ pc'[k] = pc[k]
        BY <3>2
      <4>2. row'[k] = row[k] /\ at'[k] = at[k] /\ found'[k] = found[k]
        BY <1>2, <4>1
      <4> QED BY <4>1, <4>2 DEF IInv, TypeOK, Acquiring, Last
    <3> QED BY <3>1, <3>2
  <2>2. lock' \in Jobs \cup {None}
    BY DEF IInv, TypeOK
  <2> QED BY <1>3, <2>1, <2>2 DEF TypeOK, Shape, Acquiring
<1>5. OneTask'
  <2> SUFFICES ASSUME NEW k \in Jobs
               PROVE  pc'[k] \in Running <=> lock' = k
    BY DEF OneTask
  <2>1. pc[k] \in Running <=> lock = k
    BY DEF IInv, OneTask
  <2>2. k # None
    BY JobAssumption DEF JobAssumption
  <2>3. CASE k \in S
    <3>1. pc'[k] \notin Running
      BY <2>3 DEF Final, Running
    <3>2. k = j \/ lock # k
      BY <1>1, <2>1, <2>3 DEF Running
    <3> QED BY <2>2, <3>1, <3>2
  <2>4. CASE k \notin S
    BY <2>1, <2>2, <2>4
  <2> QED BY <2>3, <2>4
<1>6. Undecided'
  <2> SUFFICES ASSUME NEW k \in Jobs
               PROVE  /\ pc'[k] = "absent" <=> db'[k] = None
                      /\ pc'[k] \in {"queued"} \cup Running => db'[k] = NewJob(k)
    BY DEF Undecided, NewJob
  <2>1. /\ pc[k] = "absent" <=> db[k] = None
        /\ pc[k] \in {"queued"} \cup Running => db[k] = NewJob(k)
    BY DEF IInv, Undecided
  <2>2. CASE k \in S
    <3>1. pc'[k] \in Final /\ pc[k] \in {"queued"} \cup Running
      BY <1>1, <2>2
    <3>2. db[k] # None
      BY <2>1, <3>1 DEF Running
    <3> QED BY <3>1, <3>2 DEF Final, Running
  <2>3. CASE k \notin S
    BY <2>1, <2>3
  <2> QED BY <2>2, <2>3
<1>7. InOrder'
  BY OrderKept
<1>8. VerdictFits'
  <2> SUFFICES ASSUME NEW k \in Jobs, db'[k] # None
               PROVE  Fits(k, db'[k])
    BY DEF VerdictFits, Fits, Live, Album
  <2> QED BY DEF IInv, VerdictFits
<1>9. \A k \in Jobs : Counted(k)'
  <2> TAKE k \in Jobs
  <2>1. Counted(k)
    BY DEF IInv
  <2>2. CASE k = j
    <3>1. pc'[k] \in Final
      BY <2>2
    <3>2. row'[k] = NewJob(k) /\ created'[k] = 0 /\ bad'[k] = 0 /\ at'[k] = 1
      BY <1>2, <2>2
    <3> QED BY <3>1, <3>2 DEF Counted, Final, Acquiring, Running, NewJob
  <2>3. CASE k # j /\ k \in S
    <3>1. pc[k] = "queued" /\ pc'[k] \in Final
      BY <1>1, <2>3
    <3>2. row'[k] = row[k] /\ created'[k] = created[k] /\ bad'[k] = bad[k] /\ at'[k] = at[k]
      BY <1>2, <2>3
    <3> QED BY <2>1, <3>1, <3>2 DEF Counted, Final, Acquiring, Running, NewJob
  <2>4. CASE k \notin S
    <3>1. /\ row'[k] = row[k] /\ pc'[k] = pc[k] /\ found'[k] = found[k]
          /\ at'[k] = at[k] /\ created'[k] = created[k] /\ bad'[k] = bad[k]
      BY <1>2, <2>4
    <3> QED BY <2>1, <3>1, CountedKept
  <2> QED BY <2>2, <2>3, <2>4
<1> QED BY <1>4, <1>5, <1>6, <1>7, <1>8, <1>9 DEF IInv

(* A task may fail to begin, lose its session, or commit.                  *)
LEMMA EndsKeep ==
    ASSUME IInv, NEW j \in Jobs, StartFails(j) \/ LosesSession(j) \/ Commit(j)
    PROVE  IInv'
<1>1. Shape /\ db \in [Jobs -> Job \cup {None}]
  BY ShapeHolds DEF IInv, TypeOK
<1>2. j \in FromOn(j)
  BY OneBatch, JobAssumption DEF FromOn, JobAssumption
<1>3. CASE StartFails(j) \/ LosesSession(j)
  <2>1. /\ pc' = [k \in Jobs |-> IF k \in FromOn(j) THEN "raised" ELSE pc[k]]
        /\ lock' = IF lock = j THEN None ELSE lock
        /\ Forget({j}) /\ UNCHANGED <<db, staged, queued>>
    BY <1>3 DEF StartFails, LosesSession, Raises, outside
  <2>2. pc[j] \in Running \/ Due(j)
    BY <1>3 DEF StartFails, LosesSession, Running
  <2>3. pc' \in [Jobs -> Steps]
    BY <1>1, <2>1 DEF Shape, Steps, Final
  <2>4. \A k \in Jobs : IF k \in FromOn(j) THEN pc'[k] \in Final ELSE pc'[k] = pc[k]
    BY <2>1 DEF Final
  <2>5. /\ db' \in [Jobs -> Job \cup {None}] /\ UNCHANGED <<staged, queued>>
        /\ \A k \in Jobs : db'[k] = db[k] \/ (k = j /\ db'[k] # None /\ Fits(k, db'[k]))
    BY <1>1, <2>1
  <2> DEFINE S == FromOn(j)
  <2>6. /\ Forget({j}) /\ lock' = IF lock = j THEN None ELSE lock
        /\ j \in S /\ S = FromOn(j)
        /\ \A k \in Jobs : IF k \in S THEN pc'[k] \in Final ELSE pc'[k] = pc[k]
    BY <1>2, <2>1, <2>4
  <2> HIDE DEF S
  <2> QED BY <2>2, <2>3, <2>5, <2>6, EndKeeps
<1>4. CASE Commit(j)
  <2>1. /\ pc[j] = "flush" /\ db' = [db EXCEPT ![j] = row[j]] /\ lock' = None
        /\ Forget({j}) /\ UNCHANGED <<staged, queued>>
    BY <1>4 DEF Commit, outside
  <2>2. row[j] \in Job /\ Fits(j, row[j]) /\ row[j] # None
    BY <1>1, <2>1, NoneAssumption DEF Shape, IInv, Counted, NoneAssumption
  <2>3. lock = j
    BY <2>1 DEF IInv, OneTask, Running
  <2>4. /\ db' \in [Jobs -> Job \cup {None}]
        /\ \A k \in Jobs : db'[k] = db[k] \/ (k = j /\ db'[k] # None /\ Fits(k, db'[k]))
    <3>1. \A k \in Jobs : db'[k] = IF k = j THEN row[j] ELSE db[k]
      BY <1>1, <2>1
    <3>2. db' \in [Jobs -> Job \cup {None}]
      BY <1>1, <2>1, <2>2
    <3> QED BY <2>2, <3>1, <3>2
  <2>5. PICK S \in {{j}, FromOn(j)} :
            \A k \in Jobs : IF k \in S THEN pc'[k] \in Final ELSE pc'[k] = pc[k]
    <3>1. pc' = [k \in Jobs |-> IF k = j THEN "ended"
                                ELSE IF k \in FromOn(j) /\ row[j].status = "cancelled" THEN "raised"
                                ELSE pc[k]]
      BY <1>4 DEF Commit
    <3>2. CASE row[j].status = "cancelled"
      BY <1>2, <3>1, <3>2 DEF Final
    <3>3. CASE row[j].status # "cancelled"
      BY <3>1, <3>3 DEF Final
    <3> QED BY <3>2, <3>3
  <2>6. pc' \in [Jobs -> Steps]
    BY <1>1, <1>4 DEF Commit, Shape, Steps, Final
  <2> QED BY <1>2, <2>1, <2>3, <2>4, <2>5, <2>6, EndKeeps DEF Running
<1> QED BY <1>3, <1>4

(* The process dies: nothing that had begun is left.                       *)
LEMMA CrashKeeps ==
    ASSUME IInv, Crash
    PROVE  IInv'
<1>1. /\ pc' = [j \in Jobs |-> IF pc[j] \in {"queued"} \cup Running THEN "lost" ELSE pc[j]]
      /\ lock' = None /\ UNCHANGED <<db, staged, queued>>
      /\ row' = [j \in Jobs |-> NewJob(j)]
      /\ found' = [j \in Jobs |-> <<>>]
      /\ at' = [j \in Jobs |-> 1]
      /\ created' = [j \in Jobs |-> 0]
      /\ bad' = [j \in Jobs |-> 0]
  BY DEF Crash, Forget, outside
<1>2. \A j \in Jobs : /\ pc'[j] \notin {"queued"} \cup Running
                      /\ pc'[j] = "absent" <=> pc[j] = "absent"
  BY <1>1 DEF Running
<1>3. Shape'
  <2>1. Shape
    BY ShapeHolds
  <2>2. <<>> \in Seq(Result)
    OBVIOUS
  <2>3. row' \in [Jobs -> Job]
    BY <1>1, NewJobType
  <2>4. pc' \in [Jobs -> Steps]
    BY <1>1, <2>1 DEF Shape, Steps, Final
  <2> QED BY <1>1, <2>1, <2>2, <2>3, <2>4 DEF Shape
<1>4. TypeOK'
  <2>1. \A k \in Jobs : (pc[k] \in Acquiring => Last(k) = at[k] /\ at[k] \in DOMAIN found[k])'
    BY <1>2 DEF Acquiring, Running
  <2> QED BY <1>1, <1>3, <2>1 DEF IInv, TypeOK, Shape, Acquiring
<1>5. OneTask'
  BY <1>1, <1>2, JobAssumption DEF OneTask, JobAssumption
<1>6. Undecided'
  BY <1>1, <1>2 DEF IInv, Undecided, NewJob
<1>7. InOrder'
  <2>1. \A b \in Batches : \A i \in DOMAIN b : b[i] \in Jobs
    BY JobAssumption DEF JobAssumption
  <2> QED BY <1>2, <2>1 DEF IInv, InOrder
<1>8. VerdictFits'
  BY <1>1 DEF IInv, VerdictFits, Fits, Live, Album
<1>9. \A k \in Jobs : Counted(k)'
  BY <1>1, <1>2 DEF Counted, Acquiring, Running, NewJob
<1> QED BY <1>4, <1>5, <1>6, <1>7, <1>8, <1>9 DEF IInv

-----------------------------------------------------------------------------
(* The specification.                                                      *)

(* Before the first request there are no jobs.                             *)
LEMMA InitHolds == Init => IInv
<1> SUFFICES ASSUME Init
             PROVE  IInv
  OBVIOUS
<1>1. \A j \in Jobs : /\ pc[j] = "absent" /\ db[j] = None /\ row[j] = NewJob(j)
                      /\ at[j] = 1 /\ created[j] = 0 /\ bad[j] = 0
  BY DEF Init
<1>2. TypeOK
  <2>1. row \in [Jobs -> Job]
    BY NewJobType DEF Init
  <2>2. <<>> \in Seq(Result)
    OBVIOUS
  <2> QED BY <2>1, <2>2 DEF Init, TypeOK, Steps
<1>3. OneTask
  BY <1>1, JobAssumption DEF Init, OneTask, Running, JobAssumption
<1>4. Undecided
  BY <1>1 DEF Undecided, Running
<1>5. InOrder
  <2>1. \A b \in Batches : \A i \in DOMAIN b : b[i] \in Jobs
    BY JobAssumption DEF JobAssumption
  <2> QED BY <1>1, <2>1 DEF InOrder, Running
<1>6. VerdictFits
  BY <1>1 DEF VerdictFits
<1>7. \A j \in Jobs : Counted(j)
  BY <1>1 DEF Counted, Acquiring, Running
<1> QED BY <1>2, <1>3, <1>4, <1>5, <1>6, <1>7 DEF IInv

(* No action, and no stuttering, leaves the invariant.                     *)
LEMMA NextKeeps == IInv /\ [Next]_vars => IInv'
<1> SUFFICES ASSUME IInv, [Next]_vars
             PROVE  IInv'
  OBVIOUS
<1>1. ASSUME NEW b \in Batches, Create(b)
      PROVE  IInv'
  BY <1>1, CreateKeeps
<1>2. ASSUME NEW j \in Jobs, Proceed(j)
      PROVE  IInv'
  <2>1. CASE Start(j)
    BY <2>1, StartKeeps
  <2>2. CASE StartFails(j) \/ Commit(j)
    BY <2>2, EndsKeep
  <2>3. CASE PassesOver(j) \/ Serves(j) \/ Exhausted(j)
    BY <2>3, SearchKeeps
  <2>4. CASE NewTrack(j)
    BY <2>4, NewTrackKeeps
  <2>5. CASE Download(j)
    BY <2>5, DownloadKeeps
  <2>6. CASE Enqueue(j) \/ StatusKnown(j)
    BY <2>6, RefKeeps
  <2>7. CASE DownloadFails(j) \/ EnqueueFails(j) \/ StatusUnknown(j) \/ PreviewFails(j)
    BY <2>7, FailuresKeep
  <2>8. CASE Preview(j)
    BY <2>8, PreviewKeeps
  <2>9. CASE Decide(j)
    BY <2>9, DecideKeeps
  <2> QED BY <1>2, <2>1, <2>2, <2>3, <2>4, <2>5, <2>6, <2>7, <2>8, <2>9 DEF Proceed
<1>3. ASSUME NEW j \in Jobs, LosesSession(j)
      PROVE  IInv'
  BY <1>3, EndsKeep
<1>4. ASSUME NEW j \in Jobs, Cancel(j)
      PROVE  IInv'
  BY <1>4, CancelKeeps
<1>5. CASE Crash
  BY <1>5, CrashKeeps
<1>6. CASE UNCHANGED vars
  <2>1. UNCHANGED <<db, row, lock, pc, found, at, created, bad, staged, queued>>
    BY <1>6 DEF vars
  <2>2. \A j \in Jobs : Counted(j)'
    BY <2>1, CountedKept DEF IInv
  <2>3. TypeOK'
    BY <2>1 DEF IInv, TypeOK, Last
  <2>4. OneTask' /\ InOrder'
    BY <2>1 DEF IInv, OneTask, InOrder
  <2>5. Undecided'
    BY <2>1 DEF IInv, Undecided, NewJob
  <2>6. VerdictFits'
    BY <2>1 DEF IInv, VerdictFits, Fits, Live, Album
  <2> QED BY <2>2, <2>3, <2>4, <2>5, <2>6 DEF IInv
<1> QED BY <1>1, <1>2, <1>3, <1>4, <1>5, <1>6 DEF Next, Rest

(* The invariant is inductive.                                             *)
LEMMA Invariant == Spec => []IInv
  BY InitHolds, NextKeeps, PTL DEF Spec

(* Every variable has its type, and a task that acquires something has the *)
(* track it acquires for, whatever fails and however jobs are batched.     *)
THEOREM TypeCorrect == Spec => []TypeOK
<1>1. IInv => TypeOK
  BY DEF IInv
<1> QED BY <1>1, Invariant, PTL

(* A task has the write lock exactly from its first flush to its end, so   *)
(* no two tasks search, download or transfer at the same time.             *)
THEOREM OneAtATime == Spec => []OneTask
<1>1. IInv => OneTask
  BY DEF IInv
<1> QED BY <1>1, Invariant, PTL

(* For every list of results and every album, done leaves no track that    *)
(* failed, failed none that could still come, partial has both or names    *)
(* what is missing: the counters of run_job never tell another story than  *)
(* the tracks it commits with them.                                        *)
THEOREM VerdictsFit == Spec => []VerdictFits
<1>1. IInv => VerdictFits
  BY DEF IInv
<1> QED BY <1>1, Invariant, PTL

(* What others see of a job goes from pending to its verdict in one step,  *)
(* and no step takes a verdict back.                                       *)
THEOREM VerdictOnce == Spec => OneVerdict
<1> DEFINE Judged == \A j \in Jobs : db'[j] # db[j] =>
              \/ db[j] = None /\ db'[j].status = "pending"
              \/ db[j] # None /\ db[j].status = "pending" /\ db'[j].status \in Verdicts
<1>1. IInv /\ [Next]_vars => [Judged]_vars
  <2> SUFFICES ASSUME IInv, Next, NEW j \in Jobs, db'[j] # db[j]
               PROVE  \/ db[j] = None /\ db'[j].status = "pending"
                      \/ db[j] # None /\ db[j].status = "pending" /\ db'[j].status \in Verdicts
    OBVIOUS
  <2>1. db \in [Jobs -> Job \cup {None}]
    BY DEF IInv, TypeOK
  <2>2. CASE \E b \in Batches : Create(b)
    <3>1. PICK b \in Batches : Create(b)
      BY <2>2
    <3>2. db'[j] = NewJob(j) /\ pc[j] = "absent"
      BY <3>1 DEF Create
    <3> QED BY <3>2, NewJobType DEF IInv, Undecided
  <2>3. CASE \E k \in Jobs : Commit(k)
    <3>1. PICK k \in Jobs : Commit(k)
      BY <2>3
    <3>2. k = j /\ db'[j] = row[j] /\ pc[j] = "flush"
      BY <2>1, <3>1 DEF Commit
    <3>3. row[j].status \in Verdicts
      BY <3>2 DEF IInv, Counted
    <3>4. db[j] = NewJob(j) /\ db[j] # None
      BY <3>2 DEF IInv, Undecided, Running
    <3> QED BY <3>2, <3>3, <3>4, NewJobType
  <2>4. ~(\E b \in Batches : Create(b)) /\ ~(\E k \in Jobs : Commit(k)) => UNCHANGED db
    BY DEF Next, Proceed, Start, StartFails, PassesOver, Serves, Exhausted, NewTrack, Download,
           DownloadFails, Enqueue, EnqueueFails, StatusKnown, StatusUnknown, Preview,
           PreviewFails, Decide, LosesSession, Cancel, Crash, Rest, vars
  <2> QED BY <2>2, <2>3, <2>4
<1> QED BY <1>1, Invariant, PTL DEF Spec, OneVerdict

-----------------------------------------------------------------------------
(***************************************************************************)
(* What is recorded: the source that served, with those asked before it,   *)
(* and what was fetched by a task that has ended.                          *)
(*                                                                         *)
(* Both are properties of committed jobs, which are copies of the row a    *)
(* task has in its session.  The invariant follows the row from the first  *)
(* source asked to the commit.                                             *)
(***************************************************************************)

(* The sources attempted are those up to the one that served.              *)
InTurn(j, r) ==
    /\ r.source = r.served
    /\ Len(r.tried) \in DOMAIN Priority(j)
    /\ r.tried = SubSeq(Priority(j), 1, Len(r.tried))
    /\ r.tried[Len(r.tried)] = r.served

(* What job j has fetched is named by the tracks of r.                     *)
Holds(j, r) ==
    /\ \A f \in staged : f.job = j => \E i \in DOMAIN r.tracks : r.tracks[i].ref = f.media
    /\ \A t \in queued : t.job = j => t.nth \in DOMAIN r.tracks

Waiting == {"absent", "queued"}
Fetching == {"acquire", "enqueue", "check"}

Right(j) ==
    /\ pc[j] = "search" => /\ row[j].served = None
                           /\ at[j] - 1 <= Len(Priority(j))
                           /\ row[j].tried = SubSeq(Priority(j), 1, at[j] - 1)
    /\ row[j].served # None => InTurn(j, row[j])
    /\ db[j] # None /\ db[j].served # None => InTurn(j, db[j])
    /\ pc[j] \in Waiting => /\ \A f \in staged : f.job # j
                            /\ \A t \in queued : t.job # j
    /\ pc[j] \in Running => Holds(j, row[j])
    /\ pc[j] = "ended" => db[j] # None /\ Holds(j, db[j])
    /\ pc[j] \in Fetching => row[j].tracks[Last(j)].ref = None

RInv == IInv /\ \A j \in Jobs : Right(j)

-----------------------------------------------------------------------------
(* What the steps of a task keep of its row.                               *)

SamePast(r, s) == s.source = r.source /\ s.tried = r.tried /\ s.served = r.served

KeepsRefs(r, s) ==
    /\ DOMAIN r.tracks \subseteq DOMAIN s.tracks
    /\ \A i \in DOMAIN r.tracks : r.tracks[i].ref # None => s.tracks[i].ref = r.tracks[i].ref

LEMMA WithStateKeeps ==
    ASSUME NEW r \in Job, r.tracks # <<>>, NEW state \in States
    PROVE  /\ SamePast(r, WithState(r, state)) /\ KeepsRefs(r, WithState(r, state))
           /\ DOMAIN WithState(r, state).tracks = DOMAIN r.tracks
           /\ \A i \in DOMAIN r.tracks : WithState(r, state).tracks[i].ref = r.tracks[i].ref
<1> DEFINE n == Len(r.tracks)
           ts == [r.tracks EXCEPT ![n] = [r.tracks[n] EXCEPT !.state = state]]
<1>1. r.tracks \in Seq(Track) /\ n \in 1 .. Len(r.tracks) /\ DOMAIN r.tracks = 1 .. Len(r.tracks)
  BY DEF Job
<1>2. r.tracks[n] \in Track
  BY <1>1
<1>3. /\ DOMAIN ts = DOMAIN r.tracks
      /\ \A i \in DOMAIN r.tracks : ts[i].ref = r.tracks[i].ref
  BY <1>1, <1>2 DEF Track
<1>4. WithState(r, state) = [r EXCEPT !.tracks = ts]
  BY DEF WithState
<1> HIDE DEF ts
<1>5. WithState(r, state).tracks = ts /\ SamePast(r, WithState(r, state))
  BY <1>4 DEF Job, SamePast
<1> QED BY <1>3, <1>5 DEF KeepsRefs

LEMMA WithRefKeeps ==
    ASSUME NEW r \in Job, r.tracks # <<>>, NEW ref \in Media,
           r.tracks[Len(r.tracks)].ref = None
    PROVE  /\ SamePast(r, WithRef(r, ref)) /\ KeepsRefs(r, WithRef(r, ref))
           /\ Len(r.tracks) \in DOMAIN WithRef(r, ref).tracks
           /\ WithRef(r, ref).tracks[Len(r.tracks)].ref = ref
<1> DEFINE n == Len(r.tracks)
           ts == [r.tracks EXCEPT ![n] = [r.tracks[n] EXCEPT !.ref = ref]]
<1>1. r.tracks \in Seq(Track) /\ n \in 1 .. Len(r.tracks) /\ DOMAIN r.tracks = 1 .. Len(r.tracks)
  BY DEF Job
<1>2. r.tracks[n] \in Track
  BY <1>1
<1>3. /\ DOMAIN ts = DOMAIN r.tracks
      /\ \A i \in DOMAIN r.tracks : i # n => ts[i] = r.tracks[i]
      /\ n \in DOMAIN ts /\ ts[n].ref = ref
  BY <1>1, <1>2 DEF Track
<1>4. WithRef(r, ref) = [r EXCEPT !.tracks = ts]
  BY DEF WithRef
<1> HIDE DEF ts
<1>5. WithRef(r, ref).tracks = ts /\ SamePast(r, WithRef(r, ref))
  BY <1>4 DEF Job, SamePast
<1> QED BY <1>3, <1>5 DEF KeepsRefs

LEMMA CancelledKeeps ==
    ASSUME NEW r \in Job
    PROVE  Cancelled(r).served = None /\ KeepsRefs(r, Cancelled(r))
<1> DEFINE fate(t) == IF t.state = "acquiring" THEN [t EXCEPT !.state = "cancelled"] ELSE t
           ts == [i \in DOMAIN r.tracks |-> fate(r.tracks[i])]
<1>1. r.tracks \in Seq(Track)
  BY DEF Job
<1>2. \A i \in DOMAIN r.tracks : r.tracks[i] \in Track
  BY <1>1
<1>3. DOMAIN ts = DOMAIN r.tracks /\ \A i \in DOMAIN r.tracks : ts[i].ref = r.tracks[i].ref
  BY <1>2 DEF Track
<1>4. Cancelled(r) = [r EXCEPT !.status = "cancelled", !.tried = <<>>, !.served = None, !.tracks = ts]
  BY DEF Cancelled
<1> HIDE DEF ts
<1>5. Cancelled(r).tracks = ts /\ Cancelled(r).served = None
  BY <1>4 DEF Job
<1> QED BY <1>3, <1>5 DEF KeepsRefs

(* One source more is asked.                                               *)
LEMMA OneMore ==
    ASSUME NEW p \in Seq(Sources), NEW n \in 1 .. Len(p)
    PROVE  /\ Append(SubSeq(p, 1, n - 1), p[n]) = SubSeq(p, 1, n)
           /\ Len(SubSeq(p, 1, n)) = n
           /\ SubSeq(p, 1, n)[n] = p[n]
<1> DEFINE s == SubSeq(p, 1, n - 1)
           t == SubSeq(p, 1, n)
<1>1. n \in Nat /\ Len(p) \in Nat /\ \A i \in 1 .. n : p[i] \in Sources
  OBVIOUS
<1>2. /\ s \in Seq(Sources) /\ Len(s) = n - 1
      /\ \A i \in 1 .. n - 1 : s[i] = p[i]
  BY <1>1, SubSeqProperties
<1>3. /\ t \in Seq(Sources) /\ Len(t) = n
      /\ \A i \in 1 .. n : t[i] = p[i]
  BY <1>1, SubSeqProperties
<1> HIDE DEF s, t
<1>4. /\ Append(s, p[n]) \in Seq(Sources) /\ Len(Append(s, p[n])) = n
      /\ \A i \in 1 .. n : Append(s, p[n])[i] = p[i]
  BY <1>1, <1>2
<1>5. Append(s, p[n]) = t
  BY <1>1, <1>3, <1>4
<1> QED BY <1>1, <1>3, <1>5 DEF s, t

-----------------------------------------------------------------------------
(* Steps in general.                                                       *)

(* The row and what is fetched change for job j alone; other tasks may end. *)
Alone(j) ==
    \A k \in Jobs \ {j} :
        /\ row'[k] = row[k] /\ db'[k] = db[k] /\ at'[k] = at[k]
        /\ pc'[k] = pc[k] \/ pc'[k] = "raised"
        /\ \A f \in staged' : f.job = k => f \in staged
        /\ \A t \in queued' : t.job = k => t \in queued

LEMMA OthersRight ==
    ASSUME RInv, NEW j \in Jobs, Alone(j), NEW k \in Jobs, k # j
    PROVE  Right(k)'
<1>1. Right(k)
  BY DEF RInv
<1>2. /\ row'[k] = row[k] /\ db'[k] = db[k] /\ at'[k] = at[k]
      /\ pc'[k] = pc[k] \/ pc'[k] = "raised"
      /\ \A f \in staged' : f.job = k => f \in staged
      /\ \A t \in queued' : t.job = k => t \in queued
  BY DEF Alone
<1>3. "raised" \notin Waiting \cup Running \cup Fetching \cup {"search", "ended"}
  BY DEF Waiting, Running, Fetching
<1> QED BY <1>1, <1>2, <1>3 DEF Right, Holds, InTurn, Priority, Last

(* Names outlast a step that keeps references.                             *)
LEMMA StillHolds ==
    ASSUME IInv, NEW j \in Jobs, NEW r, NEW s, Holds(j, r), KeepsRefs(r, s)
    PROVE  Holds(j, s)
<1>1. \A f \in staged : f.media # None
  BY JobAssumption DEF JobAssumption, IInv, TypeOK
<1> QED BY <1>1 DEF Holds, KeepsRefs

(* A step of a task behind its search, which may fetch something it names. *)
Inside(j) ==
    /\ Alone(j)
    /\ pc[j] \in Running /\ pc'[j] \in Running \ {"search"}
    /\ db'[j] = db[j]
    /\ KeepsRefs(row[j], row'[j])
    /\ \A f \in staged' \ staged : \E i \in DOMAIN row'[j].tracks : row'[j].tracks[i].ref = f.media
    /\ \A t \in queued' \ queued : t.nth \in DOMAIN row'[j].tracks
    /\ pc'[j] \in Fetching => (row[j].tracks[Last(j)].ref = None)'

LEMMA InsideRight ==
    ASSUME RInv, IInv', NEW j \in Jobs, Inside(j),
           SamePast(row[j], row'[j]) \/ row'[j].served = None
    PROVE  RInv'
<1>1. Right(j) /\ Holds(j, row[j]) /\ IInv
  BY DEF RInv, Inside, Right
<1>2. Holds(j, row'[j])
  BY <1>1, StillHolds DEF Inside
<1>3. Holds(j, row[j])'
  BY <1>2 DEF Holds, Inside
<1>4. row'[j].served # None => InTurn(j, row'[j])
  <2>1. SamePast(row[j], row'[j]) /\ row'[j].served # None => InTurn(j, row'[j])
    BY <1>1 DEF Right, SamePast, InTurn
  <2> QED BY <2>1
<1>5. Right(j)'
  <2>1. pc'[j] \notin Waiting \cup {"search", "ended"}
    BY DEF Inside, Running, Waiting
  <2>2. (row[j].served # None => InTurn(j, row[j]))'
    BY <1>4 DEF InTurn, Priority
  <2>3. (db[j] # None /\ db[j].served # None => InTurn(j, db[j]))'
    BY <1>1 DEF Right, Inside, InTurn, Priority
  <2> QED BY <1>3, <2>1, <2>2, <2>3 DEF Right, Inside
<1> QED BY <1>5, OthersRight DEF RInv, Inside

(* A task is over without a commit, with the others of its batch perhaps.  *)
LEMMA RaisesRight ==
    ASSUME RInv, IInv', NEW j \in Jobs, Raises(j), UNCHANGED <<db, outside>>
    PROVE  RInv'
<1>1. j \in FromOn(j)
  <2>1. BatchOf(j) \in Seq(Jobs) /\ \E n \in DOMAIN BatchOf(j) : BatchOf(j)[n] = j
    BY OneBatch, JobAssumption DEF JobAssumption
  <2>2. PICK n \in DOMAIN BatchOf(j) : BatchOf(j)[n] = j
    BY <2>1
  <2>3. n <= n
    BY <2>1
  <2> QED BY <2>2, <2>3 DEF FromOn
<1>2. Alone(j)
  BY DEF Alone, Raises, Forget, outside
<1>3. pc'[j] = "raised" /\ row'[j] = NewJob(j) /\ db'[j] = db[j]
  BY <1>1 DEF Raises, Forget
<1>4. NewJob(j).served = None
  BY DEF NewJob
<1>5. Right(j)'
  <2>1. Right(j)
    BY DEF RInv
  <2> QED BY <1>3, <1>4, <2>1 DEF Right, InTurn, Priority, Waiting, Running, Fetching
<1> QED BY <1>2, <1>5, OthersRight DEF RInv

-----------------------------------------------------------------------------
(* The actions.                                                            *)

LEMMA CreateRight ==
    ASSUME RInv, IInv', NEW b \in Batches, Create(b)
    PROVE  RInv'
<1> SUFFICES ASSUME NEW j \in Jobs PROVE Right(j)'
  BY DEF RInv
<1>1. Right(j) /\ row' = row /\ at' = at /\ staged' = staged /\ queued' = queued
  BY DEF RInv, Create, progress, outside
<1>2. CASE \E i \in DOMAIN b : b[i] = j
  <2>1. pc[j] = "absent" /\ pc'[j] = "queued" /\ db'[j] = NewJob(j) /\ db'[j].served = None
    BY <1>2 DEF Create, NewJob
  <2> QED BY <1>1, <2>1 DEF Right, InTurn, Priority, Waiting, Running, Fetching
<1>3. CASE ~\E i \in DOMAIN b : b[i] = j
  <2>1. pc'[j] = pc[j] /\ db'[j] = db[j]
    BY <1>3 DEF Create
  <2> QED BY <1>1, <2>1 DEF Right, Holds, InTurn, Priority, Last
<1> QED BY <1>2, <1>3

LEMMA StartRight ==
    ASSUME RInv, IInv', NEW j \in Jobs, Start(j)
    PROVE  RInv'
<1>1. IInv /\ Right(j) /\ Shape /\ pc[j] = "queued" /\ db[j] = NewJob(j)
  BY ShapeHolds DEF RInv, Start, Due, IInv, Undecided
<1>2. at[j] = 1 /\ row[j] = NewJob(j)
  BY <1>1 DEF IInv, Counted, Running
<1> DEFINE r == [db[j] EXCEPT !.status = "running"]
<1>3. r.served = None /\ r.tried = <<>>
  BY <1>1 DEF NewJob
<1>4. row'[j] = r /\ db' = db /\ at' = at /\ staged' = staged /\ queued' = queued
  BY <1>1 DEF Start, Shape, outside
<1>5. pc'[j] \in {"search", "track"}
  BY <1>1 DEF Start, Goto, Shape
<1>6. Alone(j)
  BY <1>1 DEF Alone, Start, Goto, outside, Shape
<1> HIDE DEF r
<1>7. SubSeq(Priority(j), 1, 0) = <<>> /\ Len(Priority(j)) \in Nat
  BY SubSeqEmpty, PriorityType
<1>8. Holds(j, row[j])'
  BY <1>1, <1>4 DEF Right, Waiting, Holds
<1>9. Right(j)'
  <2>1. (pc[j] = "search" => /\ row[j].served = None
                             /\ at[j] - 1 <= Len(Priority(j))
                             /\ row[j].tried = SubSeq(Priority(j), 1, at[j] - 1))'
    <3>1. at'[j] - 1 = 0 /\ Priority(j)' = Priority(j)
      BY <1>2, <1>4 DEF Priority
    <3>2. row'[j].served = None /\ row'[j].tried = SubSeq(Priority(j), 1, 0)
      BY <1>3, <1>4, <1>7
    <3> QED BY <1>7, <3>1, <3>2
  <2>2. (row[j].served # None => InTurn(j, row[j]))'
    BY <1>3, <1>4
  <2>3. (db[j] # None /\ db[j].served # None => InTurn(j, db[j]))'
    BY <1>1, <1>4 DEF Right, InTurn, Priority
  <2> QED BY <1>5, <1>8, <2>1, <2>2, <2>3 DEF Right, Waiting, Fetching
<1> QED BY <1>6, <1>9, OthersRight DEF RInv

LEMMA SearchRight ==
    ASSUME RInv, IInv', NEW j \in Jobs, PassesOver(j) \/ Serves(j) \/ Exhausted(j)
    PROVE  RInv'
<1>1. IInv /\ Right(j) /\ Shape /\ row[j] \in Job /\ pc[j] = "search"
  BY ShapeHolds DEF RInv, Shape, PassesOver, Serves, Exhausted, Trying
<1>2. /\ row[j].served = None /\ at[j] - 1 <= Len(Priority(j)) /\ at[j] \in Nat \ {0}
      /\ row[j].tried = SubSeq(Priority(j), 1, at[j] - 1)
      /\ row[j].tracks = <<>>
  BY <1>1 DEF Right, Shape, IInv, Counted
<1>3. /\ db' = db /\ staged' = staged /\ queued' = queued /\ Holds(j, row[j])
      /\ (db[j] # None /\ db[j].served # None => InTurn(j, db[j]))
  BY <1>1 DEF PassesOver, Serves, Exhausted, outside, Right, Running
<1>4. Alone(j)
  <2>1. CASE PassesOver(j)
    BY <1>1, <2>1 DEF Alone, PassesOver, outside, Shape
  <2>2. CASE Serves(j)
    BY <1>1, <2>2 DEF Alone, Serves, Goto, outside, Shape
  <2>3. CASE Exhausted(j)
    BY <1>1, <2>3 DEF Alone, Exhausted, Goto, outside, progress, Shape
  <2> QED BY <2>1, <2>2, <2>3
<1>5. Priority(j)' = Priority(j)
  BY DEF Priority
<1>6. Trying(j) =>
        /\ at[j] \in DOMAIN Priority(j) /\ Len(SubSeq(Priority(j), 1, at[j])) = at[j]
        /\ Append(row[j].tried, Priority(j)[at[j]]) = SubSeq(Priority(j), 1, at[j])
        /\ SubSeq(Priority(j), 1, at[j])[at[j]] = Priority(j)[at[j]]
  <2> SUFFICES ASSUME Trying(j)
               PROVE  /\ at[j] \in DOMAIN Priority(j)
                      /\ Len(SubSeq(Priority(j), 1, at[j])) = at[j]
                      /\ Append(row[j].tried, Priority(j)[at[j]]) = SubSeq(Priority(j), 1, at[j])
                      /\ SubSeq(Priority(j), 1, at[j])[at[j]] = Priority(j)[at[j]]
    OBVIOUS
  <2>1. Priority(j) \in Seq(Sources) /\ at[j] \in 1 .. Len(Priority(j))
    BY <1>2, PriorityType DEF Trying
  <2> DEFINE p == Priority(j)
             n == at[j]
  <2>2. /\ Append(SubSeq(p, 1, n - 1), p[n]) = SubSeq(p, 1, n)
        /\ Len(SubSeq(p, 1, n)) = n
        /\ SubSeq(p, 1, n)[n] = p[n]
    <3>1. p \in Seq(Sources) /\ n \in 1 .. Len(p)
      BY <2>1
    <3> HIDE DEF p, n
    <3> QED BY <3>1, OneMore
  <2> QED BY <1>2, <2>1, <2>2
<1>7. CASE PassesOver(j)
  <2> DEFINE r == [row[j] EXCEPT !.tried = Append(@, Priority(j)[at[j]])]
  <2>1. row'[j] = r /\ at'[j] = at[j] + 1 /\ pc' = pc
    BY <1>1, <1>7 DEF PassesOver, Shape
  <2>2. r.served = None /\ r.tracks = <<>> /\ r.tried = Append(row[j].tried, Priority(j)[at[j]])
    BY <1>1, <1>2 DEF Job
  <2> HIDE DEF r
  <2>3. at[j] <= Len(Priority(j)) /\ r.tried = SubSeq(Priority(j), 1, at[j])
    BY <1>6, <1>7, <2>2 DEF PassesOver, Trying
  <2>4. Right(j)'
    <3>1. Holds(j, row[j])'
      BY <1>2, <1>3, <2>1, <2>2 DEF Holds
    <3>2. at'[j] - 1 = at[j]
      BY <1>2, <2>1
    <3>3. (db[j] # None /\ db[j].served # None => InTurn(j, db[j]))'
      BY <1>3, <1>5 DEF InTurn
    <3> QED BY <1>1, <1>5, <2>1, <2>2, <2>3, <3>1, <3>2, <3>3
            DEF Right, Waiting, Fetching, Running
  <2> QED BY <1>4, <2>4, OthersRight DEF RInv
<1>8. CASE Serves(j)
  <2> DEFINE source == Priority(j)[at[j]]
             r == [row[j] EXCEPT !.tried = Append(@, source), !.source = source, !.served = source]
  <2>1. row'[j] = r /\ pc'[j] = "track"
    BY <1>1, <1>8 DEF Serves, Shape, Goto
  <2>2. /\ r.served = source /\ r.source = source /\ r.tracks = <<>>
        /\ r.tried = Append(row[j].tried, source)
    BY <1>1, <1>2 DEF Job
  <2> HIDE DEF r
  <2>3. r.tried = SubSeq(Priority(j), 1, at[j]) /\ Len(r.tried) = at[j]
        /\ at[j] \in DOMAIN Priority(j) /\ r.tried[at[j]] = source
    BY <1>6, <1>8, <2>2 DEF Serves
  <2>4. InTurn(j, r)
    BY <2>2, <2>3 DEF InTurn
  <2>5. Right(j)'
    <3>1. Holds(j, row[j])'
      BY <1>2, <1>3, <2>1, <2>2 DEF Holds
    <3>2. InTurn(j, row[j])'
      BY <1>5, <2>1, <2>4 DEF InTurn
    <3>3. (db[j] # None /\ db[j].served # None => InTurn(j, db[j]))'
      BY <1>3, <1>5 DEF InTurn
    <3> QED BY <2>1, <3>1, <3>2, <3>3 DEF Right, Waiting, Fetching, Running
  <2> QED BY <1>4, <2>5, OthersRight DEF RInv
<1>9. CASE Exhausted(j)
  <2> DEFINE r == [row[j] EXCEPT !.status = "failed", !.tried = <<>>, !.served = None]
  <2>1. row'[j] = r /\ pc'[j] = "flush"
    BY <1>1, <1>9 DEF Exhausted, Shape, Goto
  <2>2. r.served = None /\ r.tracks = <<>>
    BY <1>1, <1>2 DEF Job
  <2> HIDE DEF r
  <2>3. Inside(j)
    BY <1>1, <1>2, <1>3, <1>4, <2>1, <2>2 DEF Inside, KeepsRefs, Running, Fetching
  <2> QED BY <2>1, <2>2, <2>3, InsideRight
<1> QED BY <1>7, <1>8, <1>9

LEMMA NewTrackRight ==
    ASSUME RInv, IInv', NEW j \in Jobs, NewTrack(j)
    PROVE  RInv'
<1> DEFINE t == [of |-> CatalogTrack(j), media |-> Current(j).media,
                 state |-> "acquiring", ref |-> None]
           ts == Append(row[j].tracks, t)
           r == [row[j] EXCEPT !.tracks = ts]
<1>1. IInv /\ Shape /\ row[j] \in Job /\ pc[j] = "track" /\ at[j] <= Len(found[j])
  BY ShapeHolds DEF RInv, Shape, NewTrack
<1>2. t \in Track /\ t.ref = None
  <2>1. CatalogTrack(j) \in Catalog \cup {None} /\ Current(j) \in Result
    BY <1>1, CatalogTrackType DEF IInv
  <2> QED BY <2>1 DEF Track, Result
<1>3. row[j].tracks \in Seq(Track)
  BY <1>1 DEF Job
<1>4. row'[j] = r /\ pc'[j] \in {"acquire", "enqueue"}
  <2>1. row'[j] = r
    BY <1>1 DEF NewTrack, Shape
  <2> QED BY <1>1, <2>1 DEF NewTrack, Goto, Shape
<1>5. db' = db /\ staged' = staged /\ queued' = queued /\ Alone(j)
  BY <1>1 DEF NewTrack, Alone, Goto, outside, Shape
<1> HIDE DEF t
<1>6. /\ Len(ts) \in DOMAIN ts /\ ts[Len(ts)] = t
      /\ DOMAIN row[j].tracks \subseteq DOMAIN ts
      /\ \A i \in DOMAIN row[j].tracks : ts[i] = row[j].tracks[i]
  BY <1>2, <1>3
<1> HIDE DEF ts
<1>7. r.tracks = ts /\ SamePast(row[j], r)
  BY <1>1 DEF Job, SamePast
<1> HIDE DEF r
<1>8. Inside(j)
  <2>1. (row[j].tracks[Last(j)].ref = None)'
    BY <1>2, <1>4, <1>6, <1>7 DEF Last
  <2>2. KeepsRefs(row[j], row'[j])
    BY <1>4, <1>6, <1>7 DEF KeepsRefs
  <2> QED BY <1>1, <1>4, <1>5, <2>1, <2>2 DEF Inside, Running
<1> QED BY <1>4, <1>7, <1>8, InsideRight

LEMMA FailureRight ==
    ASSUME RInv, IInv', NEW j \in Jobs,
           DownloadFails(j) \/ EnqueueFails(j) \/ StatusUnknown(j) \/ PreviewFails(j)
    PROVE  RInv'
<1>1. IInv /\ Shape /\ pc[j] \in Acquiring
  BY ShapeHolds DEF RInv, DownloadFails, EnqueueFails, StatusUnknown, PreviewFails, Acquiring
<1>2. row[j] \in Job /\ row[j].tracks # <<>> /\ Last(j) \in DOMAIN row[j].tracks
  BY <1>1, AtTrack DEF Last
<1>3. FailTrack(j) /\ db' = db /\ staged' = staged /\ (queued' = queued \/ Accepted(j))
  BY DEF DownloadFails, EnqueueFails, StatusUnknown, PreviewFails, outside
<1>4. PICK r : r = WithState(row[j], "failed")
  OBVIOUS
<1>5. /\ SamePast(row[j], r) /\ KeepsRefs(row[j], r) /\ DOMAIN r.tracks = DOMAIN row[j].tracks
  BY <1>2, <1>4, WithStateKeeps DEF States
<1>6. row'[j] = r /\ pc'[j] = "track" /\ Alone(j)
  BY <1>1, <1>3, <1>4 DEF FailTrack, Goto, Shape, Alone, Accepted
<1>7. Inside(j)
  BY <1>1, <1>2, <1>3, <1>5, <1>6 DEF Inside, Running, Acquiring, Fetching, Accepted
<1> QED BY <1>5, <1>6, <1>7, InsideRight

LEMMA DownloadRight ==
    ASSUME RInv, IInv', NEW j \in Jobs, Download(j)
    PROVE  RInv'
<1>1. IInv /\ Shape /\ pc[j] \in Acquiring /\ pc[j] \in Fetching
  BY ShapeHolds DEF RInv, Download, Acquiring, Fetching
<1>2. /\ row[j] \in Job /\ row[j].tracks # <<>> /\ Last(j) \in DOMAIN row[j].tracks
      /\ Current(j).media \in Media /\ row[j].tracks[Last(j)].ref = None
  BY <1>1, AtTrack DEF Last, RInv, Right
<1>3. PICK d : d = WithState(row[j], "downloaded")
  OBVIOUS
<1>4. /\ d \in Job /\ Len(d.tracks) = Len(row[j].tracks)
      /\ SamePast(row[j], d) /\ KeepsRefs(row[j], d) /\ DOMAIN d.tracks = DOMAIN row[j].tracks
      /\ \A i \in DOMAIN row[j].tracks : d.tracks[i].ref = row[j].tracks[i].ref
  BY <1>2, <1>3, WithStateType, WithStateKeeps DEF States
<1>5. PICK m \in Media : m = Current(j).media
  BY <1>2
<1>6. PICK r : r = WithRef(d, m)
  OBVIOUS
<1>7. d.tracks # <<>> /\ d.tracks[Len(d.tracks)].ref = None
  BY <1>2, <1>4 DEF Last
<1>8. /\ SamePast(d, r) /\ KeepsRefs(d, r)
      /\ Len(d.tracks) \in DOMAIN r.tracks /\ r.tracks[Len(d.tracks)].ref = m
  BY <1>4, <1>6, <1>7, WithRefKeeps
<1>9. SamePast(row[j], r) /\ KeepsRefs(row[j], r)
  BY <1>4, <1>8 DEF SamePast, KeepsRefs
<1>10. /\ row'[j] = r /\ pc'[j] = "preview" /\ db' = db /\ queued' = queued
       /\ staged' = staged \cup {[media |-> m, job |-> j]}
  BY <1>1, <1>3, <1>5, <1>6 DEF Download, Goto, Shape
<1>11. Alone(j)
  BY <1>1, <1>10 DEF Download, Goto, Shape, Alone, progress
<1>12. Inside(j)
  BY <1>1, <1>8, <1>9, <1>10, <1>11 DEF Inside, Running, Acquiring, Fetching
<1> QED BY <1>9, <1>10, <1>12, InsideRight

LEMMA AcceptRight ==
    ASSUME RInv, IInv', NEW j \in Jobs, Enqueue(j) \/ StatusKnown(j)
    PROVE  RInv'
<1>1. IInv /\ Shape /\ pc[j] \in Acquiring /\ pc[j] \in Fetching
  BY ShapeHolds DEF RInv, Enqueue, StatusKnown, Acquiring, Fetching
<1>2. /\ row[j] \in Job /\ row[j].tracks # <<>> /\ Last(j) \in DOMAIN row[j].tracks
      /\ Current(j).media \in Media /\ row[j].tracks[Len(row[j].tracks)].ref = None
  BY <1>1, AtTrack DEF Last, RInv, Right
<1>3. PICK m \in Media : m = Current(j).media
  BY <1>2
<1>4. PICK s : s = WithRef(row[j], m)
  OBVIOUS
<1>5. SamePast(row[j], s) /\ KeepsRefs(row[j], s)
  BY <1>2, <1>4, WithRefKeeps
<1>6. /\ db' = db /\ staged' = staged /\ (queued' = queued \/ Accepted(j))
      /\ \/ row'[j] = s /\ pc'[j] = "preview"
         \/ row'[j] = row[j] /\ pc'[j] = "check"
  BY <1>1, <1>3, <1>4 DEF Enqueue, StatusKnown, Goto, Shape, outside
<1>7. Alone(j)
  BY <1>1 DEF Enqueue, StatusKnown, Goto, Shape, Alone, progress, outside, Accepted
<1>8. SamePast(row[j], row'[j]) /\ KeepsRefs(row[j], row'[j])
  BY <1>5, <1>6 DEF SamePast, KeepsRefs
<1>9. pc'[j] \in Fetching => (row[j].tracks[Last(j)].ref = None)'
  BY <1>2, <1>6 DEF Fetching, Last
<1>10. Last(j) \in DOMAIN row'[j].tracks
  BY <1>2, <1>8 DEF KeepsRefs
<1>11. Inside(j)
  BY <1>1, <1>6, <1>7, <1>8, <1>9, <1>10 DEF Inside, Running, Acquiring, Fetching, Accepted
<1> QED BY <1>8, <1>11, InsideRight

LEMMA PreviewRight ==
    ASSUME RInv, IInv', NEW j \in Jobs, Preview(j) \/ Decide(j)
    PROVE  RInv'
<1>1. IInv /\ Shape /\ row[j] \in Job /\ pc[j] \in {"preview", "track"}
  BY ShapeHolds DEF RInv, Shape, Preview, Decide
<1>2. /\ db' = db /\ staged' = staged /\ queued' = queued
      /\ pc'[j] \in {"track", "flush"}
  BY <1>1 DEF Preview, Decide, Goto, Shape, outside
<1>3. Alone(j)
  <2>1. CASE Preview(j)
    BY <1>1, <2>1 DEF Preview, Goto, Shape, Alone, outside
  <2>2. CASE Decide(j)
    BY <1>1, <2>2 DEF Decide, Goto, Shape, Alone, progress, outside
  <2> QED BY <2>1, <2>2
<1>4. row'[j].tracks = row[j].tracks /\ SamePast(row[j], row'[j])
  <2>1. CASE Preview(j)
    BY <2>1 DEF Preview, SamePast
  <2>2. CASE Decide(j)
    <3>1. \E status, missing :
            row'[j] = [row[j] EXCEPT !.status = status, !.missing = missing]
      <4>1. ASSUME NEW status, row' = [row EXCEPT ![j] = [row[j] EXCEPT !.status = status]]
            PROVE  row'[j] = [row[j] EXCEPT !.status = status, !.missing = row[j].missing]
        <5>1. row'[j] = [row[j] EXCEPT !.status = status]
          BY <1>1, <4>1 DEF Shape
        <5> QED BY <1>1, <5>1 DEF Job
      <4>2. ASSUME NEW status, NEW missing,
                   row' = [row EXCEPT ![j] = [row[j] EXCEPT !.status = status, !.missing = missing]]
            PROVE  row'[j] = [row[j] EXCEPT !.status = status, !.missing = missing]
        BY <1>1, <4>2 DEF Shape
      <4>3. \/ \E status : row' = [row EXCEPT ![j] = [row[j] EXCEPT !.status = status]]
            \/ \E status, missing : row' = [row EXCEPT ![j] =
                  [row[j] EXCEPT !.status = status, !.missing = missing]]
        BY <2>2, Zenon DEF Decide
      <4> QED BY <4>1, <4>2, <4>3, Zenon
    <3>2. PICK status, missing :
            row'[j] = [row[j] EXCEPT !.status = status, !.missing = missing]
      BY <3>1
    <3> QED BY <1>1, <3>2 DEF Job, SamePast
  <2> QED BY <2>1, <2>2
<1>5. Inside(j)
  BY <1>1, <1>2, <1>3, <1>4 DEF Inside, KeepsRefs, Running, Fetching
<1> QED BY <1>4, <1>5, InsideRight

LEMMA CancelRight ==
    ASSUME RInv, IInv', NEW j \in Jobs, Cancel(j)
    PROVE  RInv'
<1>1. IInv /\ Shape /\ row[j] \in Job /\ pc[j] \in Running
  BY ShapeHolds DEF RInv, Shape, Cancel, Running
<1>2. PICK r : r = Cancelled(row[j])
  OBVIOUS
<1>3. r.served = None /\ KeepsRefs(row[j], r)
  BY <1>1, <1>2, CancelledKeeps
<1>4. /\ row'[j] = r /\ pc'[j] = "flush" /\ db' = db /\ staged' = staged
      /\ queued' = queued \/ (pc[j] = "enqueue" /\ Accepted(j))
  BY <1>1, <1>2 DEF Cancel, Goto, Shape
<1>5. Alone(j)
  BY <1>1 DEF Cancel, Goto, Shape, Alone, progress, Accepted
<1>6. \A t \in queued' \ queued : t.nth \in DOMAIN row'[j].tracks
  <2>1. pc[j] = "enqueue" => Last(j) \in DOMAIN row[j].tracks
    BY <1>1, AtTrack DEF Last, Acquiring
  <2> QED BY <1>3, <1>4, <2>1 DEF Accepted, KeepsRefs
<1>7. Inside(j)
  BY <1>1, <1>3, <1>4, <1>5, <1>6 DEF Inside, Running, Fetching
<1> QED BY <1>3, <1>4, <1>7, InsideRight

(* The committed job is the row.                                           *)
LEMMA CommitRight ==
    ASSUME RInv, IInv', NEW j \in Jobs, Commit(j)
    PROVE  RInv'
<1>1. IInv /\ Shape /\ Right(j) /\ pc[j] = "flush" /\ db \in [Jobs -> Job \cup {None}]
  BY ShapeHolds DEF RInv, IInv, TypeOK, Commit
<1>2. row[j] \in Job /\ row[j] # None /\ Holds(j, row[j])
  BY <1>1, NoneAssumption DEF Right, Running, Shape
<1>3. /\ db'[j] = row[j] /\ row'[j] = NewJob(j) /\ pc'[j] = "ended"
      /\ staged' = staged /\ queued' = queued
  BY <1>1 DEF Commit, Forget, outside
<1>4. Alone(j)
  BY <1>1 DEF Commit, Forget, Alone, outside
<1>5. NewJob(j).served = None
  BY DEF NewJob
<1>6. Right(j)'
  <2>1. Holds(j, db[j])' /\ db'[j] # None
    BY <1>2, <1>3 DEF Holds
  <2>2. (db[j].served # None => InTurn(j, db[j]))'
    BY <1>1, <1>3 DEF Right, InTurn, Priority
  <2> QED BY <1>3, <1>5, <2>1, <2>2 DEF Right, Waiting, Running, Fetching
<1> QED BY <1>4, <1>6, OthersRight DEF RInv

LEMMA CrashRight ==
    ASSUME RInv, IInv', Crash
    PROVE  RInv'
<1> SUFFICES ASSUME NEW j \in Jobs PROVE Right(j)'
  BY DEF RInv
<1>1. Right(j) /\ row'[j] = NewJob(j) /\ db' = db /\ staged' = staged /\ queued' = queued
  BY DEF RInv, Crash, Forget, outside
<1>2. /\ pc[j] \in {"queued"} \cup Running => pc'[j] = "lost"
      /\ pc[j] \notin {"queued"} \cup Running => pc'[j] = pc[j]
  BY DEF Crash
<1>3. NewJob(j).served = None
  BY DEF NewJob
<1>4. pc'[j] \notin Running \cup {"queued"}
  BY <1>2 DEF Running
<1> QED BY <1>1, <1>2, <1>3, <1>4 DEF Right, Holds, InTurn, Priority, Waiting, Running, Fetching

LEMMA InitRight == Init => RInv
<1> SUFFICES ASSUME Init PROVE RInv
  OBVIOUS
<1>1. ASSUME NEW j \in Jobs PROVE Right(j)
  <2>1. /\ db[j] = None /\ row[j] = NewJob(j) /\ pc[j] = "absent"
        /\ staged = {} /\ queued = {}
    BY DEF Init
  <2>2. NewJob(j).served = None
    BY DEF NewJob
  <2> QED BY <2>1, <2>2 DEF Right, Waiting, Running, Fetching
<1> QED BY <1>1, InitHolds DEF RInv

LEMMA NextRight == RInv /\ [Next]_vars => RInv'
<1> SUFFICES ASSUME RInv, [Next]_vars PROVE RInv'
  OBVIOUS
<1>1. IInv'
  BY NextKeeps DEF RInv
<1>2. ASSUME NEW j \in Jobs, Proceed(j) PROVE RInv'
  <2>1. CASE Start(j) BY <1>1, <2>1, StartRight
  <2>2. CASE StartFails(j) BY <1>1, <2>2, RaisesRight DEF StartFails
  <2>3. CASE PassesOver(j) \/ Serves(j) \/ Exhausted(j) BY <1>1, <2>3, SearchRight
  <2>4. CASE NewTrack(j) BY <1>1, <2>4, NewTrackRight
  <2>5. CASE Download(j) BY <1>1, <2>5, DownloadRight
  <2>6. CASE Enqueue(j) \/ StatusKnown(j) BY <1>1, <2>6, AcceptRight
  <2>7. CASE DownloadFails(j) \/ EnqueueFails(j) \/ StatusUnknown(j) \/ PreviewFails(j)
    BY <1>1, <2>7, FailureRight
  <2>8. CASE Preview(j) \/ Decide(j) BY <1>1, <2>8, PreviewRight
  <2>9. CASE Commit(j) BY <1>1, <2>9, CommitRight
  <2> QED BY <1>2, <2>1, <2>2, <2>3, <2>4, <2>5, <2>6, <2>7, <2>8, <2>9 DEF Proceed
<1>3. ASSUME NEW j \in Jobs, LosesSession(j) PROVE RInv'
  BY <1>1, <1>3, RaisesRight DEF LosesSession
<1>4. CASE UNCHANGED vars
  <2>1. UNCHANGED <<db, row, pc, at, staged, queued>>
    BY <1>4 DEF vars
  <2>2. ASSUME NEW j \in Jobs PROVE Right(j)'
    <3>1. Right(j)
      BY DEF RInv
    <3> QED BY <2>1, <3>1 DEF Right, Holds, InTurn, Priority, Last
  <2> QED BY <1>1, <2>2 DEF RInv
<1> QED BY <1>1, <1>2, <1>3, <1>4, CreateRight, CancelRight, CrashRight DEF Next, Rest

LEMMA RecordInvariant == Spec => []RInv
  BY InitRight, NextRight, PTL DEF Spec

(* For any priority and whatever the sources answer: the source a job      *)
(* records is the one whose results it has taken, and the sources recorded *)
(* as attempted are all those before it, in order (_fetch_results).        *)
THEOREM RecordsWhoServed == Spec => []ServedInTurn
<1>1. RInv => ServedInTurn
  <2> SUFFICES ASSUME RInv, NEW j \in Jobs, db[j] # None, db[j].served # None
               PROVE  InTurn(j, db[j])
    BY DEF ServedInTurn, InTurn
  <2> QED BY DEF RInv, Right
<1> QED BY <1>1, RecordInvariant, PTL

(* A task that ends by itself or is cancelled leaves no staged file and no *)
(* accepted transfer that its tracks do not name, however many of its      *)
(* tracks failed (run_job, _prepare_acquisition).                          *)
THEOREM RecordsWhatIsFetched == Spec => []FetchedIsRecorded
<1>1. RInv => FetchedIsRecorded
  <2> SUFFICES ASSUME RInv PROVE FetchedIsRecorded
    OBVIOUS
  <2>1. staged \subseteq [media : Media, job : Jobs] /\ queued \subseteq [job : Jobs, nth : Nat \ {0}]
    BY DEF RInv, IInv, TypeOK
  <2>2. \A j \in Jobs : pc[j] = "ended" => db[j] # None /\ Holds(j, db[j])
    BY DEF RInv, Right
  <2> QED BY <2>1, <2>2 DEF FetchedIsRecorded, Named, Holds
<1> QED BY <1>1, RecordInvariant, PTL
=============================================================================
