---------------------------- MODULE LibraryPages ----------------------------
(***************************************************************************)
(* The pages about the library (services/catalog.py) and the scan that     *)
(* fills in what the files say (services/catalog_reconcile.py).            *)
(*                                                                         *)
(* A reader goes from page to page of a listing while jobs add tracks;     *)
(* each page is two statements, a count and a read, and each statement     *)
(* sees the tracks committed so far.  The scan runs when the container     *)
(* starts, before the application; it may fail, or stop at its bound.      *)
(*                                                                         *)
(* A text column is 0 if it is NULL, 1 if it is empty, and more else.      *)
(***************************************************************************)
EXTENDS Integers, Sequences, FiniteSets, FiniteSetsExt, SequencesExt, Positions

CONSTANTS Pool,       \* tracks that may be in the library
          Of,         \* their columns
          Known,      \* what is known of their files when they are added
          Listings,   \* listings a reader may go through
          Detail,     \* the artist of the detail pages
          PerPage,    \* items on a page
          BatchSize, MaxRows, \* bounds of the scan
          ReadableAtFirst,    \* tracks whose files can be read from the start
          MountedLate,        \* tracks whose files may become readable later
          MaxFailures         \* bound on the scans that fail

NULL == 0
EMPTY == 1
Facts == {"format", "size"}
Columns == {"artist", "album", "year", "release", "title", "no", "duration"}

ASSUME PagesAssumption ==
  /\ Of \in [Pool -> [Columns -> Nat]]
  /\ Known \in [Pool -> SUBSET Facts]
  /\ \A n \in {PerPage, BatchSize, MaxRows} : n \in Nat \ {0}
  /\ MaxFailures \in Nat
  /\ ReadableAtFirst \cup MountedLate \subseteq Pool
  /\ Listings \subseteq {"title", "artist", "album", "year", "added", "detail",
                         "name", "tracks", "albums", "duration"}

VARIABLES rows,     \* the rows of tracks, in the order of their ids
          facts,    \* which of Track.file_format and file_size_bytes are known
          files,    \* tracks whose file can be read under a root
          checked,  \* tracks by file_metadata_checked_at, the earliest first
          old,      \* how many of these times are 24 hours before the scan
          scan,     \* the scan or the application that follows it
          walk      \* a reader on the way through a listing

vars == <<rows, facts, files, checked, old, scan, walk>>

-----------------------------------------------------------------------------
(* Rows and what is computed from them.                                    *)

InLibrary == Range(rows)
Id(x) == CHOOSE i \in DOMAIN rows : rows[i] = x

UNKNOWN == 9
OrElse(v, default) == IF v \in {NULL, EMPTY} THEN default ELSE v

Artist(x) == OrElse(Of[x].artist, UNKNOWN)
Album(x) == OrElse(Of[x].album, UNKNOWN)
Year(x) == OrElse(Of[x].year, EMPTY)

Artists == {Artist(x) : x \in InLibrary}
TracksBy(a) == {x \in InLibrary : Artist(x) = a}

\* Releases, and albums of tracks without one, as SQL groups them.
AlbumGroups(X) ==
  Cardinality({Of[x].release : x \in X} \ {NULL})
    + Cardinality({<<Artist(x), Album(x), Year(x)>> : x \in {y \in X : Of[y].release = NULL}})

TotalDuration(X) == SumFunction([x \in X |-> Of[x].duration])

Stats == [tracks |-> Len(rows), artists |-> Cardinality(Artists),
          albums |-> AlbumGroups(InLibrary), duration |-> TotalDuration(InLibrary)]

ArtistRow(a) ==
  [name |-> a, tracks |-> Cardinality(TracksBy(a)), albums |-> AlbumGroups(TracksBy(a)),
   duration |-> TotalDuration(TracksBy(a))]

\* Fault: the groups of a page keep an empty year and a missing one apart.
AlbumKeyRaw(x) ==
  IF Of[x].release # NULL THEN <<Of[x].release, NULL, NULL>> ELSE <<NULL, Album(x), Of[x].year>>

\* The group of a track on the detail page of its artist, as Python builds it.
AlbumKey(x) ==
  IF Of[x].release # NULL THEN <<Of[x].release, NULL, NULL>> ELSE <<NULL, Album(x), Year(x)>>

-----------------------------------------------------------------------------
(* Listings: their items, and the keys these are sorted by.                *)

\* Listings whose order a new track may change.
Totals == {"tracks", "albums", "duration"}

Items(l) == CASE l \in Totals \cup {"name"} -> Artists
              [] l = "detail" -> TracksBy(Detail)
              [] OTHER -> InLibrary

SortKey(l, i) ==
  CASE l = "title" -> <<Of[i].title, Id(i)>>
    [] l = "artist" -> <<Artist(i), Of[i].title, Id(i)>>
    [] l = "album" -> <<Of[i].album, Of[i].no, Id(i)>>
    [] l = "year" -> <<-Of[i].year, Of[i].album, Id(i)>>
    [] l = "added" -> <<-Id(i)>>
    [] l = "detail" -> <<Of[i].year, Of[i].album, Of[i].no, Of[i].title, Id(i)>>
    [] l = "name" -> <<i>>
    [] l = "tracks" -> <<-ArtistRow(i).tracks, i>>
    [] l = "albums" -> <<-ArtistRow(i).albums, i>>
    [] l = "duration" -> <<-ArtistRow(i).duration, i>>

LexLess(k, m) == \E n \in DOMAIN k : k[n] < m[n] /\ \A o \in 1..(n - 1) : k[o] = m[o]

\* The items of X at the positions from first to last, counted from 0, by their keys.
Slice(X, key, first, last) ==
  {i \in X : Cardinality({j \in X : LexLess(key[j], key[i])}) \in first..last}

CeilDiv(n, d) == (n + d - 1) \div d

\* Fault: the last page counts only if it is full.
FullPages(total) == Max({1, total \div PerPage})

TotalPages(total) == Max({1, CeilDiv(total, PerPage)})
ClampPage(page, total) == Min({page, TotalPages(total)})
Offset(page) == (page - 1) * PerPage

OnPage(l, page) ==
  LET X == Items(l)
  IN Slice(X, [i \in X |-> SortKey(l, i)], Offset(page), Offset(page) + PerPage - 1)

-----------------------------------------------------------------------------
(* A reader.  The walk remembers what it saw, what there was at its start   *)
(* and has kept its sort key, and whether a page was torn: a track was      *)
(* added between its count and its read.                                    *)

NoWalk == [step |-> "none", listing |-> "added", page |-> 0, total |-> 0,
           seen |-> {}, there |-> {}, torn |-> FALSE]

\* Bound: readers come before the first scan, which changes nothing they read.
ReadersComeFirst == checked = << >>

Open(l) ==
  /\ walk.step = "none" /\ ReadersComeFirst
  /\ walk' = [NoWalk EXCEPT !.step = "count", !.listing = l, !.page = 1, !.there = Items(l)]
  /\ UNCHANGED <<rows, facts, files, checked, old, scan>>

CountRows ==
  /\ walk.step = "count" /\ scan.step = "app"
  /\ LET total == Cardinality(Items(walk.listing))
     IN walk' = [walk EXCEPT !.step = "read", !.total = total,
                             !.page = ClampPage(walk.page, total)]
  /\ UNCHANGED <<rows, facts, files, checked, old, scan>>

\* has_next is what the count said.
ReadRows ==
  /\ walk.step = "read" /\ scan.step = "app"
  /\ walk' = [walk EXCEPT !.seen = walk.seen \cup OnPage(walk.listing, walk.page),
                          !.step = IF walk.page < TotalPages(walk.total) THEN "count" ELSE "end",
                          !.page = walk.page + 1]
  /\ UNCHANGED <<rows, facts, files, checked, old, scan>>

Leave ==
  /\ walk.step = "end"
  /\ walk' = NoWalk
  /\ UNCHANGED <<rows, facts, files, checked, old, scan>>

\* A job commits a track.
AddTrack(x) ==
  /\ scan.step = "app"
  /\ x \notin InLibrary
  /\ rows' = Append(rows, x)
  /\ facts' = [facts EXCEPT ![x] = Known[x]]
  /\ walk' = [walk EXCEPT
       !.torn = walk.torn \/ walk.step = "read",
       !.there = IF walk.listing \in Totals THEN walk.there \ {Artist(x)} ELSE walk.there]
  /\ UNCHANGED <<files, checked, old, scan>>

-----------------------------------------------------------------------------
(* The scan.                                                               *)

Unchecked == InLibrary \ UNION Range(checked)
Due == Unchecked \cup UNION {checked[i] : i \in 1..old}
Pending == {x \in Due : facts[x] # Facts}

\* Fault: pending rows in the order of their ids alone.
ScanKeyById(x) == <<Id(x)>>

ScanKey(x) ==
  IF x \in Unchecked THEN <<0, Id(x)>>
  ELSE <<CHOOSE i \in DOMAIN checked : x \in checked[i], Id(x)>>

Limit == Min({BatchSize, MaxRows - scan.examined})
Batch == LET P == Pending IN Slice(P, [x \in P |-> ScanKey(x)], 0, Limit - 1)

\* The rows of a batch get the time of this scan, which no other row has.  Of the
\* times up to one of the earlier scans those stay that other rows have.
Stamped(B, to) ==
  LET others == Sorted({i \in 1..to : checked[i] \ B # {}})
  IN [n \in DOMAIN others |-> checked[others[n]] \ B]

\* Fault: a row that is tried again keeps its old time as well.
StampAgain(B) ==
  LET last == Len(checked) - (IF scan.stamped THEN 1 ELSE 0)
      mine == B \cup (IF scan.stamped THEN checked[Len(checked)] ELSE {})
  IN old' = old /\ checked' = SubSeq(checked, 1, last) \o <<mine>>

Stamp(B) ==
  LET last == Len(checked) - (IF scan.stamped THEN 1 ELSE 0)
      mine == B \cup (IF scan.stamped THEN checked[Len(checked)] ELSE {})
  IN /\ old' = Len(Stamped(B, old))
     /\ checked' = Stamped(B, last) \o <<mine>>

\* One batch and its commit.
ScanBatch ==
  /\ scan.step = "scan" /\ scan.examined < MaxRows /\ Pending # {}
  /\ LET B == Batch
     IN /\ Stamp(B)
        /\ facts' = [x \in Pool |-> IF x \in B \cap files THEN Facts ELSE facts[x]]
        /\ scan' = [scan EXCEPT !.examined = scan.examined + Cardinality(B), !.stamped = TRUE]
  /\ UNCHANGED <<rows, files, walk>>

\* Fault: a scan is over after its first batch.
ScanEndsEarly ==
  /\ scan.step = "scan"
  /\ scan.examined > 0 \/ Pending = {}
  /\ scan' = [scan EXCEPT !.step = "done"]
  /\ UNCHANGED <<rows, facts, files, checked, old, walk>>

ScanEnds ==
  /\ scan.step = "scan"
  /\ scan.examined = MaxRows \/ Pending = {}
  /\ scan' = [scan EXCEPT !.step = "done"]
  /\ UNCHANGED <<rows, facts, files, checked, old, walk>>

\* The entry point starts the application, whatever became of the scan.
StartApp ==
  /\ scan.step \in {"done", "failed"}
  /\ scan' = [scan EXCEPT !.step = "app", !.examined = 0, !.stamped = FALSE]
  /\ UNCHANGED <<rows, facts, files, checked, old, walk>>

\* An exception, after a batch or within one that is rolled back.
ScanFails ==
  /\ scan.step = "scan" /\ scan.fails > 0
  /\ scan' = [scan EXCEPT !.step = "failed", !.fails = scan.fails - 1]
  /\ UNCHANGED <<rows, facts, files, checked, old, walk>>

\* The container starts again, so much later that more of the times are old, and
\* perhaps with a volume it lacked.
\* Bound: a reader does not come back to the walk.
Restart ==
  /\ scan.step = "app"
  /\ scan' = [scan EXCEPT !.step = "scan"]
  /\ old' \in old..Len(checked)
  /\ files' \in {files, files \cup MountedLate}
  /\ walk' = NoWalk
  /\ UNCHANGED <<rows, facts, checked>>

RestartNextDay == Restart /\ old' = Len(checked)

-----------------------------------------------------------------------------
Init ==
  /\ rows = << >>
  /\ facts = Known
  /\ files = ReadableAtFirst
  /\ checked = << >>
  /\ old = 0
  /\ scan = [step |-> "app", examined |-> 0, stamped |-> FALSE, fails |-> MaxFailures]
  /\ walk = NoWalk

Next ==
  \/ \E l \in Listings : Open(l)
  \/ CountRows \/ ReadRows \/ Leave
  \/ \E x \in Pool : AddTrack(x)
  \/ ScanBatch \/ ScanEnds \/ ScanFails \/ StartApp \/ Restart

\* A scan goes on, the application follows it, and the container is started
\* again and again, each time at least a day after the last.
Fairness ==
  /\ WF_vars(ScanBatch) /\ WF_vars(ScanEnds) /\ WF_vars(StartApp)
  /\ SF_vars(RestartNextDay)

Spec == Init /\ [][Next]_vars /\ Fairness

-----------------------------------------------------------------------------
(* Properties.                                                             *)

\* The shape of the state; no track has two times.
TypeOK ==
  /\ rows \in Seq(Pool) /\ IsInjective(rows)
  /\ facts \in [Pool -> SUBSET Facts]
  /\ files \subseteq Pool
  /\ checked \in Seq((SUBSET InLibrary) \ {{}})
  /\ \A i, j \in DOMAIN checked : i # j => checked[i] \cap checked[j] = {}
  /\ old \in 0..Len(checked)
  /\ scan \in [step : {"scan", "done", "failed", "app"}, examined : 0..MaxRows,
               stamped : BOOLEAN, fails : 0..MaxFailures]
  /\ walk.step \in {"none", "count", "read", "end"}

\* A reader who goes from the first page to the last sees every item that was
\* there at the start and kept its place in the order, however many tracks are
\* added between pages; only a track added between the count and the read of one
\* page can push an item off the last page.
WalkMissesNothing ==
  walk.step = "end" /\ ~walk.torn => walk.there \subseteq walk.seen

\* The numbers on the pages one may look at fit each other: an artist has as many albums as its
\* detail pages have groups, artists and tracks add up to the totals, and no
\* album is lost from the sum over artists.
CountsAgree == walk.step = "end" =>
  /\ \A a \in Artists : ArtistRow(a).albums = Cardinality({AlbumKey(x) : x \in TracksBy(a)})
  /\ SumFunction([a \in Artists |-> ArtistRow(a).tracks]) = Stats.tracks
  /\ SumFunction([a \in Artists |-> ArtistRow(a).duration]) = Stats.duration
  /\ SumFunction([a \in Artists |-> ArtistRow(a).albums]) >= Stats.albums

\* A scan that ends below its bound has left no track unread that it could read:
\* each was read, or was looked at by a scan of the last 24 hours.
ScanIsThorough ==
  scan.step = "done" /\ scan.examined < MaxRows => Pending = {}

\* Every track whose file can be read is filled in at some time, although a scan
\* stops at its bound and files that cannot be read are tried again every day.
FilesGetRead ==
  \A x \in Pool : x \in InLibrary \cap files ~> facts[x] = Facts
=============================================================================
