---------------------------- MODULE CatalogAlbums ---------------------------
(***************************************************************************)
(* The albums of a catalog artist (services/catalog_metadata.py,           *)
(* services/artist_monitoring.py, routers/catalog.py): discographies of    *)
(* several providers are kept as one list, in which rows that stand for    *)
(* one album are merged, while readers mark albums and ask for downloads.  *)
(*                                                                         *)
(* Every operation loads rows into its session, waits for providers, and   *)
(* stores what it changed: an UPDATE names only the columns that differ    *)
(* from what was loaded, however old that is, and fails if the row is gone.*)
(* From its first statement that writes to its commit a session has the    *)
(* write lock, so a store is one step.                                     *)
(*                                                                         *)
(* Track counts and artwork are left out: rows are alike in them.          *)
(***************************************************************************)
EXTENDS Integers, Sequences, FiniteSets, FiniteSetsExt, SequencesExt, Functions, Positions

CONSTANTS Providers,     \* metadata providers, a subset of "musicbrainz", "deezer", "itunes"
          Discographies, \* what each provider may answer: sequences of hits
          ArtistIds,     \* artists a provider may give for the name
          Singles,       \* keys of singles and EPs
          Tasks,         \* slots for concurrent sessions
          FirstAlbums,   \* album tables to start from, with rows of older versions
          FirstArtists,  \* artists to start from
          AutoDownload,  \* runtime setting auto_download_wanted
          MaxSessions, MaxAlbums, MaxJobs  \* bounds

Policies == {"all", "albums_only", "none_new"}
Precedence == [musicbrainz |-> 1, deezer |-> 2, itunes |-> 3]
NoId == 0
NoYear == 0
Columns == {"key", "year", "monitored", "in_library"} \cup Providers

ASSUME CatalogAssumption ==
  /\ Providers \subseteq {"musicbrainz", "deezer", "itunes"}
  /\ \A n \in {MaxSessions, MaxAlbums, MaxJobs} : n \in Nat
  /\ \A p \in Providers : Discographies[p] \subseteq
       Seq([provider : {p}, id : Nat \ {NoId}, key : STRING, year : Nat])
  /\ \A first \in FirstAlbums :
       /\ DOMAIN first \subseteq 1..MaxAlbums
       /\ \A a \in DOMAIN first : DOMAIN first[a] = Columns
       /\ \A p \in Providers, a, b \in DOMAIN first :
            first[a][p] # NoId /\ first[a][p] = first[b][p] => a = b
  /\ \A first \in FirstArtists :
       /\ DOMAIN first = Providers \cup {"monitored", "policy"}
       /\ first.policy \in Policies

VARIABLES albums,    \* catalog_albums: id -> row
          tracks,    \* catalog_album_tracks: id -> album
          jobs,      \* pending jobs for the catalog, in the order of their ids
          artist,    \* the row of catalog_artists
          session,   \* the session of each task
          loop,      \* whether the discography refresh runs
          last,      \* history: kind of the last store, and whether what it loaded was stale
          begun      \* number of sessions begun

tables == <<albums, tracks, jobs, artist>>
vars == <<tables, session, loop, last, begun>>

-----------------------------------------------------------------------------
(* Identity of albums.                                                     *)

\* _album_keys_match: a missing year fits any.
Match(a, b) ==
  /\ a.key = b.key
  /\ a.year = b.year \/ a.year = NoYear \/ b.year = NoYear

NewId(f) == Max(DOMAIN f \cup {0}) + 1

\* What is in f, and beside it what is in g.
Over(f, g) == [x \in DOMAIN f \cup DOMAIN g |-> IF x \in DOMAIN f THEN f[x] ELSE g[x]]
Put(f, x, v) == Over([y \in {x} |-> v], f)

OrElse(v, w) == IF v = 0 THEN w ELSE v

\* What a session that loaded view and changed it to rows makes of the table.
Write(view, rows) ==
  [a \in (DOMAIN albums \ (DOMAIN view \ DOMAIN rows)) \cup (DOMAIN rows \ DOMAIN view) |->
     IF a \notin DOMAIN view THEN (IF a \in DOMAIN rows THEN rows[a] ELSE albums[a])
     ELSE [c \in Columns |-> IF rows[a][c] # view[a][c] THEN rows[a][c] ELSE albums[a][c]]]

Touched(view, rows) == {a \in DOMAIN view : a \notin DOMAIN rows \/ rows[a] # view[a]}

\* Fault: no column is unique.
FitsWithTwins(view, rows) == Touched(view, rows) \subseteq DOMAIN albums

\* No row that changes is gone, and no two rows have one identifier.
Fits(view, rows) ==
  /\ Touched(view, rows) \subseteq DOMAIN albums
  /\ \A p \in Providers, a, b \in DOMAIN Write(view, rows) :
       a # b /\ Write(view, rows)[a][p] # NoId => Write(view, rows)[a][p] # Write(view, rows)[b][p]

\* What the session sees with the rows it loaded, some of which may be gone since.
OldView(t) == Over(session[t].albums, albums)

\* What a SELECT gives the session now: rows it knows are as it loaded them.
View(t) == Restrict(OldView(t), DOMAIN albums)

-----------------------------------------------------------------------------
(* Storing what a provider says: rows are what the session has made of the *)
(* view so far.                                                            *)

Apply(row, hit) ==
  [row EXCEPT !.key = hit.key, !.year = OrElse(hit.year, row.year), ![hit.provider] = hit.id]

NewRow(hit) ==
  Apply([c \in Columns |-> IF c \in Providers THEN NoId
                           ELSE IF c \in {"monitored", "in_library"} THEN FALSE ELSE NoYear], hit)

ById(table, hit) == {a \in DOMAIN table : table[a][hit.provider] = hit.id}
ByKey(rows, A, hit) == {a \in A : Match(rows[a], hit)}

\* upsert_catalog_album: by identifier, then by key.
Upsert(view, rows, hit) ==
  LET table == Write(view, rows)
      found == IF ById(table, hit) # {} THEN ById(table, hit) ELSE ByKey(rows, DOMAIN table, hit)
      a == IF found # {} THEN Min(found) ELSE NewId(table)
  IN [id |-> a, rows |-> Put(rows, a, IF found # {} THEN Apply(rows[a], hit) ELSE NewRow(hit))]

StoreDiscography(view, hits) ==
  FoldLeft(LAMBDA rows, hit : Upsert(view, rows, hit).rows, view, hits)

\* enrich_catalog_artist looks among the albums it loaded, and adds to these.
EnrichStep(view, s, hit) ==
  LET mine == ByKey(s.rows, s.mine, hit)
      u == Upsert(view, s.rows, hit)
  IN IF mine # {} THEN [s EXCEPT !.rows[Min(mine)] = Apply(s.rows[Min(mine)], hit)]
     ELSE [rows |-> u.rows, mine |-> s.mine \cup {u.id}]

Enriched(view, loaded, hits) ==
  FoldLeft(LAMBDA s, hit : EnrichStep(view, s, hit), [rows |-> view, mine |-> loaded], hits).rows

-----------------------------------------------------------------------------
(* reconcile_duplicate_catalog_albums.                                     *)

\* _album_data_score
Score(rows, a) ==
  LET has(p, n) == IF p \in Providers /\ rows[a][p] # NoId THEN n ELSE 0
  IN has("musicbrainz", 400) + has("deezer", 200) + has("itunes", 100) + a

\* Fault: the winner keeps its missing year.
AbsorbTimeless(winner, loser) ==
  [c \in Columns |->
     IF c \in {"monitored", "in_library"} THEN winner[c] \/ loser[c]
     ELSE IF c \in {"key", "year"} THEN winner[c] ELSE OrElse(winner[c], loser[c])]

Absorb(winner, loser) ==
  [c \in Columns |->
     IF c \in {"monitored", "in_library"} THEN winner[c] \/ loser[c]
     ELSE IF c = "key" THEN winner[c] ELSE OrElse(winner[c], loser[c])]

\* One album and those like it; into says where the merged ones went.
MergeGroup(s, a) ==
  LET G == {b \in DOMAIN s.rows \ s.consumed : Match(s.rows[a], s.rows[b])}
      w == CHOOSE b \in G : \A c \in G : Score(s.rows, c) <= Score(s.rows, b)
      row == FoldLeft(LAMBDA r, b : Absorb(r, s.rows[b]), s.rows[w], Sorted(G \ {w}))
  IN IF a \in s.consumed \/ a \notin DOMAIN s.rows \/ Cardinality(G) < 2 THEN s
     ELSE [rows |-> [b \in DOMAIN s.rows \ (G \ {w}) |-> IF b = w THEN row ELSE s.rows[b]],
           consumed |-> s.consumed \cup G,
           into |-> Over([b \in G \ {w} |-> w], s.into)]

Reconciled(rows) ==
  FoldLeft(LAMBDA s, a : MergeGroup(s, a),
           [rows |-> rows, consumed |-> {}, into |-> << >>], Sorted(DOMAIN rows))

\* Fault: jobs and tracks stay with the row that is merged.
Unmoved(into, a) == a

Moved(into, a) == IF a \in DOMAIN into THEN into[a] ELSE a

-----------------------------------------------------------------------------
(* Sessions.                                                               *)

NoSession == [kind |-> "none", albums |-> << >>, artist |-> << >>, about |-> 0,
              tracks |-> {}, stale |-> FALSE]

\* The rows an operation loads when it begins.
Begin(t, kind, about, loaded) ==
  /\ session[t].kind = "none" /\ begun < MaxSessions
  /\ session' = [session EXCEPT ![t] =
       [kind |-> kind, albums |-> loaded, artist |-> artist, about |-> about,
        tracks |-> {k \in DOMAIN tracks : tracks[k] = about}, stale |-> FALSE]]
  /\ begun' = begun + 1
  /\ UNCHANGED <<tables, loop, last>>

OpenArtist(t) == Begin(t, "page", 0, albums)
OpenAlbum(t) == \E a \in DOMAIN albums : Begin(t, "album", a, Restrict(albums, {a}))
StartEnrichment(t) == Begin(t, "enrich", 0, albums)
StartRefresh(t) ==
  /\ loop /\ artist.monitored
  /\ \A u \in Tasks : session[u].kind # "refresh"
  /\ Begin(t, "refresh", 0, albums)
OpenForm(t) == Begin(t, "monitor", 0, albums)
AskAlbum(t) == \E a \in DOMAIN albums : Begin(t, "download", a, Restrict(albums, {a}))
AskTrack(t) == \E k \in DOMAIN tracks : Begin(t, "track", tracks[k], Restrict(albums, {tracks[k]}))
AskWanted(t) == Begin(t, "wanted", 0, albums)

\* Where a session other than t is after a step: what it loaded may be out of date.
Outdated(u) ==
  [session[u] EXCEPT !.stale = session[u].stale
     \/ (session[u].kind # "none" /\ <<albums, tracks, artist>>' # <<albums, tracks, artist>>)]

\* The session commits.
Ends(t) ==
  /\ last' = [kind |-> session[t].kind, stale |-> session[t].stale]
  /\ session' = [u \in Tasks |-> IF u = t THEN NoSession ELSE Outdated(u)]
  /\ UNCHANGED begun

\* An exception, of a provider, of the database or of the flush: a rollback, and
\* the end of the refresh loop if it was there.
Fails(t) ==
  /\ session[t].kind # "none"
  /\ session' = [session EXCEPT ![t] = NoSession]
  /\ loop' = (loop /\ session[t].kind # "refresh")
  /\ UNCHANGED <<tables, last, begun>>

Ref(row) == CHOOSE p \in Providers :
  /\ row[p] # NoId
  /\ \A q \in Providers : Precedence[q] < Precedence[p] => row[q] = NoId

HasRef(row) == \E p \in Providers : row[p] # NoId

Answers(row) == IF HasRef(row) THEN Discographies[Ref(row)] ELSE {<< >>}

\* Commits what rows changes in view.
Store(view, rows) ==
  /\ Fits(view, rows)
  /\ albums' = Write(view, rows)
  /\ DOMAIN albums' \subseteq 1..MaxAlbums

\* catalog_artist_page: a discography if there is none, and the merge, which
\* changes tracks and jobs by statements of its own.
StorePage(t) ==
  /\ session[t].kind = "page"
  /\ \E hits \in IF DOMAIN session[t].albums = {} THEN Answers(session[t].artist) ELSE {<< >>} :
       LET s == Reconciled(StoreDiscography(View(t), hits))
       IN /\ Store(View(t), s.rows)
          /\ tracks' = [k \in DOMAIN tracks |-> Moved(s.into, tracks[k])]
          /\ jobs' = [j \in DOMAIN jobs |-> [jobs[j] EXCEPT !.album = Moved(s.into, jobs[j].album)]]
  /\ UNCHANGED <<artist, loop>>
  /\ Ends(t)

\* catalog_album_page: the tracks loaded go, with the references of jobs to them,
\* and the track the provider lists now comes.
StoreAlbum(t) ==
  /\ session[t].kind = "album"
  /\ LET a == session[t].about
         row == session[t].albums[a]
     IN \E hits \in Answers(row) : \E hit \in Range(hits) :
          LET u == Upsert(View(t), View(t), hit)
              kept == Restrict(tracks, DOMAIN tracks \ session[t].tracks)
          IN /\ hit.id = row[Ref(row)]
             /\ a \in DOMAIN albums
             /\ u.id = a
             /\ Store(View(t), u.rows)
             /\ tracks' = Put(kept, NewId(kept), a)
             /\ jobs' = [j \in DOMAIN jobs |->
                  IF jobs[j].track \in session[t].tracks THEN [jobs[j] EXCEPT !.track = 0] ELSE jobs[j]]
  /\ UNCHANGED <<artist, loop>>
  /\ Ends(t)

\* Fault: an identifier that is known is replaced.
StoreEnrichmentAnew(t) ==
  /\ session[t].kind = "enrich"
  /\ \E p \in Providers : \E chosen \in ArtistIds[p], hits \in Discographies[p] :
       /\ Store(OldView(t), Enriched(OldView(t), DOMAIN session[t].albums, hits))
       /\ artist' = [artist EXCEPT ![p] = chosen]
  /\ UNCHANGED <<tracks, jobs, loop>>
  /\ Ends(t)

\* enrich_catalog_artist: a provider beside the known one, if it has the artist.
StoreEnrichment(t) ==
  /\ session[t].kind = "enrich"
  /\ LET known == session[t].artist
     IN \E p \in Providers : \E chosen \in ArtistIds[p], hits \in Discographies[p] :
          /\ HasRef(known) => p # Ref(known)
          /\ Store(OldView(t), Enriched(OldView(t), DOMAIN session[t].albums, hits))
          /\ artist' = IF known[p] = NoId THEN [artist EXCEPT ![p] = chosen] ELSE artist
  /\ UNCHANGED <<tracks, jobs, loop>>
  /\ Ends(t)

JobFor(a, k, t) == [album |-> a, track |-> k, stale |-> session[t].stale]

\* apply_monitor_policy
ByPolicy(policy, row) ==
  CASE policy = "none_new" -> FALSE
    [] policy = "albums_only" -> row.key \notin Singles
    [] OTHER -> TRUE

Wanted(rows) == {a \in DOMAIN rows : rows[a].monitored /\ ~rows[a].in_library}

\* Fault: the policy is for all the rows of the discography.
StoreRefreshOfAll(t) ==
  /\ session[t].kind = "refresh"
  /\ \E hits \in Answers(session[t].artist) :
       LET rows == StoreDiscography(View(t), hits)
           now == [a \in DOMAIN rows |->
                     [rows[a] EXCEPT !.monitored = ByPolicy(session[t].artist.policy, rows[a])]]
       IN Store(View(t), now)
  /\ UNCHANGED <<tracks, artist, loop, jobs>>
  /\ Ends(t)

\* refresh_monitored_artist: the policy is for the rows that were not there.
StoreRefresh(t) ==
  /\ session[t].kind = "refresh"
  /\ \E hits \in Answers(session[t].artist) :
       LET rows == StoreDiscography(View(t), hits)
           old == DOMAIN session[t].albums
           now == [a \in DOMAIN rows |->
                     IF a \in old \/ ~session[t].artist.monitored THEN rows[a]
                     ELSE [rows[a] EXCEPT !.monitored = ByPolicy(session[t].artist.policy, rows[a])]]
           wanted == IF AutoDownload THEN Sorted(Wanted(now)) ELSE << >>
       IN /\ Store(View(t), now)
          /\ jobs' = jobs \o [i \in DOMAIN wanted |-> JobFor(wanted[i], 0, t)]
          /\ Len(jobs') <= MaxJobs
  /\ UNCHANGED <<tracks, artist, loop>>
  /\ Ends(t)

\* monitor_catalog_artist_page: marked is what the form, or one of its bulk
\* buttons, marks of the albums it loaded.
StoreForm(t) ==
  /\ session[t].kind = "monitor"
  /\ LET old == session[t].albums
     IN \E marked \in SUBSET DOMAIN old, monitored \in BOOLEAN, policy \in Policies :
          /\ Store(OldView(t),
               [a \in DOMAIN OldView(t) |->
                  IF a \in DOMAIN old THEN [old[a] EXCEPT !.monitored = (a \in marked)]
                  ELSE OldView(t)[a]])
          /\ artist' = [c \in DOMAIN artist |->
               IF c = "monitored" /\ monitored # session[t].artist.monitored THEN monitored
               ELSE IF c = "policy" /\ policy # session[t].artist.policy THEN policy
               ELSE artist[c]]
  /\ UNCHANGED <<tracks, jobs, loop>>
  /\ Ends(t)

\* open_catalog_artist_page with monitor: the artist is read and stored after its
\* provider has answered.
OpenFromSearch ==
  /\ begun < MaxSessions /\ begun' = begun + 1
  /\ artist' = [artist EXCEPT !.monitored = TRUE, !.policy = "all"]
  /\ last' = [kind |-> "open", stale |-> FALSE]
  /\ UNCHANGED <<albums, tracks, jobs, loop>>
  /\ session' = [u \in Tasks |-> Outdated(u)]

\* The download routes: foreign keys are not enforced.
StoreJob(t) ==
  /\ Len(jobs) < MaxJobs
  /\ \/ /\ session[t].kind = "download"
        /\ jobs' = Append(jobs, JobFor(session[t].about, 0, t))
     \/ /\ session[t].kind = "track"
        /\ \E k \in session[t].tracks : jobs' = Append(jobs, JobFor(session[t].about, k, t))
     \/ /\ session[t].kind = "wanted"
        /\ LET wanted == Sorted(Wanted(session[t].albums))
           IN jobs' = jobs \o [i \in DOMAIN wanted |-> JobFor(wanted[i], 0, t)]
        /\ Len(jobs') <= MaxJobs
  /\ UNCHANGED <<albums, tracks, artist, loop>>
  /\ Ends(t)

-----------------------------------------------------------------------------
Init ==
  /\ albums \in FirstAlbums
  /\ tracks = << >>
  /\ jobs = << >>
  /\ artist \in FirstArtists
  /\ session = [t \in Tasks |-> NoSession]
  /\ loop = TRUE
  /\ last = [kind |-> "none", stale |-> FALSE]
  /\ begun = 0

Next ==
  \/ OpenFromSearch
  \/ \E t \in Tasks :
       \/ OpenArtist(t) \/ OpenAlbum(t) \/ StartEnrichment(t) \/ StartRefresh(t)
       \/ OpenForm(t) \/ AskAlbum(t) \/ AskTrack(t) \/ AskWanted(t)
       \/ StorePage(t) \/ StoreAlbum(t) \/ StoreEnrichment(t) \/ StoreRefresh(t)
       \/ StoreForm(t) \/ StoreJob(t)
       \/ Fails(t)

Spec == Init /\ [][Next]_vars

-----------------------------------------------------------------------------
(* Properties.  Between its load and its store a session may go stale; what *)
(* a stale store may spoil is said with each of them.                       *)

Twins == {p \in (DOMAIN albums) \X (DOMAIN albums) :
            p[1] < p[2] /\ Match(albums[p[1]], albums[p[2]])}

\* The shape of the tables; no two rows have one identifier.
TypeOK ==
  /\ DOMAIN albums \subseteq 1..MaxAlbums
  /\ \A a \in DOMAIN albums : DOMAIN albums[a] = Columns
  /\ \A p \in Providers, a, b \in DOMAIN albums :
       albums[a][p] # NoId /\ albums[a][p] = albums[b][p] => a = b
  /\ \A j \in DOMAIN jobs : DOMAIN jobs[j] = {"album", "track", "stale"}
  /\ artist.policy \in Policies
  /\ loop \in BOOLEAN

\* After an artist page has merged, no two rows of the artist stand for one album,
\* although matching is not transitive and rows change while they are merged.
MergedIsTidy == last = [kind |-> "page", stale |-> FALSE] => Twins = {}

\* Merging, enriching and refreshing forget nothing: an album one wants, or has,
\* stays so, in its own row or in the one it is merged into, and every identifier
\* stays known, unless the session was stale.
NothingForgotten ==
  [][last'.kind \in {"page", "enrich", "refresh"} /\ ~last'.stale =>
       \A a \in DOMAIN albums : \E b \in DOMAIN albums' :
         /\ a \in DOMAIN albums' => b = a
         /\ albums[a].monitored => albums'[b].monitored
         /\ albums[a].in_library => albums'[b].in_library
         /\ \A p \in Providers : albums[a][p] # NoId => albums'[b][p] # NoId]_albums

\* A job for the catalog refers to an album that exists, and to a track of that
\* album or to none, however albums are merged and tracks fetched again, unless it
\* was made from an album or a track that had gone since it was loaded.
JobsHaveAlbums ==
  \A j \in DOMAIN jobs : ~jobs[j].stale =>
    /\ jobs[j].album \in DOMAIN albums
    /\ jobs[j].track # 0 => /\ jobs[j].track \in DOMAIN tracks
                            /\ tracks[jobs[j].track] = jobs[j].album

\* Once an artist is known to a provider, no enrichment gives it another identifier
\* there, unless two enrichments overlap.
ArtistStays ==
  [][~last'.stale => \A p \in Providers : artist[p] # NoId => artist'[p] = artist[p]]_artist
=============================================================================
