------------------------- MODULE CatalogAlbumsProofs ------------------------
(***************************************************************************)
(* Proofs about CatalogAlbums, for any providers, discographies, artists   *)
(* and tables to start from: what merging leaves, what jobs refer to, and  *)
(* the identifiers of an artist.                                           *)
(*                                                                         *)
(* Sessions that are not stale have what there is (FreshIs), what they     *)
(* store loses no row and forgets none (Remembers), and what is merged is  *)
(* led into a row that is left alone (Merging).  Each fold over hits, over *)
(* albums or over the rows of a group is an iteration (Iterates), which    *)
(* keeps what each of its steps keeps.                                     *)
(***************************************************************************)
EXTENDS CatalogAlbums, Counting

(* The shape of tables, sessions and jobs.                                 *)
Table(T) ==
    /\ IsFiniteSet(DOMAIN T) /\ DOMAIN T \subseteq Nat
    /\ \A a \in DOMAIN T : DOMAIN T[a] = Columns

Fields == {"kind", "albums", "artist", "about", "tracks", "stale"}
Job == [album : Nat, track : Nat, stale : BOOLEAN]

SessionOK(s) ==
    /\ DOMAIN s = Fields
    /\ s.stale \in BOOLEAN
    /\ s.about \in Nat
    /\ s.tracks \subseteq Nat
    /\ Table(s.albums)

(* A session that is not stale has what it loaded.                         *)
OfList == {"page", "enrich", "refresh", "monitor", "wanted"}
OfAlbum == {"album", "download", "track"}

FreshIs(s) ==
    s.kind # "none" /\ ~s.stale =>
       /\ s.artist = artist
       /\ s.kind \in OfList => s.albums = albums
       /\ s.kind \in OfAlbum => s.about \in DOMAIN albums
       /\ s.tracks = {k \in DOMAIN tracks : tracks[k] = s.about}

SessionsInv ==
    /\ session = [t \in Tasks |-> session[t]]
    /\ \A t \in Tasks : SessionOK(session[t]) /\ FreshIs(session[t])

ArtistInv == DOMAIN artist = Providers \cup {"monitored", "policy"} /\ artist.policy \in Policies

(* Tracks and jobs refer to albums that are there.                         *)
TracksInv ==
    /\ IsFiniteSet(DOMAIN tracks) /\ DOMAIN tracks \subseteq Nat \ {0}
    /\ \A k \in DOMAIN tracks : tracks[k] \in DOMAIN albums

AlbumsInv ==
    /\ DOMAIN albums \subseteq 1..MaxAlbums
    /\ \A a \in DOMAIN albums : DOMAIN albums[a] = Columns
    /\ \A p \in Providers, a, b \in DOMAIN albums :
         albums[a][p] # NoId /\ albums[a][p] = albums[b][p] => a = b

JobsInv == jobs \in Seq(Job) /\ JobsHaveAlbums

Inv ==
    /\ AlbumsInv /\ TracksInv /\ JobsInv /\ ArtistInv /\ SessionsInv
    /\ loop \in BOOLEAN
    /\ MergedIsTidy

LEMMA Numbers ==
    MaxAlbums \in Nat /\ Columns = {"key", "year", "monitored", "in_library"} \cup Providers
  BY CatalogAssumption DEF Columns

LEMMA AlbumsTable ==
    ASSUME AlbumsInv
    PROVE  Table(albums) /\ DOMAIN albums \subseteq Nat \ {0}
<1>1. IsFiniteSet(1..MaxAlbums)
  BY Numbers, FS_Interval
<1>2. DOMAIN albums \in SUBSET (1..MaxAlbums)
  BY DEF AlbumsInv
<1>3. IsFiniteSet(DOMAIN albums)
  BY <1>1, <1>2, FS_Subset
<1> QED
  BY <1>2, <1>3, Numbers DEF AlbumsInv, Table

-----------------------------------------------------------------------------
(* What a step makes of the sessions.                                      *)

LEMMA NoSessionOK == SessionOK(NoSession) /\ NoSession.kind = "none"
  BY FS_EmptySet DEF SessionOK, NoSession, Fields, Table

(* A session that begins has what there is.                                *)
LEMMA BeginFresh ==
    ASSUME Inv, NEW t \in Tasks, NEW kind \in OfList \cup OfAlbum, NEW about \in Nat, NEW loaded,
           Table(loaded), kind \in OfList => loaded = albums,
           kind \in OfAlbum => about \in DOMAIN albums,
           Begin(t, kind, about, loaded)
    PROVE  Inv'
<1> DEFINE s == [kind |-> kind, albums |-> loaded, artist |-> artist, about |-> about,
                 tracks |-> {k \in DOMAIN tracks : tracks[k] = about}, stale |-> FALSE]
<1>1. /\ session' = [session EXCEPT ![t] = s]
      /\ albums' = albums /\ tracks' = tracks /\ jobs' = jobs /\ artist' = artist
      /\ loop' = loop /\ last' = last
  BY DEF Begin, tables
<1>2. SessionOK(s) /\ s.kind = kind
  BY DEF Inv, TracksInv, SessionOK, Fields
<1>3. FreshIs(s)
  BY DEF FreshIs, OfList, OfAlbum
<1> HIDE DEF s
<1>4. \A u \in Tasks : session'[u] = IF u = t THEN s ELSE session[u]
  BY <1>1 DEF Inv, SessionsInv
<1>5. session' = [u \in Tasks |-> session'[u]]
  BY <1>1 DEF Inv, SessionsInv
<1>6. \A u \in Tasks : SessionOK(session'[u]) /\ FreshIs(session'[u])
  BY <1>2, <1>3, <1>4 DEF Inv, SessionsInv
<1>7. SessionsInv'
  BY <1>1, <1>5, <1>6 DEF SessionsInv, SessionOK, FreshIs
<1> QED
  BY <1>1, <1>7
  DEF Inv, AlbumsInv, TracksInv, JobsInv, JobsHaveAlbums, ArtistInv, MergedIsTidy, Twins

LEMMA FailsKeeps ==
    ASSUME Inv, NEW t \in Tasks, Fails(t)
    PROVE  Inv'
<1>1. /\ session' = [session EXCEPT ![t] = NoSession]
      /\ albums' = albums /\ tracks' = tracks /\ jobs' = jobs /\ artist' = artist
      /\ loop' \in BOOLEAN /\ last' = last
  BY DEF Fails, tables, Inv
<1>2. \A u \in Tasks : session'[u] = IF u = t THEN NoSession ELSE session[u]
  BY <1>1 DEF Inv, SessionsInv
<1>3. session' = [u \in Tasks |-> session'[u]]
  BY <1>1 DEF Inv, SessionsInv
<1>4. \A u \in Tasks : SessionOK(session'[u]) /\ FreshIs(session'[u])
  BY <1>2, NoSessionOK DEF Inv, SessionsInv, FreshIs
<1>5. SessionsInv'
  BY <1>1, <1>3, <1>4 DEF SessionsInv, SessionOK, FreshIs
<1> QED
  BY <1>1, <1>5
  DEF Inv, AlbumsInv, TracksInv, JobsInv, JobsHaveAlbums, ArtistInv, MergedIsTidy, Twins

(* The others go stale if anything changes.                                *)
LEMMA OutdatedFresh ==
    ASSUME SessionsInv, NEW u \in Tasks, NEW o, o = Outdated(u)
    PROVE  SessionOK(o) /\ FreshIs(o)'
<1>1. SessionOK(session[u]) /\ FreshIs(session[u])
  BY DEF SessionsInv
<1>. PICK s : s = session[u]
  OBVIOUS
<1>. PICK changed \in BOOLEAN : changed = (<<albums, tracks, artist>>' # <<albums, tracks, artist>>)
  OBVIOUS
<1>2. o = [s EXCEPT !.stale = s.stale \/ (s.kind # "none" /\ changed)]
  BY DEF Outdated
<1>3. (s.stale \/ (s.kind # "none" /\ changed)) \in BOOLEAN
  BY <1>1 DEF SessionOK
<1>4. /\ DOMAIN o = DOMAIN s
      /\ o.stale = (s.stale \/ (s.kind # "none" /\ changed))
      /\ o.kind = s.kind /\ o.albums = s.albums /\ o.artist = s.artist /\ o.about = s.about
      /\ o.tracks = s.tracks
  BY <1>1, <1>2 DEF SessionOK, Fields
<1>5. SessionOK(o)
  BY <1>1, <1>3, <1>4 DEF SessionOK
<1>6. o.kind # "none" /\ ~o.stale
        => s.kind # "none" /\ ~s.stale /\ albums' = albums /\ tracks' = tracks /\ artist' = artist
  BY <1>4
<1>7. FreshIs(s)
  BY <1>1
<1>8. FreshIs(o)'
  <2> SUFFICES ASSUME o.kind # "none", ~o.stale
               PROVE  /\ o.artist = artist'
                      /\ o.kind \in OfList => o.albums = albums'
                      /\ o.kind \in OfAlbum => o.about \in DOMAIN albums'
                      /\ o.tracks = {k \in DOMAIN tracks' : tracks'[k] = o.about}
    BY DEF FreshIs
  <2>1. /\ s.artist = artist
        /\ s.kind \in OfList => s.albums = albums
        /\ s.kind \in OfAlbum => s.about \in DOMAIN albums
        /\ s.tracks = {k \in DOMAIN tracks : tracks[k] = s.about}
    BY <1>6, <1>7 DEF FreshIs
  <2> QED
    BY <1>4, <1>6, <2>1
<1> QED
  BY <1>5, <1>8

(* So a step that writes leaves the sessions as they should be.            *)
LEMMA EndsKeeps ==
    ASSUME SessionsInv, NEW t \in Tasks, Ends(t)
    PROVE  SessionsInv'
<1>1. session' = [u \in Tasks |-> IF u = t THEN NoSession ELSE Outdated(u)]
  BY DEF Ends
<1>2. ASSUME NEW u \in Tasks PROVE SessionOK(session'[u]) /\ FreshIs(session[u])'
  <2>. PICK o : o = session'[u]
    OBVIOUS
  <2>1. CASE u = t
    BY <1>1, <2>1, NoSessionOK DEF FreshIs
  <2>2. CASE u # t
    <3>1. o = Outdated(u)
      BY <1>1, <2>2
    <3>2. SessionOK(o) /\ FreshIs(o)'
      BY <3>1, OutdatedFresh
    <3> QED
      BY <3>2 DEF FreshIs
  <2> QED
    BY <2>1, <2>2
<1> QED
  BY <1>1, <1>2 DEF SessionsInv, SessionOK

LEMMA OpensKeeps ==
    ASSUME SessionsInv, OpenFromSearch
    PROVE  SessionsInv'
<1>1. session' = [u \in Tasks |-> Outdated(u)]
  BY DEF OpenFromSearch
<1>2. ASSUME NEW u \in Tasks PROVE SessionOK(session'[u]) /\ FreshIs(session[u])'
  <2>. PICK o : o = session'[u]
    OBVIOUS
  <2>1. o = Outdated(u)
    BY <1>1
  <2>2. SessionOK(o) /\ FreshIs(o)'
    BY <2>1, OutdatedFresh
  <2> QED
    BY <2>2 DEF FreshIs
<1> QED
  BY <1>1, <1>2 DEF SessionsInv, SessionOK

LEMMA OneRow ==
    ASSUME AlbumsInv, NEW a \in DOMAIN albums
    PROVE  Table(Restrict(albums, {a})) /\ a \in Nat
<1>1. DOMAIN Restrict(albums, {a}) = {a} /\ Restrict(albums, {a})[a] = albums[a]
  BY DEF Restrict
<1>2. a \in Nat /\ DOMAIN albums[a] = Columns
  BY AlbumsTable DEF AlbumsInv
<1>3. IsFiniteSet({a})
  BY FS_Singleton
<1> QED
  BY <1>1, <1>2, <1>3 DEF Table

LEMMA LoadsKeep ==
    ASSUME Inv, NEW t \in Tasks,
           \/ OpenArtist(t) \/ OpenAlbum(t) \/ StartEnrichment(t) \/ StartRefresh(t)
           \/ OpenForm(t) \/ AskAlbum(t) \/ AskTrack(t) \/ AskWanted(t)
    PROVE  Inv'
<1>1. Table(albums)
  BY AlbumsTable DEF Inv
<1>2. ASSUME NEW kind \in OfList, Begin(t, kind, 0, albums) PROVE Inv'
  <2>1. kind \in OfList \cup OfAlbum /\ kind \notin OfAlbum /\ 0 \in Nat
    BY DEF OfList, OfAlbum
  <2> QED
    BY <1>1, <1>2, <2>1, BeginFresh
<1>3. ASSUME NEW kind \in OfAlbum, NEW a \in DOMAIN albums,
             Begin(t, kind, a, Restrict(albums, {a})) PROVE Inv'
  <2>1. kind \in OfList \cup OfAlbum /\ kind \notin OfList
    BY DEF OfList, OfAlbum
  <2>2. Table(Restrict(albums, {a})) /\ a \in Nat
    BY OneRow DEF Inv
  <2> QED
    BY <1>3, <2>1, <2>2, BeginFresh
<1>4. \A k \in DOMAIN tracks : tracks[k] \in DOMAIN albums
  BY DEF Inv, TracksInv
<1>5. {"page", "enrich", "refresh", "monitor", "wanted"} \subseteq OfList
  BY DEF OfList
<1>6. {"album", "download", "track"} \subseteq OfAlbum
  BY DEF OfAlbum
<1> QED
  BY <1>2, <1>3, <1>4, <1>5, <1>6
  DEF OpenArtist, OpenAlbum, StartEnrichment, StartRefresh, OpenForm, AskAlbum, AskTrack, AskWanted

-----------------------------------------------------------------------------
(* Folds.  The steps of all of them have one name each, so that iterations *)
(* of any of them are seen to exist by one induction over positions.       *)

Step(fold, c, r, x) ==
    CASE fold = "store" -> Upsert(c, r, x).rows
      [] fold = "enrich" -> EnrichStep(c, r, x)
      [] fold = "merge" -> MergeGroup(r, x)
      [] fold = "absorb" -> Absorb(r, c[x])

(* g[s] is what the steps at the positions s have made of base.            *)
Iterates(fold, c, base, seq, S, g) ==
    g = [s \in SUBSET S |-> IF s = {} THEN base
                            ELSE Step(fold, c, g[s \ {Max(s)}], seq[Max(s)])]

LEMMA MaxIn ==
    ASSUME NEW s, IsFiniteSet(s), s \subseteq Int, s # {}
    PROVE  Max(s) \in s /\ \A y \in s : y <= Max(s)
<1> DEFINE D == {T \in SUBSET s : T = {} \/ \E m \in T : \A y \in T : y <= m}
<1>1. ASSUME NEW T \in SUBSET s, \A V \in SUBSET T : V # T => V \in D
      PROVE  T \in D
  <2>1. CASE T = {}
    BY <2>1
  <2>2. CASE T # {}
    <3>. PICK x \in T : TRUE
      BY <2>2
    <3>1. T \ {x} \in SUBSET T /\ T \ {x} # T
      OBVIOUS
    <3>2. T \ {x} \in D
      BY <1>1, <3>1
    <3>3. CASE T \ {x} = {}
      <4>1. \A y \in T : y = x
        BY <3>3
      <4> QED
        BY <4>1
    <3>4. CASE T \ {x} # {}
      <4>1. PICK m \in T \ {x} : \A y \in T \ {x} : y <= m
        BY <3>2, <3>4
      <4>2. CASE x <= m
        BY <4>1, <4>2
      <4>3. CASE ~(x <= m)
        <5>1. \A y \in T : y <= x
          BY <4>1, <4>3
        <5> QED
          BY <5>1
      <4> QED
        BY <4>2, <4>3
    <3> QED
      BY <3>3, <3>4
  <2> QED
    BY <2>1, <2>2
<1>2. s \in D
  <2> HIDE DEF D
  <2> QED
    BY <1>1, SetInduction
<1>3. \E x \in s : \A y \in s : x >= y
  BY <1>2
<1>4. Max(s) \in s /\ \A y \in s : Max(s) >= y
  BY <1>3 DEF Max
<1> QED
  BY <1>4

LEMMA IteratesAgree ==
    ASSUME NEW fold, NEW c, NEW base, NEW seq, NEW S, IsFiniteSet(S), S \subseteq Int,
           NEW g, Iterates(fold, c, base, seq, S, g),
           NEW R, R \subseteq S, NEW h, Iterates(fold, c, base, seq, R, h)
    PROVE  g[R] = h[R]
<1> DEFINE D == {T \in SUBSET R : g[T] = h[T]}
<1>1. ASSUME NEW T \in SUBSET R, \A V \in SUBSET T : V # T => V \in D
      PROVE  T \in D
  <2>1. T \in SUBSET S /\ T \subseteq Int /\ IsFiniteSet(T)
    BY FS_Subset
  <2>2. g[T] = IF T = {} THEN base ELSE Step(fold, c, g[T \ {Max(T)}], seq[Max(T)])
    BY <2>1 DEF Iterates
  <2>3. h[T] = IF T = {} THEN base ELSE Step(fold, c, h[T \ {Max(T)}], seq[Max(T)])
    BY DEF Iterates
  <2>4. T # {} => Max(T) \in T
    BY <2>1, MaxIn
  <2>5. T # {} => g[T \ {Max(T)}] = h[T \ {Max(T)}]
    <3> SUFFICES ASSUME T # {} PROVE g[T \ {Max(T)}] = h[T \ {Max(T)}]
      OBVIOUS
    <3>1. T \ {Max(T)} \in SUBSET T /\ T \ {Max(T)} # T
      BY <2>4
    <3> QED
      BY <1>1, <3>1
  <2>6. g[T] = h[T]
    BY <2>2, <2>3, <2>5, Zenon
  <2> QED
    BY <2>6
<1>2. IsFiniteSet(R)
  BY FS_Subset
<1>3. R \in D
  <2> HIDE DEF D
  <2> QED
    BY <1>1, <1>2, SetInduction
<1> QED
  BY <1>3

LEMMA IteratesExist ==
    ASSUME NEW fold, NEW c, NEW base, NEW seq, NEW S, IsFiniteSet(S), S \subseteq Int
    PROVE  \E g : Iterates(fold, c, base, seq, S, g)
<1> DEFINE has(T) == \E g : Iterates(fold, c, base, seq, T, g)
           D == {T \in SUBSET S : has(T)}
           Fn(T) == CHOOSE g : Iterates(fold, c, base, seq, T, g)
<1>1. \A T : has(T) => Iterates(fold, c, base, seq, T, Fn(T))
  OBVIOUS
<1>0. \A T \in SUBSET S : IsFiniteSet(T) /\ T \subseteq Int /\ (T # {} => Max(T) \in T)
  <2> TAKE T \in SUBSET S
  <2>1. IsFiniteSet(T) /\ T \subseteq Int
    BY FS_Subset
  <2> QED
    BY <2>1, MaxIn
<1>2. ASSUME NEW T \in SUBSET S, \A V \in SUBSET T : V # T => V \in D
      PROVE  T \in D
  <2> DEFINE val(V) == IF V = {} THEN base
                       ELSE Step(fold, c, Fn(V \ {Max(V)})[V \ {Max(V)}], seq[Max(V)])
             h == [V \in SUBSET T |-> val(V)]
  <2>1. \A V \in SUBSET T : V # T => Iterates(fold, c, base, seq, V, Fn(V))
    BY <1>1, <1>2
  <2>2. ASSUME NEW V \in SUBSET T, V # T PROVE h[V] = Fn(V)[V]
    <3>1. Fn(V)[V] = IF V = {} THEN base ELSE Step(fold, c, Fn(V)[V \ {Max(V)}], seq[Max(V)])
      <4>. PICK f : f = Fn(V)
        OBVIOUS
      <4>1. Iterates(fold, c, base, seq, V, f)
        BY <2>1, <2>2
      <4>2. f[V] = IF V = {} THEN base ELSE Step(fold, c, f[V \ {Max(V)}], seq[Max(V)])
        BY <4>1 DEF Iterates
      <4> QED
        BY <4>2
    <3>2. V # {} => Fn(V)[V \ {Max(V)}] = Fn(V \ {Max(V)})[V \ {Max(V)}]
      <4> SUFFICES ASSUME V # {} PROVE Fn(V)[V \ {Max(V)}] = Fn(V \ {Max(V)})[V \ {Max(V)}]
        OBVIOUS
      <4>. PICK W : W = V \ {Max(V)}
        OBVIOUS
      <4>1. W \in SUBSET V /\ W \in SUBSET T /\ W # T /\ IsFiniteSet(V) /\ V \subseteq Int
        BY <1>0
      <4>2. Iterates(fold, c, base, seq, V, Fn(V)) /\ Iterates(fold, c, base, seq, W, Fn(W))
        BY <2>1, <2>2, <4>1
      <4> HIDE DEF Fn
      <4>4. Fn(V)[W] = Fn(W)[W]
        BY <4>1, <4>2, IteratesAgree
      <4> QED
        BY <4>4
    <3>3. h[V] = val(V)
      OBVIOUS
    <3> HIDE DEF h, Fn
    <3>4. V = {} => Fn(V)[V] = val(V)
      BY <3>1
    <3>5. V # {} => Fn(V)[V] = val(V)
      BY <3>1, <3>2
    <3> QED
      BY <3>3, <3>4, <3>5
  <2>3. ASSUME NEW V \in SUBSET T, V # {}
        PROVE  h[V \ {Max(V)}] = Fn(V \ {Max(V)})[V \ {Max(V)}]
    <3>2. Max(V) \in V
      BY <1>0, <2>3
    <3>3. V \ {Max(V)} \in SUBSET T /\ V \ {Max(V)} # T
      BY <3>2
    <3> HIDE DEF h, Fn
    <3> QED
      BY <2>2, <3>3
  <2>4. Iterates(fold, c, base, seq, T, h)
    <3>1. \A V \in SUBSET T :
            val(V) = IF V = {} THEN base ELSE Step(fold, c, h[V \ {Max(V)}], seq[Max(V)])
      <4> TAKE V \in SUBSET T
      <4>1. CASE V = {}
        BY <4>1
      <4>2. CASE V # {}
        <5>1. h[V \ {Max(V)}] = Fn(V \ {Max(V)})[V \ {Max(V)}]
          BY <2>3, <4>2
        <5> HIDE DEF h, Fn
        <5> QED
          BY <4>2, <5>1
      <4> QED
        BY <4>1, <4>2
    <3>2. h = [V \in SUBSET T |-> val(V)]
      OBVIOUS
    <3>. PICK f : f = h
      OBVIOUS
    <3>3. f = [V \in SUBSET T |-> IF V = {} THEN base
                                  ELSE Step(fold, c, f[V \ {Max(V)}], seq[Max(V)])]
      <4> HIDE DEF h, val
      <4> QED
        BY <3>1, <3>2
    <3>4. Iterates(fold, c, base, seq, T, f)
      BY <3>3 DEF Iterates
    <3> HIDE DEF h
    <3> QED
      BY <3>4
  <2> QED
    <3> HIDE DEF h
    <3> QED
      BY <2>4
<1>4. S \in D
  <2> HIDE DEF D
  <2> QED
    BY <1>2, SetInduction
<1> QED
  BY <1>4

LEMMA FinitePlaces ==
    ASSUME NEW H, NEW seq \in Seq(H)
    PROVE  IsFiniteSet(DOMAIN seq) /\ DOMAIN seq \subseteq Int
<1>1. Len(seq) \in Nat /\ DOMAIN seq = 1..Len(seq)
  OBVIOUS
<1>2. IsFiniteSet(1..Len(seq))
  BY <1>1, FS_Interval
<1> QED
  BY <1>1, <1>2

(* Each fold is the last of its iteration.                                 *)
LEMMA StoreFold ==
    ASSUME NEW view, NEW H, NEW hits \in Seq(H)
    PROVE  /\ IsFiniteSet(DOMAIN hits) /\ DOMAIN hits \subseteq Int
           /\ \E g : /\ Iterates("store", view, view, hits, DOMAIN hits, g)
                     /\ StoreDiscography(view, hits) = g[DOMAIN hits]
<1>1. IsFiniteSet(DOMAIN hits) /\ DOMAIN hits \subseteq Int
  BY FinitePlaces
<1> DEFINE one(g, s) == IF s = {} THEN view ELSE Upsert(view, g[s \ {Max(s)}], hits[Max(s)]).rows
           is(g) == g = [s \in SUBSET DOMAIN hits |-> one(g, s)]
<1>2. StoreDiscography(view, hits) = (CHOOSE g : is(g))[DOMAIN hits]
  BY DEF StoreDiscography, FoldLeft, MapThenFoldSet
<1>3. \A g, s : one(g, s) = IF s = {} THEN view
                            ELSE Step("store", view, g[s \ {Max(s)}], hits[Max(s)])
  BY DEF Step
<1>4. \A g : is(g) <=> Iterates("store", view, view, hits, DOMAIN hits, g)
  <2> HIDE DEF one
  <2> QED
    BY <1>3, Zenon DEF Iterates
<1>5. \E g : is(g)
  <2> HIDE DEF is
  <2> QED
    BY <1>1, <1>4, IteratesExist
<1> HIDE DEF is
<1>6. is(CHOOSE g : is(g))
  BY <1>5
<1> QED
  BY <1>1, <1>2, <1>4, <1>6

LEMMA EnrichFold ==
    ASSUME NEW view, NEW loaded, NEW H, NEW hits \in Seq(H)
    PROVE  /\ IsFiniteSet(DOMAIN hits) /\ DOMAIN hits \subseteq Int
           /\ \E g : /\ Iterates("enrich", view, [rows |-> view, mine |-> loaded], hits,
                                 DOMAIN hits, g)
                     /\ Enriched(view, loaded, hits) = g[DOMAIN hits].rows
<1>1. IsFiniteSet(DOMAIN hits) /\ DOMAIN hits \subseteq Int
  BY FinitePlaces
<1> DEFINE base == [rows |-> view, mine |-> loaded]
           one(g, s) == IF s = {} THEN base ELSE EnrichStep(view, g[s \ {Max(s)}], hits[Max(s)])
           is(g) == g = [s \in SUBSET DOMAIN hits |-> one(g, s)]
<1>2. Enriched(view, loaded, hits) = (CHOOSE g : is(g))[DOMAIN hits].rows
  BY DEF Enriched, FoldLeft, MapThenFoldSet
<1>3. \A g, s : one(g, s) = IF s = {} THEN base
                            ELSE Step("enrich", view, g[s \ {Max(s)}], hits[Max(s)])
  BY DEF Step
<1>4. \A g : is(g) <=> Iterates("enrich", view, base, hits, DOMAIN hits, g)
  <2> HIDE DEF one, base
  <2> QED
    BY <1>3, Zenon DEF Iterates
<1>5. \E g : is(g)
  <2> HIDE DEF is, base
  <2> QED
    BY <1>1, <1>4, IteratesExist
<1> HIDE DEF is
<1>6. is(CHOOSE g : is(g))
  BY <1>5
<1> QED
  BY <1>1, <1>2, <1>4, <1>6

LEMMA MergeFold ==
    ASSUME NEW rows, Table(rows)
    PROVE  /\ IsFiniteSet(DOMAIN Sorted(DOMAIN rows)) /\ DOMAIN Sorted(DOMAIN rows) \subseteq Int
           /\ \A n \in DOMAIN Sorted(DOMAIN rows) : Sorted(DOMAIN rows)[n] \in DOMAIN rows
           /\ \A a \in DOMAIN rows : \E n \in DOMAIN Sorted(DOMAIN rows) : Sorted(DOMAIN rows)[n] = a
           /\ \E g : /\ Iterates("merge", 0, [rows |-> rows, consumed |-> {}, into |-> << >>],
                                 Sorted(DOMAIN rows), DOMAIN Sorted(DOMAIN rows), g)
                     /\ Reconciled(rows) = g[DOMAIN Sorted(DOMAIN rows)]
<1>. PICK seq : seq = Sorted(DOMAIN rows)
  OBVIOUS
<1>0. /\ seq \in Seq(DOMAIN rows)
      /\ \A a \in DOMAIN rows : \E n \in DOMAIN seq : seq[n] = a
  <2>1. DOMAIN rows \in SUBSET Int /\ IsFiniteSet(DOMAIN rows)
    BY DEF Table
  <2> QED
    BY <2>1, SortedAll
<1>1. /\ IsFiniteSet(DOMAIN seq) /\ DOMAIN seq \subseteq Int
      /\ \A n \in DOMAIN seq : seq[n] \in DOMAIN rows
  BY <1>0, FinitePlaces
<1> DEFINE base == [rows |-> rows, consumed |-> {}, into |-> << >>]
           one(g, s) == IF s = {} THEN base ELSE MergeGroup(g[s \ {Max(s)}], seq[Max(s)])
           is(g) == g = [s \in SUBSET DOMAIN seq |-> one(g, s)]
<1>2. Reconciled(rows) = (CHOOSE g : is(g))[DOMAIN seq]
  BY DEF Reconciled, FoldLeft, MapThenFoldSet
<1>3. \A g, s : one(g, s) = IF s = {} THEN base
                            ELSE Step("merge", 0, g[s \ {Max(s)}], seq[Max(s)])
  BY DEF Step
<1>4. \A g : is(g) <=> Iterates("merge", 0, base, seq, DOMAIN seq, g)
  <2> HIDE DEF one, base
  <2> QED
    BY <1>3, Zenon DEF Iterates
<1>5. \E g : is(g)
  <2> HIDE DEF is, base
  <2> QED
    BY <1>1, <1>4, IteratesExist
<1> HIDE DEF is
<1>6. is(CHOOSE g : is(g))
  BY <1>5
<1> QED
  BY <1>0, <1>1, <1>2, <1>4, <1>6

Absorbed(rows, w, K) == FoldLeft(LAMBDA r, b : Absorb(r, rows[b]), rows[w], Sorted(K))

LEMMA AbsorbFold ==
    ASSUME NEW rows, NEW w, NEW K, IsFiniteSet(K), K \subseteq Int
    PROVE  /\ IsFiniteSet(DOMAIN Sorted(K)) /\ DOMAIN Sorted(K) \subseteq Int
           /\ \A n \in DOMAIN Sorted(K) : Sorted(K)[n] \in K
           /\ \E g : /\ Iterates("absorb", rows, rows[w], Sorted(K), DOMAIN Sorted(K), g)
                     /\ Absorbed(rows, w, K) = g[DOMAIN Sorted(K)]
<1>. PICK seq : seq = Sorted(K)
  OBVIOUS
<1>0. seq \in Seq(K)
  BY SortedAll
<1>1. /\ IsFiniteSet(DOMAIN seq) /\ DOMAIN seq \subseteq Int
      /\ \A n \in DOMAIN seq : seq[n] \in K
  BY <1>0, FinitePlaces
<1> DEFINE base == rows[w]
           one(g, s) == IF s = {} THEN base ELSE Absorb(g[s \ {Max(s)}], rows[seq[Max(s)]])
           is(g) == g = [s \in SUBSET DOMAIN seq |-> one(g, s)]
<1>2. Absorbed(rows, w, K) = (CHOOSE g : is(g))[DOMAIN seq]
  BY DEF Absorbed, FoldLeft, MapThenFoldSet
<1>3. \A g, s : one(g, s) = IF s = {} THEN base
                            ELSE Step("absorb", rows, g[s \ {Max(s)}], seq[Max(s)])
  BY DEF Step
<1>4. \A g : is(g) <=> Iterates("absorb", rows, base, seq, DOMAIN seq, g)
  <2> HIDE DEF one, base
  <2> QED
    BY <1>3, Zenon DEF Iterates
<1>5. \E g : is(g)
  <2> HIDE DEF is, base
  <2> QED
    BY <1>1, <1>4, IteratesExist
<1> HIDE DEF is
<1>6. is(CHOOSE g : is(g))
  BY <1>5
<1> QED
  BY <1>1, <1>2, <1>4, <1>6

-----------------------------------------------------------------------------
(* What storing makes of a table.                                          *)

LEMMA MinIn ==
    ASSUME NEW s \in SUBSET Nat, s # {}
    PROVE  Min(s) \in s
<1>1. \E x \in s : \A y \in s : x <= y
  BY Smallest
<1> QED
  BY <1>1 DEF Min

LEMMA NewIdNew ==
    ASSUME NEW f, IsFiniteSet(DOMAIN f), DOMAIN f \subseteq Nat
    PROVE  NewId(f) \in Nat \ {0} /\ NewId(f) \notin DOMAIN f
<1>. PICK s : s = DOMAIN f \cup {0}
  OBVIOUS
<1>1. IsFiniteSet({0})
  BY FS_Singleton
<1>2. IsFiniteSet(s)
  BY <1>1, FS_Union
<1>3. s \subseteq Int /\ s # {} /\ 0 \in s /\ s \subseteq Nat
  OBVIOUS
<1>4. Max(s) \in s /\ \A y \in s : y <= Max(s)
  BY <1>2, <1>3, MaxIn
<1>5. NewId(f) = Max(s) + 1
  BY DEF NewId
<1>6. \A y \in DOMAIN f : y <= Max(s) /\ y \in Nat /\ Max(s) \in Nat
  BY <1>3, <1>4
<1> QED
  BY <1>3, <1>4, <1>5, <1>6

LEMMA PutOne ==
    ASSUME NEW f, NEW x, NEW v
    PROVE  /\ DOMAIN Put(f, x, v) = DOMAIN f \cup {x}
           /\ \A y \in DOMAIN f \cup {x} : Put(f, x, v)[y] = IF y = x THEN v ELSE f[y]
  BY DEF Put, Over

LEMMA PutTable ==
    ASSUME NEW f, Table(f), NEW x \in Nat, NEW v, DOMAIN v = Columns
    PROVE  Table(Put(f, x, v))
<1>. PICK g : g = Put(f, x, v)
  OBVIOUS
<1>1. /\ DOMAIN g = DOMAIN f \cup {x}
      /\ \A y \in DOMAIN f \cup {x} : g[y] = IF y = x THEN v ELSE f[y]
  BY DEF Put, Over
<1>2. IsFiniteSet(DOMAIN f \cup {x})
  BY FS_AddElement DEF Table
<1>3. IsFiniteSet(DOMAIN g) /\ DOMAIN g \subseteq Nat
  BY <1>1, <1>2 DEF Table
<1>4. \A y \in DOMAIN g : DOMAIN g[y] = Columns
  BY <1>1 DEF Table
<1>5. Table(g)
  BY <1>3, <1>4 DEF Table
<1> QED
  BY <1>5

(* What a session sees and makes: tables with every album there is.        *)
Sees(view) == Table(view) /\ DOMAIN albums \subseteq DOMAIN view

LEMMA WriteTable ==
    ASSUME AlbumsInv, NEW view, Sees(view), NEW rows, Table(rows)
    PROVE  /\ Table(Write(view, rows))
           /\ DOMAIN Write(view, rows) \subseteq DOMAIN rows
           /\ DOMAIN Write(view, rows) = (DOMAIN albums \ (DOMAIN view \ DOMAIN rows))
                                          \cup (DOMAIN rows \ DOMAIN view)
           /\ \A a \in DOMAIN Write(view, rows) : Write(view, rows)[a] =
                IF a \notin DOMAIN view THEN (IF a \in DOMAIN rows THEN rows[a] ELSE albums[a])
                ELSE [c \in Columns |-> IF rows[a][c] # view[a][c] THEN rows[a][c] ELSE albums[a][c]]
<1>. PICK W : W = Write(view, rows)
  OBVIOUS
<1>. PICK D : D = (DOMAIN albums \ (DOMAIN view \ DOMAIN rows)) \cup (DOMAIN rows \ DOMAIN view)
  OBVIOUS
<1>1. DOMAIN W = D
  BY DEF Write
<1>2. \A a \in DOMAIN W : W[a] =
        IF a \notin DOMAIN view THEN (IF a \in DOMAIN rows THEN rows[a] ELSE albums[a])
        ELSE [c \in Columns |-> IF rows[a][c] # view[a][c] THEN rows[a][c] ELSE albums[a][c]]
  BY DEF Write
<1>3. D \subseteq DOMAIN rows
  BY DEF Sees
<1>4. IsFiniteSet(D) /\ D \subseteq Nat
  BY <1>3, FS_Subset DEF Table
<1>5. \A a \in D : DOMAIN W[a] = Columns
  <2> TAKE a \in D
  <2>1. CASE a \notin DOMAIN view
    <3>1. W[a] = rows[a] /\ a \in DOMAIN rows
      BY <1>1, <1>2, <1>3, <2>1
    <3> QED
      BY <3>1 DEF Table
  <2>2. CASE a \in DOMAIN view
    BY <1>1, <1>2, <2>2
  <2> QED
    BY <2>1, <2>2
<1>6. Table(W)
  BY <1>1, <1>4, <1>5 DEF Table
<1> QED
  BY <1>1, <1>2, <1>3, <1>6

LEMMA UpsertKeeps ==
    ASSUME AlbumsInv, NEW view, Sees(view), NEW rows, Table(rows), DOMAIN view \subseteq DOMAIN rows,
           NEW hit
    PROVE  /\ Table(Upsert(view, rows, hit).rows)
           /\ DOMAIN Upsert(view, rows, hit).rows = DOMAIN rows \cup {Upsert(view, rows, hit).id}
           /\ Upsert(view, rows, hit).id \in Nat
<1>. PICK table : table = Write(view, rows)
  OBVIOUS
<1>. PICK found : found = IF ById(table, hit) # {} THEN ById(table, hit)
                          ELSE ByKey(rows, DOMAIN table, hit)
  OBVIOUS
<1>. PICK a : a = IF found # {} THEN Min(found) ELSE NewId(table)
  OBVIOUS
<1>. PICK row : row = IF found # {} THEN Apply(rows[a], hit) ELSE NewRow(hit)
  OBVIOUS
<1>1. /\ Upsert(view, rows, hit).id = a
      /\ Upsert(view, rows, hit).rows = Put(rows, a, row)
  BY DEF Upsert
<1>2. Table(table) /\ DOMAIN table \subseteq DOMAIN rows
  BY WriteTable
<1>3. found \subseteq DOMAIN table /\ DOMAIN table \subseteq Nat
  BY <1>2 DEF ById, ByKey, Table
<1>4. found # {} => a \in found
  BY <1>3, MinIn
<1>5. found = {} => a \in Nat
  BY <1>2, NewIdNew DEF Table
<1>6. a \in Nat
  BY <1>3, <1>4, <1>5
<1>7. DOMAIN row = Columns
  <2>1. CASE found # {}
    <3>1. a \in DOMAIN rows
      BY <1>2, <1>3, <1>4, <2>1
    <3> QED
      BY <2>1, <3>1 DEF Apply, Table
  <2>2. CASE found = {}
    BY <2>2 DEF NewRow, Apply
  <2> QED
    BY <2>1, <2>2
<1>8. Table(Put(rows, a, row))
  BY <1>6, <1>7, PutTable
<1>9. DOMAIN Put(rows, a, row) = DOMAIN rows \cup {a}
  BY PutOne
<1> QED
  BY <1>1, <1>6, <1>8, <1>9, Zenon

(* Row y forgets nothing of row x that a user set or a provider said.       *)
Remembers(x, y) ==
    /\ x.monitored => y.monitored
    /\ x.in_library => y.in_library
    /\ \A p \in Providers : x[p] # NoId => y[p] # NoId

Proper(hit) == hit.provider \in Providers /\ hit.id # NoId

LEMMA ColumnsApart ==
    /\ {"monitored", "in_library", "key", "year"} \cup Providers = Columns
    /\ "monitored" \notin Providers /\ "policy" \notin Providers
    /\ "in_library" \notin Providers /\ "key" \notin Providers /\ "year" \notin Providers
  BY CatalogAssumption DEF Columns

LEMMA ApplyRemembers ==
    ASSUME NEW row, DOMAIN row = Columns, NEW hit, Proper(hit)
    PROVE  Remembers(row, Apply(row, hit))
<1>. PICK new : new = Apply(row, hit)
  OBVIOUS
<1>1. \A c \in Columns : c \notin {"key", "year", hit.provider} => new[c] = row[c]
  BY DEF Apply
<1>2. new[hit.provider] = hit.id
  BY ColumnsApart DEF Apply, Proper
<1>3. new.monitored = row.monitored /\ new.in_library = row.in_library
  BY <1>1, ColumnsApart DEF Proper
<1>4. \A p \in Providers : p # hit.provider => new[p] = row[p]
  BY <1>1, ColumnsApart
<1>5. Remembers(row, new)
  BY <1>2, <1>3, <1>4 DEF Remembers, Proper
<1> QED
  BY <1>5

(* A session that sees the albums there are takes no identifier twice.     *)
LEMMA UpsertRemembers ==
    ASSUME AlbumsInv, NEW view, Sees(view), DOMAIN view = DOMAIN albums,
           NEW rows, Table(rows), DOMAIN view \subseteq DOMAIN rows, NEW hit, Proper(hit)
    PROVE  \A a \in DOMAIN rows : Remembers(rows[a], Upsert(view, rows, hit).rows[a])
<1>. PICK table : table = Write(view, rows)
  OBVIOUS
<1>. PICK found : found = IF ById(table, hit) # {} THEN ById(table, hit)
                          ELSE ByKey(rows, DOMAIN table, hit)
  OBVIOUS
<1>. PICK a : a = IF found # {} THEN Min(found) ELSE NewId(table)
  OBVIOUS
<1>. PICK row : row = IF found # {} THEN Apply(rows[a], hit) ELSE NewRow(hit)
  OBVIOUS
<1>. PICK new : new = Upsert(view, rows, hit).rows
  OBVIOUS
<1>1. new = Put(rows, a, row)
  BY DEF Upsert
<1>2. \A b \in DOMAIN rows : new[b] = IF b = a THEN row ELSE rows[b]
  BY <1>1 DEF Put, Over
<1>3. Table(table) /\ DOMAIN table = DOMAIN rows
  <2>1. /\ Table(table)
        /\ DOMAIN table = (DOMAIN albums \ (DOMAIN view \ DOMAIN rows)) \cup (DOMAIN rows \ DOMAIN view)
    BY WriteTable
  <2> QED
    BY <2>1
<1>4. found = {} => a \notin DOMAIN rows
  BY <1>3, NewIdNew DEF Table
<1>5. \A b \in DOMAIN rows : Remembers(rows[b], rows[b])
  BY DEF Remembers
<1>6. a \in DOMAIN rows => Remembers(rows[a], row)
  BY <1>4, ApplyRemembers DEF Table
<1> QED
  BY <1>2, <1>5, <1>6

LEMMA RemembersOn ==
    ASSUME NEW x, NEW y, NEW z, Remembers(x, y), Remembers(y, z)
    PROVE  Remembers(x, z)
  BY DEF Remembers

(* Storing a discography loses no row.                                     *)
LEMMA DiscographyKeeps ==
    ASSUME AlbumsInv, NEW view, Sees(view), NEW H, NEW hits \in Seq(H)
    PROVE  /\ Table(StoreDiscography(view, hits))
           /\ DOMAIN view \subseteq DOMAIN StoreDiscography(view, hits)
           /\ DOMAIN view = DOMAIN albums /\ (\A n \in DOMAIN hits : Proper(hits[n]))
                => \A a \in DOMAIN view : Remembers(view[a], StoreDiscography(view, hits)[a])
<1>1. IsFiniteSet(DOMAIN hits) /\ DOMAIN hits \subseteq Int
  BY StoreFold
<1>2. PICK g : /\ Iterates("store", view, view, hits, DOMAIN hits, g)
               /\ StoreDiscography(view, hits) = g[DOMAIN hits]
  BY StoreFold
<1> DEFINE Good(r) == /\ Table(r) /\ DOMAIN view \subseteq DOMAIN r
                      /\ DOMAIN view = DOMAIN albums /\ (\A n \in DOMAIN hits : Proper(hits[n]))
                           => \A a \in DOMAIN view : Remembers(view[a], r[a])
           D == {s \in SUBSET DOMAIN hits : Good(g[s])}
<1>3. ASSUME NEW T \in SUBSET DOMAIN hits, \A V \in SUBSET T : V # T => V \in D
      PROVE  T \in D
  <2>1. CASE T = {}
    <3>1. g[T] = view
      BY <1>2, <2>1 DEF Iterates
    <3>2. \A a \in DOMAIN view : Remembers(view[a], view[a])
      BY DEF Remembers
    <3>3. Good(view)
      BY <3>2 DEF Sees
    <3> HIDE DEF Good
    <3> QED
      BY <3>1, <3>3
  <2>2. CASE T # {}
    <3>1. Max(T) \in T
      <4>1. IsFiniteSet(T) /\ T \subseteq Int
        BY <1>1, FS_Subset
      <4> QED
        BY <2>2, <4>1, MaxIn
    <3>. PICK r : r = g[T \ {Max(T)}]
      OBVIOUS
    <3>2. T \ {Max(T)} \in D
      <4>1. T \ {Max(T)} \in SUBSET T /\ T \ {Max(T)} # T
        BY <3>1
      <4> QED
        BY <1>3, <4>1
    <3>3. Good(r)
      BY <3>2
    <3>. PICK x : x = hits[Max(T)]
      OBVIOUS
    <3>. PICK new : new = g[T]
      OBVIOUS
    <3>4. new = Upsert(view, r, x).rows
      BY <1>2, <2>2 DEF Iterates, Step
    <3>5. /\ Table(Upsert(view, r, x).rows)
          /\ DOMAIN Upsert(view, r, x).rows = DOMAIN r \cup {Upsert(view, r, x).id}
      BY <3>3, UpsertKeeps
    <3>6. Table(new) /\ DOMAIN view \subseteq DOMAIN new
      BY <3>3, <3>4, <3>5
    <3>7. ASSUME DOMAIN view = DOMAIN albums, \A n \in DOMAIN hits : Proper(hits[n]),
                 NEW a \in DOMAIN view
          PROVE  Remembers(view[a], new[a])
      <4>1. Proper(x)
        BY <3>1, <3>7
      <4>2. \A b \in DOMAIN r : Remembers(r[b], Upsert(view, r, x).rows[b])
        BY <3>3, <3>7, <4>1, UpsertRemembers
      <4>3. Remembers(r[a], new[a]) /\ Remembers(view[a], r[a])
        BY <3>3, <3>4, <3>7, <4>2
      <4> QED
        BY <4>3, RemembersOn
    <3>8. Good(new)
      BY <3>6, <3>7
    <3> HIDE DEF Good
    <3> QED
      BY <3>8
  <2> QED
    BY <2>1, <2>2
<1>4. DOMAIN hits \in D
  <2> HIDE DEF D
  <2> QED
    BY <1>1, <1>3, SetInduction
<1>5. Good(StoreDiscography(view, hits))
  <2> HIDE DEF Good
  <2> QED
    BY <1>2, <1>4
<1> QED
  BY <1>5

(* Nor does enriching.                                                     *)
LEMMA EnrichedKeeps ==
    ASSUME AlbumsInv, NEW view, Sees(view), NEW loaded, NEW H, NEW hits \in Seq(H)
    PROVE  /\ Table(Enriched(view, loaded, hits))
           /\ DOMAIN view \subseteq DOMAIN Enriched(view, loaded, hits)
           /\ DOMAIN view = DOMAIN albums /\ (\A n \in DOMAIN hits : Proper(hits[n]))
                => \A a \in DOMAIN view : Remembers(view[a], Enriched(view, loaded, hits)[a])
<1>1. IsFiniteSet(DOMAIN hits) /\ DOMAIN hits \subseteq Int
  BY EnrichFold
<1>. PICK base : base = [rows |-> view, mine |-> loaded]
  OBVIOUS
<1>2. PICK g : /\ Iterates("enrich", view, base, hits, DOMAIN hits, g)
               /\ Enriched(view, loaded, hits) = g[DOMAIN hits].rows
  BY EnrichFold
<1> DEFINE Good(r) == /\ r = [rows |-> r.rows, mine |-> r.mine]
                      /\ Table(r.rows) /\ DOMAIN view \subseteq DOMAIN r.rows
                      /\ DOMAIN view = DOMAIN albums /\ (\A n \in DOMAIN hits : Proper(hits[n]))
                           => \A a \in DOMAIN view : Remembers(view[a], r.rows[a])
           D == {s \in SUBSET DOMAIN hits : Good(g[s])}
<1>3. ASSUME NEW T \in SUBSET DOMAIN hits, \A V \in SUBSET T : V # T => V \in D
      PROVE  T \in D
  <2>1. CASE T = {}
    <3>1. g[T] = base
      BY <1>2, <2>1 DEF Iterates
    <3>2. \A a \in DOMAIN view : Remembers(view[a], view[a])
      BY DEF Remembers
    <3>3. Good(base)
      BY <3>2 DEF Sees
    <3> HIDE DEF Good
    <3> QED
      BY <3>1, <3>3
  <2>2. CASE T # {}
    <3>1. Max(T) \in T
      <4>1. IsFiniteSet(T) /\ T \subseteq Int
        BY <1>1, FS_Subset
      <4> QED
        BY <2>2, <4>1, MaxIn
    <3>. PICK r : r = g[T \ {Max(T)}]
      OBVIOUS
    <3>2. T \ {Max(T)} \in D
      <4>1. T \ {Max(T)} \in SUBSET T /\ T \ {Max(T)} # T
        BY <3>1
      <4> QED
        BY <1>3, <4>1
    <3>3. Good(r)
      BY <3>2
    <3>. PICK x : x = hits[Max(T)]
      OBVIOUS
    <3>4. g[T] = EnrichStep(view, r, x)
      BY <1>2, <2>2 DEF Iterates, Step
    <3>5. CASE ByKey(r.rows, r.mine, x) # {}
      <4>. PICK m : m = Min(ByKey(r.rows, r.mine, x))
        OBVIOUS
      <4>. PICK rows : rows = r.rows
        OBVIOUS
      <4>. PICK new : new = [rows EXCEPT ![m] = Apply(rows[m], x)]
        OBVIOUS
      <4>1. g[T] = [rows |-> new, mine |-> r.mine]
        BY <3>3, <3>4, <3>5 DEF EnrichStep
      <4>2. DOMAIN new = DOMAIN rows
        OBVIOUS
      <4>3. \A a \in DOMAIN new : DOMAIN new[a] = Columns
        BY <3>3, <4>2 DEF Table, Apply
      <4>4. Table(new) /\ DOMAIN view \subseteq DOMAIN new
        BY <3>3, <4>2, <4>3 DEF Table
      <4>. PICK n : n = g[T]
        OBVIOUS
      <4>5. n = [rows |-> n.rows, mine |-> n.mine] /\ n.rows = new
        BY <4>1
      <4>7. ASSUME DOMAIN view = DOMAIN albums, \A k \in DOMAIN hits : Proper(hits[k]),
                   NEW a \in DOMAIN view
            PROVE  Remembers(view[a], new[a])
        <5>1. Proper(x) /\ a \in DOMAIN rows /\ DOMAIN rows[a] = Columns
          BY <3>1, <3>3, <4>7 DEF Table
        <5>2. Remembers(rows[a], Apply(rows[a], x)) /\ Remembers(rows[a], rows[a])
          BY <5>1, ApplyRemembers DEF Remembers
        <5>3. Remembers(view[a], rows[a]) /\ Remembers(rows[a], new[a])
          BY <3>3, <4>7, <5>1, <5>2
        <5> QED
          BY <5>3, RemembersOn
      <4>6. Good(n)
        BY <4>4, <4>5, <4>7
      <4> HIDE DEF Good
      <4> QED
        BY <4>6
    <3>6. CASE ~(ByKey(r.rows, r.mine, x) # {})
      <4>. PICK rows : rows = r.rows
        OBVIOUS
      <4>. PICK u : u = Upsert(view, rows, x)
        BY Zenon
      <4>1. g[T] = [rows |-> u.rows, mine |-> r.mine \cup {u.id}]
        BY <3>4, <3>6 DEF EnrichStep
      <4>2. /\ Table(Upsert(view, rows, x).rows)
            /\ DOMAIN Upsert(view, rows, x).rows = DOMAIN rows \cup {Upsert(view, rows, x).id}
        BY <3>3, UpsertKeeps
      <4>3. Table(u.rows) /\ DOMAIN view \subseteq DOMAIN u.rows
        BY <3>3, <4>2
      <4>. PICK n : n = g[T]
        OBVIOUS
      <4>4. n = [rows |-> n.rows, mine |-> n.mine] /\ n.rows = u.rows
        BY <4>1
      <4>6. ASSUME DOMAIN view = DOMAIN albums, \A k \in DOMAIN hits : Proper(hits[k]),
                   NEW a \in DOMAIN view
            PROVE  Remembers(view[a], u.rows[a])
        <5>1. Proper(x)
          BY <3>1, <4>6
        <5>2. \A c \in DOMAIN rows : Remembers(rows[c], Upsert(view, rows, x).rows[c])
          BY <3>3, <4>6, <5>1, UpsertRemembers
        <5>3. Remembers(view[a], rows[a]) /\ Remembers(rows[a], u.rows[a])
          BY <3>3, <4>6, <5>2
        <5> QED
          BY <5>3, RemembersOn
      <4>5. Good(n)
        BY <4>3, <4>4, <4>6
      <4> HIDE DEF Good
      <4> QED
        BY <4>5
    <3> QED
      BY <3>5, <3>6
  <2> QED
    BY <2>1, <2>2
<1>4. DOMAIN hits \in D
  <2> HIDE DEF D
  <2> QED
    BY <1>1, <1>3, SetInduction
<1>5. Good(g[DOMAIN hits])
  <2> HIDE DEF Good
  <2> QED
    BY <1>4
<1> QED
  BY <1>2, <1>5

-----------------------------------------------------------------------------
(* Merging.  The winner's row has the year of some row of its group, and a *)
(* year if any of them has one.                                            *)
LEMMA AbsorbedRow ==
    ASSUME NEW rows, Table(rows), NEW w \in DOMAIN rows, NEW K \in SUBSET DOMAIN rows
    PROVE  /\ DOMAIN Absorbed(rows, w, K) = Columns
           /\ Absorbed(rows, w, K).key = rows[w].key
           /\ \E b \in K \cup {w} : Absorbed(rows, w, K).year = rows[b].year
           /\ \A b \in K \cup {w} : rows[b].year # NoYear => Absorbed(rows, w, K).year # NoYear
           /\ \A b \in K \cup {w} : Remembers(rows[b], Absorbed(rows, w, K))
<1>1. IsFiniteSet(K) /\ K \subseteq Int
  BY FS_Subset DEF Table
<1>. PICK seq : seq = Sorted(K)
  OBVIOUS
<1>2. /\ IsFiniteSet(DOMAIN seq) /\ DOMAIN seq \subseteq Int
      /\ \A n \in DOMAIN seq : seq[n] \in K
  BY <1>1, AbsorbFold
<1>3. \A b \in K : \E n \in DOMAIN seq : seq[n] = b
  BY <1>1, SortedAll
<1>4. PICK g : /\ Iterates("absorb", rows, rows[w], seq, DOMAIN seq, g)
               /\ Absorbed(rows, w, K) = g[DOMAIN seq]
  BY <1>1, AbsorbFold
<1> DEFINE Good(s, r) ==
             /\ DOMAIN r = Columns
             /\ r.key = rows[w].key
             /\ \E b \in K \cup {w} : r.year = rows[b].year
             /\ rows[w].year # NoYear => r.year # NoYear
             /\ \A n \in s : rows[seq[n]].year # NoYear => r.year # NoYear
             /\ Remembers(rows[w], r)
             /\ \A n \in s : Remembers(rows[seq[n]], r)
           D == {s \in SUBSET DOMAIN seq : Good(s, g[s])}
<1>5. ASSUME NEW T \in SUBSET DOMAIN seq, \A V \in SUBSET T : V # T => V \in D
      PROVE  T \in D
  <2>1. CASE T = {}
    <3>1. g[T] = rows[w]
      BY <1>4, <2>1 DEF Iterates
    <3>2. Good(T, rows[w])
      BY <2>1 DEF Table, Remembers
    <3> HIDE DEF Good
    <3> QED
      BY <3>1, <3>2
  <2>2. CASE T # {}
    <3>1. Max(T) \in T
      <4>1. IsFiniteSet(T) /\ T \subseteq Int
        BY <1>2, FS_Subset
      <4> QED
        BY <2>2, <4>1, MaxIn
    <3>. PICK m \in T : m = Max(T)
      BY <3>1
    <3>. PICK V : V = T \ {m}
      OBVIOUS
    <3>. PICK r : r = g[V]
      OBVIOUS
    <3>2. V \in D
      <4>1. V \in SUBSET T /\ V # T
        OBVIOUS
      <4> HIDE DEF D
      <4> QED
        BY <1>5, <4>1
    <3>3. Good(V, r)
      BY <3>2
    <3>. PICK x : x = rows[seq[m]]
      OBVIOUS
    <3>. PICK new : new = g[T]
      OBVIOUS
    <3>4. new = Absorb(r, x)
      BY <1>4, <2>2 DEF Iterates, Step
    <3>5. DOMAIN new = Columns /\ new.key = r.key
          /\ new.year = IF r.year = NoYear THEN x.year ELSE r.year
      BY <3>4 DEF Absorb, Columns, OrElse, NoYear
    <3>6. seq[m] \in K
      BY <1>2
    <3>7. \A n \in T : n = m \/ n \in V
      OBVIOUS
    <3>8. /\ \E b \in K \cup {w} : new.year = rows[b].year
          /\ r.year # NoYear => new.year # NoYear
          /\ x.year # NoYear => new.year # NoYear
      BY <3>3, <3>5, <3>6
    <3>9. Remembers(r, new) /\ Remembers(x, new)
      <4>1. \A p \in Providers : new[p] = IF r[p] = NoId THEN x[p] ELSE r[p]
        BY <3>4, ColumnsApart DEF Absorb, OrElse, NoId
      <4>2. /\ new.monitored = (r.monitored \/ x.monitored)
            /\ new.in_library = (r.in_library \/ x.in_library)
        BY <3>4, ColumnsApart DEF Absorb
      <4> QED
        BY <4>1, <4>2 DEF Remembers
    <3>10. Remembers(rows[w], new) /\ \A n \in T : Remembers(rows[seq[n]], new)
      BY <3>3, <3>7, <3>9, RemembersOn
    <3>11. Good(T, new)
      BY <3>3, <3>5, <3>7, <3>8, <3>10
    <3> HIDE DEF Good
    <3> QED
      BY <3>11
  <2> QED
    BY <2>1, <2>2
<1>6. DOMAIN seq \in D
  <2> HIDE DEF D
  <2> QED
    BY <1>2, <1>5, SetInduction
<1>7. Good(DOMAIN seq, g[DOMAIN seq])
  BY <1>6
<1> QED
  BY <1>3, <1>4, <1>7

LEMMA ScoreInt ==
    ASSUME NEW rows, NEW a \in Nat
    PROVE  Score(rows, a) \in Int
<1> DEFINE has(p, n) == IF p \in Providers /\ rows[a][p] # NoId THEN n ELSE 0
<1>1. Score(rows, a) = has("musicbrainz", 400) + has("deezer", 200) + has("itunes", 100) + a
  BY DEF Score
<1>2. \A p : \A n \in Nat : has(p, n) \in Nat
  OBVIOUS
<1>3. has("musicbrainz", 400) \in Nat /\ has("deezer", 200) \in Nat /\ has("itunes", 100) \in Nat
  BY <1>2
<1> HIDE DEF has
<1> QED
  BY <1>1, <1>3

(* A group has a winner.                                                   *)
LEMMA Winner ==
    ASSUME NEW rows, NEW G, IsFiniteSet(G), G \subseteq Nat, G # {}
    PROVE  (CHOOSE b \in G : \A c \in G : Score(rows, c) <= Score(rows, b)) \in G
<1> DEFINE best(T) == \E b \in T : \A c \in T : Score(rows, c) <= Score(rows, b)
           D == {T \in SUBSET G : T = {} \/ best(T)}
<1>0. \A b \in G : Score(rows, b) \in Int
  BY ScoreInt
<1>1. ASSUME NEW T \in SUBSET G, \A V \in SUBSET T : V # T => V \in D
      PROVE  T \in D
  <2>1. CASE T = {}
    BY <2>1
  <2>2. CASE T # {}
    <3>. PICK x \in T : TRUE
      BY <2>2
    <3>1. T \ {x} \in SUBSET T /\ T \ {x} # T
      OBVIOUS
    <3>2. T \ {x} \in D
      BY <1>1, <3>1
    <3>3. CASE T \ {x} = {}
      <4>1. \A y \in T : y = x
        BY <3>3
      <4>2. \A y \in T : Score(rows, y) <= Score(rows, x)
        BY <1>0, <4>1
      <4> QED
        BY <4>2
    <3>4. CASE T \ {x} # {}
      <4>1. PICK m \in T \ {x} : \A y \in T \ {x} : Score(rows, y) <= Score(rows, m)
        BY <3>2, <3>4
      <4>2. CASE Score(rows, x) <= Score(rows, m)
        BY <4>1, <4>2
      <4>3. CASE ~(Score(rows, x) <= Score(rows, m))
        <5>1. \A y \in T : y = x \/ y \in T \ {x}
          OBVIOUS
        <5>2. \A y \in T : Score(rows, y) <= Score(rows, x)
          BY <1>0, <4>1, <4>3, <5>1
        <5> QED
          BY <5>2
      <4> QED
        BY <4>2, <4>3
    <3> QED
      BY <3>3, <3>4
  <2> QED
    BY <2>1, <2>2
<1>2. G \in D
  <2> HIDE DEF D
  <2> QED
    BY <1>1, SetInduction
<1> QED
  BY <1>2

(* No other row stands for the album of row x.                             *)
Alone(rows, x) == \A y \in DOMAIN rows : y # x => ~Match(rows[x], rows[y])

(* Where a merge of the table first stands: rows that went are led into    *)
(* rows that stay and remember them, and what was merged is alone.         *)
Merging(first, r) ==
    /\ r = [rows |-> r.rows, consumed |-> r.consumed, into |-> r.into]
    /\ Table(r.rows) /\ DOMAIN r.rows \subseteq DOMAIN first
    /\ DOMAIN r.into = DOMAIN first \ DOMAIN r.rows
    /\ \A b \in DOMAIN r.into : r.into[b] \in DOMAIN r.rows /\ r.into[b] \in r.consumed
    /\ \A x \in DOMAIN r.rows : x \in r.consumed => Alone(r.rows, x)
    /\ \A x \in DOMAIN first : Remembers(first[x], r.rows[Moved(r.into, x)])

(* The winner's new row matches none that is left, for a row which matched *)
(* it would match one of the group, and be in it or not be alone.          *)
LEMMA WinnerAlone ==
    ASSUME NEW R, NEW used, NEW a \in DOMAIN R, NEW w, NEW row, NEW G,
           \A b : b \in G <=> b \in DOMAIN R /\ b \notin used /\ Match(R[a], R[b]),
           w \in G, a \in G,
           \A x \in DOMAIN R : x \in used => Alone(R, x),
           row.key = R[w].key, \E b \in G : row.year = R[b].year,
           \A b \in G : R[b].year # NoYear => row.year # NoYear,
           NEW y \in DOMAIN R, y \notin G
    PROVE  ~Match(row, R[y]) /\ ~Match(R[y], row)
<1>1. PICK b \in G : row.year = R[b].year
  OBVIOUS
<1>2. \A c \in G : c \in DOMAIN R /\ Match(R[a], R[c])
  OBVIOUS
<1>3. row.key = R[a].key /\ R[b].key = R[a].key
  BY <1>2 DEF Match
<1>4. R[a].year # NoYear => row.year = R[a].year
  <2>1. R[a].year # NoYear => row.year # NoYear
    OBVIOUS
  <2>2. R[a].year = R[b].year \/ R[a].year = NoYear \/ R[b].year = NoYear
    BY <1>2 DEF Match
  <2> QED
    BY <1>1, <2>1, <2>2
<1>5. CASE y \in used
  <2>1. Alone(R, y) /\ b \in DOMAIN R /\ b # y
    BY <1>2, <1>5
  <2>2. ~Match(R[y], R[b])
    BY <2>1 DEF Alone
  <2> QED
    BY <1>1, <1>3, <2>2 DEF Match
<1>6. CASE y \notin used
  <2>1. ~Match(R[a], R[y])
    BY <1>6
  <2> QED
    BY <1>3, <1>4, <2>1 DEF Match
<1> QED
  BY <1>5, <1>6

LEMMA MergeStep ==
    ASSUME NEW first, NEW r, Merging(first, r), NEW a
    PROVE  /\ Merging(first, MergeGroup(r, a))
           /\ a \in DOMAIN MergeGroup(r, a).rows => Alone(MergeGroup(r, a).rows, a)
           /\ \A x \in DOMAIN MergeGroup(r, a).rows :
                x \in DOMAIN r.rows /\ (Alone(r.rows, x) => Alone(MergeGroup(r, a).rows, x))
<1> DEFINE R == r.rows
           G == {b \in DOMAIN R \ r.consumed : Match(R[a], R[b])}
           w == CHOOSE b \in G : \A c \in G : Score(R, c) <= Score(R, b)
           row == Absorbed(R, w, G \ {w})
           S == [b \in DOMAIN R \ (G \ {w}) |-> IF b = w THEN row ELSE R[b]]
           moved == Over([b \in G \ {w} |-> w], r.into)
           n == MergeGroup(r, a)
<1>1. n = IF a \in r.consumed \/ a \notin DOMAIN R \/ Cardinality(G) < 2 THEN r
          ELSE [rows |-> S, consumed |-> r.consumed \cup G, into |-> moved]
  BY DEF MergeGroup, Absorbed
<1>6. \A b : b \in G <=> b \in DOMAIN R /\ b \notin r.consumed /\ Match(R[a], R[b])
  OBVIOUS
<1>7. IsFiniteSet(G) /\ G \subseteq Nat /\ G # {} => w \in G
  <2> HIDE DEF R, G
  <2> QED
    BY Winner
<1>8. /\ DOMAIN S = DOMAIN R \ (G \ {w})
      /\ \A b \in DOMAIN S : S[b] = IF b = w THEN row ELSE R[b]
  <2> HIDE DEF R, G, w, row
  <2> QED
    OBVIOUS
<1>9. /\ DOMAIN moved = (G \ {w}) \cup DOMAIN r.into
      /\ \A b \in DOMAIN moved : moved[b] = IF b \in G \ {w} THEN w ELSE r.into[b]
  <2> HIDE DEF R, G, w
  <2> QED
    BY DEF Over
<1> HIDE DEF G, w, S, moved, n
<1>2. /\ Table(R) /\ IsFiniteSet(DOMAIN R) /\ DOMAIN R \subseteq Nat
      /\ DOMAIN R \subseteq DOMAIN first
      /\ DOMAIN r.into = DOMAIN first \ DOMAIN R
      /\ \A b \in DOMAIN r.into : r.into[b] \in DOMAIN R /\ r.into[b] \in r.consumed
      /\ \A x \in DOMAIN R : x \in r.consumed => Alone(R, x)
      /\ \A x \in DOMAIN first : Remembers(first[x], R[Moved(r.into, x)])
  BY DEF Merging, Table
<1>3. IsFiniteSet(G) /\ G \subseteq DOMAIN R
  BY <1>2, <1>6, FS_Subset
<1>4. CASE a \in r.consumed \/ a \notin DOMAIN R
  <2>1. n = r
    BY <1>1, <1>4
  <2>2. a \in DOMAIN R => Alone(R, a)
    BY <1>2, <1>4
  <2> QED
    BY <2>1, <2>2, Zenon DEF n
<1>5. CASE a \in DOMAIN R /\ a \notin r.consumed
  <2>1. a \in G
    BY <1>5, <1>6 DEF Match
  <2>2. CASE Cardinality(G) < 2
    <3>1. n = r
      BY <1>1, <2>2
    <3>2. \A y \in G : y = a
      <4>1. Cardinality(G) \in Nat /\ IsFiniteSet(G \ {a})
        BY <1>3, FS_CardinalityType, FS_Subset
      <4>2. Cardinality(G \ {a}) = Cardinality(G) - 1
        BY <1>3, <2>1, FS_RemoveElement
      <4>3. Cardinality(G \ {a}) \in Nat
        BY <4>1, FS_CardinalityType
      <4>4. Cardinality(G \ {a}) = 0
        BY <2>2, <4>1, <4>2, <4>3
      <4>5. G \ {a} = {}
        BY <4>1, <4>4, FS_EmptySet
      <4> QED
        BY <4>5
    <3>3. Alone(R, a)
      <4> SUFFICES ASSUME NEW y \in DOMAIN R, y # a PROVE ~Match(R[a], R[y])
        BY DEF Alone
      <4>1. CASE y \in r.consumed
        <5>1. ~Match(R[y], R[a])
          BY <1>2, <1>5, <4>1 DEF Alone
        <5> QED
          BY <5>1 DEF Match
      <4>2. CASE y \notin r.consumed
        BY <1>6, <3>2, <4>2
      <4> QED
        BY <4>1, <4>2
    <3> QED
      BY <3>1, <3>3, Zenon DEF n
  <2>3. CASE ~(Cardinality(G) < 2)
    <3>1. n = [rows |-> S, consumed |-> r.consumed \cup G, into |-> moved]
      BY <1>1, <1>5, <2>3
    <3>2. w \in G
      BY <1>2, <1>3, <1>7, <2>1
    <3>3. /\ DOMAIN row = Columns
          /\ row.key = R[w].key
          /\ \E b \in G : row.year = R[b].year
          /\ \A b \in G : R[b].year # NoYear => row.year # NoYear
          /\ \A b \in G : Remembers(R[b], row)
      <4>1. w \in DOMAIN R /\ G \ {w} \in SUBSET DOMAIN R /\ (\A b : b \in G <=> b \in (G \ {w}) \cup {w})
        BY <1>3, <3>2
      <4>2. /\ DOMAIN Absorbed(R, w, G \ {w}) = Columns
            /\ Absorbed(R, w, G \ {w}).key = R[w].key
            /\ \E b \in (G \ {w}) \cup {w} : Absorbed(R, w, G \ {w}).year = R[b].year
            /\ \A b \in (G \ {w}) \cup {w} :
                 R[b].year # NoYear => Absorbed(R, w, G \ {w}).year # NoYear
            /\ \A b \in (G \ {w}) \cup {w} : Remembers(R[b], Absorbed(R, w, G \ {w}))
        BY <1>2, <4>1, AbsorbedRow
      <4> QED
        BY <4>1, <4>2
    <3>4. /\ DOMAIN S = DOMAIN R \ (G \ {w})
          /\ \A b \in DOMAIN S : b \in DOMAIN R /\ (b # w => S[b] = R[b] /\ b \notin G)
          /\ w \in DOMAIN S /\ S[w] = row
      BY <1>3, <1>8, <3>2
    <3>5. \A y \in DOMAIN S : y # w => ~Match(row, R[y]) /\ ~Match(R[y], row)
      <4> SUFFICES ASSUME NEW y \in DOMAIN S, y # w PROVE ~Match(row, R[y]) /\ ~Match(R[y], row)
        OBVIOUS
      <4>1. y \in DOMAIN R /\ y \notin G
        BY <3>4
      <4> HIDE DEF R, row
      <4> QED
        BY <1>2, <1>5, <1>6, <2>1, <3>2, <3>3, <4>1, WinnerAlone
    <3>6. Alone(S, w)
      BY <3>4, <3>5 DEF Alone
    <3>7. \A x \in DOMAIN S : Alone(R, x) => Alone(S, x)
      <4> SUFFICES ASSUME NEW x \in DOMAIN S, Alone(R, x), x # w,
                          NEW y \in DOMAIN S, y # x
                   PROVE  ~Match(S[x], S[y])
        BY <3>6 DEF Alone
      <4>1. CASE y = w
        BY <3>4, <3>5, <4>1
      <4>2. CASE y # w
        BY <3>4, <4>2 DEF Alone
      <4> QED
        BY <4>1, <4>2
    <3>8. a \in DOMAIN S => Alone(S, a)
      BY <2>1, <3>4, <3>6
    <3>9. Table(S) /\ DOMAIN S \subseteq DOMAIN first
      <4>1. IsFiniteSet(DOMAIN S)
        BY <1>2, <3>4, FS_Subset
      <4>2. \A b \in DOMAIN S : DOMAIN S[b] = Columns
        BY <1>2, <3>3, <3>4 DEF Table
      <4> QED
        BY <1>2, <3>4, <4>1, <4>2 DEF Table
    <3>11. DOMAIN moved = DOMAIN first \ DOMAIN S
      BY <1>2, <1>3, <3>4, <1>9
    <3>12. \A b \in DOMAIN moved : moved[b] \in DOMAIN S /\ moved[b] \in r.consumed \cup G
      <4> TAKE b \in DOMAIN moved
      <4>1. CASE b \in G \ {w}
        BY <3>2, <3>4, <1>9, <4>1
      <4>2. CASE b \notin G \ {w}
        <5>1. moved[b] = r.into[b] /\ b \in DOMAIN r.into
          BY <1>9, <4>2
        <5>2. moved[b] \in DOMAIN R /\ moved[b] \in r.consumed
          BY <1>2, <5>1
        <5> QED
          BY <1>6, <1>8, <5>2
      <4> QED
        BY <4>1, <4>2
    <3>13. \A x \in DOMAIN S : x \in r.consumed \cup G => Alone(S, x)
      BY <1>2, <3>4, <3>6, <3>7
    <3>16. ASSUME NEW x \in DOMAIN first PROVE Remembers(first[x], S[Moved(moved, x)])
      <4>. PICK m : m = Moved(r.into, x)
        OBVIOUS
      <4>. PICK k : k = Moved(moved, x)
        OBVIOUS
      <4>1. m \in DOMAIN R /\ (x \in DOMAIN R => m = x) /\ Remembers(first[x], R[m])
        BY <1>2 DEF Moved
      <4>2. CASE x \in G \ {w}
        <5>1. k = w /\ m = x /\ x \in G
          BY <1>3, <1>9, <4>1, <4>2 DEF Moved
        <5>2. Remembers(R[m], S[k])
          BY <3>3, <3>4, <5>1
        <5> QED
          BY <4>1, <5>2, RemembersOn
      <4>3. CASE x \notin G \ {w}
        <5>1. k = m
          BY <1>9, <4>3 DEF Moved
        <5>2. m \notin G \ {w}
          <6>1. CASE x \in DOMAIN R
            BY <4>1, <4>3, <6>1
          <6>2. CASE x \notin DOMAIN R
            <7>1. x \in DOMAIN r.into /\ m = r.into[x] /\ m \in r.consumed
              BY <1>2, <6>2 DEF Moved
            <7> QED
              BY <1>6, <7>1
          <6> QED
            BY <6>1, <6>2
        <5>3. S[m] = IF m = w THEN row ELSE R[m]
          BY <1>8, <4>1, <5>2
        <5>4. m = w => Remembers(R[m], S[m])
          BY <3>2, <3>3, <5>3
        <5>5. m # w => Remembers(R[m], S[m])
          BY <5>3 DEF Remembers
        <5> QED
          BY <4>1, <5>1, <5>4, <5>5, RemembersOn
      <4> QED
        BY <4>2, <4>3
    <3>14. Merging(first, n)
      BY <3>1, <3>9, <3>11, <3>12, <3>13, <3>16 DEF Merging
    <3>15. n.rows = S
      BY <3>1
    <3> QED
      BY <3>4, <3>7, <3>8, <3>14, <3>15, Zenon DEF n
  <2> QED
    BY <2>2, <2>3
<1> QED
  BY <1>4, <1>5

(* So the merge of a table leaves every album alone.                       *)
LEMMA ReconciledTidy ==
    ASSUME NEW rows, Table(rows)
    PROVE  /\ Merging(rows, Reconciled(rows))
           /\ \A x \in DOMAIN Reconciled(rows).rows : Alone(Reconciled(rows).rows, x)
<1>. PICK seq : seq = Sorted(DOMAIN rows)
  OBVIOUS
<1>. PICK base : base = [rows |-> rows, consumed |-> {}, into |-> << >>]
  OBVIOUS
<1>1. /\ IsFiniteSet(DOMAIN seq) /\ DOMAIN seq \subseteq Int
      /\ \A a \in DOMAIN rows : \E n \in DOMAIN seq : seq[n] = a
  BY MergeFold
<1>2. PICK g : /\ Iterates("merge", 0, base, seq, DOMAIN seq, g)
               /\ Reconciled(rows) = g[DOMAIN seq]
  BY MergeFold
<1> DEFINE Good(s, r) ==
             /\ Merging(rows, r)
             /\ \A n \in s : seq[n] \in DOMAIN r.rows => Alone(r.rows, seq[n])
           D == {s \in SUBSET DOMAIN seq : Good(s, g[s])}
<1>3. Merging(rows, base)
  <2>1. \A x \in DOMAIN rows : Moved(<< >>, x) = x /\ Remembers(rows[x], rows[x])
    BY DEF Moved, Remembers
  <2> QED
    BY <2>1 DEF Merging
<1>4. ASSUME NEW T \in SUBSET DOMAIN seq, \A V \in SUBSET T : V # T => V \in D
      PROVE  T \in D
  <2>1. CASE T = {}
    <3>1. g[T] = base
      BY <1>2, <2>1 DEF Iterates
    <3>2. Good(T, base)
      BY <1>3, <2>1
    <3> HIDE DEF Good
    <3> QED
      BY <3>1, <3>2
  <2>2. CASE T # {}
    <3>1. Max(T) \in T
      <4>1. IsFiniteSet(T) /\ T \subseteq Int
        BY <1>1, FS_Subset
      <4> QED
        BY <2>2, <4>1, MaxIn
    <3>. PICK m \in T : m = Max(T)
      BY <3>1
    <3>. PICK V : V = T \ {m}
      OBVIOUS
    <3>. PICK r : r = g[V]
      OBVIOUS
    <3>2. V \in D
      <4>1. V \in SUBSET T /\ V # T
        OBVIOUS
      <4> HIDE DEF D
      <4> QED
        BY <1>4, <4>1
    <3>3. Good(V, r)
      BY <3>2
    <3>. PICK a : a = seq[m]
      OBVIOUS
    <3>. PICK new : new = g[T]
      OBVIOUS
    <3>4. new = MergeGroup(r, a)
      BY <1>2, <2>2 DEF Iterates, Step
    <3>5. /\ Merging(rows, MergeGroup(r, a))
          /\ a \in DOMAIN MergeGroup(r, a).rows => Alone(MergeGroup(r, a).rows, a)
          /\ \A x \in DOMAIN MergeGroup(r, a).rows :
               x \in DOMAIN r.rows /\ (Alone(r.rows, x) => Alone(MergeGroup(r, a).rows, x))
      BY <3>3, MergeStep
    <3>6. /\ Merging(rows, new)
          /\ a \in DOMAIN new.rows => Alone(new.rows, a)
          /\ \A x \in DOMAIN new.rows :
               x \in DOMAIN r.rows /\ (Alone(r.rows, x) => Alone(new.rows, x))
      BY <3>4, <3>5, Zenon
    <3>7. \A n \in T : n = m \/ n \in V
      OBVIOUS
    <3>8. Good(T, new)
      BY <3>3, <3>6, <3>7
    <3> HIDE DEF Good
    <3> QED
      BY <3>8
  <2> QED
    BY <2>1, <2>2
<1>5. DOMAIN seq \in D
  <2> HIDE DEF D
  <2> QED
    BY <1>1, <1>4, SetInduction
<1>6. Good(DOMAIN seq, Reconciled(rows))
  <2> HIDE DEF Good
  <2> QED
    BY <1>2, <1>5
<1>7. DOMAIN Reconciled(rows).rows \subseteq DOMAIN rows
  BY <1>6 DEF Merging
<1> QED
  BY <1>1, <1>6, <1>7

-----------------------------------------------------------------------------
(* What a session sees when it stores.                                     *)

LEMMA SeesViews ==
    ASSUME AlbumsInv, SessionsInv, NEW t \in Tasks
    PROVE  /\ Sees(OldView(t))
           /\ Sees(View(t)) /\ DOMAIN View(t) = DOMAIN albums
           /\ session[t].albums = albums => \A a \in DOMAIN albums : View(t)[a] = albums[a]
           /\ session[t].albums = albums => DOMAIN OldView(t) = DOMAIN albums
           /\ session[t].albums = albums => \A a \in DOMAIN albums : OldView(t)[a] = albums[a]
<1>. PICK old : old = session[t].albums
  OBVIOUS
<1>. PICK view : view = OldView(t)
  OBVIOUS
<1>. PICK now : now = View(t)
  OBVIOUS
<1>1. Table(old) /\ Table(albums)
  BY AlbumsTable DEF SessionsInv, SessionOK
<1>2. /\ DOMAIN view = DOMAIN old \cup DOMAIN albums
      /\ \A a \in DOMAIN view : view[a] = IF a \in DOMAIN old THEN old[a] ELSE albums[a]
  BY DEF OldView, Over
<1>3. DOMAIN now = DOMAIN albums /\ \A a \in DOMAIN now : now[a] = view[a]
  BY DEF View, Restrict
<1>4. IsFiniteSet(DOMAIN view)
  <2>1. IsFiniteSet(DOMAIN old \cup DOMAIN albums)
    BY <1>1, FS_Union DEF Table
  <2> QED
    BY <1>2, <2>1
<1>5. DOMAIN view \subseteq Nat /\ \A a \in DOMAIN view : DOMAIN view[a] = Columns
  BY <1>1, <1>2 DEF Table
<1>6. Sees(view)
  BY <1>2, <1>4, <1>5 DEF Sees, Table
<1>7. Sees(now)
  BY <1>1, <1>2, <1>3, <1>5 DEF Sees, Table
<1>8. old = albums => /\ \A a \in DOMAIN albums : view[a] = albums[a]
                      /\ DOMAIN view = DOMAIN albums
  BY <1>2
<1> QED
  BY <1>2, <1>3, <1>6, <1>7, <1>8

LEMMA StoreKeeps ==
    ASSUME AlbumsInv, NEW view, Sees(view), NEW rows, Table(rows), Store(view, rows)
    PROVE  /\ AlbumsInv'
           /\ DOMAIN view \subseteq DOMAIN rows => DOMAIN albums \subseteq DOMAIN albums'
           /\ DOMAIN view = DOMAIN albums => DOMAIN albums' = DOMAIN rows
<1>. PICK W : W = Write(view, rows)
  OBVIOUS
<1>. PICK new : new = albums'
  OBVIOUS
<1>1. /\ Table(W)
      /\ DOMAIN W = (DOMAIN albums \ (DOMAIN view \ DOMAIN rows)) \cup (DOMAIN rows \ DOMAIN view)
  BY WriteTable
<1>2. new = W /\ DOMAIN new \subseteq 1..MaxAlbums
  BY DEF Store
<1>3. \A p \in Providers, a, b \in DOMAIN W : a # b /\ W[a][p] # NoId => W[a][p] # W[b][p]
  BY DEF Store, Fits
<1>4. AlbumsInv'
  <2>1. \A a \in DOMAIN new : DOMAIN new[a] = Columns
    BY <1>1, <1>2 DEF Table
  <2>2. \A p \in Providers, a, b \in DOMAIN new : new[a][p] # NoId /\ new[a][p] = new[b][p] => a = b
    BY <1>2, <1>3
  <2> QED
    BY <1>2, <2>1, <2>2 DEF AlbumsInv
<1>5. DOMAIN view \subseteq DOMAIN rows => DOMAIN albums \subseteq DOMAIN W
  BY <1>1
<1>6. DOMAIN view = DOMAIN albums => DOMAIN W = DOMAIN rows
  BY <1>1
<1> QED
  BY <1>2, <1>4, <1>5, <1>6

(* What a session that saw the albums as they are stores of its rows.      *)
LEMMA FreshWrite ==
    ASSUME AlbumsInv, NEW view, Sees(view), DOMAIN view = DOMAIN albums,
           \A a \in DOMAIN albums : view[a] = albums[a],
           NEW rows, Table(rows), Store(view, rows)
    PROVE  /\ DOMAIN albums' = DOMAIN rows
           /\ \A a \in DOMAIN rows, c \in Columns : albums'[a][c] = rows[a][c]
<1>. PICK new : new = albums'
  OBVIOUS
<1>1. new = Write(view, rows)
  BY DEF Store
<1>2. DOMAIN new = DOMAIN rows
  <2>1. DOMAIN view = DOMAIN albums => DOMAIN albums' = DOMAIN rows
    BY StoreKeeps
  <2> QED
    BY <2>1
<1>3. \A a \in DOMAIN new : new[a] =
        IF a \notin DOMAIN view THEN (IF a \in DOMAIN rows THEN rows[a] ELSE albums[a])
        ELSE [c \in Columns |-> IF rows[a][c] # view[a][c] THEN rows[a][c] ELSE albums[a][c]]
  BY <1>1 DEF Write
<1>4. \A a \in DOMAIN rows, c \in Columns : new[a][c] = rows[a][c]
  <2> TAKE a \in DOMAIN rows, c \in Columns
  <2>1. CASE a \notin DOMAIN view
    BY <1>2, <1>3, <2>1
  <2>2. CASE a \in DOMAIN view
    <3>1. view[a] = albums[a]
      BY <2>2
    <3>2. new[a] = [d \in Columns |-> IF rows[a][d] # view[a][d] THEN rows[a][d] ELSE albums[a][d]]
      BY <1>2, <1>3, <2>2
    <3> QED
      BY <3>1, <3>2
  <2> QED
    BY <2>1, <2>2
<1> QED
  BY <1>2, <1>4

LEMMA Elements ==
    ASSUME NEW H, NEW hits \in Seq(H)
    PROVE  \A n \in DOMAIN hits : hits[n] \in H
  OBVIOUS

LEMMA ProperAnswers ==
    /\ \A p \in Providers : \A hits \in Discographies[p] :
         (\E H : hits \in Seq(H)) /\ \A n \in DOMAIN hits : Proper(hits[n])
    /\ \A row : \A hits \in Answers(row) :
         (\E H : hits \in Seq(H)) /\ \A n \in DOMAIN hits : Proper(hits[n])
<1>1. ASSUME NEW p \in Providers, NEW hits \in Discographies[p]
      PROVE  (\E H : hits \in Seq(H)) /\ \A n \in DOMAIN hits : Proper(hits[n])
  <2>. PICK H : H = [provider : {p}, id : Nat \ {NoId}, key : STRING, year : Nat]
    OBVIOUS
  <2>1. hits \in Seq(H)
    BY CatalogAssumption
  <2>2. \A n \in DOMAIN hits : hits[n] \in H
    BY <2>1, Elements
  <2>3. \A n \in DOMAIN hits : hits[n].provider = p /\ hits[n].id # NoId
    BY <2>2
  <2> QED
    BY <2>1, <2>3 DEF Proper
<1>2. ASSUME NEW row, NEW hits \in Answers(row)
      PROVE  (\E H : hits \in Seq(H)) /\ \A n \in DOMAIN hits : Proper(hits[n])
  <2>1. CASE HasRef(row)
    <3>1. \E p \in Providers : /\ row[p] # NoId
                               /\ \A q \in Providers : Precedence[q] < Precedence[p] => row[q] = NoId
      BY <2>1, CatalogAssumption DEF HasRef, Precedence
    <3>2. Ref(row) \in Providers
      BY <3>1 DEF Ref
    <3> QED
      BY <1>1, <2>1, <3>2 DEF Answers
  <2>2. CASE ~HasRef(row)
    <3>1. hits = << >>
      BY <2>2 DEF Answers
    <3>2. << >> \in Seq({}) /\ \A n \in DOMAIN << >> : Proper(<< >>[n])
      OBVIOUS
    <3> QED
      BY <3>1, <3>2
  <2> QED
    BY <2>1, <2>2
<1> QED
  BY <1>1, <1>2

-----------------------------------------------------------------------------
(* The stores, one by one.                                                 *)

(* Whether job j refers to an album of A, and to a track of T or to none.  *)
Refers(j, A, T) ==
    /\ j \in Job
    /\ ~j.stale => /\ j.album \in A
                   /\ j.track # 0 => j.track \in DOMAIN T /\ T[j.track] = j.album

AllRefer(js, A, T) == js \in Seq(Job) /\ \A n \in DOMAIN js : Refers(js[n], A, T)

LEMMA JobsRefer ==
    JobsInv <=> AllRefer(jobs, DOMAIN albums, tracks)
<1>1. jobs \in Seq(Job) => \A n \in DOMAIN jobs : jobs[n] \in Job
  OBVIOUS
<1> QED
  BY <1>1 DEF JobsInv, JobsHaveAlbums, Refers, AllRefer

LEMMA JobsReferNext ==
    AllRefer(jobs', DOMAIN albums', tracks') => JobsInv'
  BY DEF JobsInv, JobsHaveAlbums, AllRefer, Refers

LEMMA WantedJobs ==
    ASSUME SessionsInv, NEW t \in Tasks, NEW rows, Table(rows), NEW A, NEW T,
           NEW old, AllRefer(old, A, T),
           ~session[t].stale => DOMAIN rows \subseteq A,
           NEW wanted, wanted \in {Sorted(Wanted(rows)), << >>},
           NEW new, new = old \o [i \in DOMAIN wanted |-> JobFor(wanted[i], 0, t)]
    PROVE  AllRefer(new, A, T)
<1>. PICK s \in BOOLEAN : s = session[t].stale
  BY DEF SessionsInv, SessionOK
<1>1. Wanted(rows) \subseteq DOMAIN rows /\ DOMAIN rows \subseteq Nat
  BY DEF Wanted, Table
<1>2. wanted \in Seq(DOMAIN rows)
  <2>1. IsFiniteSet(Wanted(rows)) /\ Wanted(rows) \in SUBSET Int
    BY <1>1, FS_Subset DEF Table
  <2>2. Sorted(Wanted(rows)) \in Seq(Wanted(rows))
    BY <2>1, SortedAll
  <2>3. Sorted(Wanted(rows)) \in Seq(DOMAIN rows)
    BY <1>1, <2>2
  <2>4. << >> \in Seq(DOMAIN rows)
    OBVIOUS
  <2> QED
    BY <2>3, <2>4, Zenon
<1>. PICK more : more = [i \in DOMAIN wanted |-> JobFor(wanted[i], 0, t)]
  OBVIOUS
<1>3. \A i \in DOMAIN wanted : wanted[i] \in DOMAIN rows /\ wanted[i] \in Nat
  BY <1>1, <1>2
<1>4. \A a \in Nat : JobFor(a, 0, t) = [album |-> a, track |-> 0, stale |-> s]
  BY DEF JobFor
<1>5. \A i \in DOMAIN wanted : /\ more[i] = [album |-> wanted[i], track |-> 0, stale |-> s]
                               /\ more[i] \in Job
  BY <1>3, <1>4 DEF Job
<1>6. DOMAIN more = 1..Len(wanted) /\ Len(wanted) \in Nat /\ DOMAIN wanted = 1..Len(wanted)
  BY <1>2
<1>7. more \in Seq(Job)
  BY <1>5, <1>6
<1>8. \A i \in DOMAIN more : Refers(more[i], A, T)
  <2> TAKE i \in DOMAIN more
  <2>1. more[i] = [album |-> wanted[i], track |-> 0, stale |-> s] /\ more[i] \in Job
    BY <1>5, <1>6
  <2>2. ~s => wanted[i] \in A
    BY <1>3, <1>6
  <2> QED
    BY <2>1, <2>2 DEF Refers
<1>9. new = old \o more /\ old \in Seq(Job) /\ \A n \in DOMAIN old : Refers(old[n], A, T)
  BY DEF AllRefer
<1>10. new \in Seq(Job) /\ Len(new) = Len(old) + Len(more) /\ Len(old) \in Nat /\ Len(more) \in Nat
  BY <1>7, <1>9
<1>11. \A n \in DOMAIN new : \/ n \in DOMAIN old /\ new[n] = old[n]
                             \/ n - Len(old) \in DOMAIN more /\ new[n] = more[n - Len(old)]
  BY <1>7, <1>9, <1>10
<1> QED
  BY <1>8, <1>9, <1>10, <1>11 DEF AllRefer

(* Only a page can spoil what pages leave.                                 *)
LEMMA NotPage ==
    ASSUME NEW t \in Tasks, Ends(t), session[t].kind # "page"
    PROVE  MergedIsTidy'
<1>1. last'.kind # "page"
  BY DEF Ends
<1> QED
  BY <1>1 DEF MergedIsTidy

LEMMA RefreshKeeps ==
    ASSUME Inv, NEW t \in Tasks, StoreRefresh(t)
    PROVE  Inv'
<1>1. /\ session[t].kind = "refresh" /\ Ends(t)
      /\ tracks' = tracks /\ artist' = artist /\ loop' = loop
  BY DEF StoreRefresh
<1>. PICK view : view = View(t)
  OBVIOUS
<1>2. PICK hits \in Answers(session[t].artist) :
       LET rows == StoreDiscography(View(t), hits)
           old == DOMAIN session[t].albums
           now == [a \in DOMAIN rows |->
                     IF a \in old \/ ~session[t].artist.monitored THEN rows[a]
                     ELSE [rows[a] EXCEPT !.monitored = ByPolicy(session[t].artist.policy, rows[a])]]
           wanted == IF AutoDownload THEN Sorted(Wanted(now)) ELSE << >>
       IN /\ Store(View(t), now)
          /\ jobs' = jobs \o [i \in DOMAIN wanted |-> JobFor(wanted[i], 0, t)]
  BY DEF StoreRefresh
<1>. PICK rows : rows = StoreDiscography(view, hits)
  OBVIOUS
<1>. PICK now : now = [a \in DOMAIN rows |->
                     IF a \in DOMAIN session[t].albums \/ ~session[t].artist.monitored THEN rows[a]
                     ELSE [rows[a] EXCEPT !.monitored = ByPolicy(session[t].artist.policy, rows[a])]]
  OBVIOUS
<1>. PICK wanted : wanted = IF AutoDownload THEN Sorted(Wanted(now)) ELSE << >>
  OBVIOUS
<1>. PICK more : more = jobs'
  OBVIOUS
<1>3. /\ Store(view, now)
      /\ more = jobs \o [i \in DOMAIN wanted |-> JobFor(wanted[i], 0, t)]
  BY <1>2
<1>4. AlbumsInv /\ SessionsInv
  BY DEF Inv
<1>5. Sees(view) /\ DOMAIN view = DOMAIN albums
  BY <1>4, SeesViews
<1>6. Table(rows) /\ DOMAIN view \subseteq DOMAIN rows
  <2>1. PICK H : hits \in Seq(H)
    BY ProperAnswers
  <2> QED
    BY <1>4, <1>5, <2>1, DiscographyKeeps
<1>7. DOMAIN now = DOMAIN rows /\ \A a \in DOMAIN now : DOMAIN now[a] = Columns
  BY <1>6 DEF Table
<1>8. Table(now)
  BY <1>6, <1>7 DEF Table
<1>9. AlbumsInv' /\ DOMAIN albums' = DOMAIN now /\ DOMAIN albums \subseteq DOMAIN albums'
  <2>1. /\ AlbumsInv'
        /\ DOMAIN view \subseteq DOMAIN now => DOMAIN albums \subseteq DOMAIN albums'
        /\ DOMAIN view = DOMAIN albums => DOMAIN albums' = DOMAIN now
    BY <1>3, <1>4, <1>5, <1>8, StoreKeeps
  <2> QED
    BY <1>5, <1>6, <1>7, <2>1, Zenon
<1>11. AllRefer(more, DOMAIN albums', tracks)
  <2>. PICK A : A = DOMAIN albums'
    OBVIOUS
  <2>1. AllRefer(jobs, A, tracks)
    <3>1. AllRefer(jobs, DOMAIN albums, tracks) /\ DOMAIN albums \subseteq A
      BY <1>9, JobsRefer DEF Inv
    <3> QED
      BY <3>1 DEF AllRefer, Refers
  <2>2. /\ ~session[t].stale => DOMAIN now \subseteq A
        /\ wanted \in {Sorted(Wanted(now)), << >>}
    BY <1>9
  <2> QED
    BY <1>3, <1>4, <1>8, <2>1, <2>2, WantedJobs
<1>12. JobsInv'
  BY <1>1, <1>11, JobsReferNext
<1>13. TracksInv' /\ ArtistInv' /\ loop' \in BOOLEAN
  BY <1>1, <1>9 DEF Inv, TracksInv, ArtistInv
<1>14. SessionsInv' /\ MergedIsTidy'
  BY <1>1, <1>4, EndsKeeps, NotPage
<1> QED
  BY <1>9, <1>12, <1>13, <1>14 DEF Inv

LEMMA EnrichmentKeeps ==
    ASSUME Inv, NEW t \in Tasks, StoreEnrichment(t)
    PROVE  Inv'
<1>1. /\ session[t].kind = "enrich" /\ Ends(t)
      /\ tracks' = tracks /\ jobs' = jobs /\ loop' = loop
  BY DEF StoreEnrichment
<1>. PICK view : view = OldView(t)
  OBVIOUS
<1>. PICK loaded : loaded = DOMAIN session[t].albums
  OBVIOUS
<1>2. PICK p \in Providers : \E chosen \in ArtistIds[p], hits \in Discographies[p] :
        /\ Store(view, Enriched(view, loaded, hits))
        /\ artist' = IF session[t].artist[p] = NoId THEN [artist EXCEPT ![p] = chosen] ELSE artist
  BY DEF StoreEnrichment
<1>12. PICK chosen \in ArtistIds[p], hits \in Discographies[p] :
        /\ Store(view, Enriched(view, loaded, hits))
        /\ artist' = IF session[t].artist[p] = NoId THEN [artist EXCEPT ![p] = chosen] ELSE artist
  BY <1>2
<1>. PICK rows : rows = Enriched(view, loaded, hits)
  OBVIOUS
<1>3. AlbumsInv /\ SessionsInv
  BY DEF Inv
<1>4. Sees(view)
  BY <1>3, SeesViews
<1>5. Table(rows) /\ DOMAIN view \subseteq DOMAIN rows
  <2>1. \E H : hits \in Seq(H)
    BY CatalogAssumption
  <2>2. PICK H : hits \in Seq(H)
    BY <2>1
  <2> QED
    BY <1>3, <1>4, <2>2, EnrichedKeeps
<1>6. AlbumsInv' /\ DOMAIN albums \subseteq DOMAIN albums'
  <2>1. /\ AlbumsInv'
        /\ DOMAIN view \subseteq DOMAIN rows => DOMAIN albums \subseteq DOMAIN albums'
    BY <1>3, <1>4, <1>5, <1>12, StoreKeeps
  <2> QED
    BY <1>5, <2>1
<1>7. JobsInv'
  <2>. PICK A : A = DOMAIN albums'
    OBVIOUS
  <2>1. AllRefer(jobs, DOMAIN albums, tracks) /\ DOMAIN albums \subseteq A
    BY <1>6, JobsRefer DEF Inv
  <2>2. AllRefer(jobs, A, tracks)
    BY <2>1 DEF AllRefer, Refers
  <2> QED
    BY <1>1, <2>2, JobsReferNext
<1>8. TracksInv' /\ loop' \in BOOLEAN
  BY <1>1, <1>6 DEF Inv, TracksInv
<1>9. ArtistInv'
  BY <1>12, ColumnsApart DEF Inv, ArtistInv
<1>10. SessionsInv' /\ MergedIsTidy'
  BY <1>1, <1>3, EndsKeeps, NotPage
<1> QED
  BY <1>6, <1>7, <1>8, <1>9, <1>10 DEF Inv

LEMMA FormKeeps ==
    ASSUME Inv, NEW t \in Tasks, StoreForm(t)
    PROVE  Inv'
<1>1. /\ session[t].kind = "monitor" /\ Ends(t)
      /\ tracks' = tracks /\ jobs' = jobs /\ loop' = loop
  BY DEF StoreForm
<1> DEFINE form(marked) == [a \in DOMAIN OldView(t) |->
                              IF a \in DOMAIN session[t].albums
                              THEN [session[t].albums[a] EXCEPT !.monitored = (a \in marked)]
                              ELSE OldView(t)[a]]
<1>2. PICK marked \in SUBSET DOMAIN session[t].albums, monitored \in BOOLEAN, policy \in Policies :
        /\ Store(OldView(t), form(marked))
        /\ artist' = [c \in DOMAIN artist |->
             IF c = "monitored" /\ monitored # session[t].artist.monitored THEN monitored
             ELSE IF c = "policy" /\ policy # session[t].artist.policy THEN policy
             ELSE artist[c]]
  BY Zenon DEF StoreForm
<1>. PICK view : view = OldView(t)
  OBVIOUS
<1>. PICK old : old = session[t].albums
  OBVIOUS
<1>. PICK rows : rows = form(marked)
  OBVIOUS
<1>3. AlbumsInv /\ SessionsInv
  BY DEF Inv
<1>4. Sees(view)
  BY <1>3, SeesViews
<1>5. Table(rows) /\ DOMAIN view = DOMAIN rows
  <2>1. Table(old) /\ Table(view)
    BY <1>3, <1>4 DEF SessionsInv, SessionOK, Sees
  <2>2. DOMAIN rows = DOMAIN view /\ \A a \in DOMAIN rows : DOMAIN rows[a] = Columns
    BY <2>1 DEF Table
  <2> HIDE DEF form
  <2> QED
    BY <2>1, <2>2 DEF Table
<1> HIDE DEF form
<1>6. AlbumsInv' /\ DOMAIN albums \subseteq DOMAIN albums'
  <2>1. Store(view, rows)
    BY <1>2, Zenon
  <2>2. /\ AlbumsInv'
        /\ DOMAIN view \subseteq DOMAIN rows => DOMAIN albums \subseteq DOMAIN albums'
    BY <1>3, <1>4, <1>5, <2>1, StoreKeeps
  <2> QED
    BY <1>5, <2>2
<1>7. JobsInv'
  <2>. PICK A : A = DOMAIN albums'
    OBVIOUS
  <2>1. AllRefer(jobs, DOMAIN albums, tracks) /\ DOMAIN albums \subseteq A
    BY <1>6, JobsRefer DEF Inv
  <2>2. AllRefer(jobs, A, tracks)
    BY <2>1 DEF AllRefer, Refers
  <2> QED
    BY <1>1, <2>2, JobsReferNext
<1>8. TracksInv' /\ loop' \in BOOLEAN
  BY <1>1, <1>6 DEF Inv, TracksInv
<1>9. ArtistInv'
  BY <1>2 DEF Inv, ArtistInv
<1>10. SessionsInv' /\ MergedIsTidy'
  BY <1>1, <1>3, EndsKeeps, NotPage
<1> QED
  BY <1>6, <1>7, <1>8, <1>9, <1>10 DEF Inv

LEMMA OpenKeeps ==
    ASSUME Inv, OpenFromSearch
    PROVE  Inv'
<1>1. /\ artist' = [artist EXCEPT !.monitored = TRUE, !.policy = "all"]
      /\ last' = [kind |-> "open", stale |-> FALSE]
      /\ albums' = albums /\ tracks' = tracks /\ jobs' = jobs /\ loop' = loop
  BY DEF OpenFromSearch
<1>2. ArtistInv'
  BY <1>1 DEF Inv, ArtistInv, Policies
<1>3. last'.kind # "page"
  BY <1>1
<1>4. SessionsInv' /\ MergedIsTidy'
  BY <1>3, OpensKeeps DEF Inv, MergedIsTidy
<1> QED
  BY <1>1, <1>2, <1>4 DEF Inv, AlbumsInv, TracksInv, JobsInv, JobsHaveAlbums

LEMMA JobKeeps ==
    ASSUME Inv, NEW t \in Tasks, StoreJob(t)
    PROVE  Inv'
<1>1. /\ session[t].kind \in {"download", "track", "wanted"} /\ Ends(t)
      /\ albums' = albums /\ tracks' = tracks /\ artist' = artist /\ loop' = loop
  BY DEF StoreJob
<1>. PICK s : s = session[t]
  OBVIOUS
<1>2. AlbumsInv /\ SessionsInv /\ SessionOK(s) /\ FreshIs(s) /\ AllRefer(jobs, DOMAIN albums, tracks)
  BY JobsRefer DEF Inv, SessionsInv
<1>3. /\ s.stale \in BOOLEAN /\ s.about \in Nat /\ s.tracks \subseteq Nat /\ Table(s.albums)
      /\ ~s.stale => /\ s.kind = "wanted" => s.albums = albums
                     /\ s.kind # "wanted" => s.about \in DOMAIN albums
                     /\ s.tracks = {k \in DOMAIN tracks : tracks[k] = s.about}
  BY <1>1, <1>2 DEF SessionOK, FreshIs, OfList, OfAlbum
<1>. PICK new : new = jobs'
  OBVIOUS
<1>4. AllRefer(new, DOMAIN albums, tracks)
  <2>1. ASSUME NEW k \in Nat, s.kind # "wanted", k = 0 \/ k \in s.tracks,
               new = Append(jobs, JobFor(s.about, k, t))
        PROVE  AllRefer(new, DOMAIN albums, tracks)
    <3>. PICK j : j = JobFor(s.about, k, t)
      OBVIOUS
    <3>1. j = [album |-> s.about, track |-> k, stale |-> s.stale]
      BY DEF JobFor
    <3>2. j \in Job /\ (~j.stale => ~s.stale)
      BY <1>3, <3>1 DEF Job
    <3>3. ~s.stale => /\ j.album \in DOMAIN albums
                      /\ k # 0 => k \in DOMAIN tracks /\ tracks[k] = s.about
      BY <1>3, <2>1, <3>1
    <3>4. Refers(j, DOMAIN albums, tracks)
      BY <3>1, <3>2, <3>3 DEF Refers
    <3>5. new = Append(jobs, j) /\ jobs \in Seq(Job)
          /\ \A n \in DOMAIN jobs : Refers(jobs[n], DOMAIN albums, tracks)
      BY <1>2, <2>1 DEF AllRefer
    <3>6. new \in Seq(Job)
      BY <3>2, <3>5
    <3>7. \A n \in DOMAIN new : (n \in DOMAIN jobs /\ new[n] = jobs[n]) \/ new[n] = j
      BY <3>2, <3>5
    <3> QED
      BY <3>4, <3>5, <3>6, <3>7 DEF AllRefer
  <2>2. CASE s.kind = "download"
    <3>1. new = Append(jobs, JobFor(s.about, 0, t))
      BY <2>2 DEF StoreJob
    <3> QED
      BY <2>1, <2>2, <3>1
  <2>3. CASE s.kind = "track"
    <3>1. PICK k \in s.tracks : new = Append(jobs, JobFor(s.about, k, t))
      BY <2>3 DEF StoreJob
    <3> QED
      BY <1>3, <2>1, <2>3, <3>1
  <2>4. CASE s.kind = "wanted"
    <3>. PICK rows : rows = s.albums
      OBVIOUS
    <3>. PICK wanted : wanted = Sorted(Wanted(rows))
      OBVIOUS
    <3>1. new = jobs \o [i \in DOMAIN wanted |-> JobFor(wanted[i], 0, t)]
      BY <2>4 DEF StoreJob
    <3>2. Table(rows) /\ (~session[t].stale => DOMAIN rows \subseteq DOMAIN albums)
      BY <1>3, <2>4
    <3>3. wanted \in {Sorted(Wanted(rows)), << >>}
      OBVIOUS
    <3> QED
      BY <1>2, <3>1, <3>2, <3>3, WantedJobs
  <2> QED
    BY <1>1, <2>2, <2>3, <2>4
<1>5. JobsInv'
  BY <1>1, <1>4, JobsReferNext
<1>6. SessionsInv' /\ MergedIsTidy'
  BY <1>1, <1>2, EndsKeeps, NotPage
<1> QED
  BY <1>1, <1>5, <1>6 DEF Inv, AlbumsInv, TracksInv, ArtistInv

LEMMA SameLength ==
    ASSUME NEW H, NEW s \in Seq(H), NEW J, NEW f, f = [n \in DOMAIN s |-> f[n]],
           \A n \in DOMAIN s : f[n] \in J
    PROVE  f \in Seq(J)
<1>1. Len(s) \in Nat /\ DOMAIN s = 1..Len(s)
  OBVIOUS
<1>2. f \in [1..Len(s) -> J]
  BY <1>1
<1> QED
  BY <1>1, <1>2

LEMMA AlbumKeeps ==
    ASSUME Inv, NEW t \in Tasks, StoreAlbum(t)
    PROVE  Inv'
<1>1. /\ session[t].kind = "album" /\ Ends(t)
      /\ artist' = artist /\ loop' = loop
  BY DEF StoreAlbum
<1>. PICK a : a = session[t].about
  OBVIOUS
<1>. PICK gone : gone = session[t].tracks
  OBVIOUS
<1>. PICK view : view = View(t)
  OBVIOUS
<1>. PICK kept : kept = Restrict(tracks, DOMAIN tracks \ gone)
  OBVIOUS
<1>2. PICK hit :
        /\ a \in DOMAIN albums
        /\ Upsert(view, view, hit).id = a
        /\ Store(view, Upsert(view, view, hit).rows)
        /\ tracks' = Put(kept, NewId(kept), a)
        /\ jobs' = [j \in DOMAIN jobs |->
             IF jobs[j].track \in gone THEN [jobs[j] EXCEPT !.track = 0] ELSE jobs[j]]
  BY DEF StoreAlbum
<1>. PICK rows : rows = Upsert(view, view, hit).rows
  OBVIOUS
<1>3. AlbumsInv /\ SessionsInv /\ AllRefer(jobs, DOMAIN albums, tracks)
  BY JobsRefer DEF Inv
<1>4. Sees(view) /\ DOMAIN view = DOMAIN albums
  BY <1>3, SeesViews
<1>5. Table(rows) /\ DOMAIN rows = DOMAIN view
  <2>1. /\ Table(Upsert(view, view, hit).rows)
        /\ DOMAIN Upsert(view, view, hit).rows = DOMAIN view \cup {Upsert(view, view, hit).id}
    BY <1>3, <1>4, UpsertKeeps DEF Sees
  <2> QED
    BY <1>2, <1>4, <2>1
<1>6. AlbumsInv' /\ DOMAIN albums' = DOMAIN albums
  <2>1. /\ AlbumsInv'
        /\ DOMAIN view = DOMAIN albums => DOMAIN albums' = DOMAIN rows
    BY <1>2, <1>3, <1>4, <1>5, StoreKeeps
  <2> QED
    BY <1>4, <1>5, <2>1, Zenon
<1>. PICK now : now = tracks'
  OBVIOUS
<1>. PICK k : k = NewId(kept)
  OBVIOUS
<1>7. /\ IsFiniteSet(DOMAIN tracks) /\ DOMAIN tracks \subseteq Nat \ {0}
      /\ \A n \in DOMAIN tracks : tracks[n] \in DOMAIN albums
  BY DEF Inv, TracksInv
<1>8. DOMAIN kept = DOMAIN tracks \ gone /\ \A n \in DOMAIN kept : kept[n] = tracks[n]
  BY DEF Restrict
<1>9. IsFiniteSet(DOMAIN kept) /\ DOMAIN kept \subseteq Nat
  <2>1. IsFiniteSet(DOMAIN tracks \ gone)
    BY <1>7, FS_Subset
  <2> QED
    BY <1>7, <1>8, <2>1
<1>10. k \in Nat \ {0} /\ k \notin DOMAIN kept
  BY <1>9, NewIdNew
<1>11. /\ DOMAIN now = DOMAIN kept \cup {k}
       /\ \A n \in DOMAIN now : now[n] = IF n = k THEN a ELSE kept[n]
  <2>1. now = Put(kept, k, a)
    BY <1>2
  <2> QED
    BY <2>1 DEF Put, Over
<1>12. TracksInv'
  <2>1. IsFiniteSet(DOMAIN now)
    <3>1. IsFiniteSet(DOMAIN kept \cup {k})
      BY <1>9, FS_AddElement
    <3> QED
      BY <1>11, <3>1
  <2>2. DOMAIN now \subseteq Nat \ {0}
    BY <1>7, <1>8, <1>10, <1>11
  <2>3. a \in DOMAIN albums
    BY <1>2
  <2>4. \A n \in DOMAIN now : now[n] \in DOMAIN albums
    BY <1>7, <1>8, <1>11, <2>3
  <2> QED
    BY <1>6, <2>1, <2>2, <2>4 DEF TracksInv
<1>. PICK new : new = jobs'
  OBVIOUS
<1>13. AllRefer(new, DOMAIN albums, now)
  <2>1. jobs \in Seq(Job) /\ \A n \in DOMAIN jobs : jobs[n] \in Job /\ Refers(jobs[n], DOMAIN albums, tracks)
    BY <1>3 DEF AllRefer, Refers
  <2>2. /\ DOMAIN new = DOMAIN jobs
        /\ \A n \in DOMAIN new :
             new[n] = IF jobs[n].track \in gone THEN [jobs[n] EXCEPT !.track = 0] ELSE jobs[n]
    BY <1>2
  <2>3. ASSUME NEW n \in DOMAIN new PROVE Refers(new[n], DOMAIN albums, now)
    <3>. PICK j \in Job : j = jobs[n]
      BY <2>1, <2>2
    <3>1. Refers(j, DOMAIN albums, tracks)
      BY <2>1, <2>2
    <3>2. CASE j.track \in gone
      <4>1. new[n] = [j EXCEPT !.track = 0]
        BY <2>2, <3>2
      <4> QED
        BY <3>1, <4>1 DEF Refers, Job
    <3>3. CASE j.track \notin gone
      <4>1. new[n] = j
        BY <2>2, <3>3
      <4>2. j.track \in DOMAIN tracks => j.track \in DOMAIN now /\ now[j.track] = tracks[j.track]
        BY <1>8, <1>10, <1>11, <3>3
      <4> QED
        BY <3>1, <4>1, <4>2 DEF Refers
    <3> QED
      BY <3>2, <3>3
  <2>4. \A n \in DOMAIN new : new[n] \in Job
    BY <2>3 DEF Refers
  <2>5. new \in Seq(Job)
    <3>1. new = [n \in DOMAIN jobs |-> new[n]]
      BY <1>2
    <3> QED
      BY <2>1, <2>2, <2>4, <3>1, SameLength
  <2> QED
    BY <2>3, <2>5 DEF AllRefer
<1>14. JobsInv'
  <2>1. AllRefer(new, DOMAIN albums', now)
    BY <1>6, <1>13, Zenon
  <2> QED
    BY <2>1, JobsReferNext
<1>15. ArtistInv' /\ loop' \in BOOLEAN
  BY <1>1 DEF Inv, ArtistInv
<1>16. SessionsInv' /\ MergedIsTidy'
  BY <1>1, <1>3, EndsKeeps, NotPage
<1> QED
  BY <1>6, <1>12, <1>14, <1>15, <1>16 DEF Inv

(* The page: the rows it merges are led into rows that stay, and if it saw *)
(* the tables as they are, no row it leaves has a twin.                    *)
LEMMA PageKeeps ==
    ASSUME Inv, NEW t \in Tasks, StorePage(t)
    PROVE  Inv'
<1>1. /\ session[t].kind = "page" /\ Ends(t)
      /\ artist' = artist /\ loop' = loop
  BY DEF StorePage
<1>. PICK view : view = View(t)
  OBVIOUS
<1>2. PICK hits \in IF DOMAIN session[t].albums = {} THEN Answers(session[t].artist) ELSE {<< >>} :
       LET s == Reconciled(StoreDiscography(View(t), hits))
       IN /\ Store(View(t), s.rows)
          /\ tracks' = [k \in DOMAIN tracks |-> Moved(s.into, tracks[k])]
          /\ jobs' = [j \in DOMAIN jobs |-> [jobs[j] EXCEPT !.album = Moved(s.into, jobs[j].album)]]
  BY DEF StorePage
<1>. PICK first : first = StoreDiscography(view, hits)
  OBVIOUS
<1>. PICK r : r = Reconciled(first)
  OBVIOUS
<1>. PICK rows : rows = r.rows
  OBVIOUS
<1>. PICK into : into = r.into
  OBVIOUS
<1>3. /\ Store(view, rows)
      /\ tracks' = [k \in DOMAIN tracks |-> Moved(into, tracks[k])]
      /\ jobs' = [j \in DOMAIN jobs |-> [jobs[j] EXCEPT !.album = Moved(into, jobs[j].album)]]
  BY <1>2
<1>4. AlbumsInv /\ SessionsInv /\ AllRefer(jobs, DOMAIN albums, tracks)
  BY JobsRefer DEF Inv
<1>5. Sees(view) /\ DOMAIN view = DOMAIN albums
  BY <1>4, SeesViews
<1>6. Table(first) /\ DOMAIN view \subseteq DOMAIN first
  <2>1. \E H : hits \in Seq(H)
    <3>1. << >> \in Seq({})
      OBVIOUS
    <3> QED
      BY <3>1, ProperAnswers
  <2>2. PICK H : hits \in Seq(H)
    BY <2>1
  <2> QED
    BY <1>4, <1>5, <2>2, DiscographyKeeps
<1>7. Merging(first, r) /\ \A x \in DOMAIN rows : Alone(rows, x)
  BY <1>6, ReconciledTidy
<1>8. /\ Table(rows)
      /\ DOMAIN into = DOMAIN first \ DOMAIN rows
      /\ \A b \in DOMAIN into : into[b] \in DOMAIN rows
  BY <1>7 DEF Merging
<1>9. \A a \in DOMAIN albums : Moved(into, a) \in DOMAIN rows
  BY <1>5, <1>6, <1>8 DEF Moved
<1>10. AlbumsInv' /\ DOMAIN albums' = DOMAIN rows
  <2>1. /\ AlbumsInv'
        /\ DOMAIN view = DOMAIN albums => DOMAIN albums' = DOMAIN rows
    BY <1>3, <1>4, <1>5, <1>8, StoreKeeps
  <2> QED
    BY <1>5, <2>1
<1>. PICK now : now = tracks'
  OBVIOUS
<1>11. /\ IsFiniteSet(DOMAIN tracks) /\ DOMAIN tracks \subseteq Nat \ {0}
       /\ \A n \in DOMAIN tracks : tracks[n] \in DOMAIN albums
       /\ DOMAIN now = DOMAIN tracks
       /\ \A n \in DOMAIN tracks : now[n] = Moved(into, tracks[n])
  BY <1>3 DEF Inv, TracksInv
<1>12. TracksInv'
  <2>1. \A n \in DOMAIN now : now[n] \in DOMAIN rows
    BY <1>9, <1>11
  <2> QED
    BY <1>10, <1>11, <2>1 DEF TracksInv
<1>. PICK new : new = jobs'
  OBVIOUS
<1>13. AllRefer(new, DOMAIN rows, now)
  <2>1. jobs \in Seq(Job) /\ \A n \in DOMAIN jobs : jobs[n] \in Job /\ Refers(jobs[n], DOMAIN albums, tracks)
    BY <1>4 DEF AllRefer, Refers
  <2>2. /\ DOMAIN new = DOMAIN jobs
        /\ \A n \in DOMAIN new : new[n] = [jobs[n] EXCEPT !.album = Moved(into, jobs[n].album)]
    BY <1>3
  <2>3. ASSUME NEW n \in DOMAIN new PROVE Refers(new[n], DOMAIN rows, now)
    <3>. PICK j \in Job : j = jobs[n]
      BY <2>1, <2>2
    <3>1. Refers(j, DOMAIN albums, tracks)
      BY <2>1, <2>2
    <3>. PICK a : a = Moved(into, j.album)
      OBVIOUS
    <3>2. new[n] = [album |-> a, track |-> j.track, stale |-> j.stale]
      BY <2>2 DEF Job
    <3>3. j.track \in Nat /\ j.stale \in BOOLEAN /\ j.album \in Nat
      BY DEF Job
    <3>4. a \in Nat
      BY <1>8, <3>3 DEF Moved, Table
    <3>5. ~j.stale => /\ a \in DOMAIN rows
                      /\ j.track # 0 => j.track \in DOMAIN now /\ now[j.track] = a
      BY <1>9, <1>11, <3>1 DEF Refers
    <3>6. new[n] \in Job
      BY <3>2, <3>3, <3>4 DEF Job
    <3> QED
      BY <3>2, <3>5, <3>6 DEF Refers
  <2>4. \A n \in DOMAIN new : new[n] \in Job
    BY <2>3 DEF Refers
  <2>5. new \in Seq(Job)
    <3>1. new = [n \in DOMAIN jobs |-> new[n]]
      BY <1>3
    <3> QED
      BY <2>1, <2>2, <2>4, <3>1, SameLength
  <2> QED
    BY <2>3, <2>5 DEF AllRefer
<1>14. JobsInv'
  <2>1. AllRefer(new, DOMAIN albums', now)
    BY <1>10, <1>13, Zenon
  <2> QED
    BY <2>1, JobsReferNext
<1>15. ArtistInv' /\ loop' \in BOOLEAN
  BY <1>1 DEF Inv, ArtistInv
<1>16. SessionsInv'
  BY <1>1, <1>4, EndsKeeps
<1>17. MergedIsTidy'
  <2> SUFFICES ASSUME ~session[t].stale PROVE Twins' = {}
    BY <1>1 DEF MergedIsTidy, Ends
  <2>. PICK s : s = session[t]
    OBVIOUS
  <2>1. SessionOK(s) /\ FreshIs(s)
    BY <1>4 DEF SessionsInv
  <2>2. s.albums = albums
    BY <1>1, <2>1 DEF FreshIs, OfList
  <2>3. \A a \in DOMAIN albums : view[a] = albums[a]
    BY <1>4, <2>2, SeesViews
  <2>. PICK last1 : last1 = albums'
    OBVIOUS
  <2>4. \A a \in DOMAIN rows, c \in Columns : last1[a][c] = rows[a][c]
    BY <1>3, <1>4, <1>5, <1>8, <2>3, FreshWrite
  <2>5. \A a \in DOMAIN rows : last1[a].key = rows[a].key /\ last1[a].year = rows[a].year
    BY <2>4, ColumnsApart
  <2>6. \A a, b \in DOMAIN last1 : a # b => ~Match(last1[a], last1[b])
    <3> TAKE a, b \in DOMAIN last1
    <3>1. a \in DOMAIN rows /\ b \in DOMAIN rows
      BY <1>10
    <3>2. a # b => ~Match(rows[a], rows[b])
      BY <1>7, <3>1 DEF Alone
    <3> QED
      BY <2>5, <3>1, <3>2 DEF Match
  <2>7. DOMAIN last1 \subseteq Nat
    BY <1>8, <1>10 DEF Table
  <2>8. ASSUME NEW p \in Twins' PROVE FALSE
    <3>1. /\ p[1] \in DOMAIN last1 /\ p[2] \in DOMAIN last1 /\ p[1] < p[2]
          /\ Match(last1[p[1]], last1[p[2]])
      BY <2>8 DEF Twins, Match
    <3>2. p[1] # p[2]
      BY <2>7, <3>1
    <3> QED
      BY <2>6, <3>1, <3>2
  <2> QED
    BY <2>8
<1> QED
  BY <1>10, <1>12, <1>14, <1>15, <1>16, <1>17 DEF Inv

-----------------------------------------------------------------------------
(* The invariant.                                                          *)

LEMMA InitInv == Init => Inv
<1> SUFFICES ASSUME Init PROVE Inv
  OBVIOUS
<1>1. AlbumsInv
  BY CatalogAssumption DEF Init, AlbumsInv
<1>2. TracksInv
  <2>1. DOMAIN tracks = {}
    BY DEF Init
  <2> QED
    BY <2>1, FS_EmptySet DEF TracksInv
<1>3. JobsInv
  BY DEF Init, JobsInv, JobsHaveAlbums
<1>4. ArtistInv
  BY CatalogAssumption DEF Init, ArtistInv
<1>5. SessionsInv
  <2>1. session = [t \in Tasks |-> NoSession]
    BY DEF Init
  <2> QED
    BY <2>1, NoSessionOK DEF SessionsInv, FreshIs
<1>6. loop \in BOOLEAN /\ MergedIsTidy
  BY DEF Init, MergedIsTidy
<1> QED
  BY <1>1, <1>2, <1>3, <1>4, <1>5, <1>6 DEF Inv

LEMMA StepInv == Inv /\ [Next]_vars => Inv'
<1> SUFFICES ASSUME Inv, [Next]_vars PROVE Inv'
  OBVIOUS
<1>1. CASE OpenFromSearch
  BY <1>1, OpenKeeps
<1>2. ASSUME NEW t \in Tasks,
             \/ OpenArtist(t) \/ OpenAlbum(t) \/ StartEnrichment(t) \/ StartRefresh(t)
             \/ OpenForm(t) \/ AskAlbum(t) \/ AskTrack(t) \/ AskWanted(t)
      PROVE  Inv'
  BY <1>2, LoadsKeep
<1>3. ASSUME NEW t \in Tasks, StorePage(t) PROVE Inv'
  BY <1>3, PageKeeps
<1>4. ASSUME NEW t \in Tasks, StoreAlbum(t) PROVE Inv'
  BY <1>4, AlbumKeeps
<1>5. ASSUME NEW t \in Tasks, StoreEnrichment(t) PROVE Inv'
  BY <1>5, EnrichmentKeeps
<1>6. ASSUME NEW t \in Tasks, StoreRefresh(t) PROVE Inv'
  BY <1>6, RefreshKeeps
<1>7. ASSUME NEW t \in Tasks, StoreForm(t) PROVE Inv'
  BY <1>7, FormKeeps
<1>8. ASSUME NEW t \in Tasks, StoreJob(t) PROVE Inv'
  BY <1>8, JobKeeps
<1>9. ASSUME NEW t \in Tasks, Fails(t) PROVE Inv'
  BY <1>9, FailsKeeps
<1>10. CASE UNCHANGED vars
  <2>1. /\ albums' = albums /\ tracks' = tracks /\ jobs' = jobs /\ artist' = artist
        /\ session' = session /\ loop' = loop /\ last' = last
    BY <1>10 DEF vars, tables
  <2> QED
    BY <2>1 DEF Inv, AlbumsInv, TracksInv, JobsInv, JobsHaveAlbums, ArtistInv, SessionsInv,
                SessionOK, FreshIs, MergedIsTidy, Twins
<1> QED
  BY <1>1, <1>2, <1>3, <1>4, <1>5, <1>6, <1>7, <1>8, <1>9, <1>10 DEF Next

LEMMA AlwaysInv == Spec => []Inv
<1> QED
  BY InitInv, StepInv, PTL DEF Spec

(* The tables keep their shape, and no two rows have one identifier,       *)
(* whatever sessions overlap and however old the rows are that they store. *)
THEOREM CatalogType == Spec => []TypeOK
<1>1. Inv => TypeOK
  <2> SUFFICES ASSUME Inv PROVE TypeOK
    OBVIOUS
  <2>1. \A j \in DOMAIN jobs : DOMAIN jobs[j] = {"album", "track", "stale"}
    <3>1. jobs \in Seq(Job)
      BY DEF Inv, JobsInv
    <3>2. \A j \in DOMAIN jobs : jobs[j] \in Job
      BY <3>1
    <3> QED
      BY <3>2 DEF Job
  <2> QED
    BY <2>1 DEF Inv, AlbumsInv, ArtistInv, TypeOK
<1> QED
  BY <1>1, AlwaysInv, PTL

(* After a page that saw the tables as they are, no two rows of the artist *)
(* stand for one album (reconcile_duplicate_catalog_albums).               *)
THEOREM PagesAreTidy == Spec => []MergedIsTidy
<1>1. Inv => MergedIsTidy
  BY DEF Inv
<1> QED
  BY <1>1, AlwaysInv, PTL

(* Jobs of the catalog refer to albums that are there, and to tracks of    *)
(* these, also after the album was merged or its tracks fetched again.     *)
THEOREM JobsKeepAlbums == Spec => []JobsHaveAlbums
<1>1. Inv => JobsHaveAlbums
  BY DEF Inv, JobsInv
<1> QED
  BY <1>1, AlwaysInv, PTL

(* An enrichment gives no provider another identifier of an artist it      *)
(* knows, unless what it loaded was out of date (enrich_catalog_artist).   *)
THEOREM ArtistKept == Spec => ArtistStays
<1> DEFINE Stays == ~last'.stale => \A p \in Providers : artist[p] # NoId => artist'[p] = artist[p]
<1>1. Inv /\ [Next]_vars => [Stays]_artist
  <2> SUFFICES ASSUME Inv, [Next]_vars, artist' # artist, ~last'.stale,
                      NEW p \in Providers, artist[p] # NoId
               PROVE  artist'[p] = artist[p]
    OBVIOUS
  <2>1. CASE OpenFromSearch
    BY <2>1, ColumnsApart DEF OpenFromSearch, Inv, ArtistInv
  <2>2. ASSUME NEW t \in Tasks, StoreEnrichment(t) PROVE artist'[p] = artist[p]
    <3>1. session[t].kind = "enrich" /\ Ends(t)
      BY <2>2 DEF StoreEnrichment
    <3>2. ~session[t].stale
      BY <3>1 DEF Ends
    <3>3. session[t].artist = artist
      BY <3>1, <3>2 DEF Inv, SessionsInv, FreshIs
    <3>4. PICK q \in Providers : \E chosen \in ArtistIds[q] :
            artist' = IF session[t].artist[q] = NoId THEN [artist EXCEPT ![q] = chosen] ELSE artist
      BY <2>2 DEF StoreEnrichment
    <3>5. artist[q] = NoId => q # p
      OBVIOUS
    <3> QED
      BY <3>3, <3>4, <3>5 DEF Inv, ArtistInv
  <2>3. ASSUME NEW t \in Tasks, StoreForm(t) PROVE artist'[p] = artist[p]
    <3>1. \E monitored \in BOOLEAN, policy \in Policies :
            artist' = [c \in DOMAIN artist |->
              IF c = "monitored" /\ monitored # session[t].artist.monitored THEN monitored
              ELSE IF c = "policy" /\ policy # session[t].artist.policy THEN policy
              ELSE artist[c]]
      BY <2>3, Zenon DEF StoreForm
    <3> QED
      BY <3>1, ColumnsApart DEF Inv, ArtistInv
  <2>4. CASE UNCHANGED vars
    BY <2>4 DEF vars, tables
  <2>5. ASSUME NEW t \in Tasks,
               \/ OpenArtist(t) \/ OpenAlbum(t) \/ StartEnrichment(t) \/ StartRefresh(t)
               \/ OpenForm(t) \/ AskAlbum(t) \/ AskTrack(t) \/ AskWanted(t)
               \/ StorePage(t) \/ StoreAlbum(t) \/ StoreRefresh(t) \/ StoreJob(t) \/ Fails(t)
        PROVE  artist' = artist
    BY <2>5 DEF OpenArtist, OpenAlbum, StartEnrichment, StartRefresh, OpenForm, AskAlbum, AskTrack,
                AskWanted, Begin, StorePage, StoreAlbum, StoreRefresh, StoreJob, Fails, tables
  <2> QED
    BY <2>1, <2>2, <2>3, <2>4, <2>5 DEF Next
<1> QED
  BY <1>1, AlwaysInv, PTL DEF Spec, ArtistStays

-----------------------------------------------------------------------------
(* Nothing is forgotten.                                                   *)

(* Where the albums were all seen as they are, what a store made of them.  *)
Kept(a, b) ==
    /\ b \in DOMAIN albums'
    /\ a \in DOMAIN albums' => b = a
    /\ Remembers(albums[a], albums'[b])

LEMMA FreshSession ==
    ASSUME Inv, NEW t \in Tasks, session[t].kind \in OfList, ~session[t].stale
    PROVE  session[t].albums = albums
<1>1. FreshIs(session[t]) /\ session[t].kind # "none"
  BY DEF Inv, SessionsInv, OfList
<1> QED
  BY <1>1 DEF FreshIs

LEMMA FreshSees ==
    ASSUME Inv, NEW t \in Tasks, session[t].kind \in OfList, ~session[t].stale,
           NEW view, view \in {View(t), OldView(t)}
    PROVE  /\ AlbumsInv /\ Sees(view) /\ DOMAIN view = DOMAIN albums
           /\ \A a \in DOMAIN albums : view[a] = albums[a]
<1>1. AlbumsInv /\ SessionsInv
  BY DEF Inv
<1>2. session[t].albums = albums
  BY FreshSession
<1>3. /\ Sees(OldView(t)) /\ DOMAIN OldView(t) = DOMAIN albums
      /\ \A a \in DOMAIN albums : OldView(t)[a] = albums[a]
  BY <1>1, <1>2, SeesViews
<1>4. /\ Sees(View(t)) /\ DOMAIN View(t) = DOMAIN albums
      /\ \A a \in DOMAIN albums : View(t)[a] = albums[a]
  BY <1>1, <1>2, SeesViews
<1>5. CASE view = OldView(t)
  BY <1>1, <1>3, <1>5, Zenon
<1>6. CASE view = View(t)
  BY <1>1, <1>4, <1>6, Zenon
<1> QED
  BY <1>5, <1>6

LEMMA RowsKept ==
    ASSUME AlbumsInv, NEW view, Sees(view), DOMAIN view = DOMAIN albums,
           \A a \in DOMAIN albums : view[a] = albums[a],
           NEW rows, Table(rows), Store(view, rows),
           NEW a \in DOMAIN albums, NEW b \in DOMAIN rows, a \in DOMAIN rows => b = a,
           Remembers(view[a], rows[b])
    PROVE  Kept(a, b)
<1>. PICK new : new = albums'
  OBVIOUS
<1>. PICK old : old = albums[a]
  OBVIOUS
<1>1. DOMAIN new = DOMAIN rows /\ \A c \in Columns : new[b][c] = rows[b][c]
  BY FreshWrite
<1>2. Remembers(old, rows[b])
  OBVIOUS
<1>3. Remembers(old, new[b])
  <2>1. /\ new[b].monitored = rows[b].monitored /\ new[b].in_library = rows[b].in_library
        /\ \A p \in Providers : new[b][p] = rows[b][p]
    BY <1>1, ColumnsApart
  <2> QED
    BY <1>2, <2>1 DEF Remembers
<1> QED
  BY <1>1, <1>3 DEF Kept, Remembers

LEMMA PageForgets ==
    ASSUME Inv, NEW t \in Tasks, StorePage(t), ~session[t].stale, NEW a \in DOMAIN albums
    PROVE  \E b : Kept(a, b)
<1>1. session[t].kind = "page"
  BY DEF StorePage
<1>. PICK view : view = View(t)
  OBVIOUS
<1>2. PICK hits \in IF DOMAIN session[t].albums = {} THEN Answers(session[t].artist) ELSE {<< >>} :
        Store(View(t), Reconciled(StoreDiscography(View(t), hits)).rows)
  BY DEF StorePage
<1>. PICK first : first = StoreDiscography(view, hits)
  OBVIOUS
<1>. PICK r : r = Reconciled(first)
  OBVIOUS
<1>3. /\ AlbumsInv /\ Sees(view) /\ DOMAIN view = DOMAIN albums
      /\ \A x \in DOMAIN albums : view[x] = albums[x]
  <2>1. session[t].kind \in OfList /\ view \in {View(t), OldView(t)}
    BY <1>1 DEF OfList
  <2> QED
    BY <2>1, FreshSees
<1>4. /\ Table(first) /\ DOMAIN view \subseteq DOMAIN first
      /\ \A x \in DOMAIN view : Remembers(view[x], first[x])
  <2>1. (\E H : hits \in Seq(H)) /\ \A n \in DOMAIN hits : Proper(hits[n])
    <3>1. << >> \in Seq({}) /\ \A n \in DOMAIN << >> : Proper(<< >>[n])
      OBVIOUS
    <3>2. CASE hits = << >>
      BY <3>1, <3>2
    <3>3. CASE hits \in Answers(session[t].artist)
      BY <3>3, ProperAnswers
    <3> QED
      BY <3>2, <3>3
  <2>2. PICK H : hits \in Seq(H)
    BY <2>1
  <2>3. /\ Table(StoreDiscography(view, hits))
        /\ DOMAIN view \subseteq DOMAIN StoreDiscography(view, hits)
        /\ DOMAIN view = DOMAIN albums /\ (\A n \in DOMAIN hits : Proper(hits[n]))
             => \A x \in DOMAIN view : Remembers(view[x], StoreDiscography(view, hits)[x])
    BY <1>3, <2>2, DiscographyKeeps
  <2> QED
    BY <1>3, <2>1, <2>3
<1>5. Merging(first, r)
  BY <1>4, ReconciledTidy
<1>. PICK rows : rows = r.rows
  OBVIOUS
<1>. PICK b : b = Moved(r.into, a)
  OBVIOUS
<1>6. /\ Table(rows) /\ a \in DOMAIN first /\ a \in DOMAIN view
      /\ DOMAIN r.into = DOMAIN first \ DOMAIN rows
      /\ \A x \in DOMAIN r.into : r.into[x] \in DOMAIN rows
      /\ Remembers(first[a], rows[b])
  BY <1>3, <1>4, <1>5 DEF Merging
<1>7. b \in DOMAIN rows /\ (a \in DOMAIN rows => b = a)
  BY <1>6 DEF Moved
<1>8. Remembers(view[a], rows[b])
  BY <1>4, <1>6, RemembersOn
<1>9. Store(view, rows)
  BY <1>2
<1> QED
  BY <1>3, <1>6, <1>7, <1>8, <1>9, RowsKept

LEMMA EnrichmentForgets ==
    ASSUME Inv, NEW t \in Tasks, StoreEnrichment(t), ~session[t].stale, NEW a \in DOMAIN albums
    PROVE  \E b : Kept(a, b)
<1>1. session[t].kind = "enrich"
  BY DEF StoreEnrichment
<1>. PICK view : view = OldView(t)
  OBVIOUS
<1>. PICK loaded : loaded = DOMAIN session[t].albums
  OBVIOUS
<1>2. PICK p \in Providers : \E hits \in Discographies[p] : Store(view, Enriched(view, loaded, hits))
  BY DEF StoreEnrichment
<1>3. PICK hits \in Discographies[p] : Store(view, Enriched(view, loaded, hits))
  BY <1>2
<1>. PICK rows : rows = Enriched(view, loaded, hits)
  OBVIOUS
<1>4. /\ AlbumsInv /\ Sees(view) /\ DOMAIN view = DOMAIN albums
      /\ \A x \in DOMAIN albums : view[x] = albums[x]
  <2>1. session[t].kind \in OfList /\ view \in {View(t), OldView(t)}
    BY <1>1 DEF OfList
  <2> QED
    BY <2>1, FreshSees
<1>5. Table(rows) /\ a \in DOMAIN rows /\ Remembers(view[a], rows[a])
  <2>1. (\E H : hits \in Seq(H)) /\ \A n \in DOMAIN hits : Proper(hits[n])
    BY ProperAnswers
  <2>2. PICK H : hits \in Seq(H)
    BY <2>1
  <2>3. /\ Table(Enriched(view, loaded, hits))
        /\ DOMAIN view \subseteq DOMAIN Enriched(view, loaded, hits)
        /\ DOMAIN view = DOMAIN albums /\ (\A n \in DOMAIN hits : Proper(hits[n]))
             => \A x \in DOMAIN view : Remembers(view[x], Enriched(view, loaded, hits)[x])
    BY <1>4, <2>2, EnrichedKeeps
  <2> QED
    BY <1>4, <2>1, <2>3
<1>6. Store(view, rows)
  BY <1>3
<1> QED
  BY <1>4, <1>5, <1>6, RowsKept

LEMMA RefreshForgets ==
    ASSUME Inv, NEW t \in Tasks, StoreRefresh(t), ~session[t].stale, NEW a \in DOMAIN albums
    PROVE  \E b : Kept(a, b)
<1>1. session[t].kind = "refresh"
  BY DEF StoreRefresh
<1>. PICK view : view = View(t)
  OBVIOUS
<1>. PICK old : old = DOMAIN session[t].albums
  OBVIOUS
<1> DEFINE now(rows) == [x \in DOMAIN rows |->
                           IF x \in old \/ ~session[t].artist.monitored THEN rows[x]
                           ELSE [rows[x] EXCEPT !.monitored = ByPolicy(session[t].artist.policy, rows[x])]]
<1>2. PICK hits \in Answers(session[t].artist) : Store(view, now(StoreDiscography(view, hits)))
  BY DEF StoreRefresh
<1>. PICK first : first = StoreDiscography(view, hits)
  OBVIOUS
<1>. PICK rows : rows = now(first)
  OBVIOUS
<1>3. /\ AlbumsInv /\ Sees(view) /\ DOMAIN view = DOMAIN albums
      /\ \A x \in DOMAIN albums : view[x] = albums[x]
  <2>1. session[t].kind \in OfList /\ view \in {View(t), OldView(t)}
    BY <1>1 DEF OfList
  <2> QED
    BY <2>1, FreshSees
<1>4. /\ Table(first) /\ DOMAIN view \subseteq DOMAIN first
      /\ \A x \in DOMAIN view : Remembers(view[x], first[x])
  <2>1. (\E H : hits \in Seq(H)) /\ \A n \in DOMAIN hits : Proper(hits[n])
    BY ProperAnswers
  <2>2. PICK H : hits \in Seq(H)
    BY <2>1
  <2>3. /\ Table(StoreDiscography(view, hits))
        /\ DOMAIN view \subseteq DOMAIN StoreDiscography(view, hits)
        /\ DOMAIN view = DOMAIN albums /\ (\A n \in DOMAIN hits : Proper(hits[n]))
             => \A x \in DOMAIN view : Remembers(view[x], StoreDiscography(view, hits)[x])
    BY <1>3, <2>2, DiscographyKeeps
  <2> QED
    BY <1>3, <2>1, <2>3
<1>5. DOMAIN rows = DOMAIN first /\ (\A x \in DOMAIN first : DOMAIN rows[x] = Columns)
  BY <1>4 DEF Table
<1>6. Table(rows)
  <2> HIDE DEF now
  <2> QED
    BY <1>4, <1>5 DEF Table
<1>7. a \in DOMAIN rows /\ Remembers(view[a], rows[a])
  <2>1. session[t].albums = albums
    <3>1. session[t].kind \in OfList
      BY <1>1 DEF OfList
    <3> QED
      BY <3>1, FreshSession
  <2>2. a \in old /\ a \in DOMAIN first
    BY <1>3, <1>4, <2>1
  <2>3. rows[a] = first[a]
    BY <2>2
  <2> QED
    BY <1>3, <1>4, <1>5, <2>2, <2>3
<1>8. Store(view, rows)
  <2> HIDE DEF now
  <2> QED
    BY <1>2
<1> HIDE DEF now
<1> QED
  BY <1>3, <1>6, <1>7, <1>8, RowsKept

(* Merging, enriching and refreshing from tables seen as they are forget   *)
(* no mark and no identifier of any album.                                 *)
THEOREM NothingIsForgotten == Spec => NothingForgotten
<1> DEFINE Keeps ==
             last'.kind \in {"page", "enrich", "refresh"} /\ ~last'.stale =>
               \A a \in DOMAIN albums : \E b \in DOMAIN albums' :
                 /\ a \in DOMAIN albums' => b = a
                 /\ albums[a].monitored => albums'[b].monitored
                 /\ albums[a].in_library => albums'[b].in_library
                 /\ \A p \in Providers : albums[a][p] # NoId => albums'[b][p] # NoId
<1>1. Inv /\ [Next]_vars => [Keeps]_albums
  <2> SUFFICES ASSUME Inv, [Next]_vars, albums' # albums,
                      last'.kind \in {"page", "enrich", "refresh"}, ~last'.stale,
                      NEW a \in DOMAIN albums
               PROVE  \E b : Kept(a, b)
    BY DEF Kept, Remembers
  <2>1. ASSUME NEW t \in Tasks, StorePage(t) PROVE \E b : Kept(a, b)
    <3>1. ~session[t].stale
      BY <2>1 DEF StorePage, Ends
    <3> QED
      BY <2>1, <3>1, PageForgets
  <2>2. ASSUME NEW t \in Tasks, StoreEnrichment(t) PROVE \E b : Kept(a, b)
    <3>1. ~session[t].stale
      BY <2>2 DEF StoreEnrichment, Ends
    <3> QED
      BY <2>2, <3>1, EnrichmentForgets
  <2>3. ASSUME NEW t \in Tasks, StoreRefresh(t) PROVE \E b : Kept(a, b)
    <3>1. ~session[t].stale
      BY <2>3 DEF StoreRefresh, Ends
    <3> QED
      BY <2>3, <3>1, RefreshForgets
  <2>4. ASSUME NEW t \in Tasks, StoreAlbum(t) PROVE FALSE
    BY <2>4 DEF StoreAlbum, Ends
  <2>5. ASSUME NEW t \in Tasks, StoreForm(t) PROVE FALSE
    BY <2>5 DEF StoreForm, Ends
  <2>6. CASE OpenFromSearch
    BY <2>6 DEF OpenFromSearch
  <2>7. CASE UNCHANGED vars
    BY <2>7 DEF vars, tables
  <2>8. ASSUME NEW t \in Tasks,
               \/ OpenArtist(t) \/ OpenAlbum(t) \/ StartEnrichment(t) \/ StartRefresh(t)
               \/ OpenForm(t) \/ AskAlbum(t) \/ AskTrack(t) \/ AskWanted(t)
               \/ StoreJob(t) \/ Fails(t)
        PROVE  albums' = albums
    BY <2>8 DEF OpenArtist, OpenAlbum, StartEnrichment, StartRefresh, OpenForm, AskAlbum, AskTrack,
                AskWanted, Begin, StoreJob, Fails, tables
  <2> QED
    BY <2>1, <2>2, <2>3, <2>4, <2>5, <2>6, <2>7, <2>8 DEF Next
<1> QED
  BY <1>1, AlwaysInv, PTL DEF Spec, NothingForgotten
=============================================================================
