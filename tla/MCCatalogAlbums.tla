--------------------------- MODULE MCCatalogAlbums --------------------------
(* A small instance of CatalogAlbums for TLC.                              *)
EXTENDS CatalogAlbums

CONSTANTS t1, t2

MCProviders == {"musicbrainz", "deezer"}
MCTasks == {t1, t2}

Hit(p, id, key, year) == [provider |-> p, id |-> id, key |-> key, year |-> year]

\* Two editions of one title; the same with the years the other way round, or
\* without; a single under another title.
MCDiscographies ==
  [p \in MCProviders |->
     IF p = "musicbrainz"
     THEN {<<Hit(p, 1, "x", 2000), Hit(p, 2, "x", 2001)>>, <<Hit(p, 1, "x", 2001)>>}
     ELSE {<<Hit(p, 5, "x", NoYear), Hit(p, 6, "y", 2001)>>, <<Hit(p, 8, "x", 2001)>>}]

MCArtistIds == [p \in MCProviders |-> {7, 8}]

Row(key, year, mbid, monitored) ==
  [key |-> key, year |-> year, musicbrainz |-> mbid, deezer |-> NoId,
   monitored |-> monitored, in_library |-> FALSE]

\* Nothing; two editions that are told apart by their years; rows an older
\* version left, which match each other in part.
MCFirstAlbums == {
  << >>,
  <<Row("x", 2000, 1, FALSE), Row("x", 2001, 2, FALSE)>>,
  <<Row("x", 2000, NoId, TRUE), Row("x", NoYear, 2, FALSE), Row("x", 2001, NoId, FALSE)>>}

MCFirstArtists == {
  [musicbrainz |-> 7, deezer |-> NoId, monitored |-> TRUE, policy |-> "albums_only"]}
Symmetry == Permutations(MCTasks)
=============================================================================
