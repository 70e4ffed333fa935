--------------------------- MODULE MCLibraryPages ---------------------------
(* A small instance of LibraryPages for TLC.                               *)
EXTENDS LibraryPages

CONSTANTS a, b, c, d

MCPool == {a, b, c, d}

Row(artist, album, year, release, title) ==
  [artist |-> artist, album |-> album, year |-> year, release |-> release,
   title |-> title, no |-> 1, duration |-> 60]

\* Two tracks of one album without a release, whose year is missing in one and
\* empty in the other; a release; a track that has neither artist nor album.
MCOf == a :> Row(3, 5, NULL, NULL, 4) @@ b :> Row(3, 5, EMPTY, NULL, 3)
        @@ c :> Row(4, 6, 20, 7, 2) @@ d :> Row(NULL, NULL, 21, NULL, EMPTY)

\* One track needs no scan; of another the size is missing.
MCKnown == a :> {} @@ b :> {"format"} @@ c :> Facts @@ d :> {}
MCListings == {"added", "year", "albums", "detail"}
MCReadable == {b}
MCMounted == {d}
=============================================================================
