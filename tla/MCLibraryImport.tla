--------------------------- MODULE MCLibraryImport ---------------------------
(***************************************************************************)
(* Small instances of LibraryImport.                                       *)
(***************************************************************************)
EXTENDS LibraryImport, TLC

CONSTANTS r1, r2, t1, t2, t3, d1, d2, b1, b2, b3, b4, b5, old, alien

Raw(b) == [bytes |-> b, tag |-> None]

AlienFile == Raw(alien)
NoPrior == {}
OldFile == {Raw(old)}

(* Two releases whose paths overlap: t1 and t3 are the same track of the   *)
(* same album, acquired twice.                                             *)
TwoReleases == (r1 :> <<t1, t2>> @@ r2 :> <<t3>>)
SharedPath == (t1 :> d1 @@ t2 :> d2 @@ t3 :> d1)
OneTemplate == [template \in {"settings", "default"} |-> SharedPath]
ThreeArrive ==
    [job       |-> (t1 :> Raw(b1) @@ t2 :> Raw(b2) @@ t3 :> Raw(b3)),
     candidate |-> (t1 :> Raw(b4) @@ t2 :> Raw(b5) @@ t3 :> Raw(b4))]

(* One release of two tracks.                                              *)
OneRelease == (r1 :> <<t1, t2>>)
TwoPaths == [template \in {"settings", "default"} |-> (t1 :> d1 @@ t2 :> d2)]
TwoArrive ==
    [job       |-> (t1 :> Raw(b1) @@ t2 :> Raw(b2)),
     candidate |-> (t1 :> Raw(b4) @@ t2 :> Raw(b5))]

Symmetry == Permutations(Sessions)
=============================================================================
