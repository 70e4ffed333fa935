---------------------------- MODULE AtomicImport ----------------------------
(***************************************************************************)
(* What an import promises: the library and the database change together, *)
(* for a whole release, or not at all.                                     *)
(***************************************************************************)
CONSTANTS
    Releases, Tracks, Dests,
    Album,      \* the set of tracks of each release
    Content,    \* files
    None

VARIABLES
    library,    \* the file at each path
    recorded    \* the file the database has for each imported track

Init ==
    /\ library \in [Dests -> Content \cup {None}]
    /\ recorded = [t \in Tracks |-> None]

(* All files of the release appear, and are recorded, in one step; their   *)
(* paths were all free (a new import) or all in use (a replacement).       *)
Import(r) ==
    \E path \in [Album[r] -> Dests] :
       /\ \/ \A t \in Album[r] : library[path[t]] = None
          \/ \A t \in Album[r] : library[path[t]] # None
       /\ \A t \in Album[r] : /\ recorded'[t] \in Content
                              /\ library'[path[t]] = recorded'[t]
       /\ recorded' = [t \in Tracks |-> IF t \in Album[r] THEN recorded'[t] ELSE recorded[t]]
       /\ library' = [d \in Dests |-> IF \E t \in Album[r] : path[t] = d
                                      THEN library'[d] ELSE library[d]]

(* Planning a release again puts it back under review: the database no     *)
(* longer has it as imported.  The library is not touched.                 *)
Review(r) ==
    /\ recorded' = [t \in Tracks |-> IF t \in Album[r] THEN None ELSE recorded[t]]
    /\ UNCHANGED library

Next == \E r \in Releases : Import(r) \/ Review(r)

Spec == Init /\ [][Next]_<<library, recorded>>
=============================================================================
