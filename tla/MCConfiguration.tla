--------------------------- MODULE MCConfiguration --------------------------
(* A small instance of Configuration for TLC.                              *)
EXTENDS Configuration

CONSTANTS c1, c2

Pair(url, key) == [url |-> url, key |-> key]

MCClaims == [c \in {c1, c2} |-> IF c = c1 THEN Pair("A", "A") ELSE Pair("", "")]
MCEnvironments == {Pair("", ""), Pair("B", "")}
MCSubmissions == {Pair("B", "B"), Pair("B", ""), Pair(Unset, "B"), Pair("", "")}
MCAccepted == {Pair("A", "A"), Pair("B", "B")}
=============================================================================
