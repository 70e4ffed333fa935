---------------------------- MODULE MCMonitoring ----------------------------
(* A small instance of Monitoring for TLC.                                 *)
EXTENDS Monitoring, TLC

CONSTANTS r1, r2, t1, l1, l2, c1

MCReleases == {r1, r2}
MCTracks == {t1}
MCReleaseOf == [t \in MCTracks |-> r1]
MCLoops == {l1, l2}
MCCallers == {c1}

Says(agrees, differs) ==
  [f \in Fields |-> IF f \in agrees THEN "agrees"
                    ELSE IF f \in differs THEN "differs" ELSE "missing"]

\* Agreement in both identifiers; the same with one field against it.
MCEvidences == {
  Says({"recording", "release"}, {}),
  Says({"recording", "release", "year"}, {"country"})}

Audio(codec, rate, depth, kbps, reliability) ==
  [lossless |-> FALSE, codec |-> codec, rate |-> rate, depth |-> depth,
   kbps |-> kbps, channels |-> 2, reliability |-> reliability]

MCUnknown == Audio("", 0, 0, 0, 50)

For(r, audio, approved) ==
  [release |-> r, quality |-> audio, match |-> 95, approved |-> approved]

\* Each of the first two is better than the other in something; the third
\* scores most and is from a less reliable source; the fourth nobody approved.
MCOffers == {
  For(r1, Audio("mp3", 441, 16, 320, 90), TRUE),
  For(r1, Audio("mp3", 960, 16, 192, 90), TRUE),
  For(r1, Audio("flac", 441, 16, 320, 80), TRUE),
  For(r1, Audio("flac", 441, 16, 320, 95), FALSE)}

MCProfile ==
  [codecs |-> <<"flac", "mp3">>,
   minimum |-> [kbps |-> 0, rate |-> 0, depth |-> 0, channels |-> 0,
                reliability |-> 0, match |-> 85]]
Symmetry == Permutations(MCLoops)
MCFaults == {"mark", "discover", "close", "cancel", "import"}
=============================================================================
