----------------------------- MODULE MCJobRunner -----------------------------
(***************************************************************************)
(* Small instances of JobRunner.                                           *)
(***************************************************************************)
EXTENDS JobRunner, TLC

CONSTANTS j1, j2, j3, c1, c2, m1, m2, v1, v2, n1

Of(m, t) == [media |-> m, title |-> t]
For(source, selected, album, track) ==
    [source |-> source, selected |-> selected, album |-> album, track |-> track]

(* One request orders an album and one of its tracks; another one a result *)
(* the user has selected.                                                  *)
TwoBatches == {<<j1, j2>>, <<j3>>}
ThreeAsks == (j1 :> For("priority", None, <<c1, c2>>, None)
           @@ j2 :> For("youtube", None, <<c1, c2>>, c2)
           @@ j3 :> For("prowlarr", Of(n1, None), <<>>, None))

PeersThenVideos == <<"slskd", "youtube">>

(* slskd has one track twice; YouTube has both, or one without a title.    *)
Answers == [source \in Sources |->
    CASE source = "slskd"    -> {<<Of(m1, c1), Of(m2, c1)>>}
      [] source = "youtube"  -> {<<Of(v1, c1), Of(v2, c2)>>, <<Of(v1, None)>>}
      [] source = "prowlarr" -> {<<Of(n1, None)>>}
      [] OTHER               -> {}]
=============================================================================
