-------------------------- MODULE EditionMatching --------------------------
(***************************************************************************)
(* Matching evidence with the edition a track belongs to                   *)
(* (services/edition_matching.py): every piece of evidence is scored       *)
(* against the release and the track, the best one is selected if nothing  *)
(* speaks against it and nothing equals it, and a reviewer may select      *)
(* another.                                                                *)
(*                                                                         *)
(* Evidence is, field by field, how it compares with what is known: it     *)
(* agrees, differs, or one of the two is missing.  Scores are in           *)
(* hundredths, so that two scores are within the tie epsilon of a          *)
(* thousandth exactly if they are equal.                                   *)
(***************************************************************************)
EXTENDS Integers, Sequences, FiniteSets, FiniteSetsExt, SequencesExt

CONSTANTS Releases,     \* releases with a monitoring record
          Tracks,       \* their tracks
          ReleaseOf,    \* the release of each track
          Evidences,    \* what a provider may say of a track
          Unknown,      \* the quality of a candidate that states none
          NoTrack,      \* the track of a candidate for a whole release
          MaxCandidates \* bound on the rows of release_candidates

Fields == {"recording", "release", "medium", "position", "duration", "count",
           "year", "country", "label", "barcode", "catalog", "compilation"}

ASSUME MatchingAssumption ==
  /\ ReleaseOf \in [Tracks -> Releases]
  /\ Evidences \subseteq [Fields -> {"agrees", "differs", "missing"}]
  /\ NoTrack \notin Tracks
  /\ Releases \cap Tracks = {}
  /\ MaxCandidates \in Nat

VARIABLES cands,     \* the rows of release_candidates, in the order of their ids
          workflow   \* Release.import_state and Track.import_state

Weight == [recording |-> 45, release |-> 35, medium |-> 5, position |-> 5,
           duration |-> 4, count |-> 3, year |-> 2, country |-> 2, label |-> 2,
           barcode |-> 3, catalog |-> 3, compilation |-> 2]

Agreeing(e) == {f \in Fields : e[f] = "agrees"}
Score(e) == MapThenSumSet(LAMBDA f : Weight[f], Agreeing(e))

AutoSelectThreshold == 75

CanAutoSelect(e) ==
  /\ e.recording = "agrees"
  /\ {"release", "barcode", "catalog"} \cap Agreeing(e) # {}
  /\ \A f \in Fields : e[f] # "differs"
  /\ Score(e) >= AutoSelectThreshold

Candidate(t, e) ==
  [release |-> ReleaseOf[t], track |-> t, match |-> Score(e), quality |-> Unknown,
   state |-> "pending", selected |-> FALSE]

Selectable(es) == {i \in DOMAIN es : CanAutoSelect(es[i])}
Leaders(es) == {i \in Selectable(es) : \A j \in Selectable(es) : Score(es[i]) >= Score(es[j])}

\* The rows of one match: the leader is selected, if there is one and only one.
Rows(t, es) ==
  [i \in DOMAIN es |->
     IF Leaders(es) = {i}
     THEN [Candidate(t, es[i]) EXCEPT !.state = "auto_selected", !.selected = TRUE]
     ELSE IF Cardinality(Leaders(es)) = 1 THEN Candidate(t, es[i])
     ELSE [Candidate(t, es[i]) EXCEPT !.state = "needs_review"]]

\* Fault: a tie counts as a selection.
OutcomeOfTie(es) == IF Leaders(es) # {} THEN "ready" ELSE "needs_review"

Outcome(es) == IF Cardinality(Leaders(es)) = 1 THEN "ready" ELSE "needs_review"

\* Fault: a new match starts over, without the selections made before.
ResolveReleaseMatchAfresh(t, es) ==
  /\ Len(cands) + Len(es) <= MaxCandidates
  /\ cands' = [i \in DOMAIN cands |->
                 IF cands[i].track = t THEN [cands[i] EXCEPT !.selected = FALSE]
                 ELSE cands[i]] \o Rows(t, es)
  /\ workflow' = [workflow EXCEPT ![t] = Outcome(es), ![ReleaseOf[t]] = Outcome(es)]

\* resolve_release_match for new evidence: the rows of earlier matches stay as
\* they are, and the release takes the state of the track matched last.
ResolveReleaseMatch(t, es) ==
  /\ Len(cands) + Len(es) <= MaxCandidates
  /\ cands' = cands \o Rows(t, es)
  /\ workflow' = [workflow EXCEPT ![t] = Outcome(es), ![ReleaseOf[t]] = Outcome(es)]

\* resolve_release_match with a candidate chosen by a reviewer: every other
\* candidate of the track is rejected, whatever it was.
ManualSelect(t, k) ==
  /\ cands[k].track = t
  /\ cands' = [i \in DOMAIN cands |->
                 IF cands[i].track # t THEN cands[i]
                 ELSE [cands[i] EXCEPT !.selected = (i = k),
                         !.state = IF i = k THEN "manual_selected" ELSE "rejected"]]
  /\ workflow' = [workflow EXCEPT ![t] = "ready", ![ReleaseOf[t]] = "ready"]

MatchInit ==
  /\ cands = << >>
  /\ workflow = [x \in Releases \cup Tracks |-> "discovered"]

\* A track that is ready to import has a candidate that was selected for it, over
\* any number of matches and reviews: what importing and monitoring rely on.
ReadyIsBacked ==
  \A t \in Tracks : workflow[t] = "ready" =>
    \E i \in DOMAIN cands : cands[i].track = t /\ cands[i].selected

\* A reviewer's decision outlasts matching: only another review of the same track
\* takes the selection away, however good the evidence that arrives later.
ReviewStands ==
  [][\A i \in DOMAIN cands :
       cands[i].state = "manual_selected" =>
         \/ cands'[i] = cands[i]
         \/ \E j \in DOMAIN cands : /\ cands[j].track = cands[i].track
                                    /\ cands[j].state # "manual_selected"
                                    /\ cands'[j].state = "manual_selected"]_cands
=============================================================================
