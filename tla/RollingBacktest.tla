--------------------------- MODULE RollingBacktest ---------------------------
(***************************************************************************)
(* Stage 3.3C (backtesting.py): reference policies fitted on the patches   *)
(* before an evaluation patch and asked for the outcomes of that patch.    *)
(* A probability is abstracted to the evidence it is computed from; the    *)
(* metrics, intervals and reports that only format it are left out.        *)
(***************************************************************************)
EXTENDS DraftObservations

Policies == {"naive_empirical", "champion_role_baseline", "shrunk_directional_matchup",
             "shrunk_directional_synergy", "matchup_synergy_combination"}

\* build_rolling_origin_splits, for one evaluation patch: an empty set when the patch
\* is absent or has nothing before it.
FoldSplits(drafts, evaluation) ==
    LET patches == {c.public_patch : c \in drafts.contexts}
        training == {p \in patches : p < evaluation}
        ids(s) == {c.match_id : c \in {d \in drafts.contexts : d.public_patch \in s}}
    IN  IF evaluation \notin patches \/ training = {} THEN {}
        ELSE {[evaluation_patch |-> evaluation, training_patches |-> training,
               training_ids |-> ids(training), evaluation_ids |-> ids({evaluation})]}

\* _eligible_allies.
EligibleAllies(rows, o) ==
    {p \in rows : /\ p.match_id = o.match_id /\ p.team_id = o.team_id
                  /\ p.participant_id # o.participant_id
                  /\ p.analysis_position # Missing /\ p.role_eligible}

\* _resolved_opponent.
ResolvedOpponent(rows, o) ==
    {p \in rows : /\ p.match_id = o.match_id /\ p.participant_id \in o.lane_opponent
                  /\ p.analysis_position # Missing}

Role(o) == <<o.champion_id, o.analysis_position>>

\* A list [wins, games] of the rows that were counted for one key.
Record(rows) == <<Cardinality({o \in rows : o.win}), Cardinality(rows)>>

\* fit_reference_policies: the counts of each kind of key over the training rows.
Fit(rows, split) ==
    LET training == {o \in rows : /\ o.match_id \in split.training_ids
                                  /\ o.role_eligible /\ o.analysis_position # Missing}
        against == {q \in training \X rows : /\ q[1].matchup_eligible
                                             /\ q[2] \in ResolvedOpponent(rows, q[1])}
        beside == {q \in training \X rows : /\ q[1].synergy_eligible
                                            /\ q[2] \in EligibleAllies(rows, q[1])}
        counts(pairs) ==
            [k \in {<<Role(q[1]), Role(q[2])>> : q \in pairs} |->
                Record({q[1] : q \in {x \in pairs : <<Role(x[1]), Role(x[2])>> = k}})]
    IN  [global |-> Record(training),
         role |-> [k \in {Role(o) : o \in training} |->
                      Record({o \in training : Role(o) = k})],
         matchup |-> counts(against), synergy |-> counts(beside)]

StatOf(stats, key) == IF key \in DOMAIN stats THEN stats[key] ELSE <<0, 0>>

Evidence(reason, numbers) == [missing |-> reason, evidence |-> numbers]
Answered(numbers) == Evidence("none", numbers)

\* The baseline the shrunk policies start from: the role's record, or everybody's.
Baseline(fitted, o) == IF Role(o) \in DOMAIN fitted.role THEN fitted.role[Role(o)]
                       ELSE fitted.global

MatchupPrediction(rows, fitted, o) ==
    CASE ~o.matchup_eligible -> Evidence("matchup_ineligible", {})
      [] o.matchup_eligible /\ ResolvedOpponent(rows, o) = {} ->
            Evidence("unresolved_directional_opponent", {})
      [] o.matchup_eligible /\ ResolvedOpponent(rows, o) # {} ->
            Answered({<<Baseline(fitted, o), StatOf(fitted.matchup, <<Role(o), Role(p)>>)>> :
                         p \in ResolvedOpponent(rows, o)})

SynergyPrediction(rows, fitted, o) ==
    CASE ~o.synergy_eligible -> Evidence("synergy_ineligible", {})
      [] o.synergy_eligible /\ EligibleAllies(rows, o) = {} ->
            Evidence("no_eligible_allies", {})
      [] o.synergy_eligible /\ EligibleAllies(rows, o) # {} ->
            Answered({<<Baseline(fitted, o), StatOf(fitted.synergy, <<Role(o), Role(p)>>)>> :
                         p \in EligibleAllies(rows, o)})

\* predict_reference_policy: the first reason not to answer, or what the answer is
\* computed from.
Predict(policy, rows, fitted, o) ==
    LET matchup == MatchupPrediction(rows, fitted, o)
        synergy == SynergyPrediction(rows, fitted, o)
    IN  IF ~o.role_eligible \/ o.analysis_position = Missing
        THEN Evidence("role_ineligible", {})
        ELSE CASE policy = "naive_empirical" -> Answered({fitted.global})
               [] policy = "champion_role_baseline" ->
                     IF Role(o) \in DOMAIN fitted.role
                     THEN Answered({fitted.role[Role(o)]})
                     ELSE Evidence("unseen_champion_role", {})
               [] policy = "shrunk_directional_matchup" -> matchup
               [] policy = "shrunk_directional_synergy" -> synergy
               [] policy = "matchup_synergy_combination" ->
                     CASE matchup.missing # "none" -> matchup
                       [] matchup.missing = "none" /\ synergy.missing # "none" -> synergy
                       [] matchup.missing = "none" /\ synergy.missing = "none" ->
                             Answered(matchup.evidence \cup synergy.evidence)

\* _prediction_records of every fold and policy.  A fold without a training row that
\* is fit for use raises and nothing is predicted.
Predictions(rows, split) ==
    LET fitted == Fit(rows, split)
        asked == {o \in rows : o.match_id \in split.evaluation_ids}
    IN  IF fitted.global[2] = 0 THEN {}
        ELSE UNION {{[match_id |-> o.match_id, participant_id |-> o.participant_id,
                      policy |-> policy, answer |-> Predict(policy, rows, fitted, o)] :
                        policy \in Policies} : o \in asked}
=============================================================================
