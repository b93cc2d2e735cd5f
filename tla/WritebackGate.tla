---------------------------- MODULE WritebackGate ----------------------------
(***************************************************************************)
(* The decision of src/runtime/writeback_gate.py: nine weighted terms, a   *)
(* clamp and two thresholds say whether a content is skipped, asked about  *)
(* or written.  Scores are kept in units of 1/600, in which every term is  *)
(* a whole number.                                                         *)
(*                                                                         *)
(* A content is told from others by how many patterns of each list it      *)
(* matches.  The code adds floats: where the exact score is a threshold    *)
(* its sum can be an ulp below.  Of all contents and both confidences that *)
(* the pipeline uses this happens only when the user asked explicitly.     *)
(***************************************************************************)
EXTENDS Integers

\* `brief`: fewer than 20 characters.
Signals == [useful : 0..5, relevant : 0..4, sensitive : BOOLEAN, uncertain : 0..3,
            passing : 0..4, brief : BOOLEAN]

\* Importance and confidence in tenths.
Requests == [importance : 0..10, confidence : 0..10, explicit : BOOLEAN,
             untrusted : BOOLEAN]

Actions == {"skip", "ask_user", "write"}

MinScore == 300              \* min_score = 0.5
UserConfirmThreshold == 420  \* user_confirm_threshold = 0.7

AtMost(n, cap) == IF n > cap THEN cap ELSE n

Weight(holds, w) == IF holds THEN w ELSE 0

\* _score_future_usefulness() and _score_project_relevance(), with their weights.
Merits(s) == 45 * AtMost(s.useful, 4) + 50 * AtMost(s.relevant, 3)

\* _score_sensitivity(), _score_uncertainty() and _score_temporary(), with theirs.
Penalties(s) ==
    Weight(s.sensitive, 120) + 60 * AtMost(s.uncertain, 2) + 45 * AtMost(s.passing, 2)

\* Mutant: the penalties are added.
UnsignedPenalties(s, r) ==
    Merits(s) + Penalties(s) + 12 * r.importance + 6 * r.confidence
        + Weight(r.explicit, 90) - Weight(r.untrusted, 9)

Sum(s, r) ==
    Merits(s) - Penalties(s) + 12 * r.importance + 6 * r.confidence
        + Weight(r.explicit, 90) - Weight(r.untrusted, 9)

WriteScore(s, r) == IF Sum(s, r) < 0 THEN 0 ELSE AtMost(Sum(s, r), 600)

\* Mutant: the user is not asked.
ActionUnasked(s, r) ==
    IF s.brief \/ WriteScore(s, r) < MinScore THEN "skip" ELSE "write"

\* evaluate(): the brief ones are sorted out last and skipped whatever their score.
Action(s, r) ==
    IF s.brief \/ WriteScore(s, r) < MinScore THEN "skip"
    ELSE IF WriteScore(s, r) >= UserConfirmThreshold /\ ~r.explicit THEN "ask_user"
    ELSE "write"

Location(s, r) ==
    IF Action(s, r) = "skip" THEN "none"
    ELSE IF (s.useful >= 2 /\ s.relevant >= 2) \/ r.importance >= 7
         THEN "long_term_memory" ELSE "working_memory"
=============================================================================
