------------------------------- MODULE Votes -------------------------------
(***************************************************************************)
(* How the votes of a round are counted (backend/consensus/utils.py) and   *)
(* when CommittingState stops waiting for more of them                     *)
(* (_is_quorum_reached of backend/consensus/base.py).  The votes are a     *)
(* function over the slots of a round, "none" where no vote is in.         *)
(***************************************************************************)
EXTENDS Integers, FiniteSets

Vote == {"agree", "disagree", "timeout", "violation", "idle"}

Voters(votes, kinds) == {s \in DOMAIN votes : votes[s] \in kinds}
Majority(votes, kinds) ==
    2 * Cardinality(Voters(votes, kinds)) > Cardinality(DOMAIN votes)

(* determine_consensus_from_votes: an idle validator did not agree, and a  *)
(* deterministic violation counts for no side.                             *)
Consensus(votes) ==
    IF Majority(votes, {"agree"}) THEN "MAJORITY_AGREE"
    ELSE IF Majority(votes, {"disagree", "idle"}) THEN "MAJORITY_DISAGREE"
    ELSE IF Majority(votes, {"timeout"}) THEN "TIMEOUT"
    ELSE "NO_MAJORITY"

(* The votes when all that are missing are x.                              *)
Fill(votes, x) ==
    [s \in DOMAIN votes |-> IF votes[s] = "none" THEN x ELSE votes[s]]

(* The votes there can be in the end.                                      *)
Completions(votes) ==
    {c \in [DOMAIN votes -> Vote] : \A s \in DOMAIN votes : votes[s] # "none" => c[s] = votes[s]}

QuorumIfIdle(votes) ==    \* a defect of the next: the rest is taken for idle
    Consensus(Fill(votes, "idle")) # "NO_MAJORITY"

(* _is_quorum_reached: the missing votes do not matter if they are alike.  *)
QuorumReached(votes) ==
    \E result \in {"MAJORITY_AGREE", "MAJORITY_DISAGREE", "TIMEOUT"} :
        \A x \in {"agree", "disagree", "timeout", "idle"} : Consensus(Fill(votes, x)) = result
=============================================================================
