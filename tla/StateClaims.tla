---------------------------- MODULE StateClaims ----------------------------
(* What comments and tests say of ContractState, and the code does not do. *)
EXTENDS MCState

(* "Appeal succeeds.  Storage restored."                                   *)
(* (tests/consensus/test_payable_appeal_flow.py:6), "Restore the contract  *)
(* state" (base.py:1206): to what it was before the appealed transaction,  *)
(* which was saved when it was accepted.                                   *)
StorageRestored ==
    \A w \in Workers :
        task[w].pc = "clear" /\ task[w].was = "ACCEPTED" =>
            state.accepted = row[task[w].tx].snapshot
=============================================================================
