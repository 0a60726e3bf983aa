------------------------------ MODULE MCState ------------------------------
(* Instances of ContractState for TLC. *)
EXTENDS ContractState, TLC

AnyWorker == Permutations(Workers)
MCEnvs == {{"crash"}, {"appeal", "parallel", "cancel"},
           {"appeal", "upheld", "cancel", "crash", "latecrash"}}
=============================================================================
