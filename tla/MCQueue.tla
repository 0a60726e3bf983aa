------------------------------ MODULE MCQueue ------------------------------
(* Instances of ContractQueue for TLC.                                     *)
EXTENDS ContractQueue, TLC

OneContract == [t \in Tx |-> "a"]
AllRun == [t \in Tx |-> "run"]
SendUpgradeRun == [t \in Tx |-> CASE t = 1 -> "send" [] t = 2 -> "run" [] OTHER -> "upgrade"]
AnyWorker == Permutations(Workers)
=============================================================================
