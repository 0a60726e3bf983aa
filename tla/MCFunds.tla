------------------------------ MODULE MCFunds ------------------------------
(* An instance of Funds for TLC: a user pays a contract that pays another  *)
(* contract when a call is accepted and somebody outside when it is final. *)
EXTENDS Funds, TLC

CONSTANTS user, contract, other
MCAddr == {user, contract, other}
MCOpened == {user, contract}
MCFunding == [a \in MCAddr |-> IF a = user THEN 3 ELSE IF a = contract THEN 1 ELSE 0]
Emit(external, on, value) == [external |-> external, on |-> on, value |-> value, to |-> other]
Submission(hash, kind, to, value, emits, fees) ==
    [hash |-> hash, kind |-> kind, from |-> user, to |-> to, value |-> value,
     emits |-> emits, fees |-> fees]
MCSubmissions ==
    { Submission("s1", "call", contract, 2, <<Emit(FALSE, "accepted", 1), Emit(TRUE, "finalized", 2)>>, TRUE),
      Submission("s2", "call", contract, 0, <<Emit(TRUE, "finalized", 1)>>, FALSE),
      Submission("s3", "send", other, 2, <<>>, FALSE) }
ASSUME ContractsDoNotSign
MCSymmetry == Permutations(Workers)
MCFaucets == { [to |-> user, value |-> 1] }
=============================================================================
