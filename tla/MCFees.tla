------------------------------- MODULE MCFees -------------------------------
(* An instance of TransactionFees for TLC: one transaction that may emit   *)
(* an internal message at acceptance and an external and an internal one   *)
(* at finalization.                                                        *)
EXTENDS TransactionFees

MCPolicy == [timeUnit |-> 1, storage |-> 1, receipt |-> 1, floor |-> 2, maxMessages |-> 4, maxDepth |-> 2]
ChildParams == [leader |-> 1, validator |-> 0, appealRounds |-> 0, execution |-> 0, rotations |-> <<0>>]
Gas == [gasLimit |-> 2, maxGasPrice |-> 3]
MCDistribution ==
    [leader |-> 2, validator |-> 1, appealRounds |-> 1, execution |-> 2, messages |-> 10,
     rotations |-> <<1, 0>>, maxTimeUnit |-> 0, maxStorage |-> 1, maxReceipt |-> 2]
Node(type, onAcceptance, to, budget, params) ==
    [type |-> type, onAcceptance |-> onAcceptance, parent |-> 0, to |-> to, key |-> AnyKey,
     budget |-> budget, params |-> params]
MCAllocations ==
    << Node("internal", TRUE, "a", 2, ChildParams),
       Node("external", FALSE, "x", 6, Gas),
       Node("internal", FALSE, "b", 2, ChildParams) >>
MCDeposit == RequiredDeposit(MCDistribution, 5, MCPolicy) + 3

Message(type, onAcceptance, to, declared, gas) ==
    [type |-> type, onAcceptance |-> onAcceptance, to |-> to, key |-> AnyKey,
     params |-> NoParams, declared |-> declared, gasUsed |-> gas]
MCReceipts ==
    { [ok |-> TRUE, receiptFee |-> 1, storageFee |-> 1,
       messages |-> << Message("internal", TRUE, "a", 1, 0), Message("external", FALSE, "x", 0, 1),
                       Message("internal", FALSE, "b", 2, 0) >>],
      [ok |-> TRUE, receiptFee |-> 1, storageFee |-> 1, messages |-> << Message("internal", TRUE, "a", 2, 0) >>],
      [ok |-> FALSE, receiptFee |-> 1, storageFee |-> 0, messages |-> <<>>] }
MCTopUps ==
    { [amount |-> 30, more |-> [MCDistribution EXCEPT !.messages = 2, !.rotations = <<0>>,
                                                      !.appealRounds = 0]] }
MCBonds == { [amount |-> 30, topUpAndSubmit |-> FALSE], [amount |-> 40, topUpAndSubmit |-> TRUE] }
=============================================================================
