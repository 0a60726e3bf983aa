--------------------------- MODULE FeeAccounting ---------------------------
(***************************************************************************)
(* The record data["fee_accounting"] of a transaction and everything the   *)
(* server and the workers do to it (backend/protocol_rpc/fees.py).  Pure   *)
(* operators: for an operation Op that may raise, OpOk says when it does   *)
(* not, and Op(acc, ...) is the accounting it returns.                     *)
(*                                                                         *)
(* A message is what a contract emits: type, onAcceptance, to, key, params *)
(* (NoParams when it carries none), declared (its budget) and gasUsed.     *)
(* After FillPayload it also has subtree: the root of message_allocations  *)
(* it was matched to, 0 when there is none.                                *)
(***************************************************************************)
EXTENDS FeeSchedule

NoParams == [none |-> TRUE]
Terminal == {"settled", "canceled"}

(* A message that reached the fee code without an allocation tree.         *)
Unmatched(m) == [type |-> m.type, onAcceptance |-> m.onAcceptance, to |-> m.to, key |-> m.key,
                 params |-> m.params, declared |-> m.declared, gasUsed |-> m.gasUsed, subtree |-> 0]

----------------------------------------------------------------------------
(* Creation.                                                               *)

NewAccounting(d, allocs, n, fee, required, p) ==
    [status |-> "active", policy |-> p, fees |-> d, validators |-> n,
     paid |-> fee,
     required |-> AtLeastZero(required - d.messages),
     primary |-> AtLeastZero(fee - d.messages), spent |-> 0, refunded |-> 0,
     execBudget |-> d.execution * LeaderRounds(d), execConsumed |-> 0,
     message |-> d.messages, consumed |-> 0, messageRefunded |-> 0,
     reserved |-> 0, reimbursed |-> 0, remainder |-> 0, events |-> <<>>,
     bonds |-> <<>>, settlements |-> <<>>, payout |-> 0, totalRefunded |-> 0,
     allocations |-> allocs, used |-> [i \in DOMAIN allocs |-> 0],
     recorded |-> FALSE, fromReceipt |-> FALSE, atReveal |-> FALSE]

(* validate_transaction_fee_deposit and create_fee_accounting              *)
DepositOk(d, allocs, n, fee, p) ==
    /\ AboveFloor(d.execution, p)
    /\ Computable(d, n, p)
    /\ fee >= RequiredDeposit(d, n, p)
    /\ ValidAllocations(allocs, d.messages, p)
Submitted(d, allocs, n, fee, p) == NewAccounting(d, allocs, n, fee, RequiredDeposit(d, n, p), p)

(* create_child_fee_accounting: the caps come from the parent, the policy  *)
(* from the environment of the process that runs it.                       *)
CapsOf(d) == [maxTimeUnit |-> d.maxTimeUnit, maxStorage |-> d.maxStorage, maxReceipt |-> d.maxReceipt]
MatchedRoot(m, node) ==
    NodeKey(node) = <<m.type, m.to, m.key>> /\ node.onAcceptance = m.onAcceptance /\ node.params = m.params
Subtree(allocs, i) == <<[allocs[i] EXCEPT !.parent = 0]>> \o
    [j \in DOMAIN ChildAllocations(allocs, i) |->
        [ChildAllocations(allocs, i)[j] EXCEPT !.parent = @ + 1]]
SubtreeForChild(acc, m) ==
    IF m.subtree = 0 THEN <<>>
    ELSE IF MatchedRoot(m, acc.allocations[m.subtree])
         THEN ChildAllocations(acc.allocations, m.subtree)
         ELSE Subtree(acc.allocations, m.subtree)
ChildPrimary(m, p) == MinMessageFees(m.params, p)
ChildFees(acc, m, p) ==
    FeesOfParams(m.params,
                 IF SubtreeForChild(acc, m) = <<>> THEN 0 ELSE m.declared - ChildPrimary(m, p),
                 CapsOf(acc.fees))
ChildOk(acc, m, p) ==
    /\ m.params # NoParams
    /\ ValidParams(m.params, p)
    /\ m.declared >= ChildPrimary(m, p)
    /\ ValidAllocations(SubtreeForChild(acc, m), ChildFees(acc, m, p).messages, p)
ChildAccounting(acc, m, p) ==
    NewAccounting(ChildFees(acc, m, p), SubtreeForChild(acc, m), VALIDATORS_PER_ROUND[1],
                  m.declared, m.declared, p)

----------------------------------------------------------------------------
(* What users pay later: top-ups and the bonds of appeals.                 *)

TopUpOk(acc, more, amount, n) ==
    /\ more.messages <= amount
    /\ Computable(more, n, acc.policy)
    /\ RoundFees(more, n, acc.policy) <= amount - more.messages
    /\ AboveFloor(MergedFees(acc.fees, more).execution, acc.policy)
TopUp(acc, more, amount) ==
    LET merged == MergedFees(acc.fees, more)
    IN [acc EXCEPT !.fees = merged,
                   !.paid = @ + amount,
                   !.primary = @ + amount - more.messages,
                   !.message = @ + more.messages,
                   !.execBudget = merged.execution * LeaderRounds(merged)]

BondOk(acc, amount, round, status) == amount >= MinAppealBond(acc.fees, round, status, acc.policy)
AppealBond(acc, amount, appealer, round, topUpAndSubmit) ==
    LET bond == [appealer |-> appealer, amount |-> amount, round |-> round]
        wider == [acc.fees EXCEPT !.appealRounds = @ + 1]
        bonded == [acc EXCEPT !.bonds = Append(@, bond)]
    IN IF ~topUpAndSubmit THEN bonded
       ELSE [bonded EXCEPT !.primary = @ + amount,
                           !.paid = @ + amount,
                           !.fees = wider,
                           !.execBudget = wider.execution * LeaderRounds(wider)]

----------------------------------------------------------------------------
(* Messages: the payload is completed from the allocation it matches ...   *)

FillOk(acc, m) ==
    acc.allocations # <<>> =>
        LET i == Resolve(acc.allocations, m)
        IN i # 0 /\ acc.allocations[i].onAcceptance = m.onAcceptance
FillPayload(acc, m) ==
    LET i == Resolve(acc.allocations, m)
        node == acc.allocations[i]
        params == IF m.params = NoParams THEN node.params ELSE m.params
    IN IF acc.allocations = <<>> THEN Unmatched(m)
       ELSE IF m.type = "external" THEN [Unmatched(m) EXCEPT !.params = params]
       ELSE [Unmatched(m) EXCEPT !.params = params,
                                 !.declared = IF @ = 0 THEN node.budget ELSE @,
                                 !.subtree = i]

(* ... and charged to that allocation: an internal message its budget, an  *)
(* external one the gas it may use at the price locked now.                *)
LockedPrice(node, p) == IF p.receipt > 0 THEN Least(p.receipt, node.params.maxGasPrice) ELSE 0
Reserves(acc, m) ==
    /\ m.type = "external" /\ ~m.onAcceptance
    /\ acc.allocations # <<>> /\ Resolve(acc.allocations, m) # 0
Reservation(acc, m) ==
    LET node == acc.allocations[Resolve(acc.allocations, m)]
    IN node.params.gasLimit * LockedPrice(node, acc.policy)
Fits(acc, i, amount) == acc.used[i] + amount <= acc.allocations[i].budget

ExternalOk(acc, m) ==
    /\ m.declared = 0
    /\ Reserves(acc, m) => Fits(acc, Resolve(acc.allocations, m), Reservation(acc, m))
InternalOk(acc, m) ==
    /\ m.params # NoParams
    /\ ValidParams(m.params, acc.policy)
    /\ m.declared >= MinMessageFees(m.params, acc.policy)
    /\ acc.allocations # <<>> =>
         LET i == Resolve(acc.allocations, m)
         IN /\ i # 0
            /\ acc.allocations[i].onAcceptance = m.onAcceptance
            /\ acc.allocations[i].params = m.params
            /\ Fits(acc, i, m.declared)
MessageOk(acc, m) == IF m.type = "external" THEN ExternalOk(acc, m) ELSE InternalOk(acc, m)

Event(acc, m, reimburse) ==
    LET i == Resolve(acc.allocations, m)
        price == LockedPrice(acc.allocations[i], acc.policy)
        reservation == Reservation(acc, m)
        paid == Least(reservation, m.gasUsed * price)
    IN [to |-> m.to, key |-> m.key, node |-> i, price |-> price,
        gasLimit |-> acc.allocations[i].params.gasLimit, reservation |-> reservation,
        reimbursement |-> IF reimburse THEN paid ELSE 0,
        remainder |-> IF reimburse THEN reservation - paid ELSE 0,
        executed |-> reimburse, unreserved |-> FALSE]
Reserve(acc, m, reimburse) ==
    LET event == Event(acc, m, reimburse)
    IN [acc EXCEPT !.used[event.node] = @ + event.reservation,
                   !.reserved = @ + event.reservation,
                   !.reimbursed = @ + event.reimbursement,
                   !.remainder = @ + event.remainder,
                   !.events = Append(@, event)]
Charge(acc, m, reimburse) ==
    IF m.type = "external" THEN IF Reserves(acc, m) THEN Reserve(acc, m, reimburse) ELSE acc
    ELSE IF acc.allocations = <<>> THEN acc
    ELSE [acc EXCEPT !.used[Resolve(acc.allocations, m)] = @ + m.declared]
Charged(acc, msgs, reimburse) ==
    LET after[i \in 0..Len(msgs)] ==
          IF i = 0 THEN acc ELSE Charge(after[i - 1], msgs[i], reimburse)
    IN after

(* consume_message_fees                                                    *)
DeclaredOf(m) == IF m.type = "internal" THEN m.declared ELSE 0
Attempted(acc, msgs, reimburse) ==
    acc.consumed
      + Sum([i \in DOMAIN msgs |-> DeclaredOf(msgs[i])], DOMAIN msgs)
      + (Charged(acc, msgs, reimburse)[Len(msgs)].reimbursed - acc.reimbursed)
ConsumeOk(acc, msgs, reimburse) ==
    /\ acc.policy.maxMessages > 0 => Len(msgs) <= acc.policy.maxMessages
    /\ \A i \in DOMAIN msgs : MessageOk(Charged(acc, msgs, reimburse)[i - 1], msgs[i])
    /\ Attempted(acc, msgs, reimburse) <= acc.message
Consume(acc, msgs, reimburse) ==
    [Charged(acc, msgs, reimburse)[Len(msgs)] EXCEPT
        !.consumed = Attempted(acc, msgs, reimburse), !.recorded = TRUE]
RecordUnmarked(acc, msgs) == Consume(acc, msgs, FALSE)    \* a defect: the reveal is not marked
RecordReveal(acc, msgs) == [Consume(acc, msgs, FALSE) EXCEPT !.atReveal = TRUE]

(* record_external_message_execution_fees: the first event of the same     *)
(* recipient and key that was not executed yet.                            *)
SameTarget(event, m) == event.to = m.to /\ event.key = m.key
First(indices) == IF indices = {} THEN 0 ELSE Min(indices)
Unexecuted(acc, m) == First({i \in DOMAIN acc.events :
    SameTarget(acc.events[i], m) /\ ~acc.events[i].executed /\ ~acc.events[i].unreserved})
Reimbursement(event, m) ==
    Least(event.reservation, Least(event.gasLimit, m.gasUsed) * event.price)
ExecuteOne(acc, m) ==
    LET i == Unexecuted(acc, m)
        due == Reimbursement(acc.events[i], m)
        left == acc.events[i].reservation - due
    IN IF m.type # "external" \/ i = 0 THEN acc
       ELSE [acc EXCEPT !.events[i].reimbursement = due,
                        !.events[i].remainder = left,
                        !.events[i].executed = TRUE,
                        !.consumed = @ + due, !.reimbursed = @ + due, !.remainder = @ + left,
                        !.recorded = TRUE]
Executed(acc, msgs) ==
    LET after[i \in 0..Len(msgs)] == IF i = 0 THEN acc ELSE ExecuteOne(after[i - 1], msgs[i])
    IN after
ExecutionOk(acc, msgs) ==
    \A i \in DOMAIN msgs :
        LET before == Executed(acc, msgs)[i - 1]
        IN msgs[i].type = "external" /\ Unexecuted(before, msgs[i]) # 0 =>
             Executed(acc, msgs)[i].consumed <= acc.message
RecordExecution(acc, msgs) == Executed(acc, msgs)[Len(msgs)]

(* unwind_reveal_message_fees: a later receipt has no messages.            *)
Reserved(acc, m) == First({i \in DOMAIN acc.events :
    SameTarget(acc.events[i], m) /\ ~acc.events[i].unreserved})
UnwindTotalsOnly(acc, m, dispatched) ==    \* a defect: the allocation is not given back
    LET i == Reserved(acc, m)
        event == acc.events[i]
    IN IF m.type = "external"
       THEN IF i = 0 THEN acc
            ELSE [acc EXCEPT !.consumed = AtLeastZero(@ - event.reimbursement),
                             !.reserved = AtLeastZero(@ - event.reservation),
                             !.events[i].unreserved = TRUE]
       ELSE IF m.declared <= 0 THEN acc ELSE [acc EXCEPT !.consumed = AtLeastZero(@ - m.declared)]
UnwindOne(acc, m, dispatched) ==
    LET i == Reserved(acc, m)
        event == acc.events[i]
        node == Resolve(acc.allocations, m)
        back == [acc EXCEPT !.consumed = AtLeastZero(@ - m.declared)]
    IN IF m.type = "external"
       THEN IF i = 0 THEN acc
            ELSE [acc EXCEPT !.used[event.node] = AtLeastZero(@ - event.reservation),
                             !.consumed = AtLeastZero(@ - event.reimbursement),
                             !.reserved = AtLeastZero(@ - event.reservation),
                             !.reimbursed = AtLeastZero(@ - event.reimbursement),
                             !.remainder = AtLeastZero(@ - event.remainder),
                             !.events[i].unreserved = TRUE]
       ELSE IF (dispatched /\ m.onAcceptance) \/ m.declared <= 0 THEN acc
       ELSE IF node = 0 THEN back
       ELSE [back EXCEPT !.used[node] = AtLeastZero(@ - m.declared)]
Unwound(acc, msgs, dispatched) ==
    LET after[i \in 0..Len(msgs)] ==
          IF i = 0 THEN acc ELSE UnwindOne(after[i - 1], msgs[i], dispatched)
    IN after
Unwind(acc, msgs, dispatched) ==
    [Unwound(acc, msgs, dispatched)[Len(msgs)] EXCEPT !.recorded = FALSE, !.fromReceipt = FALSE]

(* It does not look at whether that was charged: an internal message may   *)
(* give back more than its allocation shows as used.                       *)
Overdraws(acc, msgs, dispatched) ==
    \E i \in DOMAIN msgs :
        LET node == Resolve(acc.allocations, msgs[i])
        IN /\ msgs[i].type = "internal" /\ ~(dispatched /\ msgs[i].onAcceptance) /\ node # 0
           /\ msgs[i].declared > Unwound(acc, msgs, dispatched)[i - 1].used[node]

----------------------------------------------------------------------------
(* The end: settle_fee_accounting and cancel_fee_accounting.               *)

(* record_execution_fee_consumption, of a receipt r with its messages, the *)
(* fee of its bytes and the fee of its storage; a failed execution has no  *)
(* messages and pays no storage.                                           *)
ReceiptMessages(acc, r) ==
    IF r.ok THEN [i \in DOMAIN r.messages |-> FillPayload(acc, r.messages[i])] ELSE <<>>
Unrecorded(acc, r) ==
    /\ ReceiptMessages(acc, r) # <<>>
    /\ \/ acc.message > 0 \/ acc.allocations # <<>>
       \/ \E i \in DOMAIN ReceiptMessages(acc, r) :
            ReceiptMessages(acc, r)[i].declared > 0 \/ ReceiptMessages(acc, r)[i].params # NoParams
    /\ ~acc.fromReceipt /\ ~acc.recorded
ReceiptOk(acc, r) ==
    /\ r.ok => \A i \in DOMAIN r.messages : FillOk(acc, r.messages[i])
    /\ Unrecorded(acc, r) => ConsumeOk(acc, ReceiptMessages(acc, r), TRUE)
RecordReceipt(acc, r) ==
    LET charged == IF Unrecorded(acc, r)
                   THEN [Consume(acc, ReceiptMessages(acc, r), TRUE) EXCEPT !.fromReceipt = TRUE]
                   ELSE acc
    IN [charged EXCEPT !.execConsumed = r.receiptFee + (IF r.ok THEN r.storageFee ELSE 0)]

MessageRefundOfAll(acc) == AtLeastZero(acc.message - acc.messageRefunded)    \* a defect: what was spent is not looked at
MessageRefund(acc) == AtLeastZero(acc.message - acc.consumed - acc.messageRefunded)
PrimarySpent(acc, h, final, n) ==
    Least(acc.primary,
          TimeUnitFeesThrough(acc.fees, n, final, acc.policy, h)
            + Least(acc.execConsumed, acc.fees.execution * LeaderRoundsThrough(acc.fees, final, h)))
PrimaryRefund(acc, spent) == AtLeastZero(acc.primary - spent - acc.refunded)

(* _settle_appeal_bonds: a bond is won, lost, or returned when a canceled  *)
(* transaction never came to a verdict.                                    *)
BondStatus(bond, h, cancel) ==
    LET outcome == AppealOutcome(h, bond.round)
    IN IF cancel /\ outcome = "none" THEN "returned"
       ELSE IF outcome \in AppealSucceeds THEN "successful" ELSE "forfeited"
BondPayout(bond, h, cancel) ==
    CASE BondStatus(bond, h, cancel) = "returned" -> bond.amount
      [] BondStatus(bond, h, cancel) = "successful" -> (bond.amount * 3) \div 2
      [] OTHER -> 0
BondSettlements(acc, h, cancel) ==
    IF acc.settlements # <<>> THEN acc.settlements
    ELSE [i \in DOMAIN acc.bonds |-> [appealer |-> acc.bonds[i].appealer,
                                      status |-> BondStatus(acc.bonds[i], h, cancel),
                                      payout |-> BondPayout(acc.bonds[i], h, cancel)]]
PayoutTotal(settlements) ==
    Sum([i \in DOMAIN settlements |-> settlements[i].payout], DOMAIN settlements)

Refunded(acc, primary, message) ==
    [acc EXCEPT !.refunded = @ + primary,
                !.messageRefunded = @ + message,
                !.totalRefunded = @ + primary + message]
Closed(acc, status, spent, settlements) ==
    [Refunded(acc, PrimaryRefund(acc, spent), MessageRefund(acc)) EXCEPT
        !.status = status,
        !.spent = spent,
        !.settlements = settlements,
        !.payout = IF acc.settlements # <<>> THEN @ ELSE @ + PayoutTotal(settlements)]
SettleOk(acc, h, n, r) ==
    /\ ReceiptOk(acc, r)
    /\ acc.status \notin Terminal => Chargeable(acc.fees, n, FinalRound(h), acc.policy)
SettleAgain(acc, h, n, r) ==    \* a defect: a canceled or settled record is settled
    LET seen == RecordReceipt(acc, r)
    IN Closed(seen, "settled", PrimarySpent(seen, h, FinalRound(h), n), BondSettlements(seen, h, FALSE))
Settle(acc, h, n, r) ==
    LET seen == RecordReceipt(acc, r)
    IN IF acc.status \in Terminal THEN seen
       ELSE Closed(seen, "settled", PrimarySpent(seen, h, FinalRound(h), n), BondSettlements(seen, h, FALSE))
CancelMisspelt(acc) ==    \* a defect: a status nothing else knows
    IF acc.status \in Terminal THEN acc
    ELSE Closed(acc, "cancelled", acc.spent, BondSettlements(acc, <<>>, TRUE))
CancelAgain(acc) ==    \* a defect: whatever the status, and the refund of before is forgotten
    Closed([acc EXCEPT !.refunded = 0, !.messageRefunded = 0], "canceled", acc.spent,
           BondSettlements(acc, <<>>, TRUE))
Cancel(acc) ==
    IF acc.status \in Terminal THEN acc
    ELSE Closed(acc, "canceled", acc.spent, BondSettlements(acc, <<>>, TRUE))
=============================================================================
