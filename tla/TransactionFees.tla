-------------------------- MODULE TransactionFees --------------------------
(***************************************************************************)
(* The fees of one transaction, from its submission to the refund.         *)
(*                                                                         *)
(* Two kinds of process write data["fee_accounting"] of the row:           *)
(*   - the worker that runs the transaction, an appeal of it or its        *)
(*     finalization (consensus/base.py).  It computes from the copy it     *)
(*     loaded, and commits several times on the way;                       *)
(*   - the requests of users: top-ups, appeals with their bonds, and       *)
(*     cancellation (protocol_rpc/endpoints.py).  They read the row, and   *)
(*     write what they computed from it in a later statement.              *)
(* The last write wins.  A worker may fail or die between two commits.     *)
(*                                                                         *)
(* What the validators decide is a choice here (ValidatorWave says when    *)
(* they decide); claims and retries are in ContractQueue, of which this    *)
(* module keeps: one worker at a time, recovery to PENDING, and the worker *)
(* that gives up after its retries.                                        *)
(***************************************************************************)
EXTENDS FeeAccounting

CONSTANTS
    Distribution, Allocations, Policy, Deposit,   \* what was submitted
    Receipts,       \* what a leader may return: [ok, messages, receiptFee, storageFee]
    TopUps,         \* [more, amount] of addTransactionFees
    Bonds,          \* [amount, topUpAndSubmit] of submitAppeal
    Callers,        \* concurrent requests
    MaxHistory, MaxFailures, MaxCalls             \* bounds

Validators0 == VALIDATORS_PER_ROUND[1]            \* num_of_initial_validators
ASSUME SubmissionIsValid == DepositOk(Distribution, Allocations, Validators0, Deposit, Policy)

(* What is decoded from calldata, or counted, is a natural number.         *)
Fees == [leader : Nat, validator : Nat, appealRounds : Nat, execution : Nat, messages : Nat,
         rotations : Seq(Nat), maxTimeUnit : Nat, maxStorage : Nat, maxReceipt : Nat]
Policies == [timeUnit : Nat, storage : Nat, receipt : Nat, floor : Nat, maxMessages : Nat, maxDepth : Nat]
Types == {"internal", "external"}
IsNode(node) ==
    /\ node.type \in Types /\ node.budget \in Nat
    /\ node.type = "external" => node.params.gasLimit \in Nat /\ node.params.maxGasPrice \in Nat
IsMessage(m) == m.type \in Types /\ m.declared \in Nat /\ m.gasUsed \in Nat
Elements(seq) == {seq[i] : i \in DOMAIN seq}
ASSUME SubmissionIsNumbers ==
    /\ Distribution \in Fees /\ Policy \in Policies /\ Deposit \in Nat
    /\ Allocations \in Seq(Elements(Allocations)) /\ \A i \in DOMAIN Allocations : IsNode(Allocations[i])
    /\ MaxHistory \in Nat
ASSUME InputsAreNumbers ==
    /\ \A r \in Receipts : /\ r.ok \in BOOLEAN /\ r.receiptFee \in Nat /\ r.storageFee \in Nat
                           /\ r.messages \in Seq(Elements(r.messages))
                           /\ \A i \in DOMAIN r.messages : IsMessage(r.messages[i])
    /\ \A t \in TopUps : t.amount \in Nat /\ t.more \in Fees
    /\ \A b \in Bonds : b.amount \in Nat /\ b.topUpAndSubmit \in BOOLEAN

VARIABLES
    row,       \* the row: status, acc, history, receipt, appeal
    worker,    \* the context of the worker that holds the row, or Idle
    calls,     \* the request each caller is in
    givingUp,  \* a worker released the row and is about to cancel it
    money,     \* what the sender and the appealers paid and got, and the children's budgets
    lost,      \* some write of the accounting overwrote one its writer had not read
    overdrawn, \* some unwinding gave back a budget that its allocation did not show as used
    spent      \* failures and calls, for the bounds
vars == <<row, worker, calls, givingUp, money, lost, overdrawn, spent>>

Idle == [step |-> "idle", appeal |-> "none"]
NoCall == [step |-> "none"]
NoReceipt == [ok |-> FALSE, messages |-> <<>>, receiptFee |-> 0, storageFee |-> 0]
Decided == {"ACCEPTED", "UNDETERMINED", "LEADER_TIMEOUT", "VALIDATORS_TIMEOUT"}

Init ==
    /\ row = [status |-> "PENDING", acc |-> Submitted(Distribution, Allocations, Validators0, Deposit, Policy),
              history |-> <<>>, receipt |-> NoReceipt, appeal |-> "none"]
    /\ worker = Idle
    /\ calls = [c \in Callers |-> NoCall]
    /\ givingUp = FALSE
    /\ money = [fees |-> Deposit, bonds |-> 0, refund |-> 0, payout |-> 0, children |-> 0]
    /\ lost = FALSE /\ overdrawn = FALSE
    /\ spent = [failures |-> 0, calls |-> 0]

----------------------------------------------------------------------------
(* The worker.                                                             *)

At(step) == worker.step = step
Goto(step) == worker' = [worker EXCEPT !.step = step]
Context(step) == [step |-> step, acc |-> row.acc, status |-> row.status, appeal |-> row.appeal,
                  receipt |-> row.receipt, prior |-> row.receipt]
Rest == UNCHANGED <<calls, givingUp, spent>>
Stays == Rest /\ UNCHANGED <<lost, overdrawn>>
Write(acc) == row' = [row EXCEPT !.acc = acc]

(* A write of an accounting computed from "read".                          *)
Over(read) == lost' = (lost \/ row.acc # read)

(* PendingState, of a first run or a rerun: the flag of a leader's appeal  *)
(* that a crash left goes on, any other is cleared.                        *)
LeaderAppeal == {"UNDETERMINED", "LEADER_TIMEOUT"}
Resumed(appeal) == IF appeal \in LeaderAppeal THEN appeal ELSE "none"
Load ==
    /\ At("idle") /\ row.status = "PENDING"
    /\ worker' = [Context("round") EXCEPT !.appeal = Resumed(@)]
    /\ row' = [row EXCEPT !.status = "PROPOSING", !.appeal = Resumed(@)]
    /\ Stays /\ UNCHANGED money

(* The appeal of a decided transaction, which is of the kind its status    *)
(* says.  Validators' appeals vote on the receipt that is stored.          *)
LoadAppeal ==
    /\ At("idle") /\ row.status \in Decided /\ row.appeal # "none"
    /\ worker' = [Context(IF row.status \in LeaderAppeal THEN "round" ELSE "vote") EXCEPT !.appeal = row.status]
    /\ row' = [row EXCEPT !.appeal = row.status,
                          !.status = IF @ \in LeaderAppeal THEN "PROPOSING" ELSE "COMMITTING"]
    /\ Stays /\ UNCHANGED money

(* Not enough validators for an appeal: it is dropped.                     *)
RefuseAppeal ==
    /\ At("idle") /\ row.status \in Decided /\ row.appeal # "none"
    /\ row' = [row EXCEPT !.appeal = "none"]
    /\ Stays /\ UNCHANGED <<worker, money>>

With(entry) == Append(row.history, entry)
Room == Len(row.history) < MaxHistory
OfValidators == worker.appeal \in {"ACCEPTED", "VALIDATORS_TIMEOUT"}

(* ProposingState: what the leader returns is stored before anyone votes   *)
(* on it, over the receipt of before.                                      *)
Propose ==
    /\ At("round") /\ Room
    /\ \E r \in Receipts :
         /\ worker' = [worker EXCEPT !.step = "vote", !.receipt = r]
         /\ row' = [row EXCEPT !.receipt = r]
    /\ Stays /\ UNCHANGED money

Rotate ==
    /\ At("vote") /\ Room /\ ~OfValidators
    /\ row' = [row EXCEPT !.history = With(IF worker.appeal = "UNDETERMINED"
                                              THEN "Leader Rotation Appeal" ELSE "Leader Rotation")]
    /\ Goto("round")
    /\ Stays /\ UNCHANGED money

(* A round that ends without a result.                                     *)
Concluded(status, entry, receipt) ==
    /\ Room
    /\ row' = [row EXCEPT !.status = status, !.history = With(entry), !.receipt = receipt,
                          !.appeal = "none"]
    /\ worker' = Idle
    /\ Stays /\ UNCHANGED money
Undetermined ==
    /\ At("vote") /\ ~OfValidators
    /\ Concluded("UNDETERMINED",
                 IF worker.appeal = "UNDETERMINED" THEN "Leader Appeal Failed" ELSE "Undetermined",
                 worker.receipt)
LeaderTimeout ==
    /\ At("round")
    /\ Concluded("LEADER_TIMEOUT",
                 CASE worker.appeal = "UNDETERMINED" -> "Leader Appeal Successful"
                   [] worker.appeal = "LEADER_TIMEOUT" -> "Leader Timeout Appeal Failed"
                   [] OTHER -> "Leader Timeout", NoReceipt)
ValidatorsTimeout ==
    /\ At("vote") /\ worker.appeal # "ACCEPTED"
    /\ Concluded("VALIDATORS_TIMEOUT",
                 CASE worker.appeal = "UNDETERMINED" -> "Leader Appeal Successful"
                   [] worker.appeal = "VALIDATORS_TIMEOUT" -> "Validators Timeout Appeal Failed"
                   [] OTHER -> "Validators Timeout", worker.receipt)
ValidatorsAppealSucceeds ==
    /\ At("vote") /\ OfValidators
    /\ Concluded("PENDING",
                 IF worker.appeal = "ACCEPTED" THEN "Validator Appeal Successful"
                 ELSE "Validator Timeout Appeal Successful", worker.receipt)

(* AcceptedState: what the leader's receipt reveals is charged ...         *)
Accept ==
    /\ At("vote") /\ Room /\ worker.appeal # "VALIDATORS_TIMEOUT"
    /\ Goto("reveal")
    /\ row' = [row EXCEPT !.status = "REVEALING"]
    /\ Stays /\ UNCHANGED money

Payloads(acc, messages) ==
    [i \in DOMAIN messages |-> IF messages[i].type = "external" THEN Unmatched(messages[i])
                               ELSE FillPayload(acc, messages[i])]
FilledOk(acc, messages) ==
    \A i \in DOMAIN messages : messages[i].type = "internal" => FillOk(acc, messages[i])
HasMessages(r) == r.ok /\ r.messages # <<>>
RevealOk ==
    LET acc == worker.acc
        msgs == worker.receipt.messages
    IN IF HasMessages(worker.receipt)
       THEN FilledOk(acc, msgs) /\ ConsumeOk(acc, Payloads(acc, msgs), FALSE)
       ELSE FilledOk(acc, worker.prior.messages)
Discarded == Payloads(worker.acc, worker.prior.messages)
Revealed ==
    LET acc == worker.acc
    IN IF HasMessages(worker.receipt)
       THEN RecordReveal(acc, Payloads(acc, worker.receipt.messages))
       ELSE [Unwind(acc, Discarded, worker.status = "ACCEPTED") EXCEPT !.atReveal = TRUE]
Unwinds == ~HasMessages(worker.receipt) /\ Discarded # <<>>
Reveal ==
    /\ At("reveal") /\ RevealOk
    /\ IF HasMessages(worker.receipt) \/ Unwinds
       THEN /\ \E acc \in {Revealed} :
                 Write(acc) /\ worker' = [worker EXCEPT !.step = "result", !.acc = acc]
            /\ Over(worker.acc)
       ELSE Goto("result") /\ UNCHANGED <<row, lost>>
    /\ overdrawn' = (overdrawn \/ (Unwinds /\ Overdraws(worker.acc, Discarded, worker.status = "ACCEPTED")))
    /\ Rest /\ UNCHANGED money

(* ... the result and the history are stored ...                           *)
StoreResult ==
    /\ At("result")
    /\ row' = [row EXCEPT !.receipt = worker.receipt,
                          !.history = With(CASE worker.appeal = "UNDETERMINED" -> "Leader Appeal Successful"
                                                [] worker.appeal = "ACCEPTED" -> "Validator Appeal Failed"
                                                [] OTHER -> "Accepted")]
    /\ Goto("dispatch")
    /\ Stays /\ UNCHANGED money

(* ... and the messages of the phase go out, each internal one with its    *)
(* budget as the fees of a child.  _get_messages_data and _emit_messages.  *)
Phase(messages, onAcceptance) ==
    LET kept[i \in 0..Len(messages)] ==
          IF i = 0 THEN <<>>
          ELSE IF messages[i].onAcceptance = onAcceptance THEN Append(kept[i - 1], messages[i])
          ELSE kept[i - 1]
    IN kept[Len(messages)]
Outgoing(onAcceptance) ==
    IF worker.receipt.ok THEN Phase(worker.receipt.messages, onAcceptance) ELSE <<>>
DispatchOk(msgs) ==
    LET payloads == Payloads(worker.acc, msgs)
    IN /\ FilledOk(worker.acc, msgs)
       /\ \A i \in DOMAIN msgs : msgs[i].type = "internal" /\ payloads[i].declared > 0 =>
            ChildOk(worker.acc, payloads[i], Policy)
       /\ IF worker.acc.atReveal THEN ExecutionOk(worker.acc, payloads)
                                 ELSE ConsumeOk(worker.acc, payloads, TRUE)
Dispatched(msgs) ==
    LET payloads == Payloads(worker.acc, msgs)
    IN IF worker.acc.atReveal THEN RecordExecution(worker.acc, payloads)
       ELSE Consume(worker.acc, payloads, TRUE)
ChildFeesOf(msgs) ==
    LET payloads == Payloads(worker.acc, msgs)
    IN Sum([i \in DOMAIN payloads |-> DeclaredOf(payloads[i])], DOMAIN payloads)
Emit(onAcceptance, next) ==
    LET msgs == Outgoing(onAcceptance)
    IN /\ DispatchOk(msgs)
       /\ IF msgs = <<>> THEN Goto(next) /\ UNCHANGED <<row, lost>>
          ELSE /\ \E acc \in {Dispatched(msgs)} :
                    Write(acc) /\ worker' = [worker EXCEPT !.step = next, !.acc = acc]
               /\ Over(worker.acc)
       /\ money' = [money EXCEPT !.children = @ + ChildFeesOf(msgs)]
       /\ Rest /\ UNCHANGED overdrawn
Dispatch == At("dispatch") /\ Emit(TRUE, "status")

AcceptStatus ==
    /\ At("status")
    /\ row' = [row EXCEPT !.status = "ACCEPTED", !.appeal = "none"]
    /\ worker' = Idle
    /\ Stays /\ UNCHANGED money

(* FinalizingState: the messages that waited, the status, the settlement.  *)
Finalize ==
    /\ At("idle") /\ row.status \in Decided /\ row.appeal = "none"
    /\ worker' = Context("final messages")
    /\ Stays /\ UNCHANGED <<row, money>>
FinalMessages ==
    /\ At("final messages")
    /\ IF worker.status = "ACCEPTED" THEN Emit(FALSE, "finalized")
       ELSE Goto("finalized") /\ Stays /\ UNCHANGED <<row, money>>
FinalStatus ==
    /\ At("finalized")
    /\ row' = [row EXCEPT !.status = "FINALIZED"]
    /\ Goto("settle")
    /\ Stays /\ UNCHANGED money

(* What closing the accounting credits to the sender and to appealers:     *)
(* settle_tx_fee_accounting_once and cancel_tx_fee_accounting_once.        *)
Close(acc) ==
    money' = [money EXCEPT !.refund = @ + acc.totalRefunded - row.acc.totalRefunded,
                           !.payout = @ + IF row.acc.status \in Terminal THEN 0
                                          ELSE PayoutTotal(acc.settlements)]
SettleFees ==
    /\ At("settle")
    /\ SettleOk(row.acc, row.history, Validators0, worker.receipt)
    /\ \E acc \in {Settle(row.acc, row.history, Validators0, worker.receipt)} : Write(acc) /\ Close(acc)
    /\ worker' = Idle
    /\ Stays

(* An exception or a crash: what was committed stays, the rest is lost.    *)
(* Recovery puts a row that was being run back to PENDING.                 *)
Fail ==
    /\ ~At("idle") /\ spent.failures < MaxFailures
    /\ worker' = Idle
    /\ row' = [row EXCEPT !.status = IF @ \in {"PROPOSING", "COMMITTING", "REVEALING"} THEN "PENDING" ELSE @]
    /\ spent' = [spent EXCEPT !.failures = @ + 1]
    /\ UNCHANGED <<calls, givingUp, money, lost, overdrawn>>

(* After its retries a worker cancels the transaction.  It has released    *)
(* the row before, and looks at nothing when it does.                      *)
Release ==
    /\ At("round") /\ row.appeal = "none" /\ ~givingUp
    /\ spent.failures < MaxFailures
    /\ worker' = Idle /\ givingUp' = TRUE
    /\ row' = [row EXCEPT !.status = "PENDING"]
    /\ spent' = [spent EXCEPT !.failures = @ + 1]
    /\ UNCHANGED <<calls, money, lost, overdrawn>>
GiveUp ==
    /\ givingUp /\ givingUp' = FALSE
    /\ row' = [row EXCEPT !.status = "CANCELED", !.acc = Cancel(row.acc)]
    /\ Close(Cancel(row.acc))
    /\ UNCHANGED <<worker, calls, lost, overdrawn, spent>>

----------------------------------------------------------------------------
(* The requests.                                                           *)

Begin(c, call) ==
    /\ calls[c] = NoCall /\ spent.calls < MaxCalls
    /\ calls' = [calls EXCEPT ![c] = call]
    /\ spent' = [spent EXCEPT !.calls = @ + 1]
    /\ UNCHANGED <<row, worker, givingUp, money, lost, overdrawn>>
Done(c) == calls' = [calls EXCEPT ![c] = NoCall]

(* _handle_top_up_fees                                                     *)
ReadForTopUp(c) ==
    /\ row.status \notin {"ACCEPTED", "UNDETERMINED", "FINALIZED", "CANCELED"}
    /\ \E t \in TopUps :
         /\ TopUpOk(row.acc, t.more, t.amount, Validators0)
         /\ Begin(c, [step |-> "top up", read |-> row.acc, of |-> t])
WriteTopUp(c) ==
    /\ calls[c].step = "top up"
    /\ LET call == calls[c] IN
         /\ Write(TopUp(call.read, call.of.more, call.of.amount))
         /\ Over(call.read)
         /\ money' = [money EXCEPT !.fees = @ + call.of.amount]
    /\ Done(c)
    /\ UNCHANGED <<worker, givingUp, overdrawn, spent>>

(* _handle_appeal_or_top_up_and_submit: the bond, then the flag, which is  *)
(* only set on a decided transaction.                                      *)
ReadForAppeal(c) ==
    \E b \in Bonds :
        /\ BondOk(row.acc, b.amount, FinalRound(row.history), row.status)
        /\ Begin(c, [step |-> "bond", read |-> row.acc, of |-> b, round |-> FinalRound(row.history)])
WriteBond(c) ==
    /\ calls[c].step = "bond"
    /\ LET call == calls[c] IN
         /\ Write(AppealBond(call.read, call.of.amount, c, call.round, call.of.topUpAndSubmit))
         /\ Over(call.read)
         /\ money' = [money EXCEPT !.bonds = @ + call.of.amount]
    /\ calls' = [calls EXCEPT ![c] = [step |-> "flag"]]
    /\ UNCHANGED <<worker, givingUp, overdrawn, spent>>
SetAppeal(c) ==
    /\ calls[c].step = "flag"
    /\ row' = [row EXCEPT !.appeal = IF row.status \in Decided THEN "raised" ELSE @]
    /\ Done(c)
    /\ UNCHANGED <<worker, givingUp, money, lost, overdrawn, spent>>

(* cancel_transaction: the status in one commit, the refund in the next.   *)
CancelStatus(c) ==
    /\ row.status = "PENDING" /\ At("idle")
    /\ calls[c] = NoCall /\ spent.calls < MaxCalls
    /\ row' = [row EXCEPT !.status = "CANCELED"]
    /\ calls' = [calls EXCEPT ![c] = [step |-> "refund"]]
    /\ spent' = [spent EXCEPT !.calls = @ + 1]
    /\ UNCHANGED <<worker, givingUp, money, lost, overdrawn>>
CancelRefund(c) ==
    /\ calls[c].step = "refund"
    /\ Write(Cancel(row.acc)) /\ Close(Cancel(row.acc))
    /\ Done(c)
    /\ UNCHANGED <<worker, givingUp, lost, overdrawn, spent>>

Next ==
    \/ Load \/ LoadAppeal \/ RefuseAppeal
    \/ Propose \/ Rotate \/ Undetermined \/ LeaderTimeout \/ ValidatorsTimeout \/ ValidatorsAppealSucceeds
    \/ Accept \/ Reveal \/ StoreResult \/ Dispatch \/ AcceptStatus
    \/ Finalize \/ FinalMessages \/ FinalStatus \/ SettleFees
    \/ Fail \/ Release \/ GiveUp
    \/ \E c \in Callers :
         \/ ReadForTopUp(c) \/ WriteTopUp(c)
         \/ ReadForAppeal(c) \/ WriteBond(c) \/ SetAppeal(c)
         \/ CancelStatus(c) \/ CancelRefund(c)
Spec == Init /\ [][Next]_vars

----------------------------------------------------------------------------
(* Properties.                                                             *)

TypeOK ==
    /\ row.status \in Decided \cup {"PENDING", "PROPOSING", "COMMITTING", "REVEALING", "FINALIZED", "CANCELED"}
    /\ row.acc.status \in Terminal \cup {"active"}
    /\ row.appeal \in Decided \cup {"none", "raised"}
    /\ Len(row.history) <= MaxHistory
    /\ worker.step \in {"idle", "round", "vote", "reveal", "result", "dispatch", "status",
                        "final messages", "finalized", "settle"}
    /\ \A c \in Callers : calls[c].step \in {"none", "top up", "bond", "flag", "refund"}
    /\ lost \in BOOLEAN /\ overdrawn \in BOOLEAN /\ givingUp \in BOOLEAN

(* The totals of the record agree with what it lists, whatever writes were *)
(* lost, whoever failed, and however often messages were charged, executed *)
(* and unwound: no allocation is over its budget; what the external ones   *)
(* show as used, and the gas reserved and reimbursed, are those of the     *)
(* live external events; and what counts as consumed is the reimbursed gas *)
(* and the used budgets of internal messages.  It may count less than      *)
(* that, never more, once an unwinding gave back messages that were not    *)
(* charged: the code unwinds those of the receipt that was stored last.    *)
Live(acc) == {e \in DOMAIN acc.events : ~acc.events[e].unreserved}
OfType(acc, type) == {i \in DOMAIN acc.allocations : acc.allocations[i].type = type}
EventsOf(acc, i) == {e \in Live(acc) : acc.events[e].node = i}
Reservations(acc, events) == Sum([e \in DOMAIN acc.events |-> acc.events[e].reservation], events)
Reimbursements(acc) == Sum([e \in DOMAIN acc.events |-> acc.events[e].reimbursement], Live(acc))
UsedInternally(acc) == Sum(acc.used, OfType(acc, "internal"))
LedgerAgrees ==
    LET acc == row.acc
    IN /\ \A i \in DOMAIN acc.allocations : acc.used[i] <= acc.allocations[i].budget
       /\ \A i \in OfType(acc, "external") : acc.used[i] = Reservations(acc, EventsOf(acc, i))
       /\ acc.reserved = Reservations(acc, Live(acc))
       /\ acc.reimbursed = Reimbursements(acc)
       /\ acc.allocations # <<>> =>
            /\ acc.consumed <= acc.reimbursed + UsedInternally(acc)
            /\ ~overdrawn => acc.consumed = acc.reimbursed + UsedInternally(acc)

(* Unless a write was lost, the sender gets back no more than was paid,    *)
(* and appealers no more than one and a half times their bonds: fees are   *)
(* closed once, although a worker that gave up, a request that cancels and *)
(* a finalization may each close them.                                     *)
RefundBounded ==
    ~lost => money.refund <= money.fees + money.bonds /\ 2 * money.payout <= 3 * money.bonds

(* Neither pot of an open or settled record pays out more than was put     *)
(* into it, also when writes of the record overwrite each other.           *)
PotsHold ==
    LET acc == row.acc
    IN acc.status # "canceled" =>
         /\ acc.consumed + acc.messageRefunded <= acc.message
         /\ acc.spent + acc.refunded <= acc.primary

(* Unless a write was lost, or an unwinding gave back what was not         *)
(* charged, a finalization does not raise.  The messages of finalization   *)
(* can be charged when their turn comes, also after a worker failed        *)
(* between charging them and FINALIZED, where raising would be repeated    *)
(* forever; and the settlement of a FINALIZED row, which is not retried,   *)
(* succeeds.                                                               *)
FinalizationNeverRaises ==
    /\ ~lost /\ At("final messages") /\ worker.status = "ACCEPTED" => DispatchOk(Outgoing(FALSE))
    /\ ~overdrawn /\ At("settle") => SettleOk(row.acc, row.history, Validators0, worker.receipt)

(* Once closed a record stays closed, unless a write was lost.             *)
ClosedForGood ==
    [][row.acc.status \in Terminal /\ ~lost' =>
         /\ row'.acc.status = row.acc.status
         /\ row'.acc.totalRefunded = row.acc.totalRefunded
         /\ row'.acc.settlements = row.acc.settlements]_vars
=============================================================================
