------------------------------- MODULE Funds -------------------------------
(***************************************************************************)
(* Native value: balances, and the value that transactions carry.          *)
(*                                                                         *)
(* Requests submit, fund and cancel (protocol_rpc/endpoints.py); workers   *)
(* transfer, credit the contract a call pays, and move what its messages   *)
(* carry to the transactions they create (consensus/base.py).  Each holds  *)
(* a database session of its own: some updates are one SQL statement,      *)
(* others read a balance and write it later.  A statement and the commit   *)
(* that follows it in the same handler are one step here, for the rows it  *)
(* touched are locked in between; what is in two commits is in two steps,  *)
(* and the worker may die between them.                                    *)
(*                                                                         *)
(* The state has no fees (TransactionFees) and of the queue only what      *)
(* value needs: a row has one worker, a contract one row at a time.        *)
(***************************************************************************)
EXTENDS Integers, Sequences, FiniteSets, FiniteSetsExt

CONSTANTS
    Addr, Workers, Callers,
    Funding, Opened,          \* at the start: balances, addresses with a row
    Submissions,              \* [hash, kind, from, to, value, emits, fees]
    Faucets,                  \* [to, value] of sim_fundAccount
    MaxRows, MaxFaults        \* bounds: rows, and crashes and appeals together

Phases == {"accepted", "finalized"}
None == "none"                \* from_address of a faucet row, hash of a child
ASSUME FundingIsNat == Funding \in [Addr -> Nat] /\ IsFiniteSet(Addr) /\ None \notin Addr
ASSUME FundedIsOpened == Opened \subseteq Addr /\ \A a \in Addr : Funding[a] > 0 => a \in Opened
ASSUME WorkersAreNotCallers == Workers \cap Callers = {}
ASSUME SubmissionsAreSane ==
    \A s \in Submissions :
        /\ s.kind \in {"call", "send"} /\ s.from \in Addr /\ s.to \in Addr /\ s.value \in Nat
        /\ s.fees \in BOOLEAN /\ s.emits \in Seq([external : BOOLEAN, on : Phases, value : Nat, to : Addr])
ASSUME FaucetsAreSane == \A f \in Faucets : f.to \in Addr /\ f.value \in Nat

(* Who has messages to emit is a contract.  Its address is of an account   *)
(* whose key is not kept, or a hash: it signs no transaction.              *)
Contracts == {s.to : s \in {t \in Submissions : t.emits # <<>>}}
ContractsDoNotSign == \A s \in Submissions : s.from \notin Contracts

VARIABLES
    balance,   \* current_state.balance, 0 without a row
    accounts,  \* the addresses that have a row in current_state
    rows,      \* the transactions, in the order of created_at
    worker,    \* the row each worker holds, and where it is with it
    call,      \* the request each caller is in
    givingUp,  \* rows whose worker released them and is about to cancel them
    serial,    \* nobody acts in the middle of what another does in several steps
    minted,    \* value that was created: funding, faucets, submissions without
               \* the balance, and value given back that was never taken
    lost,      \* value that was taken and will not be given to anybody
    spent      \* failures and appeals, for the bounds
vars == <<balance, accounts, rows, worker, call, givingUp, serial, minted, lost, spent>>

Sum(f, S) == MapThenSumSet(LAMBDA x : f[x], S)

Idle == [step |-> "idle"]
NoCall == [step |-> "none"]
Init ==
    /\ balance = Funding
    /\ accounts = Opened
    /\ rows = <<>>
    /\ worker = [w \in Workers |-> Idle]
    /\ call = [c \in Callers |-> NoCall]
    /\ givingUp = {}
    /\ serial \in BOOLEAN
    /\ minted = Sum(Funding, Addr)
    /\ lost = 0
    /\ spent = [crashes |-> 0, midway |-> 0, appeals |-> 0]

(* Turn(p): p may act.  Who has read a balance or a row and not yet        *)
(* written, or is between two commits, is alone when "serial".             *)
Busy(p) ==
    IF p \in Workers THEN worker[p].step \in {"to", "write", "credit", "emit"}
    ELSE call[p].step \in {"submit", "debit", "fund", "refund"}
Turn(p) == serial => givingUp = {} /\ \A q \in (Workers \cup Callers) \ {p} : ~Busy(q)

Spare == spent.crashes + spent.midway + spent.appeals < MaxFaults

----------------------------------------------------------------------------
(* Rows.                                                                   *)

NewRow(hash, kind, from, to, value, emits, fees, triggered, paid) ==
    [hash |-> hash, kind |-> kind, from |-> from, to |-> to, value |-> value, emits |-> emits,
     fees |-> fees, triggered |-> triggered, status |-> "PENDING", ok |-> FALSE,
     credited |-> FALSE,
     paid |-> paid, credits |-> 0, refunds |-> 0]    \* its value: debited, credited, given back
Insert(row) == rows' = Append(rows, row)
Held(i) == \E w \in Workers : worker[w].step # "idle" /\ worker[w].row = i
Neighbours(i) == {j \in DOMAIN rows : rows[j].to = rows[i].to}

(* What a row carries was debited, and neither credited nor given back.    *)
Carried(r) == IF r.paid /\ ~r.credited /\ r.refunds = 0 THEN r.value ELSE 0
InTransit == [i \in DOMAIN rows |-> Carried(rows[i])]

----------------------------------------------------------------------------
(* Requests.                                                               *)

Unmoved == UNCHANGED <<worker, givingUp, serial, lost, spent>>
Kept == UNCHANGED <<balance, accounts>>
Goto(c, state) == call' = [call EXCEPT ![c] = state]

(* send_raw_transaction: the sender gets a row, a contract that is called  *)
(* must have one (who a SEND pays need not); is it a duplicate, ...        *)
ReadDuplicate(c) ==
    /\ call[c] = NoCall /\ Len(rows) < MaxRows
    /\ \E s \in Submissions :
         /\ accounts' = accounts \cup {s.from}
         /\ s.kind = "call" => s.to \in accounts'
         /\ Goto(c, [step |-> "submit", of |-> s,
                     duplicate |-> \E i \in DOMAIN rows : rows[i].hash = s.hash])
    /\ Unmoved /\ UNCHANGED <<balance, rows, minted>>

(* ... what does the sender have, ...                                      *)
Pays(s) == s.kind # "send" /\ s.value > 0
ReadBalance(c) ==
    /\ call[c].step = "submit"
    /\ Goto(c, [step |-> "debit", of |-> call[c].of,
                pays |-> Pays(call[c].of) /\ ~call[c].duplicate, read |-> balance[call[c].of.from]])
    /\ Unmoved /\ Kept /\ UNCHANGED <<rows, minted>>

(* ... _sandbox_debit_sender, which creates what is missing and ignores    *)
(* that the debit may fail, and insert_transaction, which looks again.     *)
Submit(c) ==
    /\ call[c].step = "debit" /\ Len(rows) < MaxRows
    /\ LET s == call[c].of
           missing == IF call[c].pays /\ call[c].read < s.value THEN s.value - call[c].read ELSE 0
           has == balance[s.from] + missing
       IN /\ balance' = IF call[c].pays
                        THEN [balance EXCEPT ![s.from] = IF has >= s.value THEN has - s.value ELSE has]
                        ELSE balance
          /\ minted' = minted + missing
          /\ IF \E i \in DOMAIN rows : rows[i].hash = s.hash THEN UNCHANGED rows
             ELSE Insert(NewRow(s.hash, s.kind, s.from, s.to, s.value, s.emits, s.fees, FALSE, Pays(s)))
    /\ Goto(c, NoCall)
    /\ Unmoved /\ UNCHANGED accounts

(* fund_account: a SEND from nobody in one commit, its credit in the next. *)
(* Credit: credit_tx_value_once, which creates the row it credits.         *)
InsertFaucet(c) ==
    /\ call[c] = NoCall /\ Len(rows) < MaxRows
    /\ \E f \in Faucets :
         /\ Insert(NewRow(None, "send", None, f.to, f.value, <<>>, FALSE, FALSE, TRUE))
         /\ minted' = minted + f.value
    /\ Goto(c, [step |-> "fund", row |-> Len(rows) + 1])
    /\ Unmoved /\ Kept
CreditAgain(i) ==    \* a defect: value_credited is not looked at
    /\ balance' = [balance EXCEPT ![rows[i].to] = @ + rows[i].value]
    /\ accounts' = accounts \cup {rows[i].to}
    /\ rows' = [rows EXCEPT ![i].credited = TRUE, ![i].credits = @ + 1]
Credit(i) ==
    IF rows[i].credited \/ rows[i].value = 0 THEN Kept /\ UNCHANGED rows
    ELSE /\ balance' = [balance EXCEPT ![rows[i].to] = @ + rows[i].value]
         /\ accounts' = accounts \cup {rows[i].to}
         /\ rows' = [rows EXCEPT ![i].credited = TRUE, ![i].credits = @ + 1]
CreditFaucet(c) ==
    /\ call[c].step = "fund"
    /\ Credit(call[c].row)
    /\ Goto(c, NoCall)
    /\ Unmoved /\ UNCHANGED minted

(* cancel_transaction: the status in one commit, refund_tx_value in the    *)
(* next: it asks for the value of the row, not whether it was debited.     *)
(* GiveBack: the refund, of what may never have been taken.                *)
CancelStatus(c) ==
    /\ call[c] = NoCall
    /\ \E i \in DOMAIN rows :
         /\ rows[i].status = "PENDING" /\ ~Held(i)
         /\ rows' = [rows EXCEPT ![i].status = "CANCELED"]
         /\ Goto(c, [step |-> "refund", row |-> i])
    /\ Unmoved /\ Kept /\ UNCHANGED minted
Refund(i) ==
    IF rows[i].credited \/ rows[i].value = 0 \/ rows[i].from = None THEN Kept
    ELSE /\ balance' = [balance EXCEPT ![rows[i].from] = @ + rows[i].value]
         /\ accounts' = accounts \cup {rows[i].from}
GiveBack(i, status) ==
    /\ Refund(i)
    /\ minted' = minted + IF rows[i].paid \/ rows[i].credited THEN 0 ELSE rows[i].value
    /\ rows' = [rows EXCEPT ![i].status = status,
                            ![i].refunds = IF rows[i].credited THEN @ ELSE @ + 1]
CancelRefund(c) ==
    /\ call[c].step = "refund"
    /\ GiveBack(call[c].row, rows[call[c].row].status)
    /\ Goto(c, NoCall)
    /\ Unmoved

----------------------------------------------------------------------------
(* Workers.                                                                *)

Calm == UNCHANGED <<call, givingUp, serial, minted, lost, spent>>
At(w, step) == worker[w].step = step
Step(w, state) == worker' = [worker EXCEPT ![w] = state]
On(w, step) == [worker[w] EXCEPT !.step = step]
Row(w) == rows[worker[w].row]

Claim(w) ==
    /\ At(w, "idle")
    /\ \E i \in DOMAIN rows :
         /\ rows[i].status = "PENDING"
         /\ \A j \in Neighbours(i) : ~Held(j) /\ (j < i => rows[j].status # "PENDING")
         /\ Step(w, [step |-> "pending", row |-> i])
    /\ Calm /\ Kept /\ UNCHANGED rows

(* execute_transfer: balances are read, and written with the status.  The  *)
(* value of a child was debited from the contract before.                  *)
PaysNow(r) == ~r.triggered /\ r.from # None
TransferDone(w) ==
    /\ At(w, "pending") /\ Row(w).kind = "send" /\ Row(w).credited
    /\ rows' = [rows EXCEPT ![worker[w].row].status = "FINALIZED"]
    /\ Step(w, Idle)
    /\ Calm /\ Kept
TransferFails(w) ==
    /\ At(w, "pending") /\ Row(w).kind = "send" /\ ~Row(w).credited
    /\ PaysNow(Row(w)) /\ balance[Row(w).from] < Row(w).value
    /\ rows' = [rows EXCEPT ![worker[w].row].status = "UNDETERMINED"]
    /\ Step(w, Idle)
    /\ Calm /\ Kept
ReadFrom(w) ==
    /\ At(w, "pending") /\ Row(w).kind = "send" /\ ~Row(w).credited
    /\ PaysNow(Row(w)) => balance[Row(w).from] >= Row(w).value
    /\ Step(w, [step |-> "to", row |-> worker[w].row,
                rest |-> IF PaysNow(Row(w)) THEN balance[Row(w).from] - Row(w).value ELSE 0])
    /\ Calm /\ Kept /\ UNCHANGED rows
ReadTo(w) ==
    /\ At(w, "to")
    /\ LET r == Row(w)
           has == IF PaysNow(r) /\ r.from = r.to THEN worker[w].rest ELSE balance[r.to]
       IN Step(w, [step |-> "write", row |-> worker[w].row, rest |-> worker[w].rest,
                   total |-> has + r.value])
    /\ Calm /\ Kept /\ UNCHANGED rows

(* update_account_balance.  The debit stays in the session until the       *)
(* status is committed, but a recipient without a row gets one first, and  *)
(* create_new_account_with_address commits it: the debit with it.  Who     *)
(* retries after that debits again, and what was debited before is lost.   *)
Debited(w) ==
    IF PaysNow(Row(w)) THEN [balance EXCEPT ![Row(w).from] = worker[w].rest] ELSE balance
LostBefore(w) == IF PaysNow(Row(w)) /\ Row(w).paid THEN Row(w).value ELSE 0
CreateRecipient(w) ==
    /\ At(w, "write") /\ Row(w).to \notin accounts
    /\ balance' = Debited(w) /\ accounts' = accounts \cup {Row(w).to}
    /\ rows' = [rows EXCEPT ![worker[w].row].paid = PaysNow(Row(w)) \/ @]
    /\ lost' = lost + LostBefore(w)
    /\ Step(w, On(w, "credit"))
    /\ UNCHANGED <<call, givingUp, serial, minted, spent>>
Transferred(i) ==
    [rows EXCEPT ![i].status = "FINALIZED", ![i].credited = (rows[i].value > 0) \/ @,
                 ![i].credits = @ + 1]
WriteTransfer(w) ==
    /\ At(w, "write") /\ Row(w).to \in accounts
    /\ balance' = [Debited(w) EXCEPT ![Row(w).to] = worker[w].total]
    /\ rows' = Transferred(worker[w].row)
    /\ lost' = lost + LostBefore(w)
    /\ Step(w, Idle)
    /\ UNCHANGED <<accounts, call, givingUp, serial, minted, spent>>
WriteCredit(w) ==
    /\ At(w, "credit")
    /\ balance' = [balance EXCEPT ![Row(w).to] = worker[w].total]
    /\ rows' = Transferred(worker[w].row)
    /\ Step(w, Idle)
    /\ Calm /\ UNCHANGED accounts

(* PendingState of a call: the contract gets the value before it runs.     *)
Activate(w) ==
    /\ At(w, "pending") /\ Row(w).kind = "call"
    /\ Credit(worker[w].row)
    /\ Step(w, On(w, "round"))
    /\ Calm
Undetermined(w) ==
    /\ At(w, "round")
    /\ rows' = [rows EXCEPT ![worker[w].row].status = "UNDETERMINED"]
    /\ Step(w, Idle)
    /\ Calm /\ Kept

(* What the messages of a receipt are worth.                               *)
Of(msgs, external, on) == {i \in DOMAIN msgs : msgs[i].external = external /\ msgs[i].on = on}
Worth(msgs, external, on) ==
    Sum([i \in DOMAIN msgs |-> msgs[i].value], Of(msgs, external, on))
AllExternal(msgs) == Worth(msgs, TRUE, "accepted") + Worth(msgs, TRUE, "finalized")
Frozen(i) == IF rows[i].status = "ACCEPTED" /\ rows[i].ok
             THEN Worth(rows[i].emits, TRUE, "finalized") ELSE 0

(* _external_message_pending_freeze_total: of the older neighbours.        *)
AllFrozen == [i \in DOMAIN rows |-> Frozen(i)]
PendingFreeze(i) == Sum(AllFrozen, {j \in Neighbours(i) : j < i})
FreezeOk(i) ==
    \/ AllExternal(rows[i].emits) = 0
    \/ AllExternal(rows[i].emits) <= balance[rows[i].to] - PendingFreeze(i)

(* AcceptedState: _apply_external_message_freeze_check, and the result.  A *)
(* failed appeal accepts the receipt that is there a second time.          *)
Accept(w) ==
    /\ At(w, "round") \/ At(w, "again")
    /\ \E ran \in IF At(w, "again") THEN {Row(w).ok} ELSE BOOLEAN :
         rows' = [rows EXCEPT ![worker[w].row].ok = ran /\ FreezeOk(worker[w].row)]
    /\ Step(w, On(w, "accepted"))
    /\ Calm /\ Kept

(* _apply_message_value_withdrawals_for_phase                              *)
AlwaysBacked(i, on) == on \in {"accepted", "finalized"}    \* a defect: the debit is unconditional
ExternalBacked(i, on) == Worth(rows[i].emits, TRUE, on) <= balance[rows[i].to]
AfterExternal(i, on) ==
    balance[rows[i].to] - IF ExternalBacked(i, on) THEN Worth(rows[i].emits, TRUE, on) ELSE 0
CapOfPending(i, on) ==    \* a defect: what the call itself freezes is not subtracted
    AfterExternal(i, on) - PendingFreeze(i)
InternalCap(i, on) ==
    AfterExternal(i, on) - PendingFreeze(i)
      - IF on = "finalized" THEN 0 ELSE Worth(rows[i].emits, TRUE, "finalized")
InternalBacked(i, on) ==
    \/ Worth(rows[i].emits, FALSE, on) = 0
    \/ /\ Worth(rows[i].emits, FALSE, on) <= InternalCap(i, on)
       /\ Worth(rows[i].emits, FALSE, on) <= AfterExternal(i, on)
Emitted(i, on) ==
    {k \in DOMAIN rows[i].emits :
        LET m == rows[i].emits[k]
        IN m.on = on /\ (m.external /\ m.value > 0 => ExternalBacked(i, on))}
Left(i, on) ==
    AfterExternal(i, on) - IF InternalBacked(i, on) THEN Worth(rows[i].emits, FALSE, on) ELSE 0

(* insert_transaction of a child: an external message is a SEND.           *)
ChildAnyway(m, parent, backed) ==    \* a defect: the value is not set to 0 when the debit failed
    NewRow(None, IF m.external THEN "send" ELSE "call", parent.to, m.to, m.value, <<>>, FALSE, TRUE, TRUE)
Child(m, parent, backed) ==
    NewRow(None, IF m.external THEN "send" ELSE "call", parent.to, m.to,
           IF m.external \/ backed THEN m.value ELSE 0, <<>>, FALSE, TRUE, TRUE)
EmitFirst(w, i, on, left, backed) ==
    \E k \in left :
        /\ \A k2 \in left : k <= k2
        /\ Len(rows) < MaxRows
        /\ Insert(Child(rows[i].emits[k], rows[i], backed))
        /\ Step(w, [step |-> "emit", row |-> i, on |-> on, left |-> left \ {k}, backed |-> backed])

(* The debits are committed with the accounting of fees when there is one, *)
(* with the first child otherwise.                                         *)
Withdraw(w, on) ==
    LET i == worker[w].row
        out == IF rows[i].ok THEN Emitted(i, on) ELSE {}
        backed == InternalBacked(i, on)
    IN /\ balance' = IF rows[i].ok THEN [balance EXCEPT ![rows[i].to] = Left(i, on)] ELSE balance
       /\ IF rows[i].fees \/ out = {}
          THEN /\ Step(w, [step |-> "emit", row |-> i, on |-> on, left |-> out, backed |-> backed])
               /\ UNCHANGED rows
          ELSE EmitFirst(w, i, on, out, backed)
       /\ Calm /\ UNCHANGED accounts
EmitNext(w) ==
    /\ At(w, "emit") /\ worker[w].left # {}
    /\ EmitFirst(w, worker[w].row, worker[w].on, worker[w].left, worker[w].backed)
    /\ Calm /\ Kept
Decide(w) ==
    /\ At(w, "emit") /\ worker[w].left = {}
    /\ rows' = [rows EXCEPT ![worker[w].row].status =
                    IF worker[w].on = "accepted" THEN "ACCEPTED" ELSE "FINALIZED"]
    /\ Step(w, Idle)
    /\ Calm /\ Kept
WithdrawAccepted(w) == At(w, "accepted") /\ Withdraw(w, "accepted")

(* FinalizingState, in the order of the contract.  A transfer without the  *)
(* balance has no receipt to finalize: it can only fail.                   *)
Decided == {"ACCEPTED", "UNDETERMINED"}
ClaimFinal(w) ==
    /\ At(w, "idle")
    /\ \E i \in DOMAIN rows :
         /\ rows[i].status \in Decided
         /\ \A j \in Neighbours(i) : ~Held(j) /\ (j < i => rows[j].status \notin Decided)
         /\ IF rows[i].status = "ACCEPTED" \/ rows[i].kind = "send"
            THEN Step(w, [step |-> "final", row |-> i]) /\ UNCHANGED rows
            ELSE rows' = [rows EXCEPT ![i].status = "FINALIZED"] /\ UNCHANGED worker
    /\ Calm /\ Kept
WithdrawFinal(w) == At(w, "final") /\ Row(w).kind = "call" /\ Withdraw(w, "finalized")

(* An appeal of an accepted call.  It fails, and the receipt is accepted   *)
(* again; or it succeeds, and the call and every row after it are pending  *)
(* again, canceled ones too: what was given back is carried again.         *)
MayAppeal(w, i) ==
    /\ At(w, "idle") /\ Spare
    /\ rows[i].kind = "call" /\ rows[i].status = "ACCEPTED"
    /\ \A j \in Neighbours(i) : ~Held(j)
    /\ spent' = [spent EXCEPT !.appeals = @ + 1]
    /\ Kept /\ UNCHANGED <<call, givingUp, serial, lost>>
AppealFails(w) ==
    \E i \in DOMAIN rows :
        /\ MayAppeal(w, i)
        /\ Step(w, [step |-> "again", row |-> i])
        /\ UNCHANGED <<rows, minted>>
AppealSucceeds(w) ==
    \E i \in DOMAIN rows :
        /\ MayAppeal(w, i)
        /\ rows' = [j \in DOMAIN rows |->
                      IF j \in Neighbours(i) /\ j >= i
                      THEN [rows[j] EXCEPT !.status = "PENDING", !.refunds = 0] ELSE rows[j]]
        /\ minted' = minted + Sum(InTransit', DOMAIN rows) - Sum(InTransit, DOMAIN rows)
        /\ UNCHANGED worker

(* A worker dies, and recovery gives its row back; or it gives up: after   *)
(* its last error it cancels the row it holds and refunds its value.  What *)
(* the messages would have carried that were debited and not sent is lost. *)
Debt(emits, backed) ==
    [k \in DOMAIN emits |-> IF emits[k].external \/ backed THEN emits[k].value ELSE 0]
Owed(w) ==
    IF At(w, "emit") THEN Sum(Debt(Row(w).emits, worker[w].backed), worker[w].left) ELSE 0
Stops(w) ==
    /\ ~At(w, "idle") /\ Spare
    /\ Step(w, Idle)
    /\ lost' = lost + Owed(w)
    /\ spent' = IF At(w, "emit") THEN [spent EXCEPT !.midway = @ + 1]
                ELSE [spent EXCEPT !.crashes = @ + 1]
    /\ UNCHANGED <<call, givingUp, serial>>
Crash(w) == Stops(w) /\ Kept /\ UNCHANGED <<rows, minted>>
Abandon(w) == Stops(w) /\ GiveBack(worker[w].row, "CANCELED")

(* Without validators it releases the row before it cancels and refunds,   *)
(* which it does without looking at the row.                               *)
Release(w) ==
    /\ At(w, "pending") /\ Row(w).kind = "call" /\ Spare
    /\ Step(w, Idle)
    /\ givingUp' = givingUp \cup {worker[w].row}
    /\ spent' = [spent EXCEPT !.crashes = @ + 1]
    /\ Kept /\ UNCHANGED <<rows, call, serial, minted, lost>>
GiveUpMisspelt(i) ==    \* a defect: a status nothing else knows
    /\ i \in givingUp /\ givingUp' = givingUp \ {i}
    /\ GiveBack(i, "CANCELLED")
    /\ UNCHANGED <<worker, call, serial, lost, spent>>
GiveUp(i) ==
    /\ i \in givingUp /\ givingUp' = givingUp \ {i}
    /\ GiveBack(i, "CANCELED")
    /\ UNCHANGED <<worker, call, serial, lost, spent>>

Next ==
    \/ \E c \in Callers :
         /\ Turn(c)
         /\ \/ ReadDuplicate(c) \/ ReadBalance(c) \/ Submit(c)
            \/ InsertFaucet(c) \/ CreditFaucet(c)
            \/ CancelStatus(c) \/ CancelRefund(c)
    \/ \E w \in Workers :
         /\ Turn(w)
         /\ \/ Claim(w) \/ TransferDone(w) \/ TransferFails(w)
            \/ ReadFrom(w) \/ ReadTo(w)
            \/ CreateRecipient(w) \/ WriteTransfer(w) \/ WriteCredit(w)
            \/ Activate(w) \/ Undetermined(w) \/ Accept(w)
            \/ WithdrawAccepted(w) \/ EmitNext(w) \/ Decide(w)
            \/ ClaimFinal(w) \/ WithdrawFinal(w)
            \/ AppealFails(w) \/ AppealSucceeds(w)
            \/ Crash(w) \/ Abandon(w) \/ Release(w)
    \/ \E i \in givingUp : GiveUp(i)
Spec == Init /\ [][Next]_vars

----------------------------------------------------------------------------
(* Properties.                                                             *)

Emits == {s.emits : s \in Submissions} \cup {<<>>}
RowSet ==
    [hash : {s.hash : s \in Submissions} \cup {None}, kind : {"call", "send"},
     from : Addr \cup {None}, to : Addr, value : Nat, emits : Emits,
     fees : BOOLEAN, triggered : BOOLEAN,
     status : Decided \cup {"PENDING", "FINALIZED", "CANCELED"}, ok : BOOLEAN,
     credited : BOOLEAN, paid : BOOLEAN, credits : Nat, refunds : Nat]
WorkerSet ==
    [step : {"idle"}]
      \cup [step : {"pending", "round", "again", "accepted", "final"}, row : Nat]
      \cup [step : {"to"}, row : Nat, rest : Nat]
      \cup [step : {"write", "credit"}, row : Nat, rest : Nat, total : Nat]
      \cup [step : {"emit"}, row : Nat, on : Phases, left : SUBSET Nat, backed : BOOLEAN]
CallSet ==
    [step : {"none"}]
      \cup [step : {"submit"}, of : Submissions, duplicate : BOOLEAN]
      \cup [step : {"debit"}, of : Submissions, pays : BOOLEAN, read : Int]
      \cup [step : {"fund", "refund"}, row : Nat]
RowsExist ==
    /\ \A w \in Workers : ~At(w, "idle") => worker[w].row \in DOMAIN rows
    /\ \A c \in Callers : call[c].step \in {"fund", "refund"} => call[c].row \in DOMAIN rows
    /\ givingUp \subseteq DOMAIN rows
    /\ \A w \in Workers : At(w, "emit") => worker[w].left \subseteq DOMAIN Row(w).emits
TypeOK ==
    /\ balance \in [Addr -> Int] /\ accounts \subseteq Addr
    /\ rows \in Seq(RowSet)
    /\ worker \in [Workers -> WorkerSet]
    /\ call \in [Callers -> CallSet]
    /\ RowsExist

(* No balance is negative, whoever races whom.                             *)
NoOverdraw == \A a \in Addr : balance[a] >= 0

(* The value of a call is credited to its contract at most once, although  *)
(* it may be activated again after a crash, a rollback or an appeal.       *)
CreditedOnce == \A i \in DOMAIN rows : rows[i].kind = "call" => rows[i].credits <= 1

(* When nobody acts in the middle of what another does in several steps    *)
(* (and nobody is in the middle of it now), value is only moved, whatever  *)
(* is canceled, rolled back, accepted again, emitted without backing, or   *)
(* tried again by another worker: balances and what transactions carry add *)
(* up to what was created, less what a worker that stopped in the middle   *)
(* had taken for a transfer that is paid again or for messages not sent.   *)
Conserved ==
    /\ serial /\ givingUp = {} /\ (\A p \in Workers \cup Callers : ~Busy(p))
    => minted = Sum(balance, Addr) + Sum(InTransit, DOMAIN rows) + lost

(* What accepted calls will send to others at finalization stays in the    *)
(* balance of their contract (while no worker moves it), unless a call is  *)
(* accepted twice, a worker stopped while it moved value, or a call has    *)
(* internal messages at finalization.                                      *)
FreezeKept ==
    \A a \in Addr :
        LET calls == {i \in DOMAIN rows : rows[i].to = a}
        IN /\ spent.appeals = 0 /\ spent.midway = 0 /\ (serial \/ spent.crashes = 0)
           /\ \A i \in calls : ~\E w \in Workers : At(w, "emit") /\ worker[w].row = i
           /\ \A i \in calls : Worth(rows[i].emits, FALSE, "finalized") = 0
           => Sum(AllFrozen, calls) <= balance[a]
=============================================================================
