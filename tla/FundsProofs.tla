---------------------------- MODULE FundsProofs ----------------------------
(* Proofs about Funds: its type invariant, that no balance is negative,    *)
(* that a call is credited at most once, that value is conserved, and that *)
(* what is frozen stays in the balance of its contract.                    *)
EXTENDS Funds, Sums

(* The inductive invariant.  A row of a call counts its credit with its    *)
(* flag; who writes a transfer holds a SEND.                               *)
GoodRow == {r \in RowSet : r.kind = "call" => r.credits = IF r.credited THEN 1 ELSE 0}
TransferOfSend == \A w \in Workers : worker[w].step \in {"to", "write", "credit"} => Row(w).kind = "send"
IInv ==
    /\ balance \in [Addr -> Nat]
    /\ rows \in Seq(GoodRow)
    /\ worker \in [Workers -> WorkerSet]
    /\ call \in [Callers -> CallSet]
    /\ RowsExist
    /\ TransferOfSend

(* What every step does to the rows that are there.                        *)
SameRows ==
    /\ DOMAIN rows \subseteq DOMAIN rows'
    /\ \A i \in DOMAIN rows : rows'[i].kind = rows[i].kind /\ rows'[i].emits = rows[i].emits
Sound(s) ==
    /\ s \in WorkerSet
    /\ s.step # "idle" => s.row \in DOMAIN rows'
    /\ s.step = "emit" => s.left \subseteq DOMAIN rows'[s.row].emits
    /\ s.step \in {"to", "write", "credit"} => rows'[s.row].kind = "send"

----------------------------------------------------------------------------
(* Rows.                                                                   *)

LEMMA RowFacts ==
    ASSUME IInv, NEW i \in DOMAIN rows
    PROVE  rows[i] \in GoodRow /\ rows[i] \in RowSet /\ rows[i].to \in Addr /\ rows[i].value \in Nat
           /\ rows[i].emits \in Emits /\ rows[i].kind \in {"call", "send"}
  <1>1. rows[i] \in GoodRow
    BY DEF IInv
  <1> QED
    BY <1>1 DEF GoodRow, RowSet

LEMMA RowChanged ==
    ASSUME IInv, NEW i \in DOMAIN rows, NEW r \in GoodRow,
           rows' = [rows EXCEPT ![i] = r], r.kind = rows[i].kind, r.emits = rows[i].emits
    PROVE  rows' \in Seq(GoodRow) /\ SameRows /\ DOMAIN rows' = DOMAIN rows
  <1>1. rows \in Seq(GoodRow)
    BY DEF IInv
  <1>2. DOMAIN rows' = DOMAIN rows /\ rows' \in Seq(GoodRow)
    BY <1>1
  <1>3. \A j \in DOMAIN rows : rows'[j] = IF j = i THEN r ELSE rows[j]
    BY <1>1
  <1> QED
    BY <1>2, <1>3 DEF SameRows

LEMMA RowAdded ==
    ASSUME IInv, NEW r \in GoodRow, rows' = Append(rows, r)
    PROVE  rows' \in Seq(GoodRow) /\ SameRows /\ Len(rows) + 1 \in DOMAIN rows'
  <1>1. rows \in Seq(GoodRow)
    BY DEF IInv
  <1>2. rows' \in Seq(GoodRow) /\ DOMAIN rows' = 1..(Len(rows) + 1)
    BY <1>1
  <1>3. \A j \in DOMAIN rows : rows'[j] = rows[j]
    BY <1>1
  <1> QED
    BY <1>1, <1>2, <1>3 DEF SameRows

LEMMA RowsKept ==
    ASSUME IInv, UNCHANGED rows
    PROVE  rows' \in Seq(GoodRow) /\ SameRows
  BY DEF IInv, SameRows

(* A step of a worker, and a step of a caller, keep what relates them to   *)
(* the rows.                                                               *)
LEMMA WorkerMoves ==
    ASSUME IInv, SameRows, NEW w \in Workers, NEW s, Sound(s),
           worker' = [worker EXCEPT ![w] = s], UNCHANGED call, givingUp' \subseteq DOMAIN rows'
    PROVE  worker' \in [Workers -> WorkerSet] /\ call' \in [Callers -> CallSet]
           /\ RowsExist' /\ TransferOfSend'
  <1>1. worker \in [Workers -> WorkerSet] /\ call \in [Callers -> CallSet]
    BY DEF IInv
  <1>2. worker' \in [Workers -> WorkerSet] /\ call' \in [Callers -> CallSet]
    BY <1>1 DEF Sound
  <1>3. \A v \in Workers : worker'[v] = IF v = w THEN s ELSE worker[v]
    BY <1>1
  <1>4. RowsExist'
    BY <1>3 DEF IInv, RowsExist, SameRows, Sound, At, Row
  <1>5. TransferOfSend'
    BY <1>3 DEF IInv, RowsExist, TransferOfSend, SameRows, Sound, At, Row
  <1> QED
    BY <1>2, <1>4, <1>5

LEMMA CallerMoves ==
    ASSUME IInv, SameRows, NEW c \in Callers, NEW s \in CallSet,
           s.step \in {"fund", "refund"} => s.row \in DOMAIN rows',
           call' = [call EXCEPT ![c] = s], UNCHANGED <<worker, givingUp>>
    PROVE  worker' \in [Workers -> WorkerSet] /\ call' \in [Callers -> CallSet]
           /\ RowsExist' /\ TransferOfSend'
  <1>1. worker \in [Workers -> WorkerSet] /\ call \in [Callers -> CallSet]
    BY DEF IInv
  <1>2. worker' \in [Workers -> WorkerSet] /\ call' \in [Callers -> CallSet]
    BY <1>1
  <1>3. \A d \in Callers : call'[d] = IF d = c THEN s ELSE call[d]
    BY <1>1
  <1>4. RowsExist'
    BY <1>3 DEF IInv, RowsExist, SameRows, At, Row
  <1>5. TransferOfSend'
    BY DEF IInv, RowsExist, TransferOfSend, SameRows, At, Row
  <1> QED
    BY <1>2, <1>4, <1>5

----------------------------------------------------------------------------
(* Balances.                                                               *)

LEMMA Sub ==
    ASSUME NEW m \in Nat, NEW n \in Nat, n <= m
    PROVE  m - n \in Nat
  OBVIOUS

LEMMA CreditedRow ==
    ASSUME NEW r \in RowSet
    PROVE  LET n == [r EXCEPT !.credited = TRUE, !.credits = @ + 1]
           IN n \in RowSet /\ n.kind = r.kind /\ n.emits = r.emits
              /\ n.credited = TRUE /\ n.credits = r.credits + 1
  <1>1. r.credits + 1 \in Nat
    BY DEF RowSet
  <1> DEFINE m == [r EXCEPT !.credited = TRUE]
             n == [m EXCEPT !.credits = r.credits + 1]
  <1>2. m \in RowSet /\ m.kind = r.kind /\ m.emits = r.emits /\ m.credited = TRUE
    BY DEF RowSet
  <1>3. n \in RowSet /\ n.kind = m.kind /\ n.emits = m.emits /\ n.credited = m.credited
        /\ n.credits = r.credits + 1
    BY <1>1, <1>2 DEF RowSet
  <1>4. n = [r EXCEPT !.credited = TRUE, !.credits = @ + 1]
    BY DEF RowSet
  <1> HIDE DEF m, n
  <1> QED
    BY <1>2, <1>3, <1>4

LEMMA Added ==
    ASSUME balance \in [Addr -> Nat], NEW a \in Addr, NEW n \in Nat,
           balance' = [balance EXCEPT ![a] = n]
    PROVE  balance' \in [Addr -> Nat]
  OBVIOUS

LEMMA CreditStep ==
    ASSUME IInv, NEW i \in DOMAIN rows, Credit(i)
    PROVE  balance' \in [Addr -> Nat] /\ rows' \in Seq(GoodRow) /\ SameRows
  <1>1. CASE rows[i].credited \/ rows[i].value = 0
    <2>1. UNCHANGED <<balance, rows>>
      BY <1>1 DEF Credit, Kept
    <2> QED
      BY <2>1, RowsKept DEF IInv
  <1>2. CASE ~(rows[i].credited \/ rows[i].value = 0)
    <2>1. /\ balance' = [balance EXCEPT ![rows[i].to] = @ + rows[i].value]
          /\ rows' = [rows EXCEPT ![i].credited = TRUE, ![i].credits = @ + 1]
      BY <1>2 DEF Credit
    <2> DEFINE r == [rows[i] EXCEPT !.credited = TRUE, !.credits = @ + 1]
    <2>2. rows[i] \in GoodRow /\ rows[i] \in RowSet /\ rows[i].to \in Addr /\ rows[i].value \in Nat
      BY RowFacts
    <2>3. r \in GoodRow /\ r.kind = rows[i].kind /\ r.emits = rows[i].emits
      <3>1. r \in RowSet /\ r.kind = rows[i].kind /\ r.emits = rows[i].emits
        BY <2>2, CreditedRow
      <3>2. r.kind = "call" => rows[i].credits = 0
        BY <2>2, <3>1, <1>2 DEF GoodRow
      <3>3. r.credited = TRUE /\ r.credits = rows[i].credits + 1
        BY <2>2, CreditedRow
      <3>4. r.kind = "call" => r.credits = IF r.credited THEN 1 ELSE 0
        BY <3>2, <3>3
      <3> QED
        BY <3>1, <3>4 DEF GoodRow
    <2>4. rows' = [rows EXCEPT ![i] = r]
      BY <2>1
    <2>5. balance \in [Addr -> Nat]
      BY DEF IInv
    <2>6. balance[rows[i].to] + rows[i].value \in Nat
      BY <2>2, <2>5
    <2>7. balance' \in [Addr -> Nat]
      BY <2>1, <2>2, <2>5, <2>6
    <2> HIDE DEF r
    <2> QED
      BY <2>3, <2>4, <2>7, RowChanged
  <1> QED
    BY <1>1, <1>2

LEMMA RefundStep ==
    ASSUME IInv, NEW i \in DOMAIN rows, Refund(i)
    PROVE  balance' \in [Addr -> Nat]
  <1>1. balance \in [Addr -> Nat] /\ rows[i].value \in Nat /\ rows[i].from \in Addr \cup {None}
    BY RowFacts DEF IInv, RowSet
  <1>2. CASE rows[i].credited \/ rows[i].value = 0 \/ rows[i].from = None
    BY <1>1, <1>2 DEF Refund, Kept
  <1>3. CASE ~(rows[i].credited \/ rows[i].value = 0 \/ rows[i].from = None)
    <2>1. balance' = [balance EXCEPT ![rows[i].from] = @ + rows[i].value]
      BY <1>3 DEF Refund
    <2>2. rows[i].from \in Addr
      BY <1>1, <1>3
    <2> QED
      BY <1>1, <2>1, <2>2
  <1> QED
    BY <1>2, <1>3

(* What is frozen or sent is a natural number.                             *)
Message == [external : BOOLEAN, on : Phases, value : Nat, to : Addr]
LEMMA EmitsAreMessages ==
    ASSUME NEW e \in Emits
    PROVE  e \in Seq(Message)
  <1>1. \A s \in Submissions : s.emits \in Seq(Message)
    BY SubmissionsAreSane DEF Message
  <1>2. <<>> \in Seq(Message)
    OBVIOUS
  <1> HIDE DEF Message
  <1> QED
    BY <1>1, <1>2 DEF Emits

LEMMA OfFinite ==
    ASSUME NEW emits \in Emits, NEW external, NEW on
    PROVE  IsFiniteSet(DOMAIN emits) /\ IsFiniteSet(Of(emits, external, on))
  <1>1. DOMAIN emits = 1..Len(emits) /\ Len(emits) \in Nat
    BY EmitsAreMessages
  <1>2. IsFiniteSet(DOMAIN emits)
    BY <1>1, FS_Interval
  <1>3. Of(emits, external, on) \subseteq DOMAIN emits
    BY DEF Of
  <1> QED
    BY <1>2, <1>3, FS_Subset

LEMMA SumIsTotal ==
    ASSUME NEW f, NEW S
    PROVE  Sum(f, S) = Total(f, S)
  BY DEF Sum, Total

LEMMA WorthOfEmits ==
    ASSUME NEW emits \in Emits, NEW external, NEW on
    PROVE  Worth(emits, external, on) \in Nat
  <1> DEFINE f == [i \in DOMAIN emits |-> emits[i].value]
             S == Of(emits, external, on)
  <1>1. IsFiniteSet(S)
    BY OfFinite
  <1>2. ASSUME NEW i \in S PROVE f[i] \in Nat
    <2>1. i \in DOMAIN emits
      BY DEF Of
    <2>2. emits[i] \in Message
      BY <2>1, EmitsAreMessages
    <2> QED
      BY <2>1, <2>2 DEF Message
  <1>3. Worth(emits, external, on) = Total(f, S)
    BY SumIsTotal DEF Worth
  <1> HIDE DEF f, S
  <1> QED
    BY <1>1, <1>2, <1>3, TotalNat

LEMMA WorthNat ==
    ASSUME IInv, NEW i \in DOMAIN rows, NEW external \in BOOLEAN, NEW on \in Phases
    PROVE  Worth(rows[i].emits, external, on) \in Nat
  BY RowFacts, WorthOfEmits

LEMMA ExternalLeaves ==
    ASSUME IInv, NEW i \in DOMAIN rows, NEW on \in Phases
    PROVE  AfterExternal(i, on) \in Nat /\ Left(i, on) \in Nat
  <1>1. Worth(rows[i].emits, TRUE, on) \in Nat /\ Worth(rows[i].emits, FALSE, on) \in Nat
    BY WorthNat
  <1>2. balance[rows[i].to] \in Nat
    BY RowFacts DEF IInv
  <1> DEFINE out == Worth(rows[i].emits, TRUE, on)
             in == Worth(rows[i].emits, FALSE, on)
             has == balance[rows[i].to]
  <1>3. out \in Nat /\ in \in Nat /\ has \in Nat
    BY <1>1, <1>2
  <1>4. AfterExternal(i, on) = has - (IF ExternalBacked(i, on) THEN out ELSE 0)
    BY DEF AfterExternal
  <1>5. ExternalBacked(i, on) => out <= has
    BY DEF ExternalBacked
  <1>6. Left(i, on) = AfterExternal(i, on) - (IF InternalBacked(i, on) THEN in ELSE 0)
    BY DEF Left
  <1>7. InternalBacked(i, on) => in = 0 \/ in <= AfterExternal(i, on)
    BY DEF InternalBacked
  <1> HIDE DEF out, in, has
  <1>8. AfterExternal(i, on) \in Nat
    BY <1>3, <1>4, <1>5
  <1>9. Left(i, on) \in Nat
    BY <1>3, <1>6, <1>7, <1>8
  <1> QED
    BY <1>8, <1>9

----------------------------------------------------------------------------
(* The initial states, and the steps of requests.                          *)

LEMMA InitOk == Init => IInv
  <1> SUFFICES ASSUME Init PROVE IInv
    OBVIOUS
  <1>1. balance \in [Addr -> Nat] /\ rows \in Seq(GoodRow)
    BY FundingIsNat DEF Init
  <1>2. worker \in [Workers -> WorkerSet] /\ call \in [Callers -> CallSet]
    BY DEF Init, WorkerSet, CallSet, Idle, NoCall
  <1>3. RowsExist /\ TransferOfSend
    BY DEF Init, RowsExist, TransferOfSend, Idle, NoCall, At
  <1> QED
    BY <1>1, <1>2, <1>3 DEF IInv

(* Together: what makes the invariant hold after a step.                   *)
LEMMA CallerStep ==
    ASSUME IInv, NEW c \in Callers, NEW s, Goto(c, s), s \in CallSet,
           s.step \in {"fund", "refund"} => s.row \in DOMAIN rows',
           SameRows, rows' \in Seq(GoodRow), balance' \in [Addr -> Nat], Unmoved
    PROVE  IInv'
  <1>1. call' = [call EXCEPT ![c] = s] /\ UNCHANGED <<worker, givingUp>>
    BY DEF Goto, Unmoved
  <1>2. worker' \in [Workers -> WorkerSet] /\ call' \in [Callers -> CallSet]
        /\ RowsExist' /\ TransferOfSend'
    BY <1>1, CallerMoves
  <1> QED
    BY <1>2 DEF IInv

LEMMA NewRowGood ==
    ASSUME NEW hash \in {s.hash : s \in Submissions} \cup {None}, NEW kind \in {"call", "send"},
           NEW from \in Addr \cup {None}, NEW to \in Addr, NEW value \in Nat, NEW emits \in Emits,
           NEW fees \in BOOLEAN, NEW triggered \in BOOLEAN, NEW paid \in BOOLEAN
    PROVE  /\ NewRow(hash, kind, from, to, value, emits, fees, triggered, paid) \in GoodRow
           /\ NewRow(hash, kind, from, to, value, emits, fees, triggered, paid).kind = kind
           /\ NewRow(hash, kind, from, to, value, emits, fees, triggered, paid).emits = emits
  BY DEF NewRow, GoodRow, RowSet

LEMMA NoEmits == <<>> \in Emits
  BY DEF Emits

LEMMA SubmissionFacts ==
    ASSUME NEW s \in Submissions
    PROVE  s.kind \in {"call", "send"} /\ s.from \in Addr /\ s.to \in Addr /\ s.value \in Nat
           /\ s.fees \in BOOLEAN /\ s.emits \in Emits /\ Pays(s) \in BOOLEAN
           /\ s.hash \in {t.hash : t \in Submissions} \cup {None}
  BY SubmissionsAreSane DEF Emits, Pays

LEMMA CallFacts ==
    ASSUME IInv, NEW c \in Callers
    PROVE  /\ call[c].step = "submit" => call[c].of \in Submissions /\ call[c].duplicate \in BOOLEAN
           /\ call[c].step = "debit" => call[c].of \in Submissions /\ call[c].pays \in BOOLEAN
                                        /\ call[c].read \in Int
           /\ call[c].step \in {"fund", "refund"} => call[c].row \in DOMAIN rows
  <1>1. call[c] \in CallSet
    BY DEF IInv
  <1> QED
    BY <1>1 DEF CallSet, IInv, RowsExist

LEMMA NoCallIsCall == NoCall \in CallSet /\ NoCall.step \notin {"fund", "refund"}
  BY DEF NoCall, CallSet

LEMMA ReadDuplicateOk ==
    ASSUME IInv, NEW c \in Callers, ReadDuplicate(c)
    PROVE  IInv'
  <1>1. PICK s \in Submissions :
          Goto(c, [step |-> "submit", of |-> s,
                   duplicate |-> \E i \in DOMAIN rows : rows[i].hash = s.hash])
    BY DEF ReadDuplicate
  <1>2. [step |-> "submit", of |-> s, duplicate |-> \E i \in DOMAIN rows : rows[i].hash = s.hash]
          \in CallSet
    BY DEF CallSet
  <1>3. UNCHANGED <<balance, rows>> /\ Unmoved
    BY DEF ReadDuplicate
  <1>4. balance' \in [Addr -> Nat] /\ rows' \in Seq(GoodRow) /\ SameRows
    BY <1>3, RowsKept DEF IInv
  <1> QED
    BY <1>1, <1>2, <1>3, <1>4, CallerStep

LEMMA ReadBalanceOk ==
    ASSUME IInv, NEW c \in Callers, ReadBalance(c)
    PROVE  IInv'
  <1> DEFINE s == [step |-> "debit", of |-> call[c].of,
                   pays |-> Pays(call[c].of) /\ ~call[c].duplicate,
                   read |-> balance[call[c].of.from]]
  <1>1. Goto(c, s) /\ UNCHANGED balance /\ UNCHANGED rows /\ Unmoved /\ call[c].step = "submit"
    BY DEF ReadBalance, Kept
  <1>2. call[c].of \in Submissions
    BY <1>1, CallFacts
  <1>3. balance[call[c].of.from] \in Int
    BY <1>2, SubmissionFacts DEF IInv
  <1>4. s \in CallSet /\ s.step = "debit"
    BY <1>2, <1>3 DEF CallSet
  <1>5. balance' \in [Addr -> Nat] /\ rows' \in Seq(GoodRow) /\ SameRows
    BY <1>1, RowsKept DEF IInv
  <1> HIDE DEF s
  <1> QED
    BY <1>1, <1>4, <1>5, CallerStep

LEMMA SubmitOk ==
    ASSUME IInv, NEW c \in Callers, Submit(c)
    PROVE  IInv'
  <1> DEFINE s == call[c].of
             missing == IF call[c].pays /\ call[c].read < s.value THEN s.value - call[c].read ELSE 0
             has == balance[s.from] + missing
             left == IF has >= s.value THEN has - s.value ELSE has
             r == NewRow(s.hash, s.kind, s.from, s.to, s.value, s.emits, s.fees, FALSE, Pays(s))
  <1>1. /\ balance' = IF call[c].pays THEN [balance EXCEPT ![s.from] = left] ELSE balance
        /\ IF \E i \in DOMAIN rows : rows[i].hash = s.hash THEN UNCHANGED rows ELSE Insert(r)
        /\ Goto(c, NoCall) /\ Unmoved /\ call[c].step = "debit"
    BY DEF Submit
  <1>2. s \in Submissions /\ call[c].pays \in BOOLEAN /\ call[c].read \in Int
    BY <1>1, CallFacts
  <1>3. s.from \in Addr /\ s.value \in Nat /\ balance[s.from] \in Nat
    BY <1>2, SubmissionFacts DEF IInv
  <1>4. missing \in Nat
    BY <1>2, <1>3
  <1> HIDE DEF missing
  <1>5. left \in Nat
    BY <1>3, <1>4
  <1>6. r \in GoodRow
    <2>1. /\ s.hash \in {t.hash : t \in Submissions} \cup {None} /\ s.kind \in {"call", "send"}
          /\ s.from \in Addr \cup {None} /\ s.to \in Addr /\ s.value \in Nat /\ s.emits \in Emits
          /\ s.fees \in BOOLEAN /\ FALSE \in BOOLEAN /\ Pays(s) \in BOOLEAN
      BY <1>2, SubmissionFacts
    <2> HIDE DEF s
    <2>2. NewRow(s.hash, s.kind, s.from, s.to, s.value, s.emits, s.fees, FALSE, Pays(s)) \in GoodRow
      BY <2>1 DEF NewRow, GoodRow, RowSet
    <2> QED
      BY <2>2
  <1> HIDE DEF left, r, s
  <1>7. balance' \in [Addr -> Nat]
    BY <1>1, <1>3, <1>5, Added DEF IInv
  <1>8. rows' \in Seq(GoodRow) /\ SameRows
    BY <1>1, <1>6, RowsKept, RowAdded DEF Insert
  <1> QED
    BY <1>1, <1>7, <1>8, NoCallIsCall, CallerStep

LEMMA InsertFaucetOk ==
    ASSUME IInv, NEW c \in Callers, InsertFaucet(c)
    PROVE  IInv'
  <1>1. PICK f \in Faucets : Insert(NewRow(None, "send", None, f.to, f.value, <<>>, FALSE, FALSE, TRUE))
    BY DEF InsertFaucet
  <1> DEFINE r == NewRow(None, "send", None, f.to, f.value, <<>>, FALSE, FALSE, TRUE)
             s == [step |-> "fund", row |-> Len(rows) + 1]
  <1>2. Goto(c, s) /\ Unmoved /\ UNCHANGED balance
    BY DEF InsertFaucet, Kept
  <1>3. r \in GoodRow
    BY FaucetsAreSane, NoEmits, NewRowGood
  <1>4. rows' = Append(rows, r)
    BY <1>1 DEF Insert
  <1>5. rows' \in Seq(GoodRow) /\ SameRows /\ Len(rows) + 1 \in DOMAIN rows'
    BY <1>3, <1>4, RowAdded
  <1>6. s \in CallSet /\ s.row \in DOMAIN rows'
    BY <1>5 DEF CallSet, IInv
  <1>7. balance' \in [Addr -> Nat]
    BY <1>2 DEF IInv
  <1> HIDE DEF r, s
  <1> QED
    BY <1>2, <1>5, <1>6, <1>7, CallerStep

LEMMA CreditFaucetOk ==
    ASSUME IInv, NEW c \in Callers, CreditFaucet(c)
    PROVE  IInv'
  <1>1. call[c].row \in DOMAIN rows /\ Credit(call[c].row) /\ Goto(c, NoCall) /\ Unmoved
    BY CallFacts DEF CreditFaucet
  <1>2. balance' \in [Addr -> Nat] /\ rows' \in Seq(GoodRow) /\ SameRows
    BY <1>1, CreditStep
  <1> QED
    BY <1>1, <1>2, NoCallIsCall, CallerStep

(* A status, or a count of refunds, is not what a good row depends on.     *)
LEMMA StatusGood ==
    ASSUME NEW r \in GoodRow, NEW status \in Decided \cup {"PENDING", "FINALIZED", "CANCELED"},
           NEW n \in Nat
    PROVE  LET q == [r EXCEPT !.status = status, !.refunds = n]
           IN q \in GoodRow /\ q.kind = r.kind /\ q.emits = r.emits
  BY DEF GoodRow, RowSet

LEMMA OkGood ==
    ASSUME NEW r \in GoodRow, NEW ok \in BOOLEAN
    PROVE  LET q == [r EXCEPT !.ok = ok] IN q \in GoodRow /\ q.kind = r.kind /\ q.emits = r.emits
  BY DEF GoodRow, RowSet

LEMMA StatusChanged ==
    ASSUME IInv, NEW i \in DOMAIN rows,
           NEW status \in Decided \cup {"PENDING", "FINALIZED", "CANCELED"},
           rows' = [rows EXCEPT ![i].status = status]
    PROVE  rows' \in Seq(GoodRow) /\ SameRows
  <1> DEFINE n == rows[i].refunds
             q == [rows[i] EXCEPT !.status = status, !.refunds = n]
  <1>1. rows[i] \in GoodRow /\ rows[i] \in RowSet
    BY RowFacts
  <1>2. n \in Nat
    BY <1>1 DEF RowSet
  <1>3. q = [rows[i] EXCEPT !.status = status]
    BY <1>1 DEF RowSet
  <1>4. rows' = [rows EXCEPT ![i] = q]
    BY <1>3
  <1> HIDE DEF n
  <1>5. q \in GoodRow /\ q.kind = rows[i].kind /\ q.emits = rows[i].emits
    BY <1>1, <1>2, StatusGood, ZenonT(40)
  <1> HIDE DEF q
  <1> QED
    BY <1>4, <1>5, RowChanged

LEMMA RefundCounted ==
    ASSUME IInv, NEW i \in DOMAIN rows, NEW status \in Decided \cup {"PENDING", "FINALIZED", "CANCELED"},
           rows' = [rows EXCEPT ![i].status = status,
                                ![i].refunds = IF rows[i].credited THEN @ ELSE @ + 1]
    PROVE  rows' \in Seq(GoodRow) /\ SameRows
  <1> DEFINE n == IF rows[i].credited THEN rows[i].refunds ELSE rows[i].refunds + 1
             q == [rows[i] EXCEPT !.status = status, !.refunds = n]
  <1>1. rows[i] \in GoodRow /\ rows[i] \in RowSet
    BY RowFacts
  <1>2. n \in Nat
    BY <1>1 DEF RowSet
  <1>3. rows' = [rows EXCEPT ![i] = q]
    BY <1>1
  <1> HIDE DEF n
  <1>4. q \in GoodRow /\ q.kind = rows[i].kind /\ q.emits = rows[i].emits
    BY <1>1, <1>2, StatusGood, ZenonT(40)
  <1> HIDE DEF q
  <1> QED
    BY <1>3, <1>4, RowChanged

LEMMA CancelStatusOk ==
    ASSUME IInv, NEW c \in Callers, CancelStatus(c)
    PROVE  IInv'
  <1>1. PICK i \in DOMAIN rows : /\ rows' = [rows EXCEPT ![i].status = "CANCELED"]
                                 /\ Goto(c, [step |-> "refund", row |-> i])
    BY Zenon DEF CancelStatus
  <1>2. Unmoved /\ UNCHANGED balance
    BY DEF CancelStatus, Kept
  <1> DEFINE s == [step |-> "refund", row |-> i]
  <1>3. rows' \in Seq(GoodRow) /\ SameRows
    BY <1>1, StatusChanged
  <1>4. s \in CallSet /\ s.row \in DOMAIN rows'
    BY <1>3 DEF CallSet, IInv, SameRows
  <1>5. balance' \in [Addr -> Nat]
    BY <1>2 DEF IInv
  <1> HIDE DEF s
  <1> QED
    BY <1>1, <1>2, <1>3, <1>4, <1>5, CallerStep DEF s

LEMMA GiveBackStep ==
    ASSUME IInv, NEW i \in DOMAIN rows,
           NEW status \in Decided \cup {"PENDING", "FINALIZED", "CANCELED"}, GiveBack(i, status)
    PROVE  balance' \in [Addr -> Nat] /\ rows' \in Seq(GoodRow) /\ SameRows
  <1>1. Refund(i)
        /\ rows' = [rows EXCEPT ![i].status = status,
                                ![i].refunds = IF rows[i].credited THEN @ ELSE @ + 1]
    BY DEF GiveBack
  <1> QED
    BY <1>1, RefundStep, RefundCounted

LEMMA CancelRefundOk ==
    ASSUME IInv, NEW c \in Callers, CancelRefund(c)
    PROVE  IInv'
  <1> DEFINE i == call[c].row
  <1>1. i \in DOMAIN rows /\ Goto(c, NoCall) /\ Unmoved /\ GiveBack(i, rows[i].status)
    BY CallFacts DEF CancelRefund
  <1>2. rows[i].status \in Decided \cup {"PENDING", "FINALIZED", "CANCELED"}
    BY <1>1, RowFacts DEF RowSet
  <1>3. balance' \in [Addr -> Nat] /\ rows' \in Seq(GoodRow) /\ SameRows
    BY <1>1, <1>2, GiveBackStep
  <1> QED
    BY <1>1, <1>3, NoCallIsCall, CallerStep

----------------------------------------------------------------------------
(* The steps of workers.                                                   *)

Holding == {"pending", "round", "again", "accepted", "final"}

LEMMA WorkerStep ==
    ASSUME IInv, NEW w \in Workers, NEW s, Step(w, s), Sound(s),
           SameRows, rows' \in Seq(GoodRow), balance' \in [Addr -> Nat],
           UNCHANGED call, givingUp' \subseteq DOMAIN rows'
    PROVE  IInv'
  <1>1. worker' = [worker EXCEPT ![w] = s]
    BY DEF Step
  <1>2. worker' \in [Workers -> WorkerSet] /\ call' \in [Callers -> CallSet]
        /\ RowsExist' /\ TransferOfSend'
    BY <1>1, WorkerMoves
  <1> QED
    BY <1>2 DEF IInv

LEMMA CalmKeeps ==
    ASSUME IInv, SameRows, Calm
    PROVE  UNCHANGED call /\ givingUp' \subseteq DOMAIN rows'
  BY DEF IInv, RowsExist, SameRows, Calm

LEMMA SoundIdle == Sound(Idle)
  BY DEF Sound, Idle, WorkerSet

LEMMA SoundHolding ==
    ASSUME NEW i \in DOMAIN rows, NEW step \in Holding, IInv, SameRows
    PROVE  Sound([step |-> step, row |-> i])
  <1>1. i \in Nat /\ i \in DOMAIN rows'
    BY DEF IInv, SameRows
  <1> QED
    BY <1>1 DEF Sound, Holding, WorkerSet

LEMMA WorkerFacts ==
    ASSUME IInv, NEW w \in Workers, ~At(w, "idle")
    PROVE  /\ worker[w].row \in DOMAIN rows
           /\ At(w, "to") => worker[w].rest \in Nat /\ Row(w).kind = "send"
           /\ At(w, "write") \/ At(w, "credit") =>
                worker[w].rest \in Nat /\ worker[w].total \in Nat /\ Row(w).kind = "send"
           /\ At(w, "emit") => /\ worker[w].on \in Phases /\ worker[w].backed \in BOOLEAN
                               /\ worker[w].left \subseteq DOMAIN Row(w).emits
           /\ worker[w].step \in Holding => \A step : On(w, step) = [step |-> step, row |-> worker[w].row]
  <1>1. worker[w] \in WorkerSet
    BY DEF IInv
  <1>2. worker[w].row \in DOMAIN rows /\ (At(w, "emit") => worker[w].left \subseteq DOMAIN Row(w).emits)
    BY DEF IInv, RowsExist
  <1>3. At(w, "to") => worker[w].rest \in Nat /\ Row(w).kind = "send"
    BY <1>1 DEF IInv, TransferOfSend, WorkerSet, At
  <1>4. At(w, "write") \/ At(w, "credit") =>
          worker[w].rest \in Nat /\ worker[w].total \in Nat /\ Row(w).kind = "send"
    BY <1>1 DEF IInv, TransferOfSend, WorkerSet, At
  <1>5. At(w, "emit") => worker[w].on \in Phases /\ worker[w].backed \in BOOLEAN
    BY <1>1 DEF WorkerSet, At
  <1>6. worker[w].step \in Holding => \A step : On(w, step) = [step |-> step, row |-> worker[w].row]
    <2>1. ASSUME worker[w].step \in Holding
          PROVE  worker[w] \in [step : Holding, row : Nat]
      BY <1>1, <2>1 DEF WorkerSet, Holding
    <2> QED
      BY <2>1 DEF On
  <1> QED
    BY <1>2, <1>3, <1>4, <1>5, <1>6

LEMMA ClaimOk ==
    ASSUME IInv, NEW w \in Workers, Claim(w) \/ ClaimFinal(w) \/ AppealFails(w)
    PROVE  IInv'
  <1>1. CASE Claim(w)
    <2>1. PICK i \in DOMAIN rows : Step(w, [step |-> "pending", row |-> i])
      BY <1>1, Zenon DEF Claim
    <2>2. Calm /\ UNCHANGED balance /\ UNCHANGED rows
      BY <1>1 DEF Claim, Kept
    <2>3. rows' \in Seq(GoodRow) /\ SameRows /\ balance' \in [Addr -> Nat]
      BY <2>2, RowsKept DEF IInv
    <2>4. Sound([step |-> "pending", row |-> i])
      BY <2>3, SoundHolding DEF Holding
    <2> QED
      BY <2>1, <2>2, <2>3, <2>4, CalmKeeps, WorkerStep
  <1>2. CASE ClaimFinal(w)
    <2>1. PICK i \in DOMAIN rows :
             \/ Step(w, [step |-> "final", row |-> i]) /\ UNCHANGED rows
             \/ rows' = [rows EXCEPT ![i].status = "FINALIZED"] /\ UNCHANGED worker
      BY <1>2, Zenon DEF ClaimFinal
    <2>2. Calm /\ UNCHANGED balance
      BY <1>2 DEF ClaimFinal, Kept
    <2>3. rows' \in Seq(GoodRow) /\ SameRows /\ balance' \in [Addr -> Nat]
      BY <2>1, <2>2, RowsKept, StatusChanged DEF IInv
    <2>4. Sound([step |-> "final", row |-> i])
      BY <2>3, SoundHolding DEF Holding
    <2>5. CASE Step(w, [step |-> "final", row |-> i])
      BY <2>2, <2>3, <2>4, <2>5, CalmKeeps, WorkerStep
    <2>6. CASE UNCHANGED worker
      <3>1. UNCHANGED call /\ givingUp' \subseteq DOMAIN rows'
        BY <2>2, <2>3, CalmKeeps
      <3>2. RowsExist' /\ TransferOfSend'
        BY <2>3, <2>6, <3>1 DEF IInv, RowsExist, TransferOfSend, SameRows, At, Row
      <3> QED
        BY <2>3, <2>6, <3>1, <3>2 DEF IInv
    <2> QED
      BY <2>1, <2>5, <2>6
  <1>3. CASE AppealFails(w)
    <2>1. PICK i \in DOMAIN rows : MayAppeal(w, i) /\ Step(w, [step |-> "again", row |-> i])
                                                   /\ UNCHANGED rows
      BY <1>3 DEF AppealFails
    <2>2. UNCHANGED <<call, givingUp, balance>>
      BY <2>1 DEF MayAppeal, Kept
    <2>3. rows' \in Seq(GoodRow) /\ SameRows /\ balance' \in [Addr -> Nat]
      BY <2>1, <2>2, RowsKept DEF IInv
    <2>4. Sound([step |-> "again", row |-> i])
      BY <2>3, SoundHolding DEF Holding
    <2>5. givingUp' \subseteq DOMAIN rows'
      BY <2>1, <2>2 DEF IInv, RowsExist
    <2> QED
      BY <2>1, <2>2, <2>3, <2>4, <2>5, WorkerStep
  <1> QED
    BY <1>1, <1>2, <1>3

LEMMA TransferOk ==
    ASSUME IInv, NEW w \in Workers,
           TransferDone(w) \/ TransferFails(w) \/ Undetermined(w) \/ Decide(w)
    PROVE  IInv'
  <1>1. ~At(w, "idle")
    BY DEF TransferDone, TransferFails, Undetermined, Decide, At
  <1>2. worker[w].row \in DOMAIN rows
    BY <1>1, WorkerFacts
  <1>3. PICK status \in {"FINALIZED", "UNDETERMINED", "ACCEPTED"} :
          rows' = [rows EXCEPT ![worker[w].row].status = status]
    BY DEF TransferDone, TransferFails, Undetermined, Decide
  <1>4. Step(w, Idle) /\ Calm /\ UNCHANGED balance
    BY DEF TransferDone, TransferFails, Undetermined, Decide, Kept
  <1>5. rows' \in Seq(GoodRow) /\ SameRows
    BY <1>2, <1>3, StatusChanged DEF Decided
  <1> QED
    BY <1>4, <1>5, SoundIdle, CalmKeeps, WorkerStep DEF IInv

LEMMA ReadFromOk ==
    ASSUME IInv, NEW w \in Workers, ReadFrom(w)
    PROVE  IInv'
  <1> DEFINE i == worker[w].row
             rest == IF PaysNow(Row(w)) THEN balance[Row(w).from] - Row(w).value ELSE 0
             s == [step |-> "to", row |-> i, rest |-> rest]
  <1>1. Step(w, s) /\ Calm /\ UNCHANGED balance /\ UNCHANGED rows /\ rows[i].kind = "send"
    BY DEF ReadFrom, Row, Kept
  <1>2. i \in DOMAIN rows
    BY WorkerFacts DEF ReadFrom, At
  <1>3. rest \in Nat
    <2>1. CASE PaysNow(Row(w))
      <3>1. rows[i].from \in Addr /\ rows[i].value \in Nat
        BY <1>2, <2>1, RowFacts DEF PaysNow, Row, RowSet
      <3>2. balance[rows[i].from] \in Nat /\ rows[i].value <= balance[rows[i].from]
        BY <3>1, <2>1 DEF IInv, ReadFrom, Row
      <3>3. rest = balance[rows[i].from] - rows[i].value
        BY <2>1 DEF Row
      <3> QED
        BY <3>1, <3>2, <3>3, Sub
    <2> QED
      BY <2>1
  <1>4. rows' \in Seq(GoodRow) /\ SameRows /\ balance' \in [Addr -> Nat]
    BY <1>1, RowsKept DEF IInv
  <1> HIDE DEF rest
  <1>5. i \in Nat /\ i \in DOMAIN rows' /\ rows'[i].kind = "send"
    BY <1>1, <1>2 DEF IInv
  <1>6. Sound(s)
    BY <1>3, <1>5 DEF Sound, WorkerSet
  <1> HIDE DEF s
  <1> QED
    BY <1>1, <1>4, <1>6, CalmKeeps, WorkerStep

LEMMA ReadToOk ==
    ASSUME IInv, NEW w \in Workers, ReadTo(w)
    PROVE  IInv'
  <1> DEFINE i == worker[w].row
             has == IF PaysNow(Row(w)) /\ Row(w).from = Row(w).to THEN worker[w].rest ELSE balance[Row(w).to]
             s == [step |-> "write", row |-> i, rest |-> worker[w].rest, total |-> has + Row(w).value]
  <1>1. Step(w, s) /\ Calm /\ UNCHANGED balance /\ UNCHANGED rows /\ At(w, "to")
    BY DEF ReadTo, Kept
  <1>2. i \in DOMAIN rows /\ worker[w].rest \in Nat /\ rows[i].kind = "send"
    BY <1>1, WorkerFacts DEF At, Row
  <1>3. Row(w).to \in Addr /\ Row(w).value \in Nat
    BY <1>2, RowFacts DEF Row
  <1>4. has + Row(w).value \in Nat
    BY <1>2, <1>3 DEF IInv
  <1>5. rows' \in Seq(GoodRow) /\ SameRows /\ balance' \in [Addr -> Nat]
    BY <1>1, RowsKept DEF IInv
  <1> HIDE DEF has
  <1>6. i \in Nat /\ i \in DOMAIN rows' /\ rows'[i].kind = "send"
    BY <1>1, <1>2 DEF IInv
  <1>7. Sound(s)
    BY <1>2, <1>4, <1>6 DEF Sound, WorkerSet
  <1> HIDE DEF s
  <1> QED
    BY <1>1, <1>5, <1>7, CalmKeeps, WorkerStep

LEMMA TransferGood ==
    ASSUME NEW r \in GoodRow, r.kind = "send", NEW credited \in BOOLEAN
    PROVE  LET q == [r EXCEPT !.status = "FINALIZED", !.credited = credited, !.credits = @ + 1]
           IN q \in GoodRow /\ q.kind = r.kind /\ q.emits = r.emits
  <1>1. r \in RowSet /\ r.credits + 1 \in Nat
    BY DEF GoodRow, RowSet
  <1> DEFINE a == [r EXCEPT !.status = "FINALIZED"]
             b == [a EXCEPT !.credited = credited]
             q == [b EXCEPT !.credits = r.credits + 1]
  <1>2. a \in RowSet /\ a.kind = "send" /\ a.emits = r.emits
    BY <1>1 DEF RowSet
  <1>3. b \in RowSet /\ b.kind = "send" /\ b.emits = r.emits
    BY <1>2 DEF RowSet
  <1>4. q \in RowSet /\ q.kind = "send" /\ q.emits = r.emits
    BY <1>1, <1>3 DEF RowSet
  <1>5. q = [r EXCEPT !.status = "FINALIZED", !.credited = credited, !.credits = @ + 1]
    BY <1>1 DEF RowSet
  <1> HIDE DEF a, b, q
  <1>6. q \in GoodRow
    BY <1>4 DEF GoodRow
  <1> QED
    BY <1>4, <1>5, <1>6

LEMMA DebitedOk ==
    ASSUME IInv, NEW w \in Workers, At(w, "write")
    PROVE  Debited(w) \in [Addr -> Nat]
  <1>1. worker[w].row \in DOMAIN rows /\ worker[w].rest \in Nat
    BY WorkerFacts DEF At
  <1>2. Row(w) \in RowSet /\ balance \in [Addr -> Nat]
    BY <1>1, RowFacts DEF Row, IInv
  <1> QED
    BY <1>1, <1>2 DEF Debited, PaysNow, RowSet

LEMMA TransferredOk ==
    ASSUME IInv, NEW i \in DOMAIN rows, rows[i].kind = "send", rows' = Transferred(i)
    PROVE  rows' \in Seq(GoodRow) /\ SameRows
  <1> DEFINE q == [rows[i] EXCEPT !.status = "FINALIZED", !.credited = (rows[i].value > 0) \/ @,
                                  !.credits = @ + 1]
  <1>1. rows[i] \in GoodRow /\ rows[i] \in RowSet
    BY RowFacts
  <1>2. rows' = [rows EXCEPT ![i] = q]
    BY <1>1 DEF Transferred, RowSet
  <1>3. ((rows[i].value > 0) \/ rows[i].credited) \in BOOLEAN
    OBVIOUS
  <1>4. q \in GoodRow /\ q.kind = rows[i].kind /\ q.emits = rows[i].emits
    BY <1>1, <1>3, TransferGood
  <1> HIDE DEF q
  <1> QED
    BY <1>2, <1>4, RowChanged

LEMMA PaidGood ==
    ASSUME NEW r \in GoodRow, NEW paid \in BOOLEAN
    PROVE  LET q == [r EXCEPT !.paid = paid] IN q \in GoodRow /\ q.kind = r.kind /\ q.emits = r.emits
  BY DEF GoodRow, RowSet

LEMMA OnCredit ==
    ASSUME IInv, NEW w \in Workers, At(w, "write")
    PROVE  On(w, "credit") = [step |-> "credit", row |-> worker[w].row, rest |-> worker[w].rest,
                              total |-> worker[w].total]
  <1>1. worker[w] \in [step : {"write", "credit"}, row : Nat, rest : Nat, total : Nat]
    BY DEF IInv, WorkerSet, At
  <1> QED
    BY <1>1 DEF On

LEMMA CreateRecipientOk ==
    ASSUME IInv, NEW w \in Workers, CreateRecipient(w)
    PROVE  IInv'
  <1> DEFINE i == worker[w].row
             paid == PaysNow(Row(w)) \/ rows[i].paid
             q == [rows[i] EXCEPT !.paid = paid]
             s == [step |-> "credit", row |-> i, rest |-> worker[w].rest, total |-> worker[w].total]
  <1>1. /\ At(w, "write") /\ balance' = Debited(w) /\ Step(w, On(w, "credit"))
        /\ UNCHANGED <<call, givingUp>>
        /\ rows' = [rows EXCEPT ![i].paid = PaysNow(Row(w)) \/ @]
    BY DEF CreateRecipient
  <1>2. i \in DOMAIN rows /\ worker[w].rest \in Nat /\ worker[w].total \in Nat
                          /\ rows[i].kind = "send"
    BY <1>1, WorkerFacts DEF At, Row
  <1>3. rows[i] \in GoodRow /\ rows[i] \in RowSet
    BY <1>2, RowFacts
  <1>4. rows' = [rows EXCEPT ![i] = q]
    BY <1>1
  <1>5. paid \in BOOLEAN
    BY <1>3 DEF RowSet, PaysNow
  <1> HIDE DEF paid
  <1>6. q \in GoodRow /\ q.kind = rows[i].kind /\ q.emits = rows[i].emits
    BY <1>3, <1>5, PaidGood
  <1> HIDE DEF q
  <1>7. rows' \in Seq(GoodRow) /\ SameRows
    BY <1>2, <1>4, <1>6, RowChanged
  <1>8. On(w, "credit") = s
    BY <1>1, OnCredit
  <1>9. i \in Nat /\ i \in DOMAIN rows' /\ rows'[i].kind = "send"
    BY <1>2, <1>7 DEF IInv, SameRows
  <1>10. Sound(s)
    BY <1>2, <1>9 DEF Sound, WorkerSet
  <1>11. balance' \in [Addr -> Nat] /\ givingUp' \subseteq DOMAIN rows'
    BY <1>1, <1>7, DebitedOk DEF IInv, RowsExist, SameRows
  <1> HIDE DEF s, i
  <1> QED
    BY <1>1, <1>7, <1>8, <1>10, <1>11, WorkerStep

LEMMA WriteTransferOk ==
    ASSUME IInv, NEW w \in Workers, WriteTransfer(w) \/ WriteCredit(w)
    PROVE  IInv'
  <1> DEFINE i == worker[w].row
  <1>1. /\ Step(w, Idle)
        /\ At(w, "write") \/ At(w, "credit")
        /\ rows' = Transferred(i) /\ UNCHANGED <<call, givingUp>>
    BY DEF WriteTransfer, WriteCredit, Calm
  <1>2. i \in DOMAIN rows /\ worker[w].total \in Nat /\ rows[i].kind = "send"
    BY <1>1, WorkerFacts DEF At, Row
  <1>3. Row(w).to \in Addr
    BY <1>2, RowFacts DEF Row
  <1>4. balance' \in [Addr -> Nat]
    <2>1. CASE WriteTransfer(w)
      BY <1>2, <1>3, <2>1, DebitedOk DEF WriteTransfer
    <2>2. CASE WriteCredit(w)
      BY <1>2, <1>3, <2>2 DEF WriteCredit, IInv
    <2> QED
      BY <2>1, <2>2
  <1>5. rows' \in Seq(GoodRow) /\ SameRows
    BY <1>1, <1>2, TransferredOk
  <1>6. givingUp' \subseteq DOMAIN rows'
    BY <1>1, <1>5 DEF IInv, RowsExist, SameRows
  <1> QED
    BY <1>1, <1>4, <1>5, <1>6, SoundIdle, WorkerStep

LEMMA ActivateOk ==
    ASSUME IInv, NEW w \in Workers, Activate(w)
    PROVE  IInv'
  <1>1. At(w, "pending") /\ Credit(worker[w].row) /\ Step(w, On(w, "round")) /\ Calm
    BY DEF Activate
  <1>2. worker[w].row \in DOMAIN rows /\ On(w, "round") = [step |-> "round", row |-> worker[w].row]
    BY <1>1, WorkerFacts DEF At, Holding
  <1>3. balance' \in [Addr -> Nat] /\ rows' \in Seq(GoodRow) /\ SameRows
    BY <1>1, <1>2, CreditStep
  <1>4. Sound([step |-> "round", row |-> worker[w].row])
    BY <1>2, <1>3, SoundHolding DEF Holding
  <1> QED
    BY <1>1, <1>2, <1>3, <1>4, CalmKeeps, WorkerStep

LEMMA AcceptOk ==
    ASSUME IInv, NEW w \in Workers, Accept(w)
    PROVE  IInv'
  <1> DEFINE i == worker[w].row
  <1>1. worker[w].step \in Holding /\ ~At(w, "idle")
    BY DEF Accept, At, Holding
  <1>2. i \in DOMAIN rows /\ On(w, "accepted") = [step |-> "accepted", row |-> i]
    BY <1>1, WorkerFacts
  <1>3. Step(w, On(w, "accepted")) /\ Calm /\ UNCHANGED balance
    BY DEF Accept, Kept
  <1>4. PICK ran : rows' = [rows EXCEPT ![i].ok = ran /\ FreezeOk(i)]
    BY DEF Accept
  <1> DEFINE ok == ran /\ FreezeOk(i)
             q == [rows[i] EXCEPT !.ok = ok]
  <1>5. ok \in BOOLEAN
    OBVIOUS
  <1>6. rows' = [rows EXCEPT ![i] = q]
    BY <1>4
  <1> HIDE DEF ok
  <1>7. q \in GoodRow /\ q.kind = rows[i].kind /\ q.emits = rows[i].emits
    BY <1>2, <1>5, RowFacts, OkGood
  <1> HIDE DEF q
  <1>8. rows' \in Seq(GoodRow) /\ SameRows
    BY <1>2, <1>6, <1>7, RowChanged
  <1>9. Sound([step |-> "accepted", row |-> i])
    BY <1>2, <1>8, SoundHolding DEF Holding
  <1> QED
    BY <1>2, <1>3, <1>8, <1>9, CalmKeeps, WorkerStep DEF IInv

(* Children.                                                               *)
LEMMA ChildGood ==
    ASSUME NEW m, NEW parent \in RowSet, NEW backed \in BOOLEAN,
           m.external \in BOOLEAN, m.to \in Addr, m.value \in Nat
    PROVE  Child(m, parent, backed) \in GoodRow
  <1> DEFINE kind == IF m.external THEN "send" ELSE "call"
             value == IF m.external \/ backed THEN m.value ELSE 0
  <1>1. kind \in {"call", "send"} /\ value \in Nat /\ parent.to \in Addr /\ <<>> \in Emits
    BY NoEmits DEF RowSet
  <1> HIDE DEF kind, value
  <1>2. NewRow(None, kind, parent.to, m.to, value, <<>>, FALSE, TRUE, TRUE) \in GoodRow
    BY <1>1 DEF NewRow, GoodRow, RowSet
  <1> QED
    BY <1>2 DEF Child, kind, value

LEMMA MessageFacts ==
    ASSUME IInv, NEW i \in DOMAIN rows, NEW k \in DOMAIN rows[i].emits
    PROVE  rows[i].emits[k].external \in BOOLEAN /\ rows[i].emits[k].to \in Addr
           /\ rows[i].emits[k].value \in Nat
  <1>1. rows[i].emits \in Emits
    BY RowFacts
  <1>2. rows[i].emits \in Seq(Message)
    BY <1>1, EmitsAreMessages
  <1>3. rows[i].emits[k] \in Message
    BY <1>2
  <1> QED
    BY <1>3 DEF Message

LEMMA EmitStep ==
    ASSUME IInv, NEW w \in Workers, NEW i \in DOMAIN rows, NEW on \in Phases,
           NEW left \in SUBSET DOMAIN rows[i].emits, NEW backed \in BOOLEAN,
           EmitFirst(w, i, on, left, backed), Calm, balance' \in [Addr -> Nat]
    PROVE  IInv'
  <1>1. PICK k \in left :
          /\ Insert(Child(rows[i].emits[k], rows[i], backed))
          /\ Step(w, [step |-> "emit", row |-> i, on |-> on, left |-> left \ {k}, backed |-> backed])
    BY DEF EmitFirst
  <1> DEFINE r == Child(rows[i].emits[k], rows[i], backed)
             s == [step |-> "emit", row |-> i, on |-> on, left |-> left \ {k}, backed |-> backed]
  <1>2. rows[i] \in RowSet
    BY RowFacts
  <1>3. r \in GoodRow
    BY <1>1, <1>2, MessageFacts, ChildGood
  <1> HIDE DEF r
  <1>4. rows' = Append(rows, r)
    BY <1>1 DEF Insert, r
  <1>5. rows' \in Seq(GoodRow) /\ SameRows
    BY <1>3, <1>4, RowAdded
  <1>6. i \in Nat /\ i \in DOMAIN rows' /\ rows'[i].emits = rows[i].emits
    BY <1>5 DEF IInv, SameRows
  <1>7. left \ {k} \subseteq DOMAIN rows'[i].emits /\ left \ {k} \in SUBSET Nat
    <2>1. rows[i].emits \in Seq(Message)
      BY RowFacts, EmitsAreMessages
    <2> QED
      BY <1>6, <2>1
  <1>8. Sound(s)
    BY <1>6, <1>7 DEF Sound, WorkerSet
  <1> HIDE DEF s
  <1> QED
    BY <1>1, <1>5, <1>8, CalmKeeps, WorkerStep DEF s

LEMMA EmitNextOk ==
    ASSUME IInv, NEW w \in Workers, EmitNext(w)
    PROVE  IInv'
  <1>1. /\ At(w, "emit") /\ Calm /\ UNCHANGED balance
        /\ EmitFirst(w, worker[w].row, worker[w].on, worker[w].left, worker[w].backed)
    BY DEF EmitNext, Kept
  <1>2. /\ worker[w].row \in DOMAIN rows /\ worker[w].on \in Phases /\ worker[w].backed \in BOOLEAN
        /\ worker[w].left \in SUBSET DOMAIN rows[worker[w].row].emits
    BY <1>1, WorkerFacts DEF At, Row
  <1>3. balance' \in [Addr -> Nat]
    BY <1>1 DEF IInv
  <1> QED
    BY <1>1, <1>2, <1>3, EmitStep

LEMMA WithdrawOk ==
    ASSUME IInv, NEW w \in Workers, NEW on \in Phases, ~At(w, "idle"), Withdraw(w, on)
    PROVE  IInv'
  <1> DEFINE i == worker[w].row
             out == IF rows[i].ok THEN Emitted(i, on) ELSE {}
             backed == InternalBacked(i, on)
             s == [step |-> "emit", row |-> i, on |-> on, left |-> out, backed |-> backed]
  <1>1. i \in DOMAIN rows
    BY WorkerFacts
  <1>2. /\ balance' = IF rows[i].ok THEN [balance EXCEPT ![rows[i].to] = Left(i, on)] ELSE balance
        /\ \/ Step(w, s) /\ UNCHANGED rows
           \/ EmitFirst(w, i, on, out, backed)
        /\ Calm
    BY DEF Withdraw
  <1>3. balance' \in [Addr -> Nat]
    <2>1. rows[i].to \in Addr /\ Left(i, on) \in Nat /\ balance \in [Addr -> Nat]
      BY <1>1, RowFacts, ExternalLeaves DEF IInv
    <2> QED
      BY <1>2, <2>1
  <1>4. out \in SUBSET DOMAIN rows[i].emits /\ backed \in BOOLEAN
    BY DEF Emitted, InternalBacked
  <1>5. CASE Step(w, s) /\ UNCHANGED rows
    <2>1. rows' \in Seq(GoodRow) /\ SameRows
      BY <1>5, RowsKept
    <2>2. rows[i].emits \in Seq(Message)
      BY <1>1, RowFacts, EmitsAreMessages
    <2>3. i \in Nat /\ i \in DOMAIN rows' /\ out \in SUBSET Nat
                    /\ out \subseteq DOMAIN rows'[i].emits
      BY <1>1, <1>4, <1>5, <2>2 DEF IInv
    <2> HIDE DEF out, backed
    <2>4. Sound(s)
      BY <1>4, <2>3 DEF Sound, WorkerSet
    <2> HIDE DEF s
    <2> QED
      BY <1>2, <1>3, <1>5, <2>1, <2>4, CalmKeeps, WorkerStep
  <1>6. CASE EmitFirst(w, i, on, out, backed)
    <2> HIDE DEF out, backed
    <2> QED
      BY <1>1, <1>2, <1>3, <1>4, <1>6, EmitStep
  <1> QED
    BY <1>2, <1>5, <1>6

LEMMA AppealSucceedsOk ==
    ASSUME IInv, NEW w \in Workers, AppealSucceeds(w)
    PROVE  IInv'
  <1>1. PICK i \in DOMAIN rows :
          /\ MayAppeal(w, i) /\ UNCHANGED worker
          /\ rows' = [j \in DOMAIN rows |->
                      IF j \in Neighbours(i) /\ j >= i
                      THEN [rows[j] EXCEPT !.status = "PENDING", !.refunds = 0] ELSE rows[j]]
    BY Zenon DEF AppealSucceeds
  <1>2. DOMAIN rows' = DOMAIN rows
        /\ \A j \in DOMAIN rows :
             rows'[j] \in {rows[j], [rows[j] EXCEPT !.status = "PENDING", !.refunds = 0]}
    BY <1>1
  <1>3. ASSUME NEW j \in DOMAIN rows
        PROVE  rows'[j] \in GoodRow /\ rows'[j].kind = rows[j].kind /\ rows'[j].emits = rows[j].emits
    <2> DEFINE n == 0
               q == [rows[j] EXCEPT !.status = "PENDING", !.refunds = n]
    <2>1. rows'[j] = rows[j] \/ rows'[j] = q
      BY <1>2
    <2>2. rows[j] \in GoodRow
      BY RowFacts
    <2>3. n \in Nat /\ "PENDING" \in Decided \cup {"PENDING", "FINALIZED", "CANCELED"}
      OBVIOUS
    <2> HIDE DEF n
    <2>4. q \in GoodRow /\ q.kind = rows[j].kind /\ q.emits = rows[j].emits
      BY <2>2, <2>3, StatusGood, ZenonT(40)
    <2> HIDE DEF q
    <2> QED
      BY <2>1, <2>2, <2>4
  <1>4. DOMAIN rows = 1..Len(rows) /\ Len(rows) \in Nat
    BY DEF IInv
  <1>5. rows' \in Seq(GoodRow)
    <2>1. rows' \in [1..Len(rows) -> GoodRow]
      BY <1>1, <1>3, <1>4
    <2> QED
      BY <1>4, <2>1
  <1>6. SameRows
    BY <1>2, <1>3 DEF SameRows
  <1>7. UNCHANGED <<worker, call, givingUp, balance>>
    BY <1>1 DEF MayAppeal, Kept
  <1>8. RowsExist' /\ TransferOfSend'
    BY <1>6, <1>7 DEF IInv, RowsExist, TransferOfSend, SameRows, At, Row
  <1> QED
    BY <1>5, <1>7, <1>8 DEF IInv

LEMMA CrashOk ==
    ASSUME IInv, NEW w \in Workers, Crash(w) \/ Release(w)
    PROVE  IInv'
  <1>1. ~At(w, "idle") /\ Step(w, Idle) /\ UNCHANGED <<balance, rows, call>>
        /\ givingUp' \in {givingUp, givingUp \cup {worker[w].row}}
    BY DEF Crash, Release, Stops, Kept, At
  <1>2. worker[w].row \in DOMAIN rows
    BY <1>1, WorkerFacts
  <1>3. rows' \in Seq(GoodRow) /\ SameRows /\ balance' \in [Addr -> Nat]
    BY <1>1, RowsKept DEF IInv
  <1>4. givingUp' \subseteq DOMAIN rows'
    BY <1>1, <1>2 DEF IInv, RowsExist
  <1> QED
    BY <1>1, <1>3, <1>4, SoundIdle, WorkerStep

LEMMA AbandonOk ==
    ASSUME IInv, NEW w \in Workers, Abandon(w)
    PROVE  IInv'
  <1>1. /\ ~At(w, "idle") /\ Step(w, Idle) /\ UNCHANGED <<call, givingUp>>
        /\ GiveBack(worker[w].row, "CANCELED")
    BY DEF Abandon, Stops
  <1>2. worker[w].row \in DOMAIN rows
    BY <1>1, WorkerFacts
  <1>3. balance' \in [Addr -> Nat] /\ rows' \in Seq(GoodRow) /\ SameRows
    BY <1>1, <1>2, GiveBackStep
  <1>4. givingUp' \subseteq DOMAIN rows'
    BY <1>1, <1>3 DEF IInv, RowsExist, SameRows
  <1> QED
    BY <1>1, <1>3, <1>4, SoundIdle, WorkerStep

LEMMA GiveUpOk ==
    ASSUME IInv, NEW i \in givingUp, GiveUp(i)
    PROVE  IInv'
  <1>1. i \in DOMAIN rows
    BY DEF IInv, RowsExist
  <1>2. givingUp' \subseteq givingUp /\ UNCHANGED <<worker, call>> /\ GiveBack(i, "CANCELED")
    BY DEF GiveUp
  <1>3. balance' \in [Addr -> Nat] /\ rows' \in Seq(GoodRow) /\ SameRows
    BY <1>1, <1>2, GiveBackStep
  <1>4. RowsExist' /\ TransferOfSend'
    BY <1>2, <1>3 DEF IInv, RowsExist, TransferOfSend, SameRows, At, Row
  <1> QED
    BY <1>2, <1>3, <1>4 DEF IInv

(* Only addresses get a row in current_state.                              *)
LEMMA AccountsStay ==
    ASSUME IInv, accounts \subseteq Addr, [Next]_vars
    PROVE  accounts' \subseteq Addr
  <1>1. ASSUME NEW i \in DOMAIN rows, Credit(i)
        PROVE  accounts' \subseteq Addr
    BY <1>1, RowFacts DEF Credit, Kept
  <1>2. ASSUME NEW i \in DOMAIN rows, NEW status, GiveBack(i, status)
        PROVE  accounts' \subseteq Addr
    <2>1. rows[i].from \in Addr \cup {None}
      BY RowFacts DEF RowSet
    <2> QED
      BY <1>2, <2>1 DEF GiveBack, Refund, Kept
  <1>3. ASSUME NEW c \in Callers,
               ReadDuplicate(c) \/ ReadBalance(c) \/ Submit(c) \/ InsertFaucet(c)
               \/ CreditFaucet(c) \/ CancelStatus(c) \/ CancelRefund(c)
        PROVE  accounts' \subseteq Addr
    <2>1. CASE ReadDuplicate(c)
      BY <2>1, SubmissionFacts DEF ReadDuplicate
    <2>2. CASE ReadBalance(c) \/ Submit(c) \/ InsertFaucet(c) \/ CancelStatus(c)
      BY <2>2 DEF ReadBalance, Submit, InsertFaucet, CancelStatus, Kept
    <2>3. CASE CreditFaucet(c) \/ CancelRefund(c)
      BY <1>1, <1>2, <2>3, CallFacts DEF CreditFaucet, CancelRefund
    <2> QED
      BY <1>3, <2>1, <2>2, <2>3
  <1>4. ASSUME NEW w \in Workers,
               Activate(w) \/ Abandon(w) \/ CreateRecipient(w)
        PROVE  accounts' \subseteq Addr
    <2>1. worker[w].row \in DOMAIN rows
      BY <1>4, WorkerFacts DEF Activate, Abandon, Stops, CreateRecipient, At
    <2> QED
      BY <1>1, <1>2, <1>4, <2>1, RowFacts DEF Activate, Abandon, CreateRecipient, Row
  <1>5. ASSUME NEW w \in Workers,
               Claim(w) \/ TransferDone(w) \/ TransferFails(w) \/ ReadFrom(w) \/ ReadTo(w)
               \/ WriteTransfer(w) \/ WriteCredit(w) \/ Undetermined(w) \/ Accept(w)
               \/ EmitNext(w) \/ Decide(w) \/ ClaimFinal(w)
               \/ Crash(w) \/ Release(w)
        PROVE  accounts' \subseteq Addr
    BY <1>5 DEF Claim, TransferDone, TransferFails, ReadFrom, ReadTo, WriteTransfer, WriteCredit,
       Undetermined, Accept, EmitNext, Decide, ClaimFinal, Crash, Release, Kept
  <1>6. ASSUME NEW w \in Workers,
               WithdrawAccepted(w) \/ WithdrawFinal(w) \/ AppealFails(w) \/ AppealSucceeds(w)
        PROVE  accounts' \subseteq Addr
    BY <1>6 DEF WithdrawAccepted, WithdrawFinal, Withdraw, AppealFails, AppealSucceeds, MayAppeal, Kept
  <1>7. ASSUME NEW i \in givingUp, GiveUp(i)
        PROVE  accounts' \subseteq Addr
    BY <1>2, <1>7 DEF GiveUp, IInv, RowsExist
  <1>8. CASE UNCHANGED vars
    BY <1>8 DEF vars
  <1> QED
    BY <1>3, <1>4, <1>5, <1>6, <1>7, <1>8 DEF Next

----------------------------------------------------------------------------
(* The theorems.                                                           *)

LEMMA StepKeeps == IInv /\ [Next]_vars => IInv'
  <1> SUFFICES ASSUME IInv, [Next]_vars PROVE IInv'
    OBVIOUS
  <1>1. ASSUME NEW c \in Callers,
               ReadDuplicate(c) \/ ReadBalance(c) \/ Submit(c) \/ InsertFaucet(c)
               \/ CreditFaucet(c) \/ CancelStatus(c) \/ CancelRefund(c)
        PROVE  IInv'
    BY <1>1, ReadDuplicateOk, ReadBalanceOk, SubmitOk, InsertFaucetOk, CreditFaucetOk,
       CancelStatusOk, CancelRefundOk
  <1>2. ASSUME NEW w \in Workers, WithdrawAccepted(w) \/ WithdrawFinal(w)
        PROVE  IInv'
    BY <1>2, WithdrawOk DEF WithdrawAccepted, WithdrawFinal, Phases, At
  <1>3. ASSUME NEW w \in Workers,
               Claim(w) \/ TransferDone(w) \/ TransferFails(w) \/ ReadFrom(w) \/ ReadTo(w)
               \/ CreateRecipient(w) \/ WriteTransfer(w) \/ WriteCredit(w)
               \/ Activate(w) \/ Undetermined(w) \/ Accept(w)
               \/ EmitNext(w) \/ Decide(w) \/ ClaimFinal(w) \/ AppealFails(w)
               \/ AppealSucceeds(w) \/ Crash(w) \/ Abandon(w) \/ Release(w)
        PROVE  IInv'
    BY <1>3, ClaimOk, TransferOk, ReadFromOk, ReadToOk, CreateRecipientOk, WriteTransferOk,
       ActivateOk, AcceptOk, EmitNextOk, AppealSucceedsOk, CrashOk, AbandonOk
  <1>4. ASSUME NEW i \in givingUp, GiveUp(i)
        PROVE  IInv'
    BY <1>4, GiveUpOk
  <1>5. CASE UNCHANGED vars
    BY <1>5 DEF vars, IInv, RowsExist, TransferOfSend, At, Row
  <1> QED
    BY <1>1, <1>2, <1>3, <1>4, <1>5 DEF Next

LEMMA Invariant == Spec => []IInv
  BY InitOk, StepKeeps, PTL DEF Spec

(* Requests, workers, crashes and appeals leave every balance an integer,  *)
(* every row well formed, and nobody with a row that is not there.         *)
THEOREM FundsTypeOK == Spec => []TypeOK
  <1>1. Init => accounts \subseteq Addr
    BY FundedIsOpened DEF Init
  <1>2. IInv /\ accounts \subseteq Addr /\ [Next]_vars => (accounts \subseteq Addr)'
    BY AccountsStay
  <1>3. IInv /\ accounts \subseteq Addr => TypeOK
    BY DEF IInv, TypeOK, GoodRow
  <1> QED
    BY <1>1, <1>2, <1>3, Invariant, PTL DEF Spec

(* No balance becomes negative, in any number of requests and workers that *)
(* race for it: every debit is guarded by what it takes it from.           *)
THEOREM FundsNoOverdraw == Spec => []NoOverdraw
  <1>1. IInv => NoOverdraw
    BY DEF IInv, NoOverdraw
  <1> QED
    BY <1>1, Invariant, PTL

(* Whatever makes a call be activated again, its value is credited to its  *)
(* contract at most once: value_credited never goes back.                  *)
THEOREM FundsCreditedOnce == Spec => []CreditedOnce
  <1>1. IInv => CreditedOnce
    <2> SUFFICES ASSUME IInv, NEW i \in DOMAIN rows, rows[i].kind = "call"
                 PROVE  rows[i].credits <= 1
      BY DEF CreditedOnce
    <2>1. rows[i].credits = IF rows[i].credited THEN 1 ELSE 0
      BY RowFacts DEF GoodRow
    <2> QED
      BY <2>1
  <1> QED
    BY <1>1, Invariant, PTL

----------------------------------------------------------------------------
(* Value is only moved.                                                    *)

(* Which rows were debited: calls that carry value, and the SENDs that are *)
(* no transfers of a caller (one that is may have been).                   *)
PaidRow(r) ==
    /\ r.kind = "call" /\ r.value > 0 => r.paid
    /\ r.kind = "send" /\ (r.triggered \/ r.from = None) => r.paid
    /\ r.triggered => r.from # None
PaidRows == \A i \in DOMAIN rows : PaidRow(rows[i])

(* When each acts alone:                                                   *)
Funded(i) == \E c \in Callers : call[c].step = "fund" /\ call[c].row = i
RefundedRow(i) ==       \* who gives back has canceled; nobody's value is credited soon
    /\ rows[i].refunds # 0 => rows[i].status = "CANCELED"
    /\ rows[i].from = None => /\ rows[i].kind = "send"
                              /\ rows[i].credited \/ rows[i].value = 0 \/ Funded(i)
HeldRow(w) ==           \* who holds a row holds one that is not canceled
    ~At(w, "idle") => Row(w).status # "CANCELED"
ToItself(r) == PaysNow(r) /\ r.from = r.to
FreshRead(w) ==         \* what a transfer has read is still so
    /\ worker[w].step \in {"to", "write", "credit"} => Row(w).kind = "send" /\ ~Row(w).credited
    /\ worker[w].step \in {"to", "write"} =>
         (PaysNow(Row(w)) => worker[w].rest = balance[Row(w).from] - Row(w).value)
    /\ At(w, "write") =>
         worker[w].total = Row(w).value
           + IF ToItself(Row(w)) THEN worker[w].rest ELSE balance[Row(w).to]
    /\ At(w, "credit") => Row(w).paid /\ worker[w].total = Row(w).value + balance[Row(w).to]
Released(i) ==          \* who gives up has released a row that nobody has touched since
    /\ rows[i].status # "CANCELED"
    /\ \A w \in Workers : ~At(w, "idle") => worker[w].row # i
Known(hash) == \E i \in DOMAIN rows : rows[i].hash = hash
FreshCall(c) ==         \* and what a request has read
    /\ call[c].step = "submit" => (call[c].duplicate <=> Known(call[c].of.hash))
    /\ call[c].step = "debit" =>
         /\ call[c].pays <=> Pays(call[c].of) /\ ~Known(call[c].of.hash)
         /\ call[c].read = balance[call[c].of.from]
    /\ call[c].step \in {"fund", "refund"} => rows[call[c].row].refunds = 0
    /\ call[c].step = "fund" => rows[call[c].row].status # "CANCELED" /\ rows[call[c].row].paid
    /\ call[c].step = "refund" => rows[call[c].row].status = "CANCELED"

(* The books balance; for a worker that emits, with what the messages that *)
(* are left will carry.                                                    *)
InHand == Sum(balance, Addr)
OnTheWay == Sum(InTransit, DOMAIN rows)
Settled == minted = lost + (InHand + OnTheWay)
SettledBy(w) == minted = lost + (InHand + OnTheWay + Owed(w))
Books ==
    /\ (\A w \in Workers : ~At(w, "emit")) => Settled
    /\ \A w \in Workers : At(w, "emit") => SettledBy(w)

Alone ==
    /\ \A i \in givingUp : Released(i) /\ \A p \in Workers \cup Callers : ~Busy(p)
    /\ \A i \in DOMAIN rows : RefundedRow(i)
    /\ \A w \in Workers : HeldRow(w) /\ FreshRead(w)
    /\ \A c \in Callers : FreshCall(c)
    /\ Books
ValueInv == IInv /\ minted \in Int /\ lost \in Int /\ PaidRows /\ (serial => Alone)

(* How the sums change.                                                    *)
LEMMA HandIsInt ==
    ASSUME balance \in [Addr -> Nat]
    PROVE  InHand \in Int
  <1>1. IsFiniteSet(Addr)
    BY FundingIsNat
  <1>2. \A a \in Addr : balance[a] \in Int
    OBVIOUS
  <1> QED
    BY <1>1, <1>2, TotalInt, SumIsTotal DEF InHand

LEMMA OneChanges ==
    ASSUME NEW f \in [Addr -> Nat], NEW a \in Addr, NEW n \in Nat
    PROVE  Sum([f EXCEPT ![a] = n], Addr) = Sum(f, Addr) - f[a] + n
  <1> DEFINE g == [f EXCEPT ![a] = n]
  <1>1. IsFiniteSet(Addr)
    BY FundingIsNat
  <1>2. g[a] = n /\ (\A b \in Addr \ {a} : g[b] = f[b])
    OBVIOUS
  <1>3. \A b \in Addr : f[b] \in Int /\ g[b] \in Int
    OBVIOUS
  <1> HIDE DEF g
  <1>4. Total(g, Addr) = Total(f, Addr) - f[a] + g[a]
    BY <1>1, <1>2, <1>3, TotalUpdate
  <1>5. Sum(g, Addr) = Sum(f, Addr) - f[a] + n
    BY <1>2, <1>4, SumIsTotal
  <1> QED
    BY <1>5 DEF g

LEMMA HandChanged ==
    ASSUME balance \in [Addr -> Nat], NEW a \in Addr, NEW n \in Nat,
           balance' = [balance EXCEPT ![a] = n]
    PROVE  InHand' = InHand - balance[a] + n
  <1>1. Sum([balance EXCEPT ![a] = n], Addr) = Sum(balance, Addr) - balance[a] + n
    BY OneChanges
  <1> QED
    BY <1>1 DEF InHand

LEMMA CarriedNat ==
    ASSUME NEW r \in RowSet
    PROVE  Carried(r) \in Nat
  BY DEF Carried, RowSet

LEMMA DomainFinite ==
    ASSUME NEW S, NEW s \in Seq(S)
    PROVE  IsFiniteSet(DOMAIN s)
  <1>1. DOMAIN s = 1..Len(s) /\ Len(s) \in Nat
    OBVIOUS
  <1> QED
    BY <1>1, FS_Interval

(* (The function that is summed, of any sequence of rows.)                *)
CarriedBy(s) == [i \in DOMAIN s |-> Carried(s[i])]
LEMMA CarriedByFacts ==
    ASSUME NEW s \in Seq(GoodRow)
    PROVE  /\ Total(CarriedBy(s), DOMAIN s) \in Int /\ IsFiniteSet(DOMAIN s)
           /\ \A i \in DOMAIN s : CarriedBy(s)[i] = Carried(s[i]) /\ CarriedBy(s)[i] \in Int
  <1>1. IsFiniteSet(DOMAIN s)
    BY DomainFinite
  <1>2. ASSUME NEW i \in DOMAIN s
        PROVE  CarriedBy(s)[i] = Carried(s[i]) /\ CarriedBy(s)[i] \in Int
    <2>1. s[i] \in GoodRow
      OBVIOUS
    <2>2. s[i] \in RowSet
      BY <2>1 DEF GoodRow
    <2> QED
      BY <2>2, CarriedNat DEF CarriedBy
  <1>3. Total(CarriedBy(s), DOMAIN s) \in Int
    BY <1>1, <1>2, TotalInt
  <1> QED
    BY <1>1, <1>2, <1>3

LEMMA WayFacts ==
    ASSUME IInv
    PROVE  /\ OnTheWay = Total(InTransit, DOMAIN rows) /\ OnTheWay \in Int
           /\ \A i \in DOMAIN rows : InTransit[i] = Carried(rows[i]) /\ InTransit[i] \in Int
           /\ IsFiniteSet(DOMAIN rows)
  <1>1. InTransit = CarriedBy(rows) /\ rows \in Seq(GoodRow)
    BY DEF InTransit, CarriedBy, IInv
  <1>2. OnTheWay = Total(InTransit, DOMAIN rows)
    BY SumIsTotal DEF OnTheWay
  <1> QED
    BY <1>1, <1>2, CarriedByFacts

LEMMA WayFactsNext ==
    ASSUME IInv'
    PROVE  /\ OnTheWay' = Total(InTransit', DOMAIN rows') /\ OnTheWay' \in Int
           /\ \A i \in DOMAIN rows' : InTransit'[i] = Carried(rows'[i]) /\ InTransit'[i] \in Int
           /\ IsFiniteSet(DOMAIN rows')
  <1>1. InTransit' = CarriedBy(rows') /\ rows' \in Seq(GoodRow)
    BY DEF InTransit, CarriedBy, IInv
  <1>2. OnTheWay' = Total(InTransit', DOMAIN rows')
    BY SumIsTotal DEF OnTheWay
  <1> QED
    BY <1>1, <1>2, CarriedByFacts

LEMMA WaySame ==
    ASSUME IInv, IInv', DOMAIN rows' = DOMAIN rows,
           \A i \in DOMAIN rows : Carried(rows'[i]) = Carried(rows[i])
    PROVE  OnTheWay' = OnTheWay
  <1>1. \A i \in DOMAIN rows : InTransit'[i] = InTransit[i]
    BY WayFacts, WayFactsNext
  <1>2. Total(InTransit', DOMAIN rows) = Total(InTransit, DOMAIN rows)
    BY <1>1, WayFacts, TotalSame
  <1> QED
    BY <1>2, WayFacts, WayFactsNext

LEMMA WayChanged ==
    ASSUME IInv, IInv', NEW i \in DOMAIN rows, NEW r, rows' = [rows EXCEPT ![i] = r]
    PROVE  OnTheWay' = OnTheWay - Carried(rows[i]) + Carried(r)
  <1>1. DOMAIN rows' = DOMAIN rows /\ rows'[i] = r
        /\ \A j \in DOMAIN rows \ {i} : rows'[j] = rows[j]
    BY DEF IInv
  <1>2. \A j \in DOMAIN rows : InTransit[j] \in Int /\ InTransit'[j] \in Int
    BY <1>1, WayFacts, WayFactsNext
  <1>3. \A j \in DOMAIN rows \ {i} : InTransit'[j] = InTransit[j]
    BY <1>1, WayFacts, WayFactsNext
  <1>4. Total(InTransit', DOMAIN rows) = Total(InTransit, DOMAIN rows) - InTransit[i] + InTransit'[i]
    BY <1>2, <1>3, WayFacts, TotalUpdate
  <1>5. InTransit[i] = Carried(rows[i]) /\ InTransit'[i] = Carried(r)
    BY <1>1, WayFacts, WayFactsNext
  <1> QED
    BY <1>1, <1>4, <1>5, WayFacts, WayFactsNext

LEMMA WayAdded ==
    ASSUME IInv, IInv', NEW r, rows' = Append(rows, r)
    PROVE  OnTheWay' = OnTheWay + Carried(r)
  <1> DEFINE n == Len(rows) + 1
  <1>1. rows \in Seq(GoodRow)
    BY DEF IInv
  <1>2. /\ DOMAIN rows' = DOMAIN rows \cup {n} /\ n \notin DOMAIN rows
        /\ rows'[n] = r /\ \A j \in DOMAIN rows : rows'[j] = rows[j]
    BY <1>1
  <1> HIDE DEF n
  <1>3. \A j \in DOMAIN rows : InTransit'[j] = InTransit[j]
    BY <1>2, WayFacts, WayFactsNext
  <1>4. InTransit'[n] = Carried(r) /\ InTransit'[n] \in Int
    BY <1>2, WayFactsNext
  <1>5. \A j \in DOMAIN rows : InTransit'[j] \in Int
    BY <1>2, WayFactsNext
  <1>6. Total(InTransit', DOMAIN rows \cup {n}) = InTransit'[n] + Total(InTransit', DOMAIN rows)
    BY <1>2, <1>4, <1>5, WayFacts, TotalAdd
  <1>7. Total(InTransit', DOMAIN rows) = Total(InTransit, DOMAIN rows)
    BY <1>3, WayFacts, TotalSame
  <1> QED
    BY <1>2, <1>4, <1>6, <1>7, WayFacts, WayFactsNext
(* What no step changes of a row, and what no worker does to one.          *)
Same(q, r) ==
    /\ q.hash = r.hash /\ q.kind = r.kind /\ q.from = r.from /\ q.to = r.to
    /\ q.value = r.value /\ q.emits = r.emits /\ q.triggered = r.triggered /\ (q.paid => r.paid)
Older(q, r) ==
    /\ Same(q, r) /\ r.refunds = q.refunds /\ (q.credited => r.credited)
    /\ r.status = "CANCELED" <=> q.status = "CANCELED"
Newborn(r) == PaidRow(r) /\ r.refunds = 0 /\ r.from # None
Grown ==
    /\ DOMAIN rows \subseteq DOMAIN rows'
    /\ \A i \in DOMAIN rows : Older(rows[i], rows'[i])
    /\ \A i \in DOMAIN rows' \ DOMAIN rows : Newborn(rows'[i])

(* What is enough of a step that gives value back, or reopens rows.        *)
Ages(w) ==
    /\ DOMAIN rows \subseteq DOMAIN rows'
    /\ \A i \in DOMAIN rows :
         /\ Same(rows[i], rows'[i])
         /\ rows[i].credited => rows'[i].credited
    /\ \A i \in DOMAIN rows' : rows'[i].refunds # 0 => rows'[i].status = "CANCELED"
    /\ \A i \in DOMAIN rows' \ DOMAIN rows : Newborn(rows'[i])
    /\ \A v \in Workers \ {w} : HeldRow(v)'

LEMMA PaidKept ==
    ASSUME PaidRows, DOMAIN rows' = DOMAIN rows, \A i \in DOMAIN rows : Same(rows[i], rows'[i])
    PROVE  PaidRows'
  BY DEF PaidRows, PaidRow, Same

LEMMA PaidAdded ==
    ASSUME PaidRows, rows \in Seq(GoodRow), NEW r, PaidRow(r), rows' = Append(rows, r)
    PROVE  PaidRows'
  <1>1. \A i \in DOMAIN rows' : rows'[i] = r \/ (i \in DOMAIN rows /\ rows'[i] = rows[i])
    OBVIOUS
  <1> QED
    BY <1>1 DEF PaidRows

LEMMA PaidGrown ==
    ASSUME PaidRows, Grown
    PROVE  PaidRows'
  BY DEF PaidRows, PaidRow, Same, Older, Grown, Newborn

(* Who acts is alone.                                                      *)
LEMMA WorkerAlone ==
    ASSUME serial, NEW w \in Workers, Turn(w)
    PROVE  /\ \A v \in Workers \ {w} : worker[v].step \notin {"to", "write", "credit", "emit"}
           /\ \A c \in Callers : call[c].step \notin {"submit", "debit", "fund", "refund"}
           /\ givingUp = {}
  BY WorkersAreNotCallers DEF Turn, Busy

LEMMA CallerAlone ==
    ASSUME serial, NEW c \in Callers, Turn(c)
    PROVE  /\ \A v \in Workers : worker[v].step \notin {"to", "write", "credit", "emit"}
           /\ \A d \in Callers \ {c} : call[d].step \notin {"submit", "debit", "fund", "refund"}
           /\ givingUp = {}
  BY WorkersAreNotCallers DEF Turn, Busy

LEMMA GrownAges ==
    ASSUME ValueInv, serial, NEW w \in Workers, Turn(w), NEW s, worker' = [worker EXCEPT ![w] = s],
           Grown
    PROVE  Ages(w)
  <1>1. ASSUME NEW i \in DOMAIN rows'
        PROVE  rows'[i].refunds # 0 => rows'[i].status = "CANCELED"
    <2>1. CASE i \in DOMAIN rows
      <3>1. RefundedRow(i) /\ Older(rows[i], rows'[i])
        BY <2>1 DEF ValueInv, Alone, Grown
      <3> QED
        BY <3>1 DEF RefundedRow, Older
    <2>2. CASE i \notin DOMAIN rows
      BY <2>2 DEF Grown, Newborn
    <2> QED
      BY <2>1, <2>2
  <1>2. ASSUME NEW v \in Workers \ {w} PROVE HeldRow(v)'
    <2>1. worker'[v] = worker[v] /\ HeldRow(v)
      BY DEF ValueInv, IInv, Alone
    <2>2. ~At(v, "idle") => worker[v].row \in DOMAIN rows
      BY DEF ValueInv, IInv, RowsExist
    <2>3. ~At(v, "idle") => Older(rows[worker[v].row], rows'[worker[v].row])
      BY <2>2 DEF Grown
    <2> QED
      BY <2>1, <2>3 DEF HeldRow, At, Row, Older
  <1> QED
    BY <1>1, <1>2 DEF Ages, Grown, Older

(* A step of a worker, for all but the books.                              *)
LEMMA WorkerKeeps ==
    ASSUME ValueInv, serial, NEW w \in Workers, Turn(w), NEW s, worker' = [worker EXCEPT ![w] = s],
           UNCHANGED call, Ages(w), HeldRow(w)', FreshRead(w)'
    PROVE  /\ \A i \in DOMAIN rows' : RefundedRow(i)'
           /\ \A v \in Workers : HeldRow(v)' /\ FreshRead(v)'
           /\ \A c \in Callers : FreshCall(c)'
  <1>1. ASSUME NEW i \in DOMAIN rows' PROVE RefundedRow(i)'
    <2>1. ~Funded(i)
      BY WorkerAlone DEF Funded
    <2>2. CASE i \in DOMAIN rows
      <3>1. RefundedRow(i)
        BY <2>2 DEF ValueInv, Alone
      <3>2. /\ Same(rows[i], rows'[i]) /\ (rows[i].credited => rows'[i].credited)
            /\ rows'[i].refunds # 0 => rows'[i].status = "CANCELED"
        BY <2>2 DEF Ages
      <3> QED
        BY <2>1, <3>1, <3>2 DEF RefundedRow, Same
    <2>3. CASE i \notin DOMAIN rows
      <3>1. Newborn(rows'[i])
        BY <2>3 DEF Ages
      <3> QED
        BY <3>1 DEF RefundedRow, Newborn
    <2> QED
      BY <2>2, <2>3
  <1>2. ASSUME NEW v \in Workers, v # w PROVE HeldRow(v)' /\ FreshRead(v)'
    <2>1. worker'[v] = worker[v] /\ worker[v].step \notin {"to", "write", "credit", "emit"}
      BY <1>2, WorkerAlone DEF ValueInv, IInv
    <2>2. FreshRead(v)'
      BY <2>1 DEF FreshRead, At
    <2> QED
      BY <1>2, <2>2 DEF Ages
  <1>3. ASSUME NEW c \in Callers PROVE FreshCall(c)'
    BY WorkerAlone DEF FreshCall
  <1> QED
    BY <1>1, <1>2, <1>3

(* And the books: what the worker has yet to emit counts.                  *)
LEMMA NoDue ==
    ASSUME NEW w, ~At(w, "emit")
    PROVE  Owed(w) = 0
  BY DEF Owed

LEMMA SumsAreInts ==
    ASSUME IInv
    PROVE  InHand \in Int /\ OnTheWay \in Int
  <1>1. balance \in [Addr -> Nat]
    BY DEF IInv
  <1> QED
    BY <1>1, HandIsInt, WayFacts

LEMMA SumsAreIntsNext ==
    ASSUME IInv'
    PROVE  InHand' \in Int /\ OnTheWay' \in Int
  <1>1. IsFiniteSet(Addr) /\ \A a \in Addr : balance'[a] \in Int
    BY FundingIsNat DEF IInv
  <1>2. InHand' = Total(balance', Addr)
    BY SumIsTotal DEF InHand
  <1>3. Total(balance', Addr) \in Int
    BY <1>1, TotalInt
  <1> QED
    BY <1>2, <1>3, WayFactsNext

LEMMA SettledNow ==
    ASSUME ValueInv, serial, NEW w \in Workers, Turn(w)
    PROVE  SettledBy(w)
  <1>1. CASE At(w, "emit")
    BY <1>1 DEF ValueInv, Alone, Books
  <1>2. CASE ~At(w, "emit")
    <2>1. Settled
      BY <1>2, WorkerAlone DEF ValueInv, Alone, Books, At
    <2>2. Owed(w) = 0 /\ InHand \in Int /\ OnTheWay \in Int
      BY <1>2, NoDue, SumsAreInts DEF ValueInv
    <2> QED
      BY <2>1, <2>2 DEF Settled, SettledBy
  <1> QED
    BY <1>1, <1>2

LEMMA WorkerBooks ==
    ASSUME ValueInv, IInv', serial, NEW w \in Workers, Turn(w), NEW s,
           worker' = [worker EXCEPT ![w] = s], SettledBy(w)'
    PROVE  Books'
  <1>1. \A v \in Workers : v # w => ~At(v, "emit")'
    BY WorkerAlone DEF ValueInv, IInv, At
  <1>2. CASE At(w, "emit")'
    BY <1>1, <1>2 DEF Books
  <1>3. CASE ~At(w, "emit")'
    <2>1. Owed(w)' = 0 /\ InHand' \in Int /\ OnTheWay' \in Int
      BY <1>3, SumsAreIntsNext DEF Owed
    <2>2. Settled'
      BY <2>1 DEF Settled, SettledBy
    <2> QED
      BY <1>1, <1>3, <2>2 DEF Books
  <1> QED
    BY <1>2, <1>3

LEMMA WorkerCounts ==
    ASSUME ValueInv, IInv', NEW w \in Workers, Turn(w), NEW s, worker' = [worker EXCEPT ![w] = s],
           UNCHANGED <<call, givingUp, serial>>, minted' \in Int, lost' \in Int, PaidRows',
           serial /\ SettledBy(w) => Ages(w) /\ HeldRow(w)' /\ FreshRead(w)' /\ SettledBy(w)'
    PROVE  ValueInv'
  <1>1. ASSUME serial PROVE Alone'
    <2>1. Ages(w) /\ HeldRow(w)' /\ FreshRead(w)' /\ SettledBy(w)'
      BY <1>1, SettledNow
    <2>2. Books'
      BY <1>1, <2>1, WorkerBooks
    <2>3. givingUp' = {}
      BY <1>1, WorkerAlone
    <2> QED
      BY <1>1, <2>1, <2>2, <2>3, WorkerKeeps DEF Alone
  <1> QED
    BY <1>1 DEF ValueInv

LEMMA WorkerOk ==
    ASSUME ValueInv, IInv', NEW w \in Workers, Turn(w), NEW s, worker' = [worker EXCEPT ![w] = s],
           UNCHANGED <<call, givingUp, serial, minted, lost>>, PaidRows',
           serial => /\ Grown /\ HeldRow(w)' /\ FreshRead(w)'
                     /\ InHand' + OnTheWay' + Owed(w)' = InHand + OnTheWay + Owed(w)
    PROVE  ValueInv'
  <1>1. minted' \in Int /\ lost' \in Int
    BY DEF ValueInv
  <1>2. ASSUME serial, SettledBy(w) PROVE Ages(w) /\ SettledBy(w)'
    BY <1>2, GrownAges DEF SettledBy
  <1> QED
    BY <1>1, <1>2, WorkerCounts

LEMMA RowsStay ==
    ASSUME ValueInv, IInv', UNCHANGED rows
    PROVE  PaidRows' /\ Grown /\ OnTheWay' = OnTheWay
  <1>1. \A i \in DOMAIN rows : Older(rows[i], rows'[i]) /\ Same(rows[i], rows'[i])
    BY DEF Older, Same
  <1> QED
    BY <1>1, PaidKept, WaySame DEF ValueInv, Grown

LEMMA OneRow ==
    ASSUME ValueInv, IInv', NEW i \in DOMAIN rows, NEW r, rows' = [rows EXCEPT ![i] = r],
           Same(rows[i], r)
    PROVE  /\ PaidRows' /\ rows'[i] = r /\ DOMAIN rows' = DOMAIN rows
           /\ Older(rows[i], r) => Grown
           /\ OnTheWay' = OnTheWay - Carried(rows[i]) + Carried(r)
  <1>1. /\ DOMAIN rows' = DOMAIN rows /\ rows'[i] = r
        /\ \A j \in DOMAIN rows : j # i => rows'[j] = rows[j]
    BY DEF ValueInv, IInv
  <1>2. \A j \in DOMAIN rows : Same(rows[j], rows'[j])
    BY <1>1 DEF Same
  <1>3. Older(rows[i], r) => \A j \in DOMAIN rows : Older(rows[j], rows'[j])
    BY <1>1 DEF Older, Same
  <1>4. Older(rows[i], r) => Grown
    BY <1>1, <1>3 DEF Grown
  <1> QED
    BY <1>1, <1>2, <1>4, PaidKept, WayChanged DEF ValueInv

LEMMA NewRowCounts ==
    ASSUME ValueInv, IInv', NEW r, rows' = Append(rows, r), PaidRow(r)
    PROVE  /\ PaidRows' /\ OnTheWay' = OnTheWay + Carried(r)
           /\ Newborn(r) => Grown
  <1>1. rows \in Seq(GoodRow)
    BY DEF ValueInv, IInv
  <1>2. /\ DOMAIN rows \subseteq DOMAIN rows'
        /\ \A i \in DOMAIN rows : rows'[i] = rows[i]
        /\ \A i \in DOMAIN rows' \ DOMAIN rows : rows'[i] = r
    BY <1>1
  <1>3. \A i \in DOMAIN rows : Older(rows[i], rows'[i])
    BY <1>2 DEF Older, Same
  <1> QED
    BY <1>1, <1>2, <1>3, PaidAdded, WayAdded DEF ValueInv, Grown

LEMMA HandStays ==
    ASSUME UNCHANGED balance
    PROVE  InHand' = InHand
  BY DEF InHand

(* A row has another status, or another result.                            *)
LEMMA OtherStatus ==
    ASSUME NEW r \in RowSet, NEW status
    PROVE  LET q == [r EXCEPT !.status = status]
           IN /\ Same(r, q) /\ q.status = status /\ Carried(q) = Carried(r) /\ q.refunds = r.refunds
              /\ status # "CANCELED" /\ r.status # "CANCELED" => Older(r, q)
  <1> DEFINE q == [r EXCEPT !.status = status]
  <1>1. Same(r, q) /\ q.status = status /\ q.refunds = r.refunds /\ q.credited = r.credited
        /\ q.paid = r.paid
    BY DEF RowSet, Same
  <1> HIDE DEF q
  <1>2. Carried(q) = Carried(r)
    BY <1>1 DEF Carried, Same
  <1>3. status # "CANCELED" /\ r.status # "CANCELED" => Older(r, q)
    BY <1>1 DEF Older
  <1> QED
    BY <1>1, <1>2, <1>3 DEF q

LEMMA OtherResult ==
    ASSUME NEW r \in RowSet, NEW ok
    PROVE  LET q == [r EXCEPT !.ok = ok]
           IN Same(r, q) /\ q.status = r.status /\ Carried(q) = Carried(r) /\ Older(r, q)
  <1> DEFINE q == [r EXCEPT !.ok = ok]
  <1>1. Same(r, q) /\ q.status = r.status /\ q.refunds = r.refunds /\ q.credited = r.credited
        /\ q.paid = r.paid
    BY DEF RowSet, Same
  <1> HIDE DEF q
  <1>2. Carried(q) = Carried(r)
    BY <1>1 DEF Carried, Same
  <1> QED
    BY <1>1, <1>2 DEF q, Older
(* Steps of workers that move no value.                                    *)
LEMMA HoldsNow ==
    ASSUME IInv, NEW w \in Workers, NEW s, Step(w, s), s.step \notin {"to", "write", "credit"},
           s.step # "idle" => rows'[s.row].status # "CANCELED"
    PROVE  HeldRow(w)' /\ FreshRead(w)' /\ worker' = [worker EXCEPT ![w] = s]
           /\ (s.step # "emit" => Owed(w)' = 0)
  <1>1. worker' = [worker EXCEPT ![w] = s] /\ worker'[w] = s
    BY DEF Step, IInv
  <1>2. HeldRow(w)'
    BY <1>1 DEF HeldRow, At, Row
  <1>3. FreshRead(w)'
    BY <1>1 DEF FreshRead, At
  <1>4. s.step # "emit" => Owed(w)' = 0
    BY <1>1 DEF Owed, At
  <1> QED
    BY <1>1, <1>2, <1>3, <1>4

LEMMA NothingMoves ==
    ASSUME ValueInv, IInv', NEW w \in Workers, Turn(w), NEW s, Step(w, s), ~At(w, "emit"),
           UNCHANGED <<call, givingUp, serial, minted, lost, rows, balance>>,
           s.step \notin {"to", "write", "credit", "emit"},
           serial /\ s.step # "idle" => rows[s.row].status # "CANCELED"
    PROVE  ValueInv'
  <1>1. PaidRows' /\ Grown /\ OnTheWay' = OnTheWay /\ InHand' = InHand
    BY RowsStay, HandStays
  <1>2. worker' = [worker EXCEPT ![w] = s]
    BY DEF Step
  <1>3. ASSUME serial
        PROVE  HeldRow(w)' /\ FreshRead(w)' /\ Owed(w)' = 0 /\ Owed(w) = 0
    <2>1. rows'[s.row] = rows[s.row]
      OBVIOUS
    <2> QED
      BY <1>3, <2>1, HoldsNow, NoDue DEF ValueInv
  <1> QED
    BY <1>1, <1>2, <1>3, WorkerOk

LEMMA ClaimMovesNothing ==
    ASSUME ValueInv, IInv', NEW w \in Workers, Turn(w), Claim(w)
    PROVE  ValueInv'
  <1>1. PICK i \in DOMAIN rows : rows[i].status = "PENDING" /\ Step(w, [step |-> "pending", row |-> i])
    BY Zenon DEF Claim
  <1>2. UNCHANGED <<call, givingUp, serial, minted, lost, rows, balance>> /\ ~At(w, "emit")
    BY DEF Claim, Calm, At, Kept
  <1> QED
    BY <1>1, <1>2, NothingMoves

LEMMA AppealFailsMovesNothing ==
    ASSUME ValueInv, IInv', NEW w \in Workers, Turn(w), AppealFails(w)
    PROVE  ValueInv'
  <1>1. PICK i \in DOMAIN rows :
           MayAppeal(w, i) /\ Step(w, [step |-> "again", row |-> i]) /\ UNCHANGED <<rows, minted>>
    BY DEF AppealFails
  <1>2. /\ UNCHANGED <<call, givingUp, serial, minted, lost, rows, balance>> /\ ~At(w, "emit")
        /\ rows[i].status = "ACCEPTED"
    BY <1>1 DEF MayAppeal, Kept, At
  <1> QED
    BY <1>1, <1>2, NothingMoves

(* A worker that goes on to hold a row, or none, and gives it a status.    *)
LEMMA StatusMoves ==
    ASSUME ValueInv, IInv', NEW w \in Workers, Turn(w), NEW s, NEW i \in DOMAIN rows, NEW status,
           rows' = [rows EXCEPT ![i].status = status], status # "CANCELED",
           serial => rows[i].status # "CANCELED",
           worker' = [worker EXCEPT ![w] = s], s.step = "idle", serial => Owed(w) = 0,
           UNCHANGED <<call, givingUp, serial, minted, lost, balance>>
    PROVE  ValueInv'
  <1> DEFINE q == [rows[i] EXCEPT !.status = status]
  <1>1. rows[i] \in RowSet /\ rows' = [rows EXCEPT ![i] = q]
    BY RowFacts DEF ValueInv
  <1>2. /\ Same(rows[i], q) /\ Carried(q) = Carried(rows[i])
        /\ serial => Older(rows[i], q)
    BY <1>1, OtherStatus
  <1> HIDE DEF q
  <1>3. PaidRows' /\ (serial => Grown) /\ OnTheWay' = OnTheWay - Carried(rows[i]) + Carried(q)
    BY <1>1, <1>2, OneRow
  <1>4. OnTheWay' = OnTheWay
    <2>1. OnTheWay \in Int /\ Carried(rows[i]) \in Int
      BY <1>1, SumsAreInts, CarriedNat DEF ValueInv
    <2> QED
      BY <1>2, <1>3, <2>1
  <1>5. HeldRow(w)' /\ FreshRead(w)' /\ Owed(w)' = 0
    <2>1. Step(w, s) /\ s.step \notin {"to", "write", "credit", "emit"}
      BY DEF Step
    <2> QED
      BY <2>1, HoldsNow DEF ValueInv
  <1> QED
    BY <1>3, <1>4, <1>5, HandStays, WorkerOk

LEMMA TransferStatus ==
    ASSUME ValueInv, IInv', NEW w \in Workers, Turn(w),
           TransferDone(w) \/ TransferFails(w) \/ Undetermined(w) \/ Decide(w)
    PROVE  ValueInv'
  <1> DEFINE i == worker[w].row
  <1>1. ~At(w, "idle")
    BY DEF TransferDone, TransferFails, Undetermined, Decide, At
  <1>2. i \in DOMAIN rows
    BY <1>1, WorkerFacts DEF ValueInv
  <1>3. PICK status \in {"FINALIZED", "UNDETERMINED", "ACCEPTED"} :
          rows' = [rows EXCEPT ![i].status = status]
    BY DEF TransferDone, TransferFails, Undetermined, Decide
  <1>4. Step(w, Idle) /\ Calm /\ UNCHANGED balance
    BY DEF TransferDone, TransferFails, Undetermined, Decide, Kept
  <1>5. serial => rows[i].status # "CANCELED"
    BY <1>1 DEF ValueInv, Alone, HeldRow, Row
  <1>6. Owed(w) = 0
    <2>1. CASE At(w, "emit")
      <3>1. worker[w].left = {}
        BY <2>1 DEF TransferDone, TransferFails, Undetermined, Decide, At
      <3>2. Owed(w) = 0
        BY <3>1, TotalEmpty, SumIsTotal DEF Owed
      <3> QED
        BY <3>2
    <2> QED
      BY <2>1, NoDue
  <1>7. worker' = [worker EXCEPT ![w] = Idle] /\ Idle.step = "idle" /\ status # "CANCELED"
        /\ UNCHANGED <<call, givingUp, serial, minted, lost, balance>>
    BY <1>4 DEF Step, Idle, Calm
  <1> QED
    BY <1>2, <1>3, <1>5, <1>6, <1>7, StatusMoves

LEMMA ClaimFinalMovesNothing ==
    ASSUME ValueInv, IInv', NEW w \in Workers, Turn(w), ClaimFinal(w)
    PROVE  ValueInv'
  <1>1. PICK i \in DOMAIN rows :
           /\ rows[i].status \in Decided
           /\ \/ Step(w, [step |-> "final", row |-> i]) /\ UNCHANGED rows
              \/ rows' = [rows EXCEPT ![i].status = "FINALIZED"] /\ UNCHANGED worker
    BY Zenon DEF ClaimFinal
  <1>2. UNCHANGED <<call, givingUp, serial, minted, lost, balance>> /\ At(w, "idle") /\ ~At(w, "emit")
    BY DEF ClaimFinal, Calm, At, Kept
  <1>3. rows[i].status # "CANCELED"
    BY <1>1 DEF Decided
  <1>4. CASE Step(w, [step |-> "final", row |-> i]) /\ UNCHANGED rows
    BY <1>1, <1>2, <1>3, <1>4, NothingMoves
  <1>5. CASE rows' = [rows EXCEPT ![i].status = "FINALIZED"] /\ UNCHANGED worker
    <2>1. worker' = [worker EXCEPT ![w] = worker[w]] /\ worker[w].step = "idle"
      BY <1>2, <1>5 DEF ValueInv, IInv, At
    <2> QED
      BY <1>2, <1>3, <1>5, <2>1, NoDue, StatusMoves
  <1> QED
    BY <1>1, <1>4, <1>5
LEMMA AcceptMovesNothing ==
    ASSUME ValueInv, IInv', NEW w \in Workers, Turn(w), Accept(w)
    PROVE  ValueInv'
  <1> DEFINE i == worker[w].row
             s == [step |-> "accepted", row |-> i]
  <1>1. worker[w].step \in {"round", "again"} /\ ~At(w, "idle") /\ ~At(w, "emit")
    BY DEF Accept, At
  <1>2. i \in DOMAIN rows /\ Step(w, s) /\ UNCHANGED <<call, givingUp, serial, minted, lost, balance>>
    BY <1>1, WorkerFacts DEF ValueInv, Accept, Calm, Kept, Holding
  <1>3. PICK ok : rows' = [rows EXCEPT ![i].ok = ok]
    BY DEF Accept
  <1> DEFINE q == [rows[i] EXCEPT !.ok = ok]
  <1>4. rows[i] \in RowSet /\ rows' = [rows EXCEPT ![i] = q]
    BY <1>2, <1>3, RowFacts DEF ValueInv
  <1>5. /\ Same(rows[i], q) /\ q.status = rows[i].status /\ Carried(q) = Carried(rows[i])
        /\ Older(rows[i], q)
    BY <1>4, OtherResult
  <1> HIDE DEF q
  <1>6. PaidRows' /\ Grown /\ rows'[i] = q /\ OnTheWay' = OnTheWay - Carried(rows[i]) + Carried(q)
    BY <1>2, <1>4, <1>5, OneRow
  <1>7. OnTheWay' = OnTheWay
    <2>1. OnTheWay \in Int /\ Carried(rows[i]) \in Int
      BY <1>4, SumsAreInts, CarriedNat DEF ValueInv
    <2> QED
      BY <1>5, <1>6, <2>1
  <1>8. ASSUME serial
        PROVE  HeldRow(w)' /\ FreshRead(w)' /\ Owed(w)' = 0
    <2>1. rows'[i].status # "CANCELED"
      BY <1>1, <1>5, <1>6, <1>8 DEF ValueInv, Alone, HeldRow, Row
    <2>2. s.step = "accepted" /\ s.row = i
      OBVIOUS
    <2> HIDE DEF s
    <2> QED
      BY <1>2, <2>1, <2>2, HoldsNow DEF ValueInv
  <1>9. worker' = [worker EXCEPT ![w] = s]
    BY <1>2 DEF Step
  <1> QED
    BY <1>1, <1>2, <1>6, <1>7, <1>8, <1>9, NoDue, HandStays, WorkerOk

(* A transfer reads.                                                       *)
LEMMA ReadFromMovesNothing ==
    ASSUME ValueInv, IInv', NEW w \in Workers, Turn(w), ReadFrom(w)
    PROVE  ValueInv'
  <1> DEFINE i == worker[w].row
             rest == IF PaysNow(Row(w)) THEN balance[Row(w).from] - Row(w).value ELSE 0
             s == [step |-> "to", row |-> i, rest |-> rest]
  <1>1. /\ Step(w, s) /\ UNCHANGED <<call, givingUp, serial, minted, lost, rows, balance>>
        /\ ~At(w, "idle") /\ ~At(w, "emit") /\ rows[i].kind = "send" /\ ~rows[i].credited
    BY DEF ReadFrom, Calm, Row, At, Kept
  <1>2. worker' = [worker EXCEPT ![w] = s] /\ worker'[w] = s
    BY <1>1 DEF Step, ValueInv, IInv
  <1>3. PaysNow(rows[i]) => rest = balance[rows[i].from] - rows[i].value
    BY DEF Row
  <1> HIDE DEF rest
  <1>4. s.step = "to" /\ s.row = i /\ s.rest = rest
    OBVIOUS
  <1> HIDE DEF s
  <1>5. ASSUME serial PROVE HeldRow(w)'
    <2>1. rows[i].status # "CANCELED"
      BY <1>1, <1>5 DEF ValueInv, Alone, HeldRow, Row
    <2> QED
      BY <1>1, <1>2, <1>4, <2>1 DEF HeldRow, At, Row
  <1>6. FreshRead(w)'
    <2>1. Row(w)' = rows[i] /\ worker'[w].rest = rest /\ worker'[w].step = "to"
      BY <1>1, <1>2, <1>4 DEF Row
    <2>2. PaysNow(Row(w))' => PaysNow(rows[i])
      BY <2>1 DEF PaysNow
    <2> QED
      BY <1>1, <1>3, <2>1, <2>2 DEF FreshRead, At
  <1>7. Owed(w)' = 0 /\ Owed(w) = 0
    BY <1>1, <1>2, <1>4 DEF Owed, At
  <1>8. PaidRows' /\ Grown /\ OnTheWay' = OnTheWay /\ InHand' = InHand
    BY <1>1, RowsStay, HandStays
  <1> QED
    BY <1>1, <1>2, <1>5, <1>6, <1>7, <1>8, WorkerOk

LEMMA ReadToMovesNothing ==
    ASSUME ValueInv, IInv', NEW w \in Workers, Turn(w), ReadTo(w)
    PROVE  ValueInv'
  <1> DEFINE i == worker[w].row
             self == PaysNow(rows[i]) /\ rows[i].from = rows[i].to
             total == (IF self THEN worker[w].rest ELSE balance[rows[i].to]) + rows[i].value
             s == [step |-> "write", row |-> i, rest |-> worker[w].rest, total |-> total]
  <1>1. /\ Step(w, s) /\ UNCHANGED <<call, givingUp, serial, minted, lost, rows, balance>>
        /\ At(w, "to") /\ ~At(w, "idle") /\ ~At(w, "emit")
    BY DEF ReadTo, Calm, Row, At, Kept
  <1>2. worker' = [worker EXCEPT ![w] = s] /\ worker'[w] = s
    BY <1>1 DEF Step, ValueInv, IInv
  <1>3. i \in DOMAIN rows /\ worker[w].rest \in Nat
    BY <1>1, WorkerFacts DEF ValueInv
  <1>4. rows[i].value \in Nat /\ balance[rows[i].to] \in Nat
    BY <1>3, RowFacts DEF ValueInv, IInv
  <1>5. /\ self => total = rows[i].value + worker[w].rest
        /\ ~self => total = rows[i].value + balance[rows[i].to]
    BY <1>3, <1>4
  <1> HIDE DEF total
  <1>6. s.step = "write" /\ s.row = i /\ s.rest = worker[w].rest /\ s.total = total
    OBVIOUS
  <1> HIDE DEF s
  <1>7. ASSUME serial PROVE HeldRow(w)' /\ FreshRead(w)'
    <2>1. HeldRow(w) /\ FreshRead(w)
      BY <1>7 DEF ValueInv, Alone
    <2>2. /\ rows[i].status # "CANCELED" /\ rows[i].kind = "send" /\ ~rows[i].credited
          /\ PaysNow(rows[i]) => worker[w].rest = balance[rows[i].from] - rows[i].value
      BY <1>1, <2>1 DEF HeldRow, FreshRead, At, Row
    <2>3. /\ worker'[w].row = i /\ worker'[w].rest = worker[w].rest /\ worker'[w].step = "write"
          /\ worker'[w].total = total
      BY <1>2, <1>6
    <2>4. Row(w)' = rows[i]
      BY <1>1, <2>3 DEF Row
    <2>5. HeldRow(w)'
      BY <2>2, <2>3, <2>4 DEF HeldRow, At
    <2>6. PaysNow(Row(w))' <=> PaysNow(rows[i])
      BY <2>4 DEF PaysNow
    <2>7. total = rows[i].value + IF ToItself(rows[i]) THEN worker[w].rest ELSE balance[rows[i].to]
      BY <1>5 DEF ToItself
    <2>8. FreshRead(w)'
      <3>1. ToItself(Row(w))' <=> ToItself(rows[i])
        BY <2>4, <2>6 DEF ToItself
      <3> QED
        BY <1>1, <2>2, <2>3, <2>4, <2>6, <2>7, <3>1 DEF FreshRead, At
    <2> QED
      BY <2>5, <2>8
  <1>8. Owed(w)' = 0 /\ Owed(w) = 0
    BY <1>1, <1>2, <1>6 DEF Owed, At
  <1>9. PaidRows' /\ Grown /\ OnTheWay' = OnTheWay /\ InHand' = InHand
    BY <1>1, RowsStay, HandStays
  <1> QED
    BY <1>1, <1>2, <1>7, <1>8, <1>9, WorkerOk
(* A transfer writes: what the sender or the row had, the receiver has.    *)
LEMMA TransferredRow ==
    ASSUME NEW r \in RowSet, NEW credited \in BOOLEAN
    PROVE  LET q == [r EXCEPT !.status = "FINALIZED", !.credited = credited, !.credits = @ + 1]
           IN Same(r, q) /\ q.status = "FINALIZED" /\ q.refunds = r.refunds /\ q.credited = credited
  BY DEF RowSet, Same

LEMMA TransferRow ==
    ASSUME ValueInv, NEW w \in Workers, At(w, "write") \/ At(w, "credit")
    PROVE  /\ worker[w].row \in DOMAIN rows /\ Row(w) \in RowSet /\ Row(w).kind = "send"
           /\ Row(w).value \in Nat /\ Row(w).to \in Addr /\ Row(w).paid \in BOOLEAN
           /\ PaysNow(Row(w)) => Row(w).from \in Addr
           /\ ~PaysNow(Row(w)) => Row(w).paid
           /\ serial => /\ Row(w).status # "CANCELED" /\ ~Row(w).credited /\ Row(w).refunds = 0
                        /\ Carried(Row(w)) = IF Row(w).paid THEN Row(w).value ELSE 0
  <1>1. ~At(w, "idle") /\ worker[w].step \in {"to", "write", "credit"} /\ IInv
    BY DEF At, ValueInv
  <1>2. worker[w].row \in DOMAIN rows /\ Row(w).kind = "send"
    BY <1>1, WorkerFacts DEF At
  <1>3. Row(w) \in RowSet /\ PaidRow(Row(w))
    BY <1>1, <1>2, RowFacts DEF Row, ValueInv, PaidRows
  <1>4. /\ Row(w).value \in Nat /\ Row(w).to \in Addr /\ Row(w).paid \in BOOLEAN
        /\ PaysNow(Row(w)) => Row(w).from \in Addr
        /\ ~PaysNow(Row(w)) => Row(w).paid
    BY <1>2, <1>3 DEF RowSet, PaysNow, PaidRow
  <1>5. ASSUME serial
        PROVE  /\ Row(w).status # "CANCELED" /\ ~Row(w).credited /\ Row(w).refunds = 0
               /\ Carried(Row(w)) = IF Row(w).paid THEN Row(w).value ELSE 0
    <2>1. HeldRow(w) /\ FreshRead(w) /\ RefundedRow(worker[w].row)
      BY <1>2, <1>5 DEF ValueInv, Alone
    <2>2. Row(w).status # "CANCELED" /\ ~Row(w).credited
      BY <1>1, <2>1 DEF HeldRow, FreshRead
    <2>3. Row(w).refunds = 0
      BY <2>1, <2>2 DEF RefundedRow, Row
    <2> QED
      BY <2>2, <2>3 DEF Carried
  <1> QED
    BY <1>2, <1>3, <1>4, <1>5

LEMMA LostIsInt ==
    ASSUME ValueInv, NEW w \in Workers, At(w, "write")
    PROVE  lost \in Int /\ LostBefore(w) \in Int /\ lost + LostBefore(w) \in Int
  BY TransferRow DEF LostBefore, ValueInv

(* The sender has paid: whatever this is not the first time is lost.       *)
LEMMA DebitedHand ==
    ASSUME ValueInv, serial, NEW w \in Workers, At(w, "write")
    PROVE  /\ Sum(Debited(w), Addr) = InHand - IF PaysNow(Row(w)) THEN Row(w).value ELSE 0
           /\ Debited(w) \in [Addr -> Nat]
           /\ worker[w].total = Row(w).value + Debited(w)[Row(w).to]
  <1> DEFINE r == Row(w)
             rest == worker[w].rest
  <1>1. balance \in [Addr -> Nat] /\ InHand \in Int /\ Debited(w) \in [Addr -> Nat]
    BY SumsAreInts, DebitedOk DEF ValueInv, IInv
  <1>2. FreshRead(w) /\ rest \in Nat /\ worker[w].step \in {"to", "write", "credit"}
    BY WorkerFacts DEF ValueInv, Alone, At
  <1>3. /\ r.value \in Nat /\ r.to \in Addr
        /\ PaysNow(r) => r.from \in Addr
    BY TransferRow
  <1>4. /\ PaysNow(r) => rest = balance[r.from] - r.value
        /\ worker[w].total = r.value + IF ToItself(r) THEN rest ELSE balance[r.to]
    BY <1>2 DEF FreshRead, At
  <1>5. CASE PaysNow(r)
    <2>1. Debited(w) = [balance EXCEPT ![r.from] = rest] /\ r.from \in Addr
      BY <1>3, <1>5 DEF Debited
    <2> HIDE DEF r, rest
    <2>2. Sum(Debited(w), Addr) = Sum(balance, Addr) - balance[r.from] + rest
      <3>1. Sum([balance EXCEPT ![r.from] = rest], Addr) = Sum(balance, Addr) - balance[r.from] + rest
        BY <1>1, <1>2, <2>1, OneChanges
      <3> QED
        BY <2>1, <3>1, Zenon
    <2>3. balance[r.from] \in Nat
      BY <1>1, <2>1
    <2>4. Sum(Debited(w), Addr) = InHand - r.value
      BY <1>1, <1>3, <1>4, <1>5, <2>2, <2>3 DEF InHand
    <2>5. Debited(w)[r.to] = IF ToItself(r) THEN rest ELSE balance[r.to]
      BY <1>1, <1>3, <1>5, <2>1 DEF ToItself
    <2> QED
      BY <1>1, <1>4, <1>5, <2>4, <2>5 DEF r
  <1>6. CASE ~PaysNow(r)
    <2>1. Debited(w) = balance /\ ~ToItself(r)
      BY <1>6 DEF Debited, ToItself
    <2> QED
      BY <1>1, <1>4, <1>6, <2>1 DEF InHand
  <1> QED
    BY <1>5, <1>6

LEMMA Finalized ==
    ASSUME ValueInv, IInv', NEW w \in Workers, At(w, "write") \/ At(w, "credit"),
           rows' = Transferred(worker[w].row)
    PROVE  /\ PaidRows'
           /\ serial => Grown /\ OnTheWay' = OnTheWay - Carried(Row(w))
  <1> DEFINE i == worker[w].row
             r == rows[i]
             credited == (r.value > 0) \/ r.credited
             q == [r EXCEPT !.status = "FINALIZED", !.credited = credited, !.credits = @ + 1]
  <1>1. i \in DOMAIN rows /\ r \in RowSet /\ credited \in BOOLEAN
        /\ (serial => r.status # "CANCELED" /\ ~r.credited /\ r.refunds = 0)
    BY TransferRow DEF Row
  <1>2. rows' = [rows EXCEPT ![i] = q]
    BY <1>1 DEF Transferred, RowSet
  <1>3. Same(r, q) /\ q.status = "FINALIZED" /\ q.refunds = r.refunds /\ q.credited = credited
    BY <1>1, TransferredRow
  <1> HIDE DEF q
  <1>4. /\ PaidRows' /\ (Older(r, q) => Grown)
        /\ OnTheWay' = OnTheWay - Carried(r) + Carried(q)
    BY <1>1, <1>2, <1>3, OneRow
  <1>5. Carried(q) = 0
    <2>1. q.value = r.value /\ r.value \in Nat
      BY <1>1, <1>3 DEF Same, RowSet
    <2>2. r.value > 0 => credited = TRUE
      OBVIOUS
    <2> HIDE DEF credited
    <2>3. r.value > 0 => q.credited = TRUE
      BY <1>3, <2>2
    <2> QED
      BY <2>1, <2>3 DEF Carried
  <1>6. ASSUME serial PROVE Grown /\ OnTheWay' = OnTheWay - Carried(r)
    <2>1. Older(r, q)
      BY <1>1, <1>3, <1>6 DEF Older
    <2>2. OnTheWay \in Int /\ Carried(r) \in Int
      BY <1>1, SumsAreInts, CarriedNat DEF ValueInv
    <2> QED
      BY <1>4, <1>5, <2>1, <2>2
  <1> QED
    BY <1>4, <1>6 DEF Row

LEMMA WriteTransferBalances ==
    ASSUME ValueInv, IInv', NEW w \in Workers, Turn(w), WriteTransfer(w)
    PROVE  ValueInv'
  <1> DEFINE r == Row(w)
  <1>1. /\ At(w, "write") /\ ~At(w, "emit") /\ Step(w, Idle)
        /\ UNCHANGED <<call, givingUp, serial, minted>> /\ lost' = lost + LostBefore(w)
        /\ rows' = Transferred(worker[w].row)
        /\ balance' = [Debited(w) EXCEPT ![r.to] = worker[w].total]
    BY DEF WriteTransfer, At
  <1>2. minted' \in Int /\ lost' \in Int /\ LostBefore(w) \in Int /\ lost \in Int
    BY <1>1, LostIsInt DEF ValueInv
  <1>3. PaidRows' /\ (serial => Grown /\ OnTheWay' = OnTheWay - Carried(r))
    BY <1>1, Finalized
  <1>4. HeldRow(w)' /\ FreshRead(w)' /\ Owed(w)' = 0 /\ worker' = [worker EXCEPT ![w] = Idle]
    BY <1>1, HoldsNow DEF ValueInv, Idle
  <1>5. ASSUME serial, SettledBy(w) PROVE Ages(w) /\ SettledBy(w)'
    <2>1. Ages(w)
      BY <1>3, <1>4, <1>5, GrownAges
    <2>2. /\ Sum(Debited(w), Addr) = InHand - IF PaysNow(r) THEN r.value ELSE 0
          /\ Debited(w) \in [Addr -> Nat]
          /\ worker[w].total = r.value + Debited(w)[r.to]
      BY <1>1, <1>5, DebitedHand
    <2>3. /\ r.value \in Nat /\ r.to \in Addr /\ r.paid \in BOOLEAN /\ (~PaysNow(r) => r.paid)
          /\ Carried(r) = IF r.paid THEN r.value ELSE 0
      BY <1>1, <1>5, TransferRow
    <2>4. Debited(w)[r.to] \in Nat /\ worker[w].total \in Nat
      BY <2>2, <2>3
    <2>5. InHand' = Sum(Debited(w), Addr) - Debited(w)[r.to] + worker[w].total
      <3>1. Sum([Debited(w) EXCEPT ![r.to] = worker[w].total], Addr)
              = Sum(Debited(w), Addr) - Debited(w)[r.to] + worker[w].total
        BY <2>2, <2>3, <2>4, OneChanges
      <3> QED
        BY <1>1, <3>1 DEF InHand
    <2>6. LostBefore(w) = IF PaysNow(r) /\ r.paid THEN r.value ELSE 0
      BY DEF LostBefore
    <2>7. InHand \in Int /\ OnTheWay \in Int /\ Owed(w) = 0
      BY <1>1, SumsAreInts, NoDue DEF ValueInv
    <2>8. Sum(Debited(w), Addr) \in Int /\ InHand' = Sum(Debited(w), Addr) + r.value
      <3>1. Sum(Debited(w), Addr) \in Int
        BY <2>2, <2>3, <2>7
      <3> QED
        BY <2>2, <2>3, <2>4, <2>5, <3>1
    <2> HIDE DEF r
    <2>9. InHand' + OnTheWay' + LostBefore(w) = InHand + OnTheWay
      <3>1. CASE PaysNow(r)
        <4>1. InHand' = InHand /\ LostBefore(w) = IF r.paid THEN r.value ELSE 0
          BY <2>2, <2>3, <2>6, <2>7, <2>8, <3>1
        <4>2. OnTheWay' = OnTheWay - IF r.paid THEN r.value ELSE 0
          BY <1>3, <1>5, <2>3
        <4> QED
          BY <2>3, <2>7, <4>1, <4>2
      <3>2. CASE ~PaysNow(r)
        BY <1>3, <1>5, <2>2, <2>3, <2>6, <2>7, <2>8, <3>2
      <3> QED
        BY <3>1, <3>2
    <2>10. InHand' \in Int /\ OnTheWay' \in Int
      BY SumsAreIntsNext
    <2>11. SettledBy(w)'
      BY <1>1, <1>2, <1>4, <1>5, <2>7, <2>9, <2>10 DEF SettledBy
    <2> QED
      BY <2>1, <2>11
  <1> QED
    BY <1>1, <1>2, <1>3, <1>4, <1>5, WorkerCounts

(* The debit alone: the transfer carries what it took.                     *)
LEMMA CreateRecipientBalances ==
    ASSUME ValueInv, IInv', NEW w \in Workers, Turn(w), CreateRecipient(w)
    PROVE  ValueInv'
  <1> DEFINE i == worker[w].row
             r == Row(w)
             paid == PaysNow(r) \/ r.paid
             q == [r EXCEPT !.paid = paid]
             s == [step |-> "credit", row |-> i, rest |-> worker[w].rest, total |-> worker[w].total]
  <1>1. /\ At(w, "write") /\ ~At(w, "emit") /\ Step(w, s)
        /\ UNCHANGED <<call, givingUp, serial, minted>> /\ lost' = lost + LostBefore(w)
        /\ rows' = [rows EXCEPT ![i].paid = PaysNow(r) \/ @]
        /\ balance' = Debited(w)
    BY OnCredit DEF CreateRecipient, At, ValueInv
  <1>2. minted' \in Int /\ lost' \in Int /\ LostBefore(w) \in Int /\ lost \in Int
    BY <1>1, LostIsInt DEF ValueInv
  <1>3. /\ i \in DOMAIN rows /\ r \in RowSet /\ r.value \in Nat /\ r.to \in Addr /\ r.kind = "send"
        /\ r.paid \in BOOLEAN /\ (~PaysNow(r) => r.paid)
        /\ serial => /\ r.status # "CANCELED" /\ ~r.credited /\ r.refunds = 0
                     /\ Carried(r) = IF r.paid THEN r.value ELSE 0
    BY <1>1, TransferRow
  <1>4. rows' = [rows EXCEPT ![i] = q]
    BY <1>1 DEF Row
  <1>5. paid = TRUE
    BY <1>3
  <1> HIDE DEF paid
  <1>6. /\ Same(r, q) /\ q.status = r.status /\ q.refunds = r.refunds /\ q.credited = r.credited
        /\ q.paid /\ q.value = r.value /\ q.to = r.to /\ q.kind = r.kind
    BY <1>3, <1>5 DEF RowSet, Same
  <1> HIDE DEF q
  <1>7. /\ PaidRows' /\ rows'[i] = q /\ (Older(r, q) => Grown)
        /\ OnTheWay' = OnTheWay - Carried(r) + Carried(q)
    <2> HIDE DEF i
    <2> QED
      BY <1>3, <1>4, <1>6, OneRow DEF Row, i
  <1>8. worker' = [worker EXCEPT ![w] = s] /\ worker'[w] = s
    BY <1>1 DEF Step, ValueInv, IInv
  <1>9. s.step = "credit" /\ s.row = i /\ s.total = worker[w].total
    OBVIOUS
  <1> HIDE DEF s
  <1>10. Row(w)' = q
    BY <1>7, <1>8, <1>9 DEF Row
  <1>11. ASSUME serial, SettledBy(w)
         PROVE  Ages(w) /\ HeldRow(w)' /\ FreshRead(w)' /\ SettledBy(w)'
    <2>1. Ages(w)
      <3>1. Grown
        BY <1>6, <1>7 DEF Older
      <3> QED
        BY <1>8, <1>11, <3>1, GrownAges
    <2>2. /\ InHand' = InHand - IF PaysNow(r) THEN r.value ELSE 0
          /\ worker[w].total = r.value + balance'[r.to]
      BY <1>1, <1>11, DebitedHand DEF InHand
    <2>3. HeldRow(w)' /\ FreshRead(w)'
      BY <1>3, <1>6, <1>8, <1>9, <1>10, <1>11, <2>2 DEF HeldRow, FreshRead, At
    <2>4. LostBefore(w) = IF PaysNow(r) /\ r.paid THEN r.value ELSE 0
      BY DEF LostBefore
    <2>5. InHand \in Int /\ OnTheWay \in Int /\ Owed(w) = 0 /\ Owed(w)' = 0
          /\ InHand' \in Int /\ OnTheWay' \in Int
      BY <1>1, <1>8, <1>9, SumsAreInts, SumsAreIntsNext, NoDue DEF ValueInv, Owed, At
    <2>6. Carried(q) = r.value /\ Carried(r) = IF r.paid THEN r.value ELSE 0
      BY <1>3, <1>6, <1>11 DEF Carried
    <2> HIDE DEF r
    <2>7. InHand' + OnTheWay' + LostBefore(w) = InHand + OnTheWay
      <3>1. CASE PaysNow(r)
        BY <1>3, <1>7, <2>2, <2>4, <2>5, <2>6, <3>1
      <3>2. CASE ~PaysNow(r)
        BY <1>3, <1>7, <2>2, <2>4, <2>5, <2>6, <3>2
      <3> QED
        BY <3>1, <3>2
    <2>8. SettledBy(w)'
      BY <1>1, <1>2, <1>11, <2>5, <2>7 DEF SettledBy
    <2> QED
      BY <2>1, <2>3, <2>8
  <1> QED
    BY <1>1, <1>2, <1>7, <1>8, <1>11, WorkerCounts

LEMMA WriteCreditBalances ==
    ASSUME ValueInv, IInv', NEW w \in Workers, Turn(w), WriteCredit(w)
    PROVE  ValueInv'
  <1> DEFINE r == Row(w)
  <1>1. /\ At(w, "credit") /\ ~At(w, "emit") /\ Step(w, Idle)
        /\ UNCHANGED <<call, givingUp, serial, minted, lost>>
        /\ rows' = Transferred(worker[w].row)
        /\ balance' = [balance EXCEPT ![r.to] = worker[w].total]
    BY DEF WriteCredit, Calm, At
  <1>2. PaidRows' /\ (serial => Grown /\ OnTheWay' = OnTheWay - Carried(r))
    BY <1>1, Finalized
  <1>3. HeldRow(w)' /\ FreshRead(w)' /\ Owed(w)' = 0 /\ worker' = [worker EXCEPT ![w] = Idle]
    BY <1>1, HoldsNow DEF ValueInv, Idle
  <1>4. ASSUME serial PROVE InHand' + OnTheWay' + Owed(w)' = InHand + OnTheWay + Owed(w)
    <2>1. r.paid /\ worker[w].total = r.value + balance[r.to]
      BY <1>1, <1>4 DEF ValueInv, Alone, FreshRead
    <2>2. r.value \in Nat /\ r.to \in Addr /\ Carried(r) = r.value
      BY <1>1, <1>4, <2>1, TransferRow
    <2>3. balance \in [Addr -> Nat] /\ balance[r.to] \in Nat /\ worker[w].total \in Nat
      BY <2>1, <2>2 DEF ValueInv, IInv
    <2>4. InHand' = InHand - balance[r.to] + worker[w].total
      BY <1>1, <2>2, <2>3, HandChanged
    <2>5. InHand \in Int /\ OnTheWay \in Int /\ Owed(w) = 0
      BY <1>1, SumsAreInts, NoDue DEF ValueInv
    <2> HIDE DEF r
    <2> QED
      BY <1>2, <1>3, <1>4, <2>1, <2>2, <2>3, <2>4, <2>5
  <1> QED
    BY <1>1, <1>2, <1>3, <1>4, WorkerOk

(* A credit: what a row carried, its contract has.                         *)
LEMMA CreditMoves ==
    ASSUME ValueInv, IInv', NEW i \in DOMAIN rows, Credit(i)
    PROVE  /\ PaidRows' /\ Grown /\ DOMAIN rows' = DOMAIN rows
           /\ \A j \in DOMAIN rows : Older(rows[j], rows'[j]) /\ rows'[j].status = rows[j].status
           /\ rows'[i].credited \/ rows'[i].value = 0
           /\ (rows[i].value > 0 => rows[i].paid) /\ rows[i].refunds = 0
                => InHand' + OnTheWay' = InHand + OnTheWay
  <1>1. rows[i] \in RowSet /\ balance \in [Addr -> Nat] /\ rows \in Seq(GoodRow)
    BY RowFacts DEF ValueInv, IInv
  <1>2. CASE rows[i].credited \/ rows[i].value = 0
    <2>1. UNCHANGED <<balance, rows>>
      BY <1>2 DEF Credit, Kept
    <2>2. \A j \in DOMAIN rows : Older(rows[j], rows'[j]) /\ rows'[j].status = rows[j].status
      BY <2>1 DEF Older, Same
    <2>3. PaidRows' /\ Grown /\ OnTheWay' = OnTheWay /\ InHand' = InHand
      BY <2>1, RowsStay, HandStays
    <2> QED
      BY <1>2, <2>1, <2>2, <2>3
  <1>3. CASE ~(rows[i].credited \/ rows[i].value = 0)
    <2> DEFINE q == [rows[i] EXCEPT !.credited = TRUE, !.credits = @ + 1]
    <2>1. /\ balance' = [balance EXCEPT ![rows[i].to] = @ + rows[i].value]
          /\ rows' = [rows EXCEPT ![i].credited = TRUE, ![i].credits = @ + 1]
      BY <1>3 DEF Credit
    <2>2. rows' = [rows EXCEPT ![i] = q]
      BY <1>1, <2>1
    <2>3. /\ Same(rows[i], q) /\ q.status = rows[i].status /\ q.refunds = rows[i].refunds
          /\ q.credited = TRUE
      BY <1>1 DEF RowSet, Same
    <2> HIDE DEF q
    <2>4. Older(rows[i], q) /\ Carried(q) = 0
      BY <2>3 DEF Older, Carried
    <2>5. /\ PaidRows' /\ Grown /\ DOMAIN rows' = DOMAIN rows /\ rows'[i] = q
          /\ OnTheWay' = OnTheWay - Carried(rows[i]) + Carried(q)
      BY <2>2, <2>3, <2>4, OneRow
    <2>6. \A j \in DOMAIN rows : rows'[j] = IF j = i THEN q ELSE rows[j]
      BY <1>1, <2>2
    <2>7. \A j \in DOMAIN rows : Older(rows[j], rows'[j]) /\ rows'[j].status = rows[j].status
      BY <2>3, <2>4, <2>6 DEF Older, Same
    <2>8. rows[i].to \in Addr /\ rows[i].value \in Nat /\ balance[rows[i].to] \in Nat
      BY <1>1 DEF RowSet
    <2>9. InHand' = InHand - balance[rows[i].to] + (balance[rows[i].to] + rows[i].value)
      <3>1. balance[rows[i].to] + rows[i].value \in Nat
        BY <2>8
      <3>2. balance' = [balance EXCEPT ![rows[i].to] = balance[rows[i].to] + rows[i].value]
        BY <2>1
      <3> QED
        BY <1>1, <2>8, <3>1, <3>2, HandChanged
    <2>10. ASSUME rows[i].value > 0 => rows[i].paid, rows[i].refunds = 0
           PROVE  InHand' + OnTheWay' = InHand + OnTheWay
      <3>1. Carried(rows[i]) = rows[i].value
        BY <1>3, <2>8, <2>10 DEF Carried
      <3>2. InHand \in Int /\ OnTheWay \in Int
        BY SumsAreInts DEF ValueInv
      <3> QED
        BY <2>4, <2>5, <2>8, <2>9, <3>1, <3>2
    <2> QED
      BY <2>3, <2>5, <2>7, <2>10
  <1> QED
    BY <1>2, <1>3

LEMMA ActivateBalances ==
    ASSUME ValueInv, IInv', NEW w \in Workers, Turn(w), Activate(w)
    PROVE  ValueInv'
  <1> DEFINE i == worker[w].row
             s == [step |-> "round", row |-> i]
  <1>1. /\ At(w, "pending") /\ ~At(w, "idle") /\ ~At(w, "emit") /\ Credit(i)
        /\ rows[i].kind = "call" /\ UNCHANGED <<call, givingUp, serial, minted, lost>>
    BY DEF Activate, At, Calm, Row
  <1>2. i \in DOMAIN rows /\ Step(w, s)
    BY <1>1, WorkerFacts DEF ValueInv, Activate, At, Holding
  <1>3. /\ PaidRows' /\ Grown /\ DOMAIN rows' = DOMAIN rows
        /\ Older(rows[i], rows'[i]) /\ rows'[i].status = rows[i].status
        /\ (rows[i].value > 0 => rows[i].paid) /\ rows[i].refunds = 0
             => InHand' + OnTheWay' = InHand + OnTheWay
    BY <1>1, <1>2, CreditMoves
  <1>4. s.step = "round" /\ s.row = i
    OBVIOUS
  <1> HIDE DEF s
  <1>5. ASSUME serial
        PROVE  /\ HeldRow(w)' /\ FreshRead(w)' /\ Owed(w)' = 0
               /\ InHand' + OnTheWay' = InHand + OnTheWay
    <2>1. HeldRow(w) /\ RefundedRow(i) /\ PaidRow(rows[i])
      BY <1>2, <1>5 DEF ValueInv, Alone, PaidRows
    <2>2. rows[i].status # "CANCELED" /\ rows[i].refunds = 0
      BY <1>1, <2>1 DEF HeldRow, RefundedRow, Row
    <2>3. rows[i].value > 0 => rows[i].paid
      BY <1>1, <2>1 DEF PaidRow
    <2>4. rows'[i].status # "CANCELED"
      BY <1>3, <2>2
    <2>5. HeldRow(w)' /\ FreshRead(w)' /\ Owed(w)' = 0
      BY <1>2, <1>4, <2>4, HoldsNow DEF ValueInv
    <2> QED
      BY <1>3, <2>2, <2>3, <2>5
  <1>6. worker' = [worker EXCEPT ![w] = s] /\ Owed(w) = 0
    BY <1>1, <1>2, NoDue DEF Step
  <1>7. serial => InHand' + OnTheWay' + Owed(w)' = InHand + OnTheWay + Owed(w)
    <2>1. InHand \in Int /\ OnTheWay \in Int /\ InHand' \in Int /\ OnTheWay' \in Int
      BY SumsAreInts, SumsAreIntsNext DEF ValueInv
    <2> QED
      BY <1>5, <1>6, <2>1
  <1> QED
    BY <1>1, <1>3, <1>5, <1>6, <1>7, WorkerOk
(* What a call emits carries what was taken from its contract.             *)
LEMMA DebtFacts ==
    ASSUME NEW emits \in Emits, NEW backed \in BOOLEAN, NEW S \in SUBSET DOMAIN emits
    PROVE  /\ IsFiniteSet(S) /\ Sum(Debt(emits, backed), S) = Total(Debt(emits, backed), S)
           /\ \A k \in S : Debt(emits, backed)[k] \in Int
  <1>1. IsFiniteSet(S)
    BY OfFinite, FS_Subset
  <1>2. ASSUME NEW k \in S PROVE Debt(emits, backed)[k] \in Int
    <2>1. emits[k] \in Message
      BY EmitsAreMessages
    <2> QED
      BY <2>1 DEF Debt, Message
  <1> QED
    BY <1>1, <1>2, SumIsTotal

LEMMA DebtPaid ==
    ASSUME NEW emits \in Emits, NEW backed \in BOOLEAN, NEW S \in SUBSET DOMAIN emits, NEW k \in S
    PROVE  Sum(Debt(emits, backed), S) = Debt(emits, backed)[k] + Sum(Debt(emits, backed), S \ {k})
  <1>1. Total(Debt(emits, backed), S) = Debt(emits, backed)[k] + Total(Debt(emits, backed), S \ {k})
    BY DebtFacts, TotalRemove
  <1>2. S \ {k} \in SUBSET DOMAIN emits
    OBVIOUS
  <1> QED
    BY <1>1, <1>2, DebtFacts

LEMMA DebtOfKind ==
    ASSUME NEW emits \in Emits, NEW external \in BOOLEAN, NEW on, NEW backed \in BOOLEAN
    PROVE  /\ external \/ backed =>
                Sum(Debt(emits, backed), Of(emits, external, on)) = Worth(emits, external, on)
           /\ ~(external \/ backed) => Sum(Debt(emits, backed), Of(emits, external, on)) = 0
  <1> DEFINE S == Of(emits, external, on)
             D == Debt(emits, backed)
             f == [i \in DOMAIN emits |-> emits[i].value]
  <1>1. S \in SUBSET DOMAIN emits /\ \A k \in S : emits[k].external = external
    BY DEF Of
  <1>2. IsFiniteSet(S) /\ Sum(D, S) = Total(D, S)
    BY <1>1, DebtFacts
  <1>3. Worth(emits, external, on) = Total(f, S)
    BY SumIsTotal DEF Worth
  <1>4. /\ external \/ backed => \A k \in S : D[k] = f[k]
        /\ ~(external \/ backed) => \A k \in S : D[k] = 0
    BY <1>1 DEF Debt
  <1> HIDE DEF S, D, f
  <1>5. external \/ backed => Total(D, S) = Total(f, S)
    BY <1>2, <1>4, TotalSame
  <1>6. ~(external \/ backed) => Total(D, S) = 0
    BY <1>2, <1>4, TotalZero
  <1> QED
    BY <1>2, <1>3, <1>5, <1>6 DEF S, D

LEMMA EmittedIsOf ==
    ASSUME IInv, NEW i \in DOMAIN rows, NEW on \in Phases
    PROVE  LET X == {k \in Emitted(i, on) : rows[i].emits[k].external = TRUE}
               Y == Of(rows[i].emits, FALSE, on)
           IN /\ Emitted(i, on) = X \cup Y /\ X \cap Y = {}
              /\ ExternalBacked(i, on) => X = Of(rows[i].emits, TRUE, on)
              /\ ~ExternalBacked(i, on) => \A k \in X : rows[i].emits[k].value = 0
  <1> DEFINE E == rows[i].emits
             X == {k \in Emitted(i, on) : E[k].external = TRUE}
             Y == Of(E, FALSE, on)
  <1>1. \A k \in DOMAIN E : E[k].external \in BOOLEAN /\ E[k].value \in Nat
    BY MessageFacts
  <1>2. \A k : k \in Emitted(i, on) <=>
                 k \in DOMAIN E /\ E[k].on = on
                 /\ (E[k].external /\ E[k].value > 0 => ExternalBacked(i, on))
    BY DEF Emitted
  <1>3. \A k : k \in Y <=> k \in DOMAIN E /\ E[k].external = FALSE /\ E[k].on = on
    BY DEF Of
  <1>4. \A k : k \in Of(E, TRUE, on) <=> k \in DOMAIN E /\ E[k].external = TRUE /\ E[k].on = on
    BY DEF Of
  <1>5. \A k \in DOMAIN E : E[k].external = TRUE \/ E[k].external = FALSE
    BY <1>1
  <1> HIDE DEF E, Y
  <1>6. Emitted(i, on) = X \cup Y /\ X \cap Y = {}
    BY <1>2, <1>3, <1>5
  <1>7. ExternalBacked(i, on) => X = Of(E, TRUE, on)
    BY <1>2, <1>4
  <1>8. ~ExternalBacked(i, on) => \A k \in X : E[k].value = 0
    BY <1>1, <1>2
  <1> QED
    BY <1>6, <1>7, <1>8 DEF E, Y

LEMMA TakenIsOwed ==
    ASSUME IInv, NEW i \in DOMAIN rows, NEW on \in Phases
    PROVE  balance[rows[i].to] - Left(i, on)
             = Sum(Debt(rows[i].emits, InternalBacked(i, on)), Emitted(i, on))
  <1> DEFINE E == rows[i].emits
             I == InternalBacked(i, on)
             B == ExternalBacked(i, on)
             D == Debt(E, I)
             X == {k \in Emitted(i, on) : E[k].external = TRUE}
             Y == Of(E, FALSE, on)
             has == balance[rows[i].to]
             out == Worth(E, TRUE, on)
             in == Worth(E, FALSE, on)
  <1>1. E \in Emits /\ I \in BOOLEAN /\ has \in Nat /\ out \in Nat /\ in \in Nat
    BY RowFacts, WorthNat DEF IInv, InternalBacked
  <1>2. /\ Emitted(i, on) = X \cup Y /\ X \cap Y = {}
        /\ B => X = Of(E, TRUE, on)
        /\ ~B => \A k \in X : E[k].value = 0
    BY EmittedIsOf
  <1>3. X \in SUBSET DOMAIN E /\ Y \in SUBSET DOMAIN E
    BY DEF Emitted, Of
  <1>4. /\ B => Left(i, on) = (has - out) - (IF I THEN in ELSE 0)
        /\ ~B => Left(i, on) = (has - 0) - (IF I THEN in ELSE 0)
    BY DEF Left, AfterExternal
  <1> HIDE DEF I, B, X, Y, out, in, has
  <1>5. /\ IsFiniteSet(X) /\ Sum(D, X) = Total(D, X) /\ \A k \in X : D[k] \in Int
        /\ IsFiniteSet(Y) /\ Sum(D, Y) = Total(D, Y) /\ \A k \in Y : D[k] \in Int
    BY <1>1, <1>3, DebtFacts
  <1>6. Total(D, X \cup Y) = Total(D, X) + Total(D, Y)
    BY <1>2, <1>5, TotalUnion
  <1>7. (I => Sum(D, Y) = in) /\ (~I => Sum(D, Y) = 0)
    BY <1>1, DebtOfKind DEF Y, in
  <1>8. B => Sum(D, X) = out
    BY <1>1, <1>2, DebtOfKind DEF out
  <1>9. ~B => Sum(D, X) = 0
    <2>1. ASSUME ~B, NEW k \in X PROVE D[k] = 0
      BY <1>2, <1>3, <2>1 DEF Debt
    <2> HIDE DEF D
    <2>2. ~B => Total(D, X) = 0
      BY <1>5, <2>1, TotalZero
    <2> QED
      BY <1>5, <2>2
  <1> HIDE DEF D
  <1>10. Sum(D, Emitted(i, on)) = Sum(D, X) + Sum(D, Y)
    BY <1>2, <1>5, <1>6, SumIsTotal
  <1>11. has - Left(i, on) = Sum(D, X) + Sum(D, Y)
    <2>1. CASE I
      BY <1>1, <1>4, <1>7, <1>8, <1>9, <2>1
    <2>2. CASE ~I
      BY <1>1, <1>4, <1>7, <1>8, <1>9, <2>2
    <2> QED
      BY <2>1, <2>2
  <1> QED
    BY <1>10, <1>11 DEF D, E, I, has
LEMMA ChildCarries ==
    ASSUME IInv, NEW i \in DOMAIN rows, NEW k \in DOMAIN rows[i].emits, NEW backed \in BOOLEAN
    PROVE  LET ch == Child(rows[i].emits[k], rows[i], backed)
           IN Newborn(ch) /\ PaidRow(ch) /\ Carried(ch) = Debt(rows[i].emits, backed)[k]
  <1> DEFINE m == rows[i].emits[k]
             kind == IF m.external THEN "send" ELSE "call"
             value == IF m.external \/ backed THEN m.value ELSE 0
             ch == Child(m, rows[i], backed)
  <1>1. ch = NewRow(None, kind, rows[i].to, m.to, value, <<>>, FALSE, TRUE, TRUE)
    BY DEF Child
  <1>2. rows[i].to # None
    <2>1. rows[i].to \in Addr
      BY RowFacts
    <2> QED
      BY <2>1, FundingIsNat
  <1>3. Debt(rows[i].emits, backed)[k] = value
    BY DEF Debt
  <1> HIDE DEF kind, value, ch
  <1>4. /\ ch.paid = TRUE /\ ch.credited = FALSE /\ ch.refunds = 0 /\ ch.value = value
        /\ ch.triggered = TRUE /\ ch.from = rows[i].to
    BY <1>1 DEF NewRow
  <1>5. PaidRow(ch) /\ Newborn(ch)
    BY <1>2, <1>4 DEF PaidRow, Newborn
  <1>6. Carried(ch) = value
    BY <1>4 DEF Carried
  <1> QED
    BY <1>3, <1>5, <1>6 DEF ch

LEMMA EmitBalances ==
    ASSUME ValueInv, IInv', NEW w \in Workers, Turn(w), NEW i \in DOMAIN rows, NEW on,
           NEW left \in SUBSET DOMAIN rows[i].emits, NEW backed \in BOOLEAN,
           EmitFirst(w, i, on, left, backed), UNCHANGED <<call, givingUp, serial, minted, lost>>,
           serial => /\ rows[i].status # "CANCELED"
                     /\ InHand' + OnTheWay + Sum(Debt(rows[i].emits, backed), left)
                          = InHand + OnTheWay + Owed(w)
    PROVE  ValueInv'
  <1>1. PICK k \in left :
          /\ Insert(Child(rows[i].emits[k], rows[i], backed))
          /\ Step(w, [step |-> "emit", row |-> i, on |-> on, left |-> left \ {k}, backed |-> backed])
    BY DEF EmitFirst
  <1> DEFINE r == Child(rows[i].emits[k], rows[i], backed)
             s == [step |-> "emit", row |-> i, on |-> on, left |-> left \ {k}, backed |-> backed]
             D == Debt(rows[i].emits, backed)
  <1>2. k \in DOMAIN rows[i].emits /\ rows[i].emits \in Emits /\ IInv
    BY RowFacts DEF ValueInv
  <1>3. Newborn(r) /\ PaidRow(r) /\ Carried(r) = D[k]
    BY <1>2, ChildCarries
  <1>4. rows' = Append(rows, r)
    BY <1>1 DEF Insert
  <1>5. Sum(D, left) = D[k] + Sum(D, left \ {k})
    BY <1>2, DebtPaid
  <1>6. D[k] \in Int /\ Sum(D, left \ {k}) \in Int
    <2>1. left \ {k} \in SUBSET DOMAIN rows[i].emits
      OBVIOUS
    <2>2. /\ IsFiniteSet(left \ {k}) /\ \A j \in left \ {k} : D[j] \in Int
          /\ Sum(D, left \ {k}) = Total(D, left \ {k})
      BY <1>2, <2>1, DebtFacts
    <2>3. \A j \in left : D[j] \in Int
      BY <1>2, DebtFacts
    <2> QED
      BY <2>2, <2>3, TotalInt
  <1> HIDE DEF r
  <1>7. PaidRows' /\ OnTheWay' = OnTheWay + Carried(r) /\ Grown
    BY <1>3, <1>4, NewRowCounts
  <1>8. rows'[i] = rows[i]
    BY <1>2, <1>4 DEF IInv
  <1>9. Step(w, s) /\ s.step = "emit" /\ s.row = i /\ s.left = left \ {k} /\ s.backed = backed
    BY <1>1
  <1> HIDE DEF s
  <1>10. worker' = [worker EXCEPT ![w] = s] /\ worker'[w] = s
    BY <1>2, <1>9 DEF Step, IInv
  <1>11. Owed(w)' = Sum(D, left \ {k})
    <2>1. Row(w)' = rows[i]
      BY <1>8, <1>9, <1>10 DEF Row
    <2> QED
      BY <1>9, <1>10, <2>1 DEF Owed, At
  <1> HIDE DEF D
  <1>12. ASSUME serial
         PROVE  /\ HeldRow(w)' /\ FreshRead(w)'
                /\ InHand' + OnTheWay' + Owed(w)' = InHand + OnTheWay + Owed(w)
    <2>1. HeldRow(w)' /\ FreshRead(w)'
      BY <1>2, <1>8, <1>9, <1>12, HoldsNow
    <2>2. InHand' + OnTheWay + Sum(D, left) = InHand + OnTheWay + Owed(w)
      BY <1>12 DEF D
    <2>3. InHand \in Int /\ OnTheWay \in Int /\ InHand' \in Int /\ OnTheWay' \in Int
      BY <1>2, SumsAreInts, SumsAreIntsNext
    <2>4. InHand' + OnTheWay' + Owed(w)' = InHand' + OnTheWay + Sum(D, left)
      BY <1>3, <1>5, <1>6, <1>7, <1>11, <2>3
    <2> QED
      BY <2>1, <2>2, <2>4
  <1> QED
    BY <1>7, <1>10, <1>12, WorkerOk

LEMMA EmitNextBalances ==
    ASSUME ValueInv, IInv', NEW w \in Workers, Turn(w), EmitNext(w)
    PROVE  ValueInv'
  <1>1. /\ At(w, "emit") /\ ~At(w, "idle") /\ UNCHANGED <<call, givingUp, serial, minted, lost>>
        /\ UNCHANGED balance
        /\ EmitFirst(w, worker[w].row, worker[w].on, worker[w].left, worker[w].backed)
    BY DEF EmitNext, Calm, At, Kept
  <1>2. /\ worker[w].row \in DOMAIN rows /\ worker[w].backed \in BOOLEAN
        /\ worker[w].left \in SUBSET DOMAIN rows[worker[w].row].emits
    BY <1>1, WorkerFacts DEF ValueInv, At, Row
  <1>3. Owed(w) = Sum(Debt(rows[worker[w].row].emits, worker[w].backed), worker[w].left)
    BY <1>1 DEF Owed, Row
  <1>4. serial => rows[worker[w].row].status # "CANCELED"
    BY <1>1 DEF ValueInv, Alone, HeldRow, Row, At
  <1>5. InHand' = InHand
    BY <1>1, HandStays
  <1> QED
    BY <1>1, <1>2, <1>3, <1>4, <1>5, EmitBalances

LEMMA WithdrawBalances ==
    ASSUME ValueInv, IInv', NEW w \in Workers, Turn(w), NEW on \in Phases,
           worker[w].step \in {"accepted", "final"}, Withdraw(w, on)
    PROVE  ValueInv'
  <1> DEFINE i == worker[w].row
             out == IF rows[i].ok THEN Emitted(i, on) ELSE {}
             backed == InternalBacked(i, on)
             s == [step |-> "emit", row |-> i, on |-> on, left |-> out, backed |-> backed]
             D == Debt(rows[i].emits, backed)
  <1>1. ~At(w, "idle") /\ ~At(w, "emit") /\ IInv
    BY DEF At, ValueInv
  <1>2. i \in DOMAIN rows
    BY <1>1, WorkerFacts
  <1>3. /\ balance' = IF rows[i].ok THEN [balance EXCEPT ![rows[i].to] = Left(i, on)] ELSE balance
        /\ \/ Step(w, s) /\ UNCHANGED rows
           \/ EmitFirst(w, i, on, out, backed)
        /\ UNCHANGED <<call, givingUp, serial, minted, lost>>
    BY DEF Withdraw, Calm
  <1>4. out \in SUBSET DOMAIN rows[i].emits /\ backed \in BOOLEAN /\ rows[i].emits \in Emits
    BY <1>1, <1>2, RowFacts DEF Emitted, InternalBacked
  <1>5. InHand' + Sum(D, out) = InHand
    <2>1. InHand \in Int /\ balance \in [Addr -> Nat] /\ rows[i].to \in Addr /\ Left(i, on) \in Nat
      BY <1>1, <1>2, SumsAreInts, RowFacts, ExternalLeaves DEF IInv
    <2>2. CASE rows[i].ok
      <3>1. InHand' = InHand - balance[rows[i].to] + Left(i, on)
        BY <1>3, <2>1, <2>2, HandChanged
      <3>2. balance[rows[i].to] - Left(i, on) = Sum(D, out)
        BY <1>1, <1>2, <2>2, TakenIsOwed
      <3>3. balance[rows[i].to] \in Nat
        BY <2>1
      <3> HIDE DEF D, out
      <3> QED
        BY <2>1, <3>1, <3>2, <3>3
    <2>3. CASE ~rows[i].ok
      <3>1. InHand' = InHand
        BY <1>3, <2>3, HandStays
      <3>2. Sum(D, out) = 0
        BY <2>3, TotalEmpty, SumIsTotal
      <3> HIDE DEF D, out
      <3> QED
        BY <2>1, <3>1, <3>2
    <2> QED
      BY <2>2, <2>3
  <1>6. serial => rows[i].status # "CANCELED"
    BY <1>1 DEF ValueInv, Alone, HeldRow, Row, At
  <1>7. Owed(w) = 0 /\ InHand \in Int /\ InHand' \in Int /\ OnTheWay \in Int /\ Sum(D, out) \in Int
    <2>1. Sum(D, out) \in Int
      <3>1. IsFiniteSet(out) /\ (\A k \in out : D[k] \in Int) /\ Sum(D, out) = Total(D, out)
        BY <1>4, DebtFacts
      <3> HIDE DEF D, out
      <3> QED
        BY <3>1, TotalInt
    <2> QED
      BY <1>1, <2>1, SumsAreInts, SumsAreIntsNext, NoDue
  <1> HIDE DEF out, backed, D
  <1>8. PICK d \in Int : d = Sum(D, out)
    BY <1>7, Zenon
  <1>9. InHand' + d = InHand
    BY <1>5, <1>8, Zenon
  <1>10. InHand' + OnTheWay + d = InHand + OnTheWay + 0
    <2>1. InHand \in Int /\ InHand' \in Int /\ OnTheWay \in Int
      BY <1>7
    <2>2. ASSUME NEW a \in Int, NEW b \in Int, NEW c \in Int, a + d = b PROVE a + c + d = b + c + 0
      BY <2>2
    <2> QED
      BY <1>9, <2>1, <2>2, Zenon
  <1>11. CASE EmitFirst(w, i, on, out, backed)
    <2>1. InHand' + OnTheWay + Sum(D, out) = InHand + OnTheWay + Owed(w)
      BY <1>7, <1>8, <1>10, Zenon
    <2> QED
      BY <1>2, <1>3, <1>4, <1>6, <1>11, <2>1, EmitBalances DEF D
  <1>12. CASE Step(w, s) /\ UNCHANGED rows
    <2>1. PaidRows' /\ Grown /\ OnTheWay' = OnTheWay
      BY <1>12, RowsStay
    <2>2. Step(w, s) /\ s.step = "emit" /\ s.row = i /\ s.left = out /\ s.backed = backed
      BY <1>12
    <2> HIDE DEF s
    <2>3. worker' = [worker EXCEPT ![w] = s] /\ worker'[w] = s
      BY <1>1, <2>2 DEF Step, IInv
    <2>4. Owed(w)' = Sum(D, out)
      <3>1. Row(w)' = rows[i]
        BY <1>12, <2>2, <2>3 DEF Row
      <3> QED
        BY <2>2, <2>3, <3>1 DEF Owed, At, D
    <2>5. InHand' + OnTheWay' + Owed(w)' = InHand + OnTheWay + Owed(w)
      BY <1>7, <1>8, <1>10, <2>1, <2>4, Zenon
    <2>6. serial => HeldRow(w)' /\ FreshRead(w)'
      BY <1>1, <1>6, <1>12, <2>2, HoldsNow
    <2> QED
      BY <1>3, <2>1, <2>3, <2>5, <2>6, WorkerOk
  <1> QED
    BY <1>3, <1>11, <1>12
(* Steps of requests.                                                      *)
CallerEffect(c) ==
    /\ \A i \in DOMAIN rows' : RefundedRow(i)'
    /\ FreshCall(c)'
    /\ \A i \in DOMAIN rows : Same(rows[i], rows'[i])
    /\ \A i \in DOMAIN rows : Held(i) => rows'[i].status = rows[i].status
    /\ Settled => Settled'
LEMMA CallerOk ==
    ASSUME ValueInv, IInv', NEW c \in Callers, Turn(c), NEW s, call' = [call EXCEPT ![c] = s],
           UNCHANGED <<worker, givingUp, serial, lost>>, minted' \in Int, PaidRows',
           serial => CallerEffect(c)
    PROVE  ValueInv'
  <1>1. ASSUME serial PROVE Alone'
    <2>1. givingUp' = {}
      BY <1>1, CallerAlone
    <2>2. ASSUME NEW v \in Workers PROVE HeldRow(v)' /\ FreshRead(v)'
      <3>1. /\ worker'[v] = worker[v] /\ worker[v].step \notin {"to", "write", "credit", "emit"}
            /\ HeldRow(v)
        BY <1>1, CallerAlone DEF ValueInv, Alone
      <3>2. ~At(v, "idle") => worker[v].row \in DOMAIN rows /\ Held(worker[v].row)
        BY DEF ValueInv, IInv, RowsExist, Held, At
      <3>3. ~At(v, "idle") => /\ Same(rows[worker[v].row], rows'[worker[v].row])
                              /\ rows'[worker[v].row].status = rows[worker[v].row].status
        BY <1>1, <3>2 DEF CallerEffect
      <3>4. FreshRead(v)'
        BY <3>1 DEF FreshRead, At
      <3>5. HeldRow(v)'
        BY <3>1, <3>3 DEF HeldRow, At, Row, Same
      <3> QED
        BY <3>4, <3>5
    <2>3. ASSUME NEW d \in Callers PROVE FreshCall(d)'
      <3>1. CASE d = c
        BY <1>1, <3>1 DEF CallerEffect
      <3>2. CASE d # c
        <4>1. call'[d] = call[d]
          BY <3>2 DEF ValueInv, IInv
        <4>2. call'[d].step \notin {"submit", "debit", "fund", "refund"}
          BY <1>1, <3>2, <4>1, CallerAlone
        <4> QED
          BY <4>2 DEF FreshCall
      <3> QED
        BY <3>1, <3>2
    <2>4. Books'
      <3>1. \A v \in Workers : ~At(v, "emit") /\ ~At(v, "emit")'
        BY <1>1, CallerAlone DEF At
      <3>2. Settled'
        BY <1>1, <3>1 DEF ValueInv, Alone, Books, CallerEffect
      <3> QED
        BY <3>1, <3>2 DEF Books
    <2> QED
      BY <1>1, <2>1, <2>2, <2>3, <2>4 DEF Alone, CallerEffect
  <1> QED
    BY <1>1 DEF ValueInv

(* The books stay balanced when as much is created as there is more.       *)
LEMMA Settles ==
    ASSUME ValueInv, IInv', NEW d \in Int, minted' = minted + d, UNCHANGED lost,
           InHand' + OnTheWay' = (InHand + OnTheWay) + d
    PROVE  Settled => Settled'
  <1>1. /\ InHand \in Int /\ OnTheWay \in Int /\ InHand' \in Int /\ OnTheWay' \in Int
        /\ minted \in Int /\ lost \in Int
    BY SumsAreInts, SumsAreIntsNext DEF ValueInv
  <1>2. PICK had \in Int : had = InHand + OnTheWay
    BY <1>1
  <1>3. PICK has \in Int : has = InHand' + OnTheWay'
    <2>1. \A x, y \in Int : x + y \in Int
      OBVIOUS
    <2>2. InHand' + OnTheWay' \in Int
      BY <1>1, <2>1, Zenon
    <2> QED
      BY <2>2, Zenon
  <1>4. has = had + d
    BY <1>2, <1>3, Zenon
  <1>5. PICK made \in Int : made = minted
    BY <1>1
  <1>6. PICK gone \in Int : gone = lost
    BY <1>1
  <1>7. made = gone + had => made + d = gone + has
    BY ONLY made \in Int, gone \in Int, had \in Int, has \in Int, d \in Int, <1>4
  <1>8. Settled <=> made = gone + had
    BY <1>2, <1>5, <1>6, Zenon DEF Settled
  <1>9. Settled' <=> made + d = gone + has
    BY <1>3, <1>5, <1>6, Zenon DEF Settled
  <1> QED
    BY <1>7, <1>8, <1>9

(* Who is alone and has not just inserted a faucet's row funds none.       *)
LEMMA RefundedGrown ==
    ASSUME ValueInv, serial, NEW c \in Callers, Turn(c), call[c].step # "fund", Grown
    PROVE  \A i \in DOMAIN rows' : RefundedRow(i)'
  <1> SUFFICES ASSUME NEW i \in DOMAIN rows' PROVE RefundedRow(i)'
    OBVIOUS
  <1>1. ~Funded(i)
    BY CallerAlone DEF Funded
  <1>2. CASE i \in DOMAIN rows
    <2>1. RefundedRow(i) /\ Older(rows[i], rows'[i])
      BY <1>2 DEF ValueInv, Alone, Grown
    <2> QED
      BY <1>1, <2>1 DEF RefundedRow, Older, Same
  <1>3. CASE i \notin DOMAIN rows
    <2>1. Newborn(rows'[i])
      BY <1>3 DEF Grown
    <2> QED
      BY <2>1 DEF RefundedRow, Newborn
  <1> QED
    BY <1>2, <1>3

LEMMA Balanced ==
    ASSUME ValueInv, IInv', UNCHANGED <<rows, balance, minted, lost>>
    PROVE  Settled => Settled'
  <1>1. InHand' = InHand /\ OnTheWay' = OnTheWay
    BY HandStays, RowsStay
  <1>2. InHand' + OnTheWay' = (InHand + OnTheWay) + 0 /\ minted' = minted + 0
    BY <1>1, SumsAreInts DEF ValueInv
  <1> QED
    BY <1>2, Settles

LEMMA CallNow ==
    ASSUME IInv, NEW c \in Callers, NEW s, Goto(c, s)
    PROVE  call' = [call EXCEPT ![c] = s] /\ call'[c] = s
  BY DEF IInv, Goto

LEMMA ReadDuplicateMovesNothing ==
    ASSUME ValueInv, IInv', NEW c \in Callers, Turn(c), ReadDuplicate(c)
    PROVE  ValueInv'
  <1>1. PICK t \in Submissions : Goto(c, [step |-> "submit", of |-> t,
                                          duplicate |-> \E i \in DOMAIN rows : rows[i].hash = t.hash])
    BY DEF ReadDuplicate
  <1> DEFINE dup == \E i \in DOMAIN rows : rows[i].hash = t.hash
             s == [step |-> "submit", of |-> t, duplicate |-> dup]
  <1>2. UNCHANGED <<worker, givingUp, serial, minted, lost, rows, balance>> /\ call[c].step # "fund"
    BY DEF ReadDuplicate, Unmoved, NoCall
  <1>3. call' = [call EXCEPT ![c] = s] /\ call'[c] = s
    BY <1>1, CallNow DEF ValueInv
  <1>4. dup <=> Known(t.hash)
    BY DEF Known
  <1> HIDE DEF dup
  <1>5. s.step = "submit" /\ s.of = t /\ s.duplicate = dup
    OBVIOUS
  <1> HIDE DEF s
  <1>6. FreshCall(c)'
    <2>1. Known(t.hash)' <=> Known(t.hash)
      BY <1>2 DEF Known
    <2> QED
      BY <1>3, <1>4, <1>5, <2>1 DEF FreshCall, Known
  <1>7. PaidRows' /\ Grown /\ \A i \in DOMAIN rows : Same(rows[i], rows'[i])
    BY <1>2, RowsStay DEF Same
  <1>8. minted' \in Int
    BY <1>2 DEF ValueInv
  <1>9. Settled => Settled'
    BY <1>2, Balanced
  <1>10. serial => \A i \in DOMAIN rows' : RefundedRow(i)'
    BY <1>2, <1>7, RefundedGrown
  <1> QED
    BY <1>2, <1>3, <1>6, <1>7, <1>8, <1>9, <1>10, CallerOk DEF CallerEffect

LEMMA ReadBalanceMovesNothing ==
    ASSUME ValueInv, IInv', NEW c \in Callers, Turn(c), ReadBalance(c)
    PROVE  ValueInv'
  <1> DEFINE t == call[c].of
             pays == Pays(t) /\ ~call[c].duplicate
             s == [step |-> "debit", of |-> t, pays |-> pays, read |-> balance[t.from]]
  <1>1. /\ UNCHANGED <<worker, givingUp, serial, minted, lost, rows, balance>>
        /\ call[c].step = "submit" /\ call[c].step # "fund" /\ Goto(c, s)
    BY DEF ReadBalance, Unmoved, Kept
  <1>2. call' = [call EXCEPT ![c] = s] /\ call'[c] = s
    BY <1>1, CallNow DEF ValueInv
  <1>3. s.step = "debit" /\ s.of = t /\ s.pays = pays /\ s.read = balance[t.from]
    OBVIOUS
  <1>4. ASSUME serial PROVE FreshCall(c)'
    <2>1. call[c].duplicate <=> Known(t.hash)
      BY <1>1, <1>4 DEF ValueInv, Alone, FreshCall
    <2>2. pays <=> Pays(t) /\ ~Known(t.hash)
      BY <2>1
    <2>3. ASSUME NEW u PROVE Known(u)' <=> Known(u)
      BY <1>1 DEF Known
    <2>4. call'[c].of = t /\ call'[c].step = "debit" /\ call'[c].read = balance[t.from]
          /\ (call'[c].pays <=> Pays(t) /\ ~Known(t.hash))
      BY <1>2, <1>3, <2>2
    <2>5. (Known(call[c].of.hash))' <=> Known(t.hash)
      BY <2>3, <2>4 DEF Known
    <2> HIDE DEF s, pays, t
    <2> QED
      BY <1>1, <2>4, <2>5 DEF FreshCall, Pays
  <1> HIDE DEF s
  <1>5. PaidRows' /\ Grown /\ \A i \in DOMAIN rows : Same(rows[i], rows'[i])
    BY <1>1, RowsStay DEF Same
  <1>6. minted' \in Int
    BY <1>1 DEF ValueInv
  <1>7. Settled => Settled'
    BY <1>1, Balanced
  <1>8. serial => \A i \in DOMAIN rows' : RefundedRow(i)'
    BY <1>1, <1>5, RefundedGrown
  <1> QED
    BY <1>1, <1>2, <1>4, <1>5, <1>6, <1>7, <1>8, CallerOk DEF CallerEffect
LEMMA SubmittedRow ==
    ASSUME NEW t \in Submissions
    PROVE  LET r == NewRow(t.hash, t.kind, t.from, t.to, t.value, t.emits, t.fees, FALSE, Pays(t))
           IN /\ PaidRow(r) /\ Newborn(r)
              /\ Pays(t) => Carried(r) = t.value
              /\ ~Pays(t) => Carried(r) = 0
  <1> DEFINE r == NewRow(t.hash, t.kind, t.from, t.to, t.value, t.emits, t.fees, FALSE, Pays(t))
  <1>1. /\ t.kind \in {"call", "send"} /\ t.from \in Addr /\ t.from # None
        /\ Pays(t) <=> t.kind # "send" /\ t.value > 0
    BY SubmissionFacts, FundingIsNat DEF Pays
  <1>2. /\ r.kind = t.kind /\ r.from = t.from /\ r.value = t.value /\ r.paid = Pays(t)
        /\ r.triggered = FALSE /\ r.credited = FALSE /\ r.refunds = 0
    BY DEF NewRow
  <1> HIDE DEF r
  <1>3. PaidRow(r) /\ Newborn(r)
    BY <1>1, <1>2 DEF PaidRow, Newborn
  <1>4. (Pays(t) => Carried(r) = t.value) /\ (~Pays(t) => Carried(r) = 0)
    BY <1>2 DEF Carried
  <1> QED
    BY <1>3, <1>4 DEF r

(* What is missing is created, and what the call carries is debited.       *)
LEMMA DebitCreates ==
    ASSUME NEW hand \in Int, NEW way \in Int, NEW read \in Nat, NEW value \in Nat,
           NEW missing \in Nat, missing = IF read < value THEN value - read ELSE 0
    PROVE  /\ read + missing >= value
           /\ (hand + way) + missing = (hand - read + ((read + missing) - value)) + (way + value)
  OBVIOUS

LEMMA SubmitBalances ==
    ASSUME ValueInv, IInv', NEW c \in Callers, Turn(c), Submit(c)
    PROVE  ValueInv'
  <1> DEFINE t == call[c].of
             pays == call[c].pays
             missing == IF pays /\ call[c].read < t.value THEN t.value - call[c].read ELSE 0
             has == balance[t.from] + missing
             left == IF has >= t.value THEN has - t.value ELSE has
             r == NewRow(t.hash, t.kind, t.from, t.to, t.value, t.emits, t.fees, FALSE, Pays(t))
  <1>1. /\ call[c].step = "debit" /\ call[c].step # "fund"
        /\ balance' = IF pays THEN [balance EXCEPT ![t.from] = left] ELSE balance
        /\ minted' = minted + missing
        /\ IF Known(t.hash) THEN UNCHANGED rows ELSE Insert(r)
        /\ Goto(c, NoCall) /\ UNCHANGED <<worker, givingUp, serial, lost>>
    BY DEF Submit, Unmoved, Known
  <1>2. t \in Submissions /\ pays \in BOOLEAN /\ call[c].read \in Int /\ IInv
    BY <1>1, CallFacts DEF ValueInv
  <1>3. t.from \in Addr /\ t.value \in Nat /\ balance[t.from] \in Nat /\ balance \in [Addr -> Nat]
    BY <1>2, SubmissionFacts DEF IInv
  <1>4. missing \in Nat /\ (~pays => missing = 0)
    BY <1>2, <1>3
  <1>5. minted' \in Int
    BY <1>1, <1>4 DEF ValueInv
  <1>6. /\ PaidRow(r) /\ Newborn(r)
        /\ Pays(t) => Carried(r) = t.value
        /\ ~Pays(t) => Carried(r) = 0
    BY <1>2, SubmittedRow
  <1>7. /\ Known(t.hash) => PaidRows' /\ Grown /\ OnTheWay' = OnTheWay
        /\ ~Known(t.hash) => PaidRows' /\ Grown /\ OnTheWay' = OnTheWay + Carried(r)
    <2> HIDE DEF r
    <2> QED
      BY <1>1, <1>6, RowsStay, NewRowCounts DEF Insert
  <1>8. PaidRows' /\ Grown
    BY <1>7
  <1>9. ASSUME serial
        PROVE  InHand' + OnTheWay' = (InHand + OnTheWay) + missing
    <2>1. (pays <=> Pays(t) /\ ~Known(t.hash)) /\ call[c].read = balance[t.from]
      BY <1>1, <1>9 DEF ValueInv, Alone, FreshCall
    <2>2. InHand \in Int /\ OnTheWay \in Int
      BY <1>2, SumsAreInts
    <2>3. CASE ~pays
      <3>1. InHand' = InHand /\ missing = 0
        BY <1>1, <1>4, <2>3, HandStays
      <3>2. OnTheWay' = OnTheWay \/ OnTheWay' = OnTheWay + 0
        BY <1>6, <1>7, <2>1, <2>3
      <3> HIDE DEF missing
      <3> QED
        BY <2>2, <3>1, <3>2
    <2>4. CASE pays
      <3>1. OnTheWay' = OnTheWay + t.value
        BY <1>6, <1>7, <2>1, <2>4
      <3>2. missing = IF balance[t.from] < t.value THEN t.value - balance[t.from] ELSE 0
        BY <2>1, <2>4
      <3>3. /\ balance[t.from] + missing >= t.value
            /\ (InHand + OnTheWay) + missing
                  = (InHand - balance[t.from] + ((balance[t.from] + missing) - t.value))
                      + (OnTheWay + t.value)
        <4> HIDE DEF missing
        <4> QED
          BY <1>3, <1>4, <2>2, <3>2, DebitCreates
      <3>4. left = (balance[t.from] + missing) - t.value
        <4>1. has >= t.value
          BY <3>3
        <4>2. left = has - t.value
          <5> HIDE DEF has
          <5> QED
            BY <4>1
        <4> HIDE DEF missing, left
        <4> QED
          BY <4>2
      <3>5. left \in Nat
        <4> HIDE DEF missing, left
        <4> QED
          BY <1>3, <1>4, <3>3, <3>4
      <3>6. balance' = [balance EXCEPT ![t.from] = left]
        BY <1>1, <2>4
      <3> HIDE DEF left, missing
      <3>7. InHand' = InHand - balance[t.from] + left
        BY <1>3, <3>5, <3>6, HandChanged
      <3> QED
        BY <3>1, <3>3, <3>4, <3>7, Zenon
    <2> QED
      BY <2>3, <2>4
  <1>10. \A i \in DOMAIN rows : Same(rows[i], rows'[i]) /\ (Held(i) => rows'[i].status = rows[i].status)
    <2> HIDE DEF r
    <2>1. rows' = rows \/ rows' = Append(rows, r)
      BY <1>1 DEF Insert
    <2>2. rows \in Seq(GoodRow)
      BY <1>2 DEF IInv
    <2>3. \A i \in DOMAIN rows : rows'[i] = rows[i]
      BY <2>1, <2>2
    <2> QED
      BY <2>3 DEF Same
  <1>11. call' = [call EXCEPT ![c] = NoCall] /\ call'[c] = NoCall
    BY <1>1, <1>2, CallNow
  <1>12. FreshCall(c)'
    BY <1>11 DEF FreshCall, NoCall
  <1>13. serial => (Settled => Settled')
    <2> HIDE DEF missing
    <2> QED
      BY <1>1, <1>4, <1>9, Settles
  <1>14. serial => CallerEffect(c)
    BY <1>1, <1>8, <1>10, <1>12, <1>13, RefundedGrown DEF CallerEffect
  <1> QED
    BY <1>1, <1>5, <1>8, <1>11, <1>14, CallerOk

LEMMA InsertFaucetBalances ==
    ASSUME ValueInv, IInv', NEW c \in Callers, Turn(c), InsertFaucet(c)
    PROVE  ValueInv'
  <1>1. PICK f \in Faucets :
           /\ Insert(NewRow(None, "send", None, f.to, f.value, <<>>, FALSE, FALSE, TRUE))
           /\ minted' = minted + f.value
    BY DEF InsertFaucet
  <1> DEFINE r == NewRow(None, "send", None, f.to, f.value, <<>>, FALSE, FALSE, TRUE)
             n == Len(rows) + 1
             s == [step |-> "fund", row |-> n]
  <1>2. /\ Goto(c, s) /\ UNCHANGED <<worker, givingUp, serial, lost, balance>> /\ IInv
        /\ call[c].step # "fund"
    BY DEF InsertFaucet, Unmoved, ValueInv, NoCall, Kept
  <1>3. /\ r.kind = "send" /\ r.from = None /\ r.paid = TRUE /\ r.triggered = FALSE
        /\ r.credited = FALSE /\ r.refunds = 0 /\ r.value = f.value /\ r.status = "PENDING"
    BY DEF NewRow
  <1>4. f.value \in Nat
    BY FaucetsAreSane
  <1> HIDE DEF r
  <1>5. PaidRow(r) /\ Carried(r) = f.value /\ r.refunds = 0
    BY <1>3 DEF PaidRow, Carried
  <1>6. rows' = Append(rows, r)
    BY <1>1 DEF Insert, r
  <1>7. PaidRows' /\ OnTheWay' = OnTheWay + f.value
    BY <1>5, <1>6, NewRowCounts
  <1>8. /\ DOMAIN rows' = DOMAIN rows \cup {n} /\ n \notin DOMAIN rows /\ rows'[n] = r
        /\ \A i \in DOMAIN rows : rows'[i] = rows[i]
    BY <1>2, <1>6 DEF IInv
  <1>9. call' = [call EXCEPT ![c] = s] /\ call'[c] = s /\ s.step = "fund" /\ s.row = n
    BY <1>2, CallNow
  <1> HIDE DEF s, n
  <1>10. minted' \in Int
    BY <1>1, <1>4 DEF ValueInv
  <1>11. Settled => Settled'
    <2>1. InHand' = InHand /\ InHand \in Int /\ OnTheWay \in Int
      BY <1>2, HandStays, SumsAreInts
    <2>2. InHand' + OnTheWay' = (InHand + OnTheWay) + f.value
      BY <1>4, <1>7, <2>1
    <2> QED
      BY <1>1, <1>2, <1>4, <2>2, Settles
  <1>12. FreshCall(c)'
    <2>1. (rows[call[c].row].refunds = 0)'
      BY <1>5, <1>8, <1>9
    <2> QED
      BY <1>3, <1>8, <1>9, <2>1 DEF FreshCall
  <1>13. ASSUME serial, NEW i \in DOMAIN rows' PROVE RefundedRow(i)'
    <2>1. CASE i \in DOMAIN rows
      <3>1. ~Funded(i) /\ RefundedRow(i) /\ rows'[i] = rows[i]
        BY <1>2, <1>8, <1>13, <2>1, CallerAlone DEF Funded, ValueInv, Alone
      <3> QED
        BY <3>1 DEF RefundedRow
    <2>2. CASE i = n
      <3>1. Funded(i)'
        BY <1>9, <2>2 DEF Funded
      <3> QED
        BY <1>3, <1>5, <1>8, <2>2, <3>1 DEF RefundedRow
    <2> QED
      BY <1>8, <2>1, <2>2
  <1>14. serial => CallerEffect(c)
    BY <1>8, <1>11, <1>12, <1>13 DEF CallerEffect, Same
  <1> QED
    BY <1>2, <1>7, <1>9, <1>10, <1>14, CallerOk
LEMMA CreditFaucetBalances ==
    ASSUME ValueInv, IInv', NEW c \in Callers, Turn(c), CreditFaucet(c)
    PROVE  ValueInv'
  <1> DEFINE i == call[c].row
  <1>1. /\ call[c].step = "fund" /\ Credit(i) /\ Goto(c, NoCall) /\ IInv
        /\ UNCHANGED <<worker, givingUp, serial, minted, lost>>
    BY DEF CreditFaucet, Unmoved, ValueInv
  <1>2. i \in DOMAIN rows
    BY <1>1, CallFacts
  <1>3. /\ PaidRows' /\ Grown /\ DOMAIN rows' = DOMAIN rows
        /\ \A j \in DOMAIN rows : Older(rows[j], rows'[j]) /\ rows'[j].status = rows[j].status
        /\ rows'[i].credited \/ rows'[i].value = 0
        /\ (rows[i].value > 0 => rows[i].paid) /\ rows[i].refunds = 0
             => InHand' + OnTheWay' = InHand + OnTheWay
    BY <1>1, <1>2, CreditMoves
  <1>4. call' = [call EXCEPT ![c] = NoCall] /\ call'[c] = NoCall
    BY <1>1, CallNow
  <1>5. FreshCall(c)'
    BY <1>4 DEF FreshCall, NoCall
  <1>6. minted' \in Int
    BY <1>1 DEF ValueInv
  <1>7. ASSUME serial, Settled PROVE Settled'
    <2>1. rows[i].refunds = 0 /\ rows[i].paid
      BY <1>1, <1>7 DEF ValueInv, Alone, FreshCall
    <2> QED
      BY <1>1, <1>3, <1>7, <2>1 DEF Settled
  <1>8. ASSUME serial, NEW j \in DOMAIN rows' PROVE RefundedRow(j)'
    <2>1. RefundedRow(j) /\ Older(rows[j], rows'[j])
      BY <1>3, <1>8 DEF ValueInv, Alone
    <2>2. j # i => ~Funded(j)
      BY <1>8, CallerAlone DEF Funded
    <2>3. j = i \/ j # i
      OBVIOUS
    <2>4. rows[j].from = None => rows'[j].credited \/ rows'[j].value = 0
      BY <1>3, <2>1, <2>2, <2>3 DEF RefundedRow, Older, Same
    <2> QED
      BY <2>1, <2>4 DEF RefundedRow, Older, Same
  <1>9. serial => CallerEffect(c)
    BY <1>3, <1>5, <1>7, <1>8 DEF CallerEffect, Older
  <1> QED
    BY <1>1, <1>3, <1>4, <1>6, <1>9, CallerOk

LEMMA CancelStatusMovesNothing ==
    ASSUME ValueInv, IInv', NEW c \in Callers, Turn(c), CancelStatus(c)
    PROVE  ValueInv'
  <1>1. PICK i \in DOMAIN rows : /\ rows[i].status = "PENDING" /\ ~Held(i)
                                 /\ rows' = [rows EXCEPT ![i].status = "CANCELED"]
                                 /\ Goto(c, [step |-> "refund", row |-> i])
    BY Zenon DEF CancelStatus
  <1> DEFINE s == [step |-> "refund", row |-> i]
             q == [rows[i] EXCEPT !.status = "CANCELED"]
  <1>2. /\ UNCHANGED <<worker, givingUp, serial, minted, lost, balance>> /\ IInv /\ call[c].step # "fund"
    BY DEF CancelStatus, Unmoved, ValueInv, NoCall, Kept
  <1>3. rows[i] \in RowSet /\ rows' = [rows EXCEPT ![i] = q]
    BY <1>1, <1>2, RowFacts
  <1>4. /\ Same(rows[i], q) /\ q.status = "CANCELED" /\ q.refunds = rows[i].refunds
        /\ q.credited = rows[i].credited /\ q.paid = rows[i].paid
    BY <1>3 DEF RowSet, Same
  <1> HIDE DEF q
  <1>5. Carried(q) = Carried(rows[i]) /\ (q.refunds # 0 <=> rows[i].refunds # 0)
    BY <1>4 DEF Carried, Same
  <1>6. /\ PaidRows' /\ rows'[i] = q /\ DOMAIN rows' = DOMAIN rows
        /\ OnTheWay' = OnTheWay - Carried(rows[i]) + Carried(q)
    BY <1>3, <1>4, OneRow
  <1>7. OnTheWay' = OnTheWay
    <2>1. OnTheWay \in Int /\ Carried(rows[i]) \in Int
      BY <1>2, <1>3, SumsAreInts, CarriedNat
    <2> QED
      BY <1>5, <1>6, <2>1
  <1>8. \A j \in DOMAIN rows : rows'[j] = IF j = i THEN q ELSE rows[j]
    BY <1>2, <1>3 DEF IInv
  <1>9. call' = [call EXCEPT ![c] = s] /\ call'[c] = s /\ s.step = "refund" /\ s.row = i
    BY <1>1, <1>2, CallNow
  <1> HIDE DEF s
  <1>10. ASSUME serial PROVE rows[i].refunds = 0
    BY <1>1, <1>10 DEF ValueInv, Alone, RefundedRow
  <1>11. ASSUME serial PROVE FreshCall(c)'
    <2>1. (rows[call[c].row].refunds = 0)'
      BY <1>5, <1>6, <1>9, <1>10, <1>11
    <2> QED
      BY <1>4, <1>6, <1>9, <2>1 DEF FreshCall
  <1>12. ASSUME serial, NEW j \in DOMAIN rows' PROVE RefundedRow(j)'
    <2>1. RefundedRow(j) /\ ~Funded(j)
      BY <1>2, <1>6, <1>12, CallerAlone DEF Funded, ValueInv, Alone
    <2>2. /\ rows'[j].refunds = rows[j].refunds /\ rows'[j].credited = rows[j].credited
          /\ Same(rows[j], rows'[j])
          /\ rows[j].status = "CANCELED" => rows'[j].status = "CANCELED"
      BY <1>4, <1>6, <1>8, <1>12 DEF Same
    <2> QED
      BY <2>1, <2>2 DEF RefundedRow, Same
  <1>13. \A j \in DOMAIN rows : Same(rows[j], rows'[j]) /\ (Held(j) => rows'[j].status = rows[j].status)
    BY <1>1, <1>4, <1>8 DEF Same
  <1>14. Settled => Settled'
    BY <1>2, <1>7, HandStays DEF Settled
  <1>15. serial => CallerEffect(c)
    BY <1>11, <1>12, <1>13, <1>14 DEF CallerEffect
  <1>16. minted' \in Int
    BY <1>2 DEF ValueInv
  <1> QED
    BY <1>2, <1>6, <1>9, <1>15, <1>16, CallerOk
(* Somebody gets back what a row carried; or what was not taken for it,    *)
(* which creates it.                                                       *)
GivenRow(i, status) ==
    [rows[i] EXCEPT !.status = status,
                    !.refunds = IF rows[i].credited THEN rows[i].refunds ELSE rows[i].refunds + 1]
Unpaid(r) == IF r.paid \/ r.credited THEN 0 ELSE r.value
LEMMA GivenRowFacts ==
    ASSUME IInv, NEW i \in DOMAIN rows, NEW status
    PROVE  LET q == GivenRow(i, status)
           IN /\ Same(rows[i], q) /\ q.status = status /\ q.paid = rows[i].paid
              /\ q.credited = rows[i].credited /\ q.value = rows[i].value
              /\ q.refunds = IF rows[i].credited THEN rows[i].refunds ELSE rows[i].refunds + 1
  <1> DEFINE n == IF rows[i].credited THEN rows[i].refunds ELSE rows[i].refunds + 1
  <1>1. rows[i] \in RowSet
    BY RowFacts
  <1>2. GivenRow(i, status) = [rows[i] EXCEPT !.status = status, !.refunds = n]
    BY DEF GivenRow
  <1> HIDE DEF n
  <1>3. LET q == [rows[i] EXCEPT !.status = status, !.refunds = n]
        IN /\ Same(rows[i], q) /\ q.status = status /\ q.paid = rows[i].paid
           /\ q.credited = rows[i].credited /\ q.value = rows[i].value /\ q.refunds = n
    BY <1>1 DEF RowSet, Same
  <1> QED
    BY <1>2, <1>3 DEF n

LEMMA GiveBackKeeps ==
    ASSUME ValueInv, IInv', NEW i \in DOMAIN rows, NEW status, GiveBack(i, status)
    PROVE  /\ PaidRows' /\ minted' \in Int /\ minted' = minted + Unpaid(rows[i])
           /\ Unpaid(rows[i]) \in Int
           /\ DOMAIN rows' = DOMAIN rows /\ rows'[i] = GivenRow(i, status)
           /\ \A j \in DOMAIN rows : j # i => rows'[j] = rows[j]
           /\ OnTheWay' = OnTheWay - Carried(rows[i]) + Carried(GivenRow(i, status))
  <1>1. IInv /\ minted \in Int /\ rows[i].value \in Nat
    BY RowFacts DEF ValueInv
  <1>2. minted' = minted + Unpaid(rows[i]) /\ Unpaid(rows[i]) \in Int
    BY <1>1 DEF GiveBack, Unpaid
  <1>3. rows' = [rows EXCEPT ![i] = GivenRow(i, status)]
    BY <1>1 DEF GiveBack, GivenRow, IInv
  <1>4. Same(rows[i], GivenRow(i, status))
    BY <1>1, GivenRowFacts
  <1>5. /\ PaidRows' /\ rows'[i] = GivenRow(i, status) /\ DOMAIN rows' = DOMAIN rows
        /\ OnTheWay' = OnTheWay - Carried(rows[i]) + Carried(GivenRow(i, status))
    BY <1>3, <1>4, OneRow
  <1>6. \A j \in DOMAIN rows : j # i => rows'[j] = rows[j]
    BY <1>1, <1>3 DEF IInv
  <1> QED
    BY <1>1, <1>2, <1>5, <1>6

LEMMA GiveBackCounts ==
    ASSUME ValueInv, IInv', NEW i \in DOMAIN rows, NEW status, GiveBack(i, status),
           rows[i].refunds = 0, rows[i].from = None => rows[i].credited \/ rows[i].value = 0
    PROVE  InHand' + OnTheWay' = (InHand + OnTheWay) + Unpaid(rows[i])
  <1> DEFINE r == rows[i]
             q == GivenRow(i, status)
  <1>1. /\ InHand \in Int /\ OnTheWay \in Int /\ r.value \in Nat /\ r.from \in Addr \cup {None}
        /\ balance \in [Addr -> Nat] /\ IInv /\ r.refunds = 0 /\ 0 # 1
    BY SumsAreInts, RowFacts DEF ValueInv, IInv, RowSet
  <1>2. /\ q.paid = r.paid /\ q.credited = r.credited /\ q.value = r.value
        /\ q.refunds = IF r.credited THEN r.refunds ELSE r.refunds + 1
    BY <1>1, GivenRowFacts
  <1>3. OnTheWay' = OnTheWay - Carried(r) + Carried(q) /\ Refund(i)
    BY GiveBackKeeps DEF GiveBack
  <1> HIDE DEF q
  <1>4. CASE r.credited \/ r.value = 0
    <2>1. Carried(r) = 0 /\ Carried(q) = 0 /\ Unpaid(r) = 0
      BY <1>2, <1>4 DEF Carried, Unpaid
    <2>2. InHand' = InHand
      BY <1>3, <1>4, HandStays DEF Refund, Kept
    <2> QED
      BY <1>1, <1>3, <2>1, <2>2
  <1>5. CASE ~(r.credited \/ r.value = 0)
    <2>1. r.from \in Addr /\ r.from # None
      BY <1>1, <1>5
    <2>2. Carried(q) = 0 /\ Carried(r) + Unpaid(r) = r.value /\ Carried(r) \in Int /\ Unpaid(r) \in Int
      BY <1>1, <1>2, <1>5 DEF Carried, Unpaid
    <2>3. balance' = [balance EXCEPT ![r.from] = balance[r.from] + r.value]
      BY <1>3, <1>5, <2>1 DEF Refund
    <2>4. balance[r.from] \in Nat /\ balance[r.from] + r.value \in Nat
      BY <1>1, <2>1
    <2>5. InHand' = InHand - balance[r.from] + (balance[r.from] + r.value)
      BY <1>1, <2>1, <2>3, <2>4, HandChanged
    <2> HIDE DEF r
    <2>6. InHand' + OnTheWay' = (InHand + OnTheWay) + Unpaid(r)
      BY <1>1, <1>3, <2>2, <2>4, <2>5
    <2> QED
      BY <2>6 DEF r
  <1> QED
    BY <1>4, <1>5

LEMMA CancelRefundBalances ==
    ASSUME ValueInv, IInv', NEW c \in Callers, Turn(c), CancelRefund(c)
    PROVE  ValueInv'
  <1> DEFINE i == call[c].row
             q == GivenRow(i, rows[i].status)
  <1>1. /\ call[c].step = "refund" /\ call[c].step # "fund" /\ Goto(c, NoCall)
        /\ GiveBack(i, rows[i].status) /\ UNCHANGED <<worker, givingUp, serial, lost>> /\ IInv
    BY DEF CancelRefund, Unmoved, ValueInv
  <1>2. i \in DOMAIN rows
    BY <1>1, CallFacts
  <1>3. /\ PaidRows' /\ minted' \in Int /\ minted' = minted + Unpaid(rows[i])
        /\ Unpaid(rows[i]) \in Int
        /\ DOMAIN rows' = DOMAIN rows /\ rows'[i] = q
        /\ \A j \in DOMAIN rows : j # i => rows'[j] = rows[j]
    BY <1>1, <1>2, GiveBackKeeps
  <1>4. Same(rows[i], q) /\ q.status = rows[i].status /\ q.credited = rows[i].credited
    BY <1>1, <1>2, GivenRowFacts
  <1> HIDE DEF q
  <1>5. call' = [call EXCEPT ![c] = NoCall] /\ call'[c] = NoCall
    BY <1>1, CallNow
  <1>6. FreshCall(c)'
    BY <1>5 DEF FreshCall, NoCall
  <1>7. ASSUME serial
        PROVE  /\ rows[i].refunds = 0 /\ rows[i].status = "CANCELED"
               /\ \A j \in DOMAIN rows : ~Funded(j) /\ RefundedRow(j)
    BY <1>1, <1>7, CallerAlone DEF ValueInv, Alone, FreshCall, Funded
  <1>8. \A j \in DOMAIN rows : /\ Same(rows[j], rows'[j]) /\ rows'[j].status = rows[j].status
                               /\ rows'[j].credited = rows[j].credited
    BY <1>3, <1>4 DEF Same
  <1>9. ASSUME serial, NEW j \in DOMAIN rows' PROVE RefundedRow(j)'
    <2>1. RefundedRow(j) /\ ~Funded(j)
      BY <1>3, <1>7, <1>9
    <2>2. rows'[j].refunds # 0 => rows'[j].status = "CANCELED"
      <3>1. CASE j = i
        BY <1>2, <1>7, <1>8, <1>9, <3>1
      <3>2. CASE j # i
        BY <1>3, <1>9, <2>1, <3>2 DEF RefundedRow
      <3> QED
        BY <3>1, <3>2
    <2> QED
      BY <1>3, <1>8, <2>1, <2>2 DEF RefundedRow, Same
  <1>10. ASSUME serial PROVE Settled => Settled'
    <2>1. rows[i].from = None => rows[i].credited \/ rows[i].value = 0
      BY <1>2, <1>7, <1>10 DEF RefundedRow
    <2>2. InHand' + OnTheWay' = (InHand + OnTheWay) + Unpaid(rows[i])
      BY <1>1, <1>2, <1>7, <1>10, <2>1, GiveBackCounts
    <2> QED
      BY <1>1, <1>3, <2>2, Settles
  <1>11. serial => CallerEffect(c)
    BY <1>3, <1>6, <1>8, <1>9, <1>10 DEF CallerEffect
  <1> QED
    BY <1>1, <1>3, <1>5, <1>11, CallerOk

(* Nobody holds a row that another holds.                                  *)
HeldOnce ==
    \A v, w \in Workers : ~At(v, "idle") /\ ~At(w, "idle") /\ worker[v].row = worker[w].row => v = w
LEMMA OneGoesOn ==
    ASSUME IInv, HeldOnce, NEW w \in Workers, NEW s, worker' = [worker EXCEPT ![w] = s],
           \/ s.step = "idle"
           \/ ~At(w, "idle") /\ s.row = worker[w].row
           \/ ~Held(s.row)
    PROVE  HeldOnce'
  <1>1. \A v \in Workers : worker'[v] = IF v = w THEN s ELSE worker[v]
    BY DEF IInv
  <1>2. ASSUME NEW v \in Workers, v # w, worker[v].step # "idle", s.step # "idle", worker[v].row = s.row
        PROVE  FALSE
    <2>1. Held(s.row)
      BY <1>2 DEF Held
    <2> QED
      BY <1>2, <2>1 DEF HeldOnce, At
  <1> QED
    BY <1>1, <1>2 DEF HeldOnce, At

LEMMA HeldOnceStep ==
    ASSUME IInv, HeldOnce, [Next]_vars
    PROVE  HeldOnce'
  <1>1. ASSUME NEW w \in Workers,
               TransferDone(w) \/ TransferFails(w) \/ WriteTransfer(w) \/ WriteCredit(w)
               \/ Undetermined(w) \/ Decide(w) \/ Crash(w) \/ Abandon(w) \/ Release(w)
        PROVE  HeldOnce'
    <2>1. Step(w, Idle) /\ Idle.step = "idle"
      BY <1>1 DEF TransferDone, TransferFails, WriteTransfer, WriteCredit, Undetermined, Decide,
         Crash, Abandon, Stops, Release, Idle
    <2> QED
      BY <2>1, OneGoesOn DEF Step
  <1>2. ASSUME NEW w \in Workers,
               ReadFrom(w) \/ ReadTo(w) \/ CreateRecipient(w) \/ Activate(w) \/ Accept(w)
               \/ WithdrawAccepted(w) \/ WithdrawFinal(w) \/ EmitNext(w)
        PROVE  HeldOnce'
    <2> SUFFICES \E s : Step(w, s) /\ ~At(w, "idle") /\ s.row = worker[w].row
      BY OneGoesOn DEF Step
    <2>1. CASE ReadFrom(w)
      <3>1. ~At(w, "idle")
        BY <2>1 DEF ReadFrom, At
      <3> QED
        BY <2>1, <3>1 DEF ReadFrom
    <2>2. CASE ReadTo(w)
      <3>1. ~At(w, "idle")
        BY <2>2 DEF ReadTo, At
      <3> QED
        BY <2>2, <3>1 DEF ReadTo
    <2>3. CASE CreateRecipient(w)
      <3>1. ~At(w, "idle") /\ Step(w, On(w, "credit"))
        BY <2>3 DEF CreateRecipient, At
      <3>2. On(w, "credit").row = worker[w].row
        BY <2>3, OnCredit DEF CreateRecipient
      <3> QED
        BY <3>1, <3>2
    <2>4. CASE Activate(w)
      <3>1. ~At(w, "idle") /\ Step(w, On(w, "round"))
        BY <2>4 DEF Activate, At
      <3>2. worker[w].step \in Holding
        BY <2>4 DEF Activate, At, Holding
      <3>3. On(w, "round").row = worker[w].row
        BY <3>1, <3>2, WorkerFacts
      <3> QED
        BY <3>1, <3>3
    <2>5. CASE Accept(w)
      <3>1. ~At(w, "idle") /\ Step(w, On(w, "accepted"))
        BY <2>5 DEF Accept, At
      <3>2. worker[w].step \in Holding
        BY <2>5 DEF Accept, At, Holding
      <3>3. On(w, "accepted").row = worker[w].row
        BY <3>1, <3>2, WorkerFacts
      <3> QED
        BY <3>1, <3>3
    <2>6. CASE WithdrawAccepted(w) \/ WithdrawFinal(w)
      <3>1. ~At(w, "idle") /\ \E on : Withdraw(w, on)
        BY <2>6 DEF WithdrawAccepted, WithdrawFinal, At
      <3>2. PICK on : Withdraw(w, on)
        BY <3>1
      <3>3. \E out, left, backed : Step(w, [step |-> "emit", row |-> worker[w].row, on |-> on,
                                            left |-> left, backed |-> backed])
        BY <3>2, Zenon DEF Withdraw, EmitFirst
      <3> QED
        BY <3>1, <3>3
    <2>7. CASE EmitNext(w)
      <3>1. ~At(w, "idle") /\ EmitFirst(w, worker[w].row, worker[w].on, worker[w].left, worker[w].backed)
        BY <2>7 DEF EmitNext, At
      <3>2. \E left : Step(w, [step |-> "emit", row |-> worker[w].row, on |-> worker[w].on,
                               left |-> left, backed |-> worker[w].backed])
        BY <3>1, Zenon DEF EmitFirst
      <3> QED
        BY <3>1, <3>2
    <2> QED
      BY <1>2, <2>1, <2>2, <2>3, <2>4, <2>5, <2>6, <2>7
  <1>3. ASSUME NEW w \in Workers, Claim(w) \/ ClaimFinal(w) \/ AppealFails(w) \/ AppealSucceeds(w)
        PROVE  HeldOnce'
    <2>1. \A i \in DOMAIN rows : i \in Neighbours(i)
      BY DEF Neighbours
    <2>2. \/ UNCHANGED worker
          \/ \E i, step : Step(w, [step |-> step, row |-> i]) /\ ~Held(i)
      <3>1. CASE Claim(w)
        BY <2>1, <3>1 DEF Claim
      <3>2. CASE ClaimFinal(w)
        BY <2>1, <3>2 DEF ClaimFinal
      <3>3. CASE AppealFails(w) \/ AppealSucceeds(w)
        BY <2>1, <3>3 DEF AppealFails, AppealSucceeds, MayAppeal
      <3> QED
        BY <1>3, <3>1, <3>2, <3>3
    <2>3. CASE UNCHANGED worker
      BY <2>3 DEF HeldOnce, At
    <2>4. CASE \E i, step : Step(w, [step |-> step, row |-> i]) /\ ~Held(i)
      BY <2>4, OneGoesOn DEF Step
    <2> QED
      BY <2>2, <2>3, <2>4
  <1>4. ASSUME UNCHANGED worker PROVE HeldOnce'
    BY <1>4 DEF HeldOnce, At
  <1>5. ASSUME NEW c \in Callers,
               ReadDuplicate(c) \/ ReadBalance(c) \/ Submit(c) \/ InsertFaucet(c)
               \/ CreditFaucet(c) \/ CancelStatus(c) \/ CancelRefund(c)
        PROVE  UNCHANGED worker
    BY <1>5 DEF ReadDuplicate, ReadBalance, Submit, InsertFaucet, CreditFaucet, CancelStatus,
       CancelRefund, Unmoved
  <1>6. ASSUME NEW i \in givingUp, GiveUp(i) PROVE UNCHANGED worker
    BY <1>6 DEF GiveUp
  <1>7. CASE UNCHANGED vars
    BY <1>4, <1>7 DEF vars
  <1> QED
    BY <1>1, <1>2, <1>3, <1>4, <1>5, <1>6, <1>7, Zenon DEF Next

(* A worker stops: what it owes is lost.                                   *)
LEMMA OwedIsInt ==
    ASSUME IInv, NEW w \in Workers
    PROVE  Owed(w) \in Int
  <1>1. CASE At(w, "emit")
    <2> DEFINE D == Debt(Row(w).emits, worker[w].backed)
               S == worker[w].left
    <2>1. ~At(w, "idle")
      BY <1>1 DEF At
    <2>2. worker[w].row \in DOMAIN rows /\ worker[w].backed \in BOOLEAN /\ S \in SUBSET DOMAIN Row(w).emits
      BY <1>1, <2>1, WorkerFacts
    <2>3. Row(w).emits \in Emits
      BY <2>2, RowFacts DEF Row
    <2>4. IsFiniteSet(S) /\ Sum(D, S) = Total(D, S) /\ \A k \in S : D[k] \in Int
      BY <2>2, <2>3, DebtFacts
    <2>5. Owed(w) = Sum(D, S)
      BY <1>1 DEF Owed
    <2> HIDE DEF D, S
    <2> QED
      BY <2>4, <2>5, TotalInt
  <1>2. CASE ~At(w, "emit")
    BY <1>2, NoDue
  <1> QED
    BY <1>1, <1>2

LEMMA StopCounts ==
    ASSUME ValueInv, IInv', NEW w \in Workers, Turn(w), Stops(w), PaidRows',
           NEW d \in Int, minted' = minted + d,
           serial => Ages(w) /\ InHand' + OnTheWay' = (InHand + OnTheWay) + d
    PROVE  ValueInv'
  <1>1. /\ Step(w, Idle) /\ lost' = lost + Owed(w) /\ UNCHANGED <<call, givingUp, serial>>
        /\ worker' = [worker EXCEPT ![w] = Idle] /\ Idle.step = "idle"
    BY DEF Stops, Step, Idle
  <1>2. minted \in Int /\ lost \in Int /\ Owed(w) \in Int /\ minted' \in Int /\ lost' \in Int
    BY <1>1, OwedIsInt DEF ValueInv
  <1>3. HeldRow(w)' /\ FreshRead(w)' /\ Owed(w)' = 0
    BY <1>1, HoldsNow DEF ValueInv
  <1>4. ASSUME serial, SettledBy(w) PROVE SettledBy(w)'
    <2>1. InHand \in Int /\ OnTheWay \in Int /\ InHand' \in Int /\ OnTheWay' \in Int
      BY SumsAreInts, SumsAreIntsNext DEF ValueInv
    <2>2. PICK owed \in Int : owed = Owed(w)
      BY <1>2
    <2>3. PICK sum \in Int : sum = InHand + OnTheWay
      BY <2>1
    <2>4. PICK hand \in Int : hand = InHand'
      BY <2>1, Zenon
    <2>5. PICK way \in Int : way = OnTheWay'
      BY <2>1, Zenon
    <2>6. PICK made \in Int : made = minted
      BY <1>2
    <2>7. PICK gone \in Int : gone = lost
      BY <1>2
    <2>8. made = gone + (sum + owed) /\ hand + way = sum + d
      BY <1>4, <2>2, <2>3, <2>4, <2>5, <2>6, <2>7, Zenon DEF SettledBy
    <2>9. made + d = (gone + owed) + (hand + way + 0)
      BY ONLY <2>8, made \in Int, gone \in Int, sum \in Int, owed \in Int, d \in Int, hand \in Int, way \in Int
    <2>10. minted' = made + d /\ lost' = gone + owed
      BY <1>1, <2>2, <2>6, <2>7, Zenon
    <2> QED
      BY <1>3, <2>4, <2>5, <2>9, <2>10, Zenon DEF SettledBy
  <1> QED
    BY <1>1, <1>2, <1>3, <1>4, WorkerCounts

LEMMA CrashBalances ==
    ASSUME ValueInv, IInv', NEW w \in Workers, Turn(w), Crash(w)
    PROVE  ValueInv'
  <1>1. Stops(w) /\ UNCHANGED <<balance, rows, minted>>
    BY DEF Crash, Kept
  <1>2. PaidRows' /\ Grown /\ OnTheWay' = OnTheWay /\ InHand' = InHand
    BY <1>1, RowsStay, HandStays
  <1>3. worker' = [worker EXCEPT ![w] = Idle]
    BY <1>1 DEF Stops, Step
  <1>4. serial => Ages(w)
    BY <1>2, <1>3, GrownAges
  <1>5. minted' = minted + 0 /\ InHand' + OnTheWay' = (InHand + OnTheWay) + 0
    BY <1>1, <1>2, SumsAreInts DEF ValueInv
  <1> QED
    BY <1>1, <1>2, <1>4, <1>5, StopCounts

(* What is given back with the status was not given back before.           *)
LEMMA GivenOnce ==
    ASSUME ValueInv, serial, NEW i \in DOMAIN rows, rows[i].status # "CANCELED", ~Funded(i)
    PROVE  rows[i].refunds = 0 /\ (rows[i].from = None => rows[i].credited \/ rows[i].value = 0)
  <1>1. RefundedRow(i)
    BY DEF ValueInv, Alone
  <1> QED
    BY <1>1 DEF RefundedRow

LEMMA AbandonBalances ==
    ASSUME ValueInv, HeldOnce, IInv', NEW w \in Workers, Turn(w), Abandon(w)
    PROVE  ValueInv'
  <1> DEFINE i == worker[w].row
  <1>1. Stops(w) /\ GiveBack(i, "CANCELED") /\ ~At(w, "idle") /\ IInv
    BY DEF Abandon, Stops, ValueInv
  <1>2. i \in DOMAIN rows
    BY <1>1, WorkerFacts
  <1>3. /\ PaidRows' /\ minted' = minted + Unpaid(rows[i]) /\ Unpaid(rows[i]) \in Int
        /\ DOMAIN rows' = DOMAIN rows /\ rows'[i] = GivenRow(i, "CANCELED")
        /\ \A j \in DOMAIN rows : j # i => rows'[j] = rows[j]
    BY <1>1, <1>2, GiveBackKeeps
  <1>4. /\ Same(rows[i], rows'[i]) /\ rows'[i].status = "CANCELED"
        /\ rows'[i].credited = rows[i].credited
    BY <1>1, <1>2, <1>3, GivenRowFacts
  <1>5. ASSUME serial
        PROVE  Ages(w) /\ InHand' + OnTheWay' = (InHand + OnTheWay) + Unpaid(rows[i])
    <2>1. HeldRow(w) /\ ~Funded(i)
      BY <1>5, WorkerAlone DEF ValueInv, Alone, Funded
    <2>2. rows[i].refunds = 0 /\ (rows[i].from = None => rows[i].credited \/ rows[i].value = 0)
      BY <1>1, <1>2, <1>5, <2>1, GivenOnce DEF HeldRow, Row
    <2>3. \A j \in DOMAIN rows' : rows'[j].refunds # 0 => rows'[j].status = "CANCELED"
      BY <1>3, <1>4, <1>5 DEF ValueInv, Alone, RefundedRow
    <2>4. \A j \in DOMAIN rows : Same(rows[j], rows'[j]) /\ rows'[j].credited = rows[j].credited
      BY <1>3, <1>4 DEF Same
    <2>5. ASSUME NEW v \in Workers \ {w} PROVE HeldRow(v)'
      <3>1. worker'[v] = worker[v] /\ HeldRow(v)
        BY <1>1, <1>5 DEF Stops, Step, IInv, ValueInv, Alone
      <3>2. ~At(v, "idle") => worker[v].row \in DOMAIN rows /\ worker[v].row # i
        BY <1>1 DEF HeldOnce, IInv, RowsExist
      <3> QED
        BY <1>3, <3>1, <3>2 DEF HeldRow, At, Row
    <2>6. InHand' + OnTheWay' = (InHand + OnTheWay) + Unpaid(rows[i])
      BY <1>1, <1>2, <2>2, GiveBackCounts
    <2> QED
      BY <1>3, <2>3, <2>4, <2>5, <2>6 DEF Ages
  <1> QED
    BY <1>1, <1>3, <1>5, StopCounts

(* It releases the row; nobody can act until it has given up.              *)
LEMMA ReleaseMovesNothing ==
    ASSUME ValueInv, HeldOnce, IInv', NEW w \in Workers, Turn(w), Release(w)
    PROVE  ValueInv'
  <1>0. PICK i : i = worker[w].row
    OBVIOUS
  <1>1. /\ Step(w, Idle) /\ ~At(w, "idle") /\ ~At(w, "emit") /\ givingUp' = givingUp \cup {i}
        /\ UNCHANGED <<balance, rows, call, serial, minted, lost>> /\ IInv
        /\ worker' = [worker EXCEPT ![w] = Idle] /\ Idle.step = "idle"
    BY <1>0 DEF Release, Kept, At, Step, Idle, ValueInv
  <1>2. PaidRows' /\ Grown /\ OnTheWay' = OnTheWay /\ InHand' = InHand
    BY <1>1, RowsStay, HandStays
  <1>3. HeldRow(w)' /\ FreshRead(w)' /\ Owed(w)' = 0 /\ Owed(w) = 0
    BY <1>1, HoldsNow, NoDue
  <1>4. minted' \in Int /\ lost' \in Int
    BY <1>1 DEF ValueInv
  <1>5. ASSUME serial PROVE Alone'
    <2>1. Ages(w)
      BY <1>1, <1>2, <1>5, GrownAges
    <2>2. SettledBy(w)'
      <3>1. SettledBy(w)
        BY <1>5, SettledNow
      <3> QED
        BY <1>1, <1>2, <1>3, <3>1 DEF SettledBy
    <2>3. Books'
      BY <1>1, <1>5, <2>2, WorkerBooks
    <2>4. \A v \in Workers : worker'[v] = IF v = w THEN Idle ELSE worker[v]
      BY <1>1 DEF IInv
    <2>5. givingUp' = {i}
      BY <1>1, <1>5, WorkerAlone
    <2>6. Released(i)'
      <3>1. rows[i].status # "CANCELED"
        BY <1>0, <1>1, <1>5 DEF ValueInv, Alone, HeldRow, Row
      <3>2. \A v \in Workers : v # w /\ ~At(v, "idle") => worker[v].row # i
        BY <1>0, <1>1 DEF HeldOnce
      <3> QED
        BY <1>1, <2>4, <3>1, <3>2 DEF Released, At
    <2>7. ASSUME NEW p \in Workers \cup Callers PROVE ~Busy(p)'
      <3>1. CASE p \in Workers
        BY <1>1, <1>5, <2>4, <3>1, WorkerAlone DEF Busy
      <3>2. CASE p \notin Workers
        BY <1>1, <1>5, <3>2, WorkerAlone DEF Busy
      <3> QED
        BY <3>1, <3>2
    <2>8. /\ \A j \in DOMAIN rows' : RefundedRow(j)'
          /\ \A v \in Workers : HeldRow(v)' /\ FreshRead(v)'
          /\ \A c \in Callers : FreshCall(c)'
      BY <1>1, <1>3, <1>5, <2>1, WorkerKeeps
    <2>9. \A j \in givingUp' : Released(j)' /\ \A p \in Workers \cup Callers : ~Busy(p)'
      BY <2>5, <2>6, <2>7
    <2> QED
      BY <2>3, <2>8, <2>9 DEF Alone
  <1> QED
    BY <1>1, <1>2, <1>4, <1>5 DEF ValueInv

(* It gives up: nothing has happened to the row since it was released.     *)
LEMMA GiveUpBalances ==
    ASSUME ValueInv, IInv', NEW i \in givingUp, GiveUp(i)
    PROVE  ValueInv'
  <1>1. /\ GiveBack(i, "CANCELED") /\ givingUp' = givingUp \ {i}
        /\ UNCHANGED <<worker, call, serial, lost>> /\ IInv
    BY DEF GiveUp, ValueInv
  <1>2. i \in DOMAIN rows
    BY <1>1 DEF IInv, RowsExist
  <1>3. /\ PaidRows' /\ minted' = minted + Unpaid(rows[i]) /\ Unpaid(rows[i]) \in Int /\ minted' \in Int
        /\ DOMAIN rows' = DOMAIN rows /\ rows'[i] = GivenRow(i, "CANCELED")
        /\ \A j \in DOMAIN rows : j # i => rows'[j] = rows[j]
    BY <1>1, <1>2, GiveBackKeeps
  <1>4. /\ Same(rows[i], rows'[i]) /\ rows'[i].status = "CANCELED"
        /\ rows'[i].credited = rows[i].credited
    BY <1>1, <1>2, <1>3, GivenRowFacts
  <1>5. ASSUME serial PROVE Alone'
    <2>1. /\ \A j \in givingUp : Released(j)
          /\ \A p \in Workers \cup Callers : ~Busy(p)
      BY <1>5 DEF ValueInv, Alone
    <2>2. /\ \A v \in Workers : worker[v].step \notin {"to", "write", "credit", "emit"}
          /\ \A c \in Callers : call[c].step \notin {"submit", "debit", "fund", "refund"}
      BY <2>1, WorkersAreNotCallers DEF Busy
    <2>3. \A j \in DOMAIN rows : ~Funded(j) /\ RefundedRow(j)
      BY <1>5, <2>2 DEF ValueInv, Alone, Funded
    <2>4. rows[i].refunds = 0 /\ (rows[i].from = None => rows[i].credited \/ rows[i].value = 0)
      BY <1>2, <1>5, <2>1, <2>3, GivenOnce DEF Released
    <2>5. ASSUME NEW j \in DOMAIN rows' PROVE RefundedRow(j)'
      <3>1. CASE j = i
        BY <1>2, <1>4, <2>3, <3>1 DEF RefundedRow, Same
      <3>2. CASE j # i
        BY <1>3, <2>3, <3>2 DEF RefundedRow
      <3> QED
        BY <3>1, <3>2
    <2>6. ASSUME NEW v \in Workers PROVE HeldRow(v)' /\ FreshRead(v)'
      <3>1. worker'[v] = worker[v] /\ HeldRow(v)
        BY <1>1, <1>5 DEF ValueInv, Alone
      <3>2. ~At(v, "idle") => worker[v].row \in DOMAIN rows /\ worker[v].row # i
        BY <1>1, <2>1 DEF Released, IInv, RowsExist
      <3>3. HeldRow(v)'
        BY <1>3, <3>1, <3>2 DEF HeldRow, At, Row
      <3>4. FreshRead(v)'
        BY <2>2, <3>1 DEF FreshRead, At
      <3> QED
        BY <3>3, <3>4
    <2>7. ASSUME NEW c \in Callers PROVE FreshCall(c)'
      BY <1>1, <2>2 DEF FreshCall
    <2>8. Books'
      <3>1. \A v \in Workers : ~At(v, "emit") /\ ~At(v, "emit")'
        BY <1>1, <2>2 DEF At
      <3>2. Settled
        BY <1>5, <3>1 DEF ValueInv, Alone, Books
      <3>3. InHand' + OnTheWay' = (InHand + OnTheWay) + Unpaid(rows[i])
        BY <1>1, <1>2, <2>4, GiveBackCounts
      <3>4. Settled'
        BY <1>1, <1>3, <3>2, <3>3, Settles
      <3> QED
        BY <3>1, <3>4 DEF Books
    <2>9. ASSUME NEW j \in givingUp' PROVE Released(j)' /\ \A p \in Workers \cup Callers : ~Busy(p)'
      <3>1. j \in givingUp /\ j # i /\ j \in DOMAIN rows
        BY <1>1, <2>9 DEF IInv, RowsExist
      <3>2. Released(j)'
        BY <1>1, <1>3, <2>1, <3>1 DEF Released, At
      <3>3. \A p \in Workers \cup Callers : ~Busy(p)'
        BY <1>1, <2>1 DEF Busy
      <3> QED
        BY <3>2, <3>3
    <2> QED
      BY <2>5, <2>6, <2>7, <2>8, <2>9 DEF Alone
  <1> QED
    BY <1>1, <1>3, <1>5 DEF ValueInv

(* An appeal makes rows pending again, and carry what had been given back. *)
LEMMA AppealSucceedsBalances ==
    ASSUME ValueInv, IInv', NEW w \in Workers, Turn(w), AppealSucceeds(w)
    PROVE  ValueInv'
  <1>1. PICK i \in DOMAIN rows :
          /\ MayAppeal(w, i)
          /\ rows' = [j \in DOMAIN rows |->
                        IF j \in Neighbours(i) /\ j >= i
                        THEN [rows[j] EXCEPT !.status = "PENDING", !.refunds = 0] ELSE rows[j]]
          /\ minted' = minted + Sum(InTransit', DOMAIN rows) - Sum(InTransit, DOMAIN rows)
          /\ UNCHANGED worker
    BY Zenon DEF AppealSucceeds
  <1>2. At(w, "idle") /\ UNCHANGED <<balance, call, givingUp, serial, lost, worker>> /\ IInv
    BY <1>1 DEF MayAppeal, Kept, ValueInv
  <1>3. DOMAIN rows' = DOMAIN rows
    BY <1>1
  <1>4. ASSUME NEW j \in DOMAIN rows
        PROVE  /\ Same(rows[j], rows'[j]) /\ rows'[j].credited = rows[j].credited
               /\ \/ rows'[j].status = "PENDING" /\ rows'[j].refunds = 0
                  \/ rows'[j].status = rows[j].status /\ rows'[j].refunds = rows[j].refunds
    <2>1. rows[j] \in RowSet
      BY <1>2, RowFacts
    <2>2. rows'[j] = [rows[j] EXCEPT !.status = "PENDING", !.refunds = 0] \/ rows'[j] = rows[j]
      BY <1>1
    <2> QED
      BY <2>1, <2>2 DEF RowSet, Same
  <1>5. PaidRows'
    BY <1>3, <1>4, PaidKept DEF ValueInv
  <1>6. /\ OnTheWay \in Int /\ OnTheWay' \in Int /\ InHand \in Int /\ InHand' = InHand
        /\ minted \in Int /\ lost \in Int /\ lost' \in Int
    BY <1>2, SumsAreInts, SumsAreIntsNext, HandStays DEF ValueInv
  <1>7. minted' = minted + OnTheWay' - OnTheWay
    BY <1>1, <1>3 DEF OnTheWay
  <1>8. minted' \in Int
    BY <1>6, <1>7
  <1>9. worker' = [worker EXCEPT ![w] = worker[w]] /\ worker[w].step = "idle" /\ worker'[w].step = "idle"
    BY <1>2 DEF IInv, At
  <1>10. HeldRow(w)' /\ FreshRead(w)' /\ Owed(w)' = 0 /\ Owed(w) = 0
    BY <1>9 DEF HeldRow, FreshRead, Owed, At
  <1>11. ASSUME serial, SettledBy(w) PROVE Ages(w) /\ SettledBy(w)'
    <2>1. \A j \in DOMAIN rows' : rows'[j].refunds # 0 => rows'[j].status = "CANCELED"
      BY <1>3, <1>4, <1>11 DEF ValueInv, Alone, RefundedRow
    <2>2. ASSUME NEW v \in Workers \ {w} PROVE HeldRow(v)'
      <3>1. HeldRow(v) /\ (~At(v, "idle") => worker[v].row \in DOMAIN rows)
        BY <1>2, <1>11 DEF ValueInv, Alone, IInv, RowsExist
      <3> QED
        BY <1>2, <1>4, <3>1 DEF HeldRow, At, Row
    <2>3. minted = lost + (InHand + OnTheWay + 0)
      BY <1>10, <1>11 DEF SettledBy
    <2>4. minted' = lost + (InHand' + OnTheWay' + 0)
      BY <1>6, <1>7, <2>3
    <2>5. SettledBy(w)'
      BY <1>2, <1>10, <2>4 DEF SettledBy
    <2> QED
      BY <1>3, <1>4, <2>1, <2>2, <2>5 DEF Ages
  <1> QED
    BY <1>2, <1>5, <1>6, <1>8, <1>9, <1>10, <1>11, WorkerCounts

LEMMA ValueInit == Init => ValueInv /\ HeldOnce
  <1> SUFFICES ASSUME Init PROVE ValueInv /\ HeldOnce
    OBVIOUS
  <1>1. rows = <<>> /\ givingUp = {} /\ balance = Funding /\ minted = Sum(Funding, Addr)
        /\ lost = 0
        /\ worker = [w \in Workers |-> Idle] /\ call = [c \in Callers |-> NoCall]
    BY DEF Init
  <1>2. IInv
    BY InitOk
  <1>3. InHand = minted /\ minted \in Int
    BY <1>1, <1>2, SumsAreInts DEF InHand
  <1>4. OnTheWay = 0
    <2>1. DOMAIN rows = {}
      BY <1>1
    <2>2. OnTheWay = Total(InTransit, {})
      BY <1>2, <2>1, WayFacts
    <2> QED
      BY <2>2, TotalEmpty
  <1>5. \A w \in Workers : worker[w] = Idle /\ Idle.step = "idle"
    BY <1>1 DEF Idle
  <1>6. \A c \in Callers : call[c] = NoCall /\ NoCall.step = "none"
    BY <1>1 DEF NoCall
  <1>7. \A w \in Workers : HeldRow(w) /\ FreshRead(w)
    BY <1>5 DEF HeldRow, FreshRead, At
  <1>8. \A c \in Callers : FreshCall(c)
    BY <1>6 DEF FreshCall
  <1>9. Books
    <2>1. \A w \in Workers : ~At(w, "emit")
      BY <1>5 DEF At
    <2>2. Settled
      BY <1>1, <1>3, <1>4 DEF Settled
    <2> QED
      BY <2>1, <2>2 DEF Books
  <1>10. PaidRows /\ \A i \in DOMAIN rows : RefundedRow(i)
    BY <1>1 DEF PaidRows
  <1>11. HeldOnce
    BY <1>5 DEF HeldOnce, At
  <1> QED
    BY <1>1, <1>2, <1>3, <1>7, <1>8, <1>9, <1>10, <1>11 DEF ValueInv, Alone

LEMMA ValueStep == ValueInv /\ HeldOnce /\ [Next]_vars => ValueInv'
  <1> SUFFICES ASSUME ValueInv, HeldOnce, [Next]_vars PROVE ValueInv'
    OBVIOUS
  <1>1. IInv'
    BY StepKeeps DEF ValueInv
  <1>2. ASSUME NEW c \in Callers, Turn(c),
               ReadDuplicate(c) \/ ReadBalance(c) \/ Submit(c) \/ InsertFaucet(c)
               \/ CreditFaucet(c) \/ CancelStatus(c) \/ CancelRefund(c)
        PROVE  ValueInv'
    BY <1>1, <1>2, ReadDuplicateMovesNothing, ReadBalanceMovesNothing, SubmitBalances,
       InsertFaucetBalances, CreditFaucetBalances, CancelStatusMovesNothing, CancelRefundBalances
  <1>3. ASSUME NEW w \in Workers, Turn(w), WithdrawAccepted(w) \/ WithdrawFinal(w)
        PROVE  ValueInv'
    BY <1>1, <1>3, WithdrawBalances DEF WithdrawAccepted, WithdrawFinal, Phases, At
  <1>4. ASSUME NEW w \in Workers, Turn(w),
               Claim(w) \/ TransferDone(w) \/ TransferFails(w) \/ ReadFrom(w) \/ ReadTo(w)
               \/ CreateRecipient(w) \/ WriteTransfer(w) \/ WriteCredit(w)
               \/ Activate(w) \/ Undetermined(w) \/ Accept(w)
               \/ EmitNext(w) \/ Decide(w) \/ ClaimFinal(w) \/ AppealFails(w)
               \/ AppealSucceeds(w) \/ Crash(w) \/ Abandon(w) \/ Release(w)
        PROVE  ValueInv'
    BY <1>1, <1>4, ClaimMovesNothing, TransferStatus, ReadFromMovesNothing, ReadToMovesNothing,
       CreateRecipientBalances, WriteTransferBalances, WriteCreditBalances,
       ActivateBalances, AcceptMovesNothing, EmitNextBalances,
       ClaimFinalMovesNothing, AppealFailsMovesNothing, AppealSucceedsBalances,
       CrashBalances, AbandonBalances, ReleaseMovesNothing
  <1>5. ASSUME NEW i \in givingUp, GiveUp(i)
        PROVE  ValueInv'
    BY <1>1, <1>5, GiveUpBalances
  <1>6. CASE UNCHANGED vars
    <2>1. UNCHANGED <<balance, rows, worker, call, givingUp, serial, minted, lost>>
      BY <1>6 DEF vars
    <2>2. PaidRows' /\ OnTheWay' = OnTheWay /\ InHand' = InHand
      BY <1>1, <2>1, RowsStay, HandStays
    <2>3. ASSUME serial PROVE Alone'
      <3>1. Alone
        BY <2>3 DEF ValueInv
      <3>2. \A i \in DOMAIN rows' : RefundedRow(i)'
        BY <2>1, <3>1 DEF Alone, RefundedRow, Funded
      <3>3. \A w \in Workers : HeldRow(w)' /\ FreshRead(w)'
        BY <2>1, <3>1 DEF Alone, HeldRow, FreshRead, At, Row, PaysNow, ToItself
      <3>4. \A c \in Callers : FreshCall(c)'
        BY <2>1, <3>1 DEF Alone, FreshCall, Known
      <3>5. Books'
        <4>1. \A w \in Workers : Owed(w)' = Owed(w) /\ (At(w, "emit")' <=> At(w, "emit"))
          BY <2>1 DEF Owed, At, Row
        <4> QED
          BY <2>1, <2>2, <3>1, <4>1 DEF Alone, Books, Settled, SettledBy
      <3>6. \A i \in givingUp' : Released(i)' /\ \A p \in Workers \cup Callers : ~Busy(p)'
        BY <2>1, <3>1 DEF Alone, Released, Busy, At
      <3> QED
        BY <2>1, <3>1, <3>2, <3>3, <3>4, <3>5, <3>6 DEF Alone
    <2> QED
      BY <1>1, <2>1, <2>2, <2>3 DEF ValueInv
  <1> QED
    BY <1>2, <1>3, <1>4, <1>5, <1>6, Zenon DEF Next

(* When each acts alone, value is only moved: what the accounts have, what *)
(* the transactions carry and what was lost is what was created, whatever  *)
(* is submitted, transferred, credited, refunded, emitted, appealed or     *)
(* rolled back, and wherever a worker stops (execute_transfer after the    *)
(* debit it commits alone, _emit_messages between two messages, the        *)
(* release that comes before giving up), for any accounts, requests and    *)
(* workers.  Only a transfer that is debited again and messages that were  *)
(* debited and not sent are lost.                                          *)
THEOREM ValueIsConserved == Spec => []Conserved
  <1>1. ValueInv => Conserved
    <2> SUFFICES ASSUME ValueInv, serial, \A p \in Workers \cup Callers : ~Busy(p)
                 PROVE  minted = InHand + OnTheWay + lost
      BY DEF Conserved, InHand, OnTheWay
    <2>1. \A w \in Workers : ~At(w, "emit")
      BY DEF Busy, At
    <2>2. Settled
      BY <2>1 DEF ValueInv, Alone, Books
    <2>3. InHand \in Int /\ OnTheWay \in Int /\ lost \in Int
      BY SumsAreInts DEF ValueInv
    <2> QED
      BY <2>2, <2>3 DEF Settled
  <1>2. ValueInv /\ HeldOnce /\ [Next]_vars => (ValueInv /\ HeldOnce)'
    BY ValueStep, HeldOnceStep DEF ValueInv
  <1> QED
    BY <1>1, <1>2, ValueInit, PTL DEF Spec

----------------------------------------------------------------------------
(* What is frozen stays.                                                   *)

(* Who has messages to emit is a contract, and who pays is none.           *)
Placed(r) == (r.emits # <<>> => r.to \in Contracts) /\ (PaysNow(r) => r.from \notin Contracts)

(* While there were no appeals, and no worker stopped between a debit and  *)
(* its children: a contract has one row at work, in the order of the rows. *)
Unshaken == spent.appeals = 0 /\ spent.midway = 0 /\ (serial \/ spent.crashes = 0)
AtWork(w) ==
    \/ worker[w].step \in {"pending", "to", "write", "credit", "round", "accepted"}
    \/ At(w, "emit") /\ worker[w].on = "accepted"
AtEnd(w) ==
    \/ At(w, "final") /\ Row(w).kind = "call"
    \/ At(w, "emit") /\ worker[w].on = "finalized"
InTurn(i) == \A j \in Neighbours(i) : j < i => rows[j].status # "PENDING"
HolderOk(w) ==
    /\ ~At(w, "again")
    /\ AtWork(w) => Row(w).status = "PENDING" /\ InTurn(worker[w].row)
    /\ AtEnd(w) => Row(w).status = "ACCEPTED"
Holds(w, a) == ~At(w, "idle") /\ Row(w).to = a
OneHolder == \A v, w \in Workers : \A a \in Addr : Holds(v, a) /\ Holds(w, a) => v = w
OldestFirst ==
    \A i \in DOMAIN rows : \A j \in Neighbours(i) :
        i < j /\ rows[i].status = "PENDING" => rows[j].status \in {"PENDING", "CANCELED"}

(* And the balance of a contract holds what is frozen, and what the row at *)
(* work has reserved: all its external messages when it was accepted, then *)
(* those of the finalization; until these are sent.                        *)
CallsTo(a) == {i \in DOMAIN rows : rows[i].to = a}
FrozenFor(a) == Sum(AllFrozen, CallsTo(a))
AtFinal(r) == IF r.ok THEN Worth(r.emits, TRUE, "finalized") ELSE 0
Reserved(w) ==
    IF At(w, "accepted") THEN IF Row(w).ok THEN AllExternal(Row(w).emits) ELSE 0
    ELSE IF At(w, "emit")
         THEN IF worker[w].on = "accepted" THEN AtFinal(Row(w)) ELSE 0 - AtFinal(Row(w))
         ELSE 0
Writing(w) == At(w, "write") \/ At(w, "credit")
Backed(a) ==
    /\ (\A w \in Workers : ~Holds(w, a)) => FrozenFor(a) <= balance[a]
    /\ \A w \in Workers : Holds(w, a) =>
         /\ FrozenFor(a) + Reserved(w) <= balance[a]
         /\ Writing(w) => FrozenFor(a) <= worker[w].total
PlainCalls(a) == \A i \in CallsTo(a) : Worth(rows[i].emits, FALSE, "finalized") = 0

Orderly == OneHolder /\ OldestFirst /\ \A w \in Workers : HolderOk(w)
Counted == spent \in [crashes : Nat, midway : Nat, appeals : Nat]
FreezeInv ==
    /\ IInv /\ Counted
    /\ \A i \in DOMAIN rows : Placed(rows[i])
    /\ Unshaken => Orderly /\ \A a \in Contracts : PlainCalls(a) => Backed(a)

(* Who gives up released a pending row that nobody has taken since.        *)
Untaken == \A i \in givingUp : serial /\ rows[i].status = "PENDING" /\ ~Held(i)

----------------------------------------------------------------------------
(* What is frozen, as a sum over any sequence of rows.                     *)
FrozenRow(r) == IF r.status = "ACCEPTED" /\ r.ok THEN Worth(r.emits, TRUE, "finalized") ELSE 0
FreezeOf(s) == [i \in DOMAIN s |-> FrozenRow(s[i])]
RowsTo(s, a) == {i \in DOMAIN s : s[i].to = a}
FrozenIn(s, a) == Total(FreezeOf(s), RowsTo(s, a))

LEMMA FrozenForIs ==
    ASSUME NEW a
    PROVE  FrozenFor(a) = FrozenIn(rows, a) /\ FrozenFor(a)' = FrozenIn(rows', a)
  <1>1. AllFrozen = FreezeOf(rows) /\ AllFrozen' = FreezeOf(rows')
    BY DEF AllFrozen, Frozen, FreezeOf, FrozenRow
  <1>2. CallsTo(a) = RowsTo(rows, a) /\ CallsTo(a)' = RowsTo(rows', a)
    BY DEF CallsTo, RowsTo
  <1> QED
    BY <1>1, <1>2, SumIsTotal DEF FrozenFor, FrozenIn

LEMMA FrozenRowNat ==
    ASSUME NEW r \in RowSet
    PROVE  /\ FrozenRow(r) \in Nat /\ AtFinal(r) \in Nat
           /\ r.status = "ACCEPTED" => FrozenRow(r) = AtFinal(r)
           /\ r.status # "ACCEPTED" => FrozenRow(r) = 0
           /\ r.emits = <<>> => FrozenRow(r) = 0
  <1>1. r.emits \in Emits /\ Worth(r.emits, TRUE, "finalized") \in Nat
    BY WorthOfEmits DEF RowSet
  <1>2. ASSUME r.emits = <<>> PROVE Worth(r.emits, TRUE, "finalized") = 0
    <2>1. Of(r.emits, TRUE, "finalized") = {}
      BY <1>2 DEF Of
    <2> QED
      BY <2>1, SumIsTotal, TotalEmpty DEF Worth
  <1> QED
    BY <1>1, <1>2 DEF FrozenRow, AtFinal

LEMMA FreezeFacts ==
    ASSUME NEW s \in Seq(RowSet), NEW a
    PROVE  /\ IsFiniteSet(DOMAIN s) /\ IsFiniteSet(RowsTo(s, a)) /\ RowsTo(s, a) \subseteq DOMAIN s
           /\ \A i \in DOMAIN s :
                /\ s[i] \in RowSet /\ FreezeOf(s)[i] = FrozenRow(s[i])
                /\ FrozenRow(s[i]) \in Nat
           /\ FrozenIn(s, a) \in Nat
  <1>1. DOMAIN s = 1..Len(s) /\ Len(s) \in Nat
    OBVIOUS
  <1>2. IsFiniteSet(1..Len(s))
    BY <1>1, FS_Interval
  <1>3. RowsTo(s, a) \subseteq DOMAIN s
    BY DEF RowsTo
  <1>4. IsFiniteSet(DOMAIN s) /\ IsFiniteSet(RowsTo(s, a))
    BY <1>1, <1>2, <1>3, FS_Subset
  <1>5. \A i \in DOMAIN s : s[i] \in RowSet
    OBVIOUS
  <1>6. \A i \in DOMAIN s : FreezeOf(s)[i] = FrozenRow(s[i]) /\ FrozenRow(s[i]) \in Nat
    BY <1>5, FrozenRowNat DEF FreezeOf
  <1>7. FrozenIn(s, a) \in Nat
    BY <1>3, <1>4, <1>6, TotalNat DEF FrozenIn
  <1> QED
    BY <1>3, <1>4, <1>5, <1>6, <1>7

(* Rows are added that freeze nothing, and those there freeze what they    *)
(* froze.                                                                  *)
LEMMA FreezeStays ==
    ASSUME NEW s \in Seq(RowSet), NEW t \in Seq(RowSet), NEW a, DOMAIN s \subseteq DOMAIN t,
           \A i \in DOMAIN s : t[i].to = s[i].to /\ (s[i].to = a => FrozenRow(t[i]) = FrozenRow(s[i])),
           \A i \in DOMAIN t \ DOMAIN s : FrozenRow(t[i]) = 0
    PROVE  FrozenIn(t, a) = FrozenIn(s, a)
  <1> DEFINE S == RowsTo(s, a)
             T == RowsTo(t, a)
             f == FreezeOf(s)
             g == FreezeOf(t)
  <1>1. /\ IsFiniteSet(S) /\ IsFiniteSet(T) /\ S \subseteq DOMAIN s /\ T \subseteq DOMAIN t
        /\ \A i \in DOMAIN s : f[i] = FrozenRow(s[i]) /\ f[i] \in Nat
        /\ \A i \in DOMAIN t : g[i] = FrozenRow(t[i]) /\ g[i] \in Nat
    BY FreezeFacts
  <1>2. S \subseteq T /\ \A i \in T \ S : i \notin DOMAIN s
    BY DEF RowsTo
  <1> HIDE DEF S, T, f, g
  <1>3. \A i \in S : f[i] = g[i]
    BY <1>1 DEF RowsTo, S
  <1>4. \A i \in T \ S : g[i] = 0
    BY <1>1, <1>2
  <1>5. Total(f, S) = Total(g, S)
    BY <1>1, <1>3, TotalSame
  <1>6. IsFiniteSet(T \ S) /\ S \cup (T \ S) = T /\ S \cap (T \ S) = {}
    BY <1>1, <1>2, FS_Subset
  <1>7. Total(g, T \ S) = 0
    BY <1>4, <1>6, TotalZero
  <1>8. \A i \in S \cup (T \ S) : g[i] \in Int
    BY <1>1, <1>6
  <1>9. Total(g, S \cup (T \ S)) = Total(g, S) + Total(g, T \ S)
    BY <1>1, <1>6, <1>8, TotalUnion
  <1>10. Total(g, S) \in Nat
    BY <1>1, <1>2, TotalNat
  <1>11. Total(g, T) = Total(g, S)
    <2>1. Total(g, T) = Total(g, S) + Total(g, T \ S)
      BY <1>6, <1>9, Zenon
    <2> QED
      BY <1>7, <1>10, <2>1
  <1> QED
    BY <1>5, <1>11 DEF FrozenIn, S, T, f, g

(* One row freezes more, or less.                                          *)
LEMMA FreezeChanges ==
    ASSUME NEW s \in Seq(RowSet), NEW i \in DOMAIN s, NEW r \in RowSet, r.to = s[i].to
    PROVE  /\ FrozenIn([s EXCEPT ![i] = r], r.to)
                = FrozenIn(s, r.to) - FrozenRow(s[i]) + FrozenRow(r)
           /\ \A a : a # r.to => FrozenIn([s EXCEPT ![i] = r], a) = FrozenIn(s, a)
  <1> DEFINE t == [s EXCEPT ![i] = r]
             f == FreezeOf(s)
             g == FreezeOf(t)
  <1>1. t \in Seq(RowSet) /\ DOMAIN t = DOMAIN s /\ t[i] = r /\ \A j \in DOMAIN s : j # i => t[j] = s[j]
    OBVIOUS
  <1> HIDE DEF t
  <1>2. \A a : RowsTo(t, a) = RowsTo(s, a)
    BY <1>1 DEF RowsTo
  <1>3. /\ \A j \in DOMAIN s : f[j] = FrozenRow(s[j]) /\ f[j] \in Nat
        /\ \A j \in DOMAIN s : g[j] = FrozenRow(t[j]) /\ g[j] \in Nat
        /\ \A a : IsFiniteSet(RowsTo(s, a)) /\ RowsTo(s, a) \subseteq DOMAIN s
    BY <1>1, FreezeFacts
  <1> HIDE DEF f, g
  <1>4. \A j \in DOMAIN s : j # i => g[j] = f[j]
    BY <1>1, <1>3
  <1>5. ASSUME NEW a, a # r.to PROVE FrozenIn(t, a) = FrozenIn(s, a)
    <2>1. \A j \in RowsTo(s, a) : f[j] = g[j]
      BY <1>3, <1>4, <1>5 DEF RowsTo
    <2>2. Total(f, RowsTo(s, a)) = Total(g, RowsTo(s, a))
      BY <1>3, <2>1, TotalSame
    <2> QED
      BY <1>2, <2>2 DEF FrozenIn, f, g
  <1>6. FrozenIn(t, r.to) = FrozenIn(s, r.to) - FrozenRow(s[i]) + FrozenRow(r)
    <2> DEFINE S == RowsTo(s, r.to)
    <2>1. i \in S /\ IsFiniteSet(S) /\ S \subseteq DOMAIN s
      BY <1>3 DEF RowsTo
    <2> HIDE DEF S
    <2>2. \A j \in S : f[j] \in Int /\ g[j] \in Int
      BY <1>3, <2>1
    <2>3. \A j \in S \ {i} : g[j] = f[j]
      BY <1>4, <2>1
    <2>4. Total(g, S) = Total(f, S) - f[i] + g[i]
      BY <2>1, <2>2, <2>3, TotalUpdate
    <2>5. f[i] = FrozenRow(s[i]) /\ g[i] = FrozenRow(r)
      BY <1>1, <1>3
    <2> QED
      BY <1>2, <2>4, <2>5 DEF FrozenIn, S, f, g
  <1> QED
    BY <1>5, <1>6 DEF t

(* What one row freezes is part of the sum.                                *)
LEMMA FreezeCovers ==
    ASSUME NEW s \in Seq(RowSet), NEW i \in DOMAIN s
    PROVE  FrozenRow(s[i]) <= FrozenIn(s, s[i].to)
  <1> DEFINE S == RowsTo(s, s[i].to)
             f == FreezeOf(s)
  <1>1. /\ IsFiniteSet(S) /\ i \in S
        /\ \A j \in S : f[j] \in Nat
        /\ f[i] = FrozenRow(s[i]) /\ FrozenIn(s, s[i].to) = Total(f, S)
    <2>1. S \subseteq DOMAIN s /\ i \in S
      BY DEF RowsTo
    <2> QED
      BY <2>1, FreezeFacts DEF FrozenIn
  <1> HIDE DEF S, f
  <1>2. IsFiniteSet(S \ {i})
    BY <1>1, FS_RemoveElement
  <1>3. Total(f, S) = f[i] + Total(f, S \ {i})
    BY <1>1, TotalRemove
  <1>4. Total(f, S \ {i}) \in Nat /\ f[i] \in Nat
    BY <1>1, <1>2, TotalNat
  <1>5. f[i] <= Total(f, S)
    BY <1>3, <1>4
  <1> QED
    BY <1>1, <1>5

----------------------------------------------------------------------------
(* What every step does to the rows, ...                                   *)
Evolves ==
    /\ DOMAIN rows \subseteq DOMAIN rows'
    /\ \A i \in DOMAIN rows : Same(rows[i], rows'[i])
    /\ \A i \in DOMAIN rows' \ DOMAIN rows : Placed(rows'[i]) /\ rows'[i].status = "PENDING"

(* ... and to the order, when it is a step of one worker at most.          *)
Advances(w) ==
    /\ \A v \in Workers \ {w} : worker'[v] = worker[v]
    /\ \A i \in DOMAIN rows : rows'[i].status # rows[i].status =>
         /\ rows'[i].status # "PENDING" /\ (rows'[i].status = "CANCELED" \/ InTurn(i))
         /\ \A v \in Workers \ {w} : worker[v].step # "idle" => worker[v].row # i
Takes(w) ==
    \/ worker'[w].step = "idle"
    \/ worker[w].step # "idle" /\ worker'[w].row = worker[w].row
    \/ worker'[w].row \in DOMAIN rows /\ \A j \in Neighbours(worker'[w].row) : ~Held(j)

LEMMA RowsNow ==
    ASSUME IInv, IInv'
    PROVE  /\ rows \in Seq(GoodRow) /\ rows \in Seq(RowSet) /\ rows' \in Seq(RowSet)
           /\ DOMAIN rows = 1..Len(rows) /\ Len(rows) \in Nat
           /\ DOMAIN rows' = 1..Len(rows') /\ Len(rows') \in Nat
           /\ \A i \in DOMAIN rows : rows[i] \in RowSet
           /\ \A i \in DOMAIN rows' : rows'[i] \in RowSet
  <1>1. rows \in Seq(GoodRow) /\ rows' \in Seq(GoodRow)
    BY DEF IInv
  <1>2. GoodRow \subseteq RowSet
    BY DEF GoodRow
  <1>3. rows \in Seq(RowSet) /\ rows' \in Seq(RowSet)
    <2>1. \A s \in Seq(GoodRow) : s \in Seq(RowSet)
      BY <1>2
    <2> QED
      BY <1>1, <2>1
  <1> QED
    BY <1>1, <1>3

LEMMA Exists ==
    ASSUME IInv, NEW w \in Workers, worker[w].step # "idle"
    PROVE  worker[w].row \in DOMAIN rows
  BY DEF IInv, RowsExist, At

LEMMA PlacedStays ==
    ASSUME Evolves, \A i \in DOMAIN rows : Placed(rows[i])
    PROVE  \A i \in DOMAIN rows' : Placed(rows'[i])
  BY DEF Evolves, Placed, Same, PaysNow

LEMMA OrderlyStep ==
    ASSUME IInv, IInv', NEW w, Orderly, Evolves, Advances(w),
           w \in Workers => HolderOk(w)' /\ Takes(w)
    PROVE  Orderly'
  <1>1. /\ DOMAIN rows = 1..Len(rows) /\ Len(rows) \in Nat
        /\ DOMAIN rows' = 1..Len(rows') /\ Len(rows') \in Nat
    BY RowsNow
  <1>2. OldestFirst'
    <2> SUFFICES ASSUME NEW i \in DOMAIN rows', NEW j \in DOMAIN rows', rows'[j].to = rows'[i].to,
                        i < j, rows'[i].status = "PENDING"
                 PROVE  rows'[j].status \in {"PENDING", "CANCELED"}
      BY DEF OldestFirst, Neighbours
    <2>1. CASE j \notin DOMAIN rows
      BY <2>1 DEF Evolves
    <2>2. CASE j \in DOMAIN rows
      <3>1. i \in DOMAIN rows
        BY <1>1, <2>2
      <3>2. rows[j].to = rows[i].to
        BY <2>2, <3>1 DEF Evolves, Same
      <3>3. rows[i].status = "PENDING"
        BY <3>1 DEF Advances
      <3>4. j \in Neighbours(i) /\ i \in Neighbours(j)
        BY <2>2, <3>1, <3>2 DEF Neighbours
      <3>5. rows[j].status \in {"PENDING", "CANCELED"}
        BY <3>1, <3>3, <3>4 DEF Orderly, OldestFirst
      <3>6. ~InTurn(j)
        BY <3>3, <3>4 DEF InTurn
      <3> QED
        BY <2>2, <3>5, <3>6 DEF Advances
    <2> QED
      BY <2>1, <2>2
  <1>3. ASSUME NEW v \in Workers, v # w PROVE HolderOk(v)'
    <2>1. worker'[v] = worker[v] /\ HolderOk(v)
      BY <1>3 DEF Advances, Orderly
    <2>2. CASE worker[v].step = "idle"
      BY <2>1, <2>2 DEF HolderOk, AtWork, AtEnd, At
    <2>3. CASE worker[v].step # "idle"
      <3> DEFINE i == worker[v].row
      <3>1. i \in DOMAIN rows
        BY <2>3, Exists
      <3>2. rows'[i].status = rows[i].status
        BY <1>3, <2>3, <3>1 DEF Advances
      <3> rows'[i].kind = rows[i].kind
        BY <3>1 DEF Evolves, Same
      <3>3. ASSUME InTurn(i), NEW j \in DOMAIN rows', rows'[j].to = rows'[i].to, j < i
            PROVE  rows'[j].status # "PENDING"
        <4>1. j \in DOMAIN rows /\ rows[j].to = rows[i].to
          BY <1>1, <3>1, <3>3 DEF Evolves, Same
        <4>2. rows[j].status # "PENDING"
          BY <3>3, <4>1 DEF InTurn, Neighbours
        <4> QED
          BY <4>1, <4>2 DEF Advances
      <3> QED
        BY <2>1, <3>2, <3>3 DEF HolderOk, AtWork, AtEnd, At, Row, InTurn, Neighbours
    <2> QED
      BY <2>2, <2>3
  <1>4. OneHolder'
    <2> SUFFICES ASSUME NEW u \in Workers, NEW v \in Workers, u # v,
                        worker'[u].step # "idle", worker'[v].step # "idle",
                        rows'[worker'[u].row].to = rows'[worker'[v].row].to, v # w
                 PROVE  FALSE
      BY DEF OneHolder, Holds, At, Row
    <2>1. worker'[v] = worker[v] /\ worker[v].row \in DOMAIN rows /\ rows[worker[v].row].to \in Addr
      BY Exists, RowsNow DEF Advances, RowSet
    <2>2. CASE worker[u].step # "idle" /\ worker'[u].row = worker[u].row
      <3>1. worker[u].row \in DOMAIN rows
        BY <2>2, Exists
      <3>2. rows[worker[u].row].to = rows[worker[v].row].to
        BY <2>1, <2>2, <3>1 DEF Evolves, Same
      <3> QED
        BY <2>1, <2>2, <3>2 DEF Orderly, OneHolder, Holds, At, Row
    <2>3. CASE ~(worker[u].step # "idle" /\ worker'[u].row = worker[u].row)
      <3>1. u = w
        BY <2>3 DEF Advances
      <3>2. worker'[u].row \in DOMAIN rows /\ \A j \in Neighbours(worker'[u].row) : ~Held(j)
        BY <2>3, <3>1 DEF Takes
      <3>3. rows[worker'[u].row].to = rows[worker[v].row].to
        BY <2>1, <3>2 DEF Evolves, Same
      <3> QED
        BY <2>1, <3>2, <3>3 DEF Neighbours, Held
    <2> QED
      BY <2>2, <2>3
  <1> QED
    BY <1>2, <1>3, <1>4 DEF Orderly

----------------------------------------------------------------------------
(* The balance of a contract nobody works for, or not in this step, and    *)
(* that of the one the step is for.                                        *)
LEMMA PlainBefore ==
    ASSUME Evolves, NEW a, PlainCalls(a)'
    PROVE  PlainCalls(a)
  BY DEF Evolves, Same, PlainCalls, CallsTo

LEMMA ReservedInt ==
    ASSUME IInv, NEW w \in Workers, worker[w].step # "idle"
    PROVE  /\ Reserved(w) \in Int /\ (~At(w, "emit") => Reserved(w) \in Nat)
           /\ AllExternal(Row(w).emits) \in Nat
  <1>1. Row(w) \in RowSet /\ Row(w).emits \in Emits
    BY Exists, RowFacts DEF Row
  <1>2. AtFinal(Row(w)) \in Nat
    BY <1>1, FrozenRowNat
  <1>3. AllExternal(Row(w).emits) \in Nat
    <2>1. Worth(Row(w).emits, TRUE, "accepted") \in Nat
      BY <1>1, WorthOfEmits
    <2>2. Worth(Row(w).emits, TRUE, "finalized") \in Nat
      BY <1>1, WorthOfEmits
    <2>3. \A x, y \in Nat : x + y \in Nat
      OBVIOUS
    <2> QED
      BY <2>1, <2>2, <2>3 DEF AllExternal
  <1>4. 0 - AtFinal(Row(w)) \in Int /\ AtFinal(Row(w)) \in Int
    BY <1>2
  <1> QED
    BY <1>2, <1>3, <1>4 DEF Reserved

LEMMA Far ==
    ASSUME IInv, IInv', NEW a \in Addr, Backed(a), Evolves, FrozenIn(rows', a) = FrozenIn(rows, a),
           balance'[a] >= balance[a],
           \A v \in Workers : Holds(v, a) \/ Holds(v, a)' =>
              /\ worker'[v] = worker[v] /\ Holds(v, a)
              /\ rows'[worker[v].row].ok = rows[worker[v].row].ok
    PROVE  Backed(a)'
  <1>1. balance[a] \in Nat /\ balance'[a] \in Nat /\ FrozenIn(rows, a) \in Nat
    BY RowsNow, FreezeFacts DEF IInv
  <1>2. FrozenFor(a) = FrozenIn(rows, a) /\ FrozenFor(a)' = FrozenIn(rows, a)
    BY FrozenForIs
  <1>3. ASSUME \A v \in Workers : ~Holds(v, a)' PROVE FrozenFor(a)' <= balance'[a]
    <2>1. ASSUME NEW v \in Workers, Holds(v, a) PROVE FALSE
      <3>1. worker'[v] = worker[v] /\ worker[v].step # "idle" /\ rows[worker[v].row].to = a
        BY <2>1 DEF Holds, At, Row
      <3>2. rows'[worker[v].row].to = a
        BY <3>1, Exists DEF Evolves, Same
      <3>3. Holds(v, a)'
        BY <3>1, <3>2 DEF Holds, At, Row
      <3> QED
        BY <1>3, <3>3
    <2>2. FrozenFor(a) <= balance[a]
      BY <2>1 DEF Backed
    <2> QED
      BY <1>1, <1>2, <2>2
  <1>4. ASSUME NEW v \in Workers, Holds(v, a)'
        PROVE  /\ FrozenFor(a)' + Reserved(v)' <= balance'[a]
               /\ Writing(v)' => FrozenFor(a)' <= worker'[v].total
    <2>1. /\ worker'[v] = worker[v] /\ Holds(v, a) /\ worker[v].step # "idle"
          /\ rows'[worker[v].row].ok = rows[worker[v].row].ok
      BY <1>4 DEF Holds, At
    <2>2. worker[v].row \in DOMAIN rows
      BY <2>1, Exists
    <2>3. rows'[worker[v].row].emits = rows[worker[v].row].emits
      BY <2>2 DEF Evolves, Same
    <2>4. Reserved(v)' = Reserved(v)
      BY <2>1, <2>3 DEF Reserved, At, Row, AtFinal
    <2>5. FrozenFor(a) + Reserved(v) <= balance[a] /\ (Writing(v) => FrozenFor(a) <= worker[v].total)
      BY <2>1 DEF Backed
    <2>6. Reserved(v) \in Int
      BY <2>1, ReservedInt
    <2> QED
      BY <1>1, <1>2, <2>1, <2>4, <2>5, <2>6 DEF At, Writing
  <1> QED
    BY <1>3, <1>4 DEF Backed

LEMMA ContractsAreAccounts == Contracts \subseteq Addr
  BY SubmissionFacts DEF Contracts

(* The steps of requests, and of who has released a row: they change no    *)
(* row at work and debit no contract.                                      *)
LEMMA CallerFreeze ==
    ASSUME FreezeInv, IInv', NEW c, c \notin Workers, UNCHANGED <<worker, serial, spent>>, Evolves,
           \A i \in DOMAIN rows :
              /\ rows'[i].ok = rows[i].ok
              /\ rows'[i].status # rows[i].status =>
                   rows[i].status = "PENDING" /\ rows'[i].status = "CANCELED" /\ ~Held(i),
           \A a \in Contracts : balance'[a] >= balance[a]
    PROVE  FreezeInv'
  <1>1. IInv /\ \A i \in DOMAIN rows' : Placed(rows'[i])
    BY PlacedStays DEF FreezeInv
  <1>2. ASSUME Unshaken' PROVE Orderly'
    <2>1. Orderly
      BY <1>2 DEF FreezeInv, Unshaken
    <2>2. Advances(c)
      BY DEF Advances, Held
    <2> QED
      BY <1>1, <2>1, <2>2, OrderlyStep
  <1>3. ASSUME Unshaken', NEW a \in Contracts, PlainCalls(a)' PROVE Backed(a)'
    <2>1. Backed(a) /\ a \in Addr
      BY <1>3, PlainBefore, ContractsAreAccounts DEF FreezeInv, Unshaken
    <2>2. rows \in Seq(RowSet) /\ rows' \in Seq(RowSet)
      BY <1>1, RowsNow
    <2>3. ASSUME NEW i \in DOMAIN rows
          PROVE  rows'[i].to = rows[i].to /\ FrozenRow(rows'[i]) = FrozenRow(rows[i])
      BY <2>3 DEF Evolves, Same, FrozenRow
    <2>4. \A i \in DOMAIN rows' \ DOMAIN rows : FrozenRow(rows'[i]) = 0
      BY DEF Evolves, FrozenRow
    <2>5. FrozenIn(rows', a) = FrozenIn(rows, a)
      BY <2>2, <2>3, <2>4, FreezeStays DEF Evolves
    <2>6. ASSUME NEW v \in Workers, Holds(v, a) \/ Holds(v, a)'
          PROVE  worker'[v] = worker[v] /\ Holds(v, a) /\ rows'[worker[v].row].ok = rows[worker[v].row].ok
      <3>1. worker'[v] = worker[v] /\ worker[v].step # "idle"
        BY <2>6 DEF Holds, At
      <3>2. worker[v].row \in DOMAIN rows
        BY <1>1, <3>1, Exists
      <3>3. rows'[worker[v].row].to = rows[worker[v].row].to
        BY <2>3, <3>2
      <3> QED
        BY <2>6, <3>1, <3>2, <3>3 DEF Holds, At, Row
    <2> QED
      BY <1>1, <1>3, <2>1, <2>5, <2>6, Far
  <1> QED
    BY <1>1, <1>2, <1>3 DEF FreezeInv, Counted

LEMMA RowsUntouched ==
    ASSUME UNCHANGED rows
    PROVE  Evolves /\ \A i \in DOMAIN rows : rows'[i].ok = rows[i].ok /\ rows'[i].status = rows[i].status
  BY DEF Evolves, Same

LEMMA RowAppended ==
    ASSUME IInv, NEW r, rows' = Append(rows, r), Placed(r), r.status = "PENDING"
    PROVE  Evolves /\ \A i \in DOMAIN rows : rows'[i] = rows[i]
  <1>1. rows \in Seq(GoodRow)
    BY DEF IInv
  <1>2. /\ DOMAIN rows \subseteq DOMAIN rows'
        /\ \A i \in DOMAIN rows : rows'[i] = rows[i]
        /\ \A i \in DOMAIN rows' \ DOMAIN rows : rows'[i] = r
    BY <1>1
  <1> QED
    BY <1>2 DEF Evolves, Same

LEMMA RowReplaced ==
    ASSUME IInv, NEW i \in DOMAIN rows, NEW r, rows' = [rows EXCEPT ![i] = r], Same(rows[i], r)
    PROVE  /\ Evolves /\ DOMAIN rows' = DOMAIN rows /\ rows'[i] = r
           /\ \A j \in DOMAIN rows \ {i} : rows'[j] = rows[j]
  <1>1. /\ DOMAIN rows' = DOMAIN rows /\ rows'[i] = r
        /\ \A j \in DOMAIN rows \ {i} : rows'[j] = rows[j]
    BY DEF IInv
  <1> QED
    BY <1>1 DEF Evolves, Same

LEMMA CreditedSame ==
    ASSUME NEW r \in RowSet
    PROVE  LET n == [r EXCEPT !.credited = TRUE, !.credits = @ + 1]
           IN Same(r, n) /\ n.ok = r.ok /\ n.status = r.status
  <1> DEFINE m == [r EXCEPT !.credited = TRUE]
             n == [m EXCEPT !.credits = r.credits + 1]
  <1>1. Same(r, m) /\ m.ok = r.ok /\ m.status = r.status /\ m \in RowSet
    BY DEF RowSet, Same
  <1>2. Same(m, n) /\ n.ok = m.ok /\ n.status = m.status
    BY <1>1 DEF RowSet, Same
  <1>3. n = [r EXCEPT !.credited = TRUE, !.credits = @ + 1]
    BY DEF RowSet
  <1> HIDE DEF m, n
  <1> QED
    BY <1>1, <1>2, <1>3 DEF Same

LEMMA CreditFreezesNothing ==
    ASSUME IInv, NEW i \in DOMAIN rows, Credit(i)
    PROVE  /\ Evolves /\ DOMAIN rows' = DOMAIN rows
           /\ \A j \in DOMAIN rows : rows'[j].ok = rows[j].ok /\ rows'[j].status = rows[j].status
           /\ \A j \in DOMAIN rows \ {i} : rows'[j] = rows[j]
           /\ \A a \in Addr : balance'[a] >= balance[a]
  <1>1. rows[i] \in RowSet /\ rows[i].to \in Addr /\ rows[i].value \in Nat
                           /\ balance \in [Addr -> Nat]
    BY RowFacts DEF IInv
  <1>2. CASE rows[i].credited \/ rows[i].value = 0
    <2>1. UNCHANGED balance /\ UNCHANGED rows
      BY <1>2 DEF Credit, Kept
    <2>2. \A a \in Addr : balance'[a] >= balance[a]
      BY <1>1, <2>1
    <2> QED
      BY <2>1, <2>2, RowsUntouched
  <1>3. CASE ~(rows[i].credited \/ rows[i].value = 0)
    <2> DEFINE n == [rows[i] EXCEPT !.credited = TRUE, !.credits = @ + 1]
    <2>1. rows' = [rows EXCEPT ![i] = n] /\ balance' = [balance EXCEPT ![rows[i].to] = @ + rows[i].value]
      BY <1>3 DEF Credit
    <2>2. Same(rows[i], n) /\ n.ok = rows[i].ok /\ n.status = rows[i].status
      BY <1>1, CreditedSame
    <2> HIDE DEF n
    <2>3. /\ Evolves /\ rows'[i] = n /\ DOMAIN rows' = DOMAIN rows
          /\ \A j \in DOMAIN rows \ {i} : rows'[j] = rows[j]
      BY <2>1, <2>2, RowReplaced
    <2>4. ASSUME NEW a \in Addr PROVE balance'[a] >= balance[a]
      BY <1>1, <2>1
    <2> QED
      BY <2>2, <2>3, <2>4
  <1> QED
    BY <1>2, <1>3

LEMMA SubmitFreezesNothing ==
    ASSUME FreezeInv, ContractsDoNotSign, IInv', NEW c \in Callers, Submit(c)
    PROVE  FreezeInv'
  <1> DEFINE s == call[c].of
             r == NewRow(s.hash, s.kind, s.from, s.to, s.value, s.emits, s.fees, FALSE, Pays(s))
  <1>1. /\ rows' = rows \/ rows' = Append(rows, r)
        /\ \A a \in Addr \ {s.from} : balance'[a] = balance[a]
        /\ UNCHANGED <<worker, serial, spent>> /\ call[c].step = "debit"
    BY DEF Submit, Insert, Unmoved, FreezeInv, IInv
  <1>2. s \in Submissions
    BY <1>1, CallFacts DEF FreezeInv
  <1>3. s.from \notin Contracts /\ (s.emits # <<>> => s.to \in Contracts)
    BY <1>2 DEF ContractsDoNotSign, Contracts
  <1>4. Placed(r) /\ r.status = "PENDING"
    BY <1>3 DEF NewRow, Placed
  <1> HIDE DEF s, r
  <1>5. Evolves /\ \A i \in DOMAIN rows : rows'[i].ok = rows[i].ok /\ rows'[i].status = rows[i].status
    BY <1>1, <1>4, RowAppended, RowsUntouched DEF FreezeInv
  <1>6. \A a \in Contracts : balance'[a] >= balance[a]
    <2>1. \A a \in Contracts : a \in Addr /\ a # s.from
      BY <1>3, ContractsAreAccounts
    <2>2. \A a \in Contracts : balance'[a] = balance[a] /\ balance[a] \in Nat
      BY <1>1, <2>1 DEF FreezeInv, IInv
    <2> QED
      BY <2>2
  <1> QED
    BY <1>1, <1>5, <1>6, WorkersAreNotCallers, CallerFreeze

LEMMA CancelStatusFreezesNothing ==
    ASSUME FreezeInv, IInv', NEW c \in Callers, CancelStatus(c)
    PROVE  FreezeInv'
  <1>1. PICK i \in DOMAIN rows :
          rows[i].status = "PENDING" /\ ~Held(i) /\ rows' = [rows EXCEPT ![i].status = "CANCELED"]
    BY Zenon DEF CancelStatus
  <1> DEFINE r == [rows[i] EXCEPT !.status = "CANCELED"]
  <1>2. rows[i] \in RowSet /\ rows' = [rows EXCEPT ![i] = r]
    BY <1>1, RowFacts DEF FreezeInv
  <1>3. Same(rows[i], r) /\ r.status = "CANCELED" /\ r.ok = rows[i].ok
    BY <1>2 DEF RowSet, Same
  <1> HIDE DEF r
  <1>4. Evolves /\ rows'[i] = r /\ \A j \in DOMAIN rows \ {i} : rows'[j] = rows[j]
    BY <1>2, <1>3, RowReplaced DEF FreezeInv
  <1>5. UNCHANGED <<worker, serial, spent>> /\ UNCHANGED balance
    BY DEF CancelStatus, Unmoved, Kept
  <1>6. \A a \in Contracts : balance'[a] >= balance[a]
    BY <1>5, ContractsAreAccounts DEF FreezeInv, IInv
  <1> QED
    BY <1>1, <1>3, <1>4, <1>5, <1>6, WorkersAreNotCallers, CallerFreeze

(* What is given back is given to no contract's loss, and freezes nothing. *)
LEMMA GiveBackFreezesNothing ==
    ASSUME FreezeInv, NEW i \in DOMAIN rows, NEW status, GiveBack(i, status)
    PROVE  /\ Evolves /\ DOMAIN rows' = DOMAIN rows
           /\ rows'[i].status = status /\ rows'[i].ok = rows[i].ok
           /\ \A j \in DOMAIN rows \ {i} : rows'[j] = rows[j]
           /\ \A a \in Addr : balance'[a] >= balance[a]
  <1> DEFINE r == GivenRow(i, status)
  <1>1. IInv /\ rows[i] \in RowSet /\ rows[i].value \in Nat /\ balance \in [Addr -> Nat]
    BY RowFacts DEF FreezeInv, IInv
  <1>2. Refund(i) /\ rows' = [rows EXCEPT ![i] = r]
    BY <1>1 DEF GiveBack, GivenRow
  <1>3. Same(rows[i], r) /\ r.status = status
    BY <1>1, GivenRowFacts
  <1>4. r.ok = rows[i].ok
    BY <1>1 DEF GivenRow, RowSet
  <1> HIDE DEF r
  <1>5. /\ Evolves /\ rows'[i] = r /\ DOMAIN rows' = DOMAIN rows
        /\ \A j \in DOMAIN rows \ {i} : rows'[j] = rows[j]
    BY <1>1, <1>2, <1>3, RowReplaced
  <1>6. ASSUME NEW a \in Addr PROVE balance'[a] >= balance[a]
    <2>1. balance' = balance \/ balance' = [balance EXCEPT ![rows[i].from] = @ + rows[i].value]
      BY <1>2 DEF Refund, Kept
    <2> QED
      BY <1>1, <2>1
  <1> QED
    BY <1>3, <1>4, <1>5, <1>6

LEMMA CancelRefundFreezesNothing ==
    ASSUME FreezeInv, IInv', NEW c \in Callers, CancelRefund(c)
    PROVE  FreezeInv'
  <1>1. PICK i \in DOMAIN rows : GiveBack(i, rows[i].status)
    BY CallFacts DEF CancelRefund, FreezeInv
  <1>2. UNCHANGED <<worker, serial, spent>>
    BY DEF CancelRefund, Unmoved
  <1>3. \A a \in Contracts : balance'[a] >= balance[a]
    BY <1>1, GiveBackFreezesNothing, ContractsAreAccounts
  <1> QED
    BY <1>1, <1>2, <1>3, GiveBackFreezesNothing, WorkersAreNotCallers, CallerFreeze

LEMMA CallersFreezeNothing ==
    ASSUME FreezeInv, ContractsDoNotSign, IInv', NEW c \in Callers,
           ReadDuplicate(c) \/ ReadBalance(c) \/ Submit(c) \/ InsertFaucet(c)
           \/ CreditFaucet(c) \/ CancelStatus(c) \/ CancelRefund(c)
    PROVE  FreezeInv'
  <1>1. IInv /\ \A a \in Contracts : a \in Addr /\ balance[a] \in Nat
    BY ContractsAreAccounts DEF FreezeInv, IInv
  <1>2. CASE ReadDuplicate(c) \/ ReadBalance(c)
    <2>1. UNCHANGED <<worker, serial, spent>> /\ UNCHANGED balance /\ UNCHANGED rows
      BY <1>2 DEF ReadDuplicate, ReadBalance, Unmoved, Kept
    <2>2. \A a \in Contracts : balance'[a] >= balance[a]
      BY <1>1, <2>1
    <2> QED
      BY <2>1, <2>2, RowsUntouched, WorkersAreNotCallers, CallerFreeze
  <1>3. CASE InsertFaucet(c)
    <2>1. PICK f \in Faucets : Insert(NewRow(None, "send", None, f.to, f.value, <<>>, FALSE, FALSE, TRUE))
      BY <1>3 DEF InsertFaucet
    <2> DEFINE r == NewRow(None, "send", None, f.to, f.value, <<>>, FALSE, FALSE, TRUE)
    <2>2. rows' = Append(rows, r) /\ UNCHANGED <<worker, serial, spent>> /\ UNCHANGED balance
      BY <1>3, <2>1 DEF InsertFaucet, Unmoved, Insert, Kept
    <2>3. Placed(r) /\ r.status = "PENDING"
      BY DEF NewRow, Placed, PaysNow
    <2> HIDE DEF r
    <2>4. Evolves /\ \A i \in DOMAIN rows : rows'[i] = rows[i]
      BY <1>1, <2>2, <2>3, RowAppended
    <2>5. \A a \in Contracts : balance'[a] >= balance[a]
      BY <1>1, <2>2
    <2> QED
      BY <2>2, <2>4, <2>5, WorkersAreNotCallers, CallerFreeze
  <1>4. CASE CreditFaucet(c)
    <2>1. call[c].row \in DOMAIN rows /\ Credit(call[c].row)
                                      /\ UNCHANGED <<worker, serial, spent>>
      BY <1>1, <1>4, CallFacts DEF CreditFaucet, Unmoved
    <2> QED
      BY <1>1, <2>1, CreditFreezesNothing, WorkersAreNotCallers, CallerFreeze
  <1> QED
    BY <1>2, <1>3, <1>4, SubmitFreezesNothing, CancelStatusFreezesNothing,
       CancelRefundFreezesNothing

----------------------------------------------------------------------------
(* The steps of workers.  What a worker's contract has to have: for one    *)
(* that is idle, or holds a row of the contract, with nobody beside it.    *)
Fits(w, a) ==
    /\ FrozenFor(a) + Reserved(w) <= balance[a]
    /\ Writing(w) => FrozenFor(a) <= worker[w].total

(* A step of w with the row i.                                             *)
Moves(w, i) ==
    /\ i \in DOMAIN rows
    /\ worker[w].step # "idle" => worker[w].row = i
    /\ worker'[w].step # "idle" => worker'[w].row = i
    /\ worker[w].step = "idle" => \A j \in Neighbours(i) : ~Held(j)
    /\ \A v \in Workers \ {w} : worker'[v] = worker[v]
    /\ Evolves
    /\ \A j \in DOMAIN rows \ {i} : rows'[j] = rows[j]
    /\ rows'[i].status # rows[i].status => rows'[i].status # "PENDING"
Others(w, a) == \A v \in Workers \ {w} : ~Holds(v, a)

LEMMA NobodyBeside ==
    ASSUME IInv, NEW w \in Workers, NEW i, Moves(w, i), Orderly
    PROVE  /\ Others(w, rows[i].to) /\ Others(w, rows[i].to)'
           /\ \A v \in Workers \ {w} : worker[v].step # "idle" => worker[v].row # i
  <1>1. ASSUME NEW v \in Workers \ {w}, Holds(v, rows[i].to) PROVE FALSE
    <2>1. worker[v].step # "idle" /\ rows[worker[v].row].to = rows[i].to
                                  /\ worker[v].row \in DOMAIN rows
      BY <1>1, Exists DEF Holds, At, Row
    <2>2. CASE worker[w].step = "idle"
      <3>1. worker[v].row \in Neighbours(i) /\ Held(worker[v].row)
        BY <2>1 DEF Neighbours, Held
      <3> QED
        BY <2>2, <3>1 DEF Moves
    <2>3. CASE worker[w].step # "idle"
      <3>1. Holds(w, rows[i].to) /\ rows[i].to \in Addr
        BY <2>3, RowFacts DEF Moves, Holds, At, Row
      <3> QED
        BY <1>1, <3>1 DEF Orderly, OneHolder
    <2> QED
      BY <2>2, <2>3
  <1>2. ASSUME NEW v \in Workers \ {w}, Holds(v, rows[i].to)' PROVE FALSE
    <2>1. worker'[v] = worker[v] /\ worker[v].step # "idle" /\ rows'[worker[v].row].to = rows'[i].to
      BY <1>2 DEF Holds, At, Row, Moves
    <2>2. worker[v].row \in DOMAIN rows
      BY <2>1, Exists
    <2>3. rows[worker[v].row].to = rows[i].to
      BY <2>1, <2>2 DEF Moves, Evolves, Same
    <2> QED
      BY <1>1, <2>1, <2>3 DEF Holds, At, Row
  <1>3. Others(w, rows[i].to)'
    <2>1. rows'[i].to = rows[i].to
      BY DEF Moves, Evolves, Same
    <2> QED
      BY <1>2, <2>1 DEF Others
  <1> QED
    BY <1>1, <1>3 DEF Others, Holds, At, Row

LEMMA WorkerFreeze ==
    ASSUME FreezeInv, IInv', NEW w \in Workers, NEW i, Moves(w, i),
           Unshaken' => Unshaken, Counted',
           Unshaken' /\ Orderly => HolderOk(w)' /\ (rows'[i].status # rows[i].status =>
                                                    rows'[i].status = "CANCELED" \/ InTurn(i)),
           \A a \in Contracts : a # rows[i].to => balance'[a] >= balance[a],
           \A a \in Contracts :
              a = rows[i].to /\ Unshaken' /\ Orderly /\ PlainCalls(a) /\ Fits(w, a) => Fits(w, a)'
    PROVE  FreezeInv'
  <1>1. IInv /\ \A j \in DOMAIN rows' : Placed(rows'[j])
    BY PlacedStays DEF FreezeInv, Moves
  <1>2. i \in DOMAIN rows /\ rows'[i].to = rows[i].to /\ Evolves
    BY DEF Moves, Evolves, Same
  <1>3. ASSUME Unshaken' PROVE Orderly /\ Orderly'
    <2>1. /\ Orderly /\ HolderOk(w)'
          /\ rows'[i].status # rows[i].status => rows'[i].status = "CANCELED" \/ InTurn(i)
      BY <1>3 DEF FreezeInv
    <2>2. \A v \in Workers \ {w} : worker[v].step # "idle" => worker[v].row # i
      BY <1>1, <2>1, NobodyBeside
    <2>3. Advances(w)
      BY <2>1, <2>2 DEF Advances, Moves
    <2>4. Takes(w)
      BY <1>2 DEF Takes, Moves
    <2> QED
      BY <1>1, <1>2, <2>1, <2>3, <2>4, OrderlyStep
  <1>4. ASSUME Unshaken', NEW a \in Contracts, PlainCalls(a)' PROVE Backed(a)'
    <2>1. Backed(a) /\ PlainCalls(a) /\ a \in Addr
      BY <1>2, <1>4, PlainBefore, ContractsAreAccounts DEF FreezeInv
    <2>2. CASE a = rows[i].to
      <3>1. Others(w, a) /\ Others(w, a)'
        BY <1>1, <1>2, <1>3, <1>4, <2>2, NobodyBeside DEF Others
      <3>2. FrozenFor(a) \in Nat /\ FrozenFor(a)' \in Nat /\ balance[a] \in Nat
                                 /\ balance'[a] \in Nat
        BY <1>1, <2>1, RowsNow, FreezeFacts, FrozenForIs DEF IInv
      <3>3. Fits(w, a)
        <4>1. CASE At(w, "idle")
          <5>1. Reserved(w) = 0 /\ ~Writing(w)
            BY <4>1 DEF Reserved, At, Writing
          <5>2. FrozenFor(a) <= balance[a]
            BY <2>1, <3>1, <4>1 DEF Others, Backed, Holds
          <5> QED
            BY <3>2, <5>1, <5>2 DEF Fits
        <4>2. CASE ~At(w, "idle")
          <5>1. Holds(w, a)
            BY <2>2, <4>2 DEF Moves, Holds, At, Row
          <5> QED
            BY <2>1, <5>1 DEF Backed, Fits
        <4> QED
          BY <4>1, <4>2
      <3>4. Fits(w, a)'
        BY <1>3, <1>4, <2>1, <2>2, <3>3
      <3>5. ASSUME NEW v \in Workers, Holds(v, a)'
            PROVE  /\ FrozenFor(a)' + Reserved(v)' <= balance'[a]
                   /\ Writing(v)' => FrozenFor(a)' <= worker'[v].total
        <4>1. v = w
          BY <3>1, <3>5 DEF Others
        <4> QED
          BY <3>4, <4>1 DEF Fits
      <3>6. ASSUME \A v \in Workers : ~Holds(v, a)' PROVE FrozenFor(a)' <= balance'[a]
        <4>1. At(w, "idle")'
          BY <1>2, <2>2, <3>6 DEF Moves, Holds, At, Row
        <4>2. Reserved(w)' = 0
          BY <4>1 DEF Reserved, At
        <4> QED
          BY <3>2, <3>4, <4>2 DEF Fits
      <3> QED
        BY <3>5, <3>6 DEF Backed
    <2>3. CASE a # rows[i].to
      <3>1. rows \in Seq(RowSet) /\ rows' \in Seq(RowSet) /\ DOMAIN rows \subseteq DOMAIN rows'
        BY <1>1, <1>2, RowsNow DEF Evolves
      <3>2. ASSUME NEW j \in DOMAIN rows
            PROVE  rows'[j].to = rows[j].to /\ (rows[j].to = a => FrozenRow(rows'[j]) = FrozenRow(rows[j]))
        BY <1>2, <2>3 DEF Moves
      <3>3. \A j \in DOMAIN rows' \ DOMAIN rows : FrozenRow(rows'[j]) = 0
        BY <1>2 DEF Evolves, FrozenRow
      <3>4. FrozenIn(rows', a) = FrozenIn(rows, a)
        BY <3>1, <3>2, <3>3, FreezeStays
      <3>5. ASSUME NEW v \in Workers, Holds(v, a) \/ Holds(v, a)'
            PROVE  worker'[v] = worker[v] /\ Holds(v, a) /\ rows'[worker[v].row].ok = rows[worker[v].row].ok
        <4>1. v # w
          BY <1>2, <2>3, <3>5 DEF Holds, At, Row, Moves
        <4>2. worker'[v] = worker[v] /\ worker[v].step # "idle"
          BY <3>5, <4>1 DEF Holds, At, Moves
        <4>3. worker[v].row \in DOMAIN rows
          BY <1>1, <4>2, Exists
        <4>4. worker[v].row # i
          BY <1>2, <2>3, <3>5, <4>2 DEF Holds, At, Row
        <4>5. rows'[worker[v].row] = rows[worker[v].row]
          BY <4>3, <4>4 DEF Moves
        <4> QED
          BY <3>5, <4>2, <4>5 DEF Holds, At, Row
      <3> QED
        BY <1>1, <1>2, <2>1, <2>3, <3>4, <3>5, Far
    <2> QED
      BY <2>2, <2>3
  <1> QED
    BY <1>1, <1>3, <1>4 DEF FreezeInv

(* Whose row keeps its status keeps its turn.                              *)
LEMMA TurnStays ==
    ASSUME IInv, IInv', NEW w, NEW i, Moves(w, i), rows'[i].status = rows[i].status, InTurn(i)
    PROVE  InTurn(i)'
  <1>1. DOMAIN rows = 1..Len(rows) /\ Len(rows) \in Nat /\ DOMAIN rows' = 1..Len(rows')
                                   /\ Len(rows') \in Nat
    BY RowsNow
  <1> SUFFICES ASSUME NEW j \in DOMAIN rows', rows'[j].to = rows'[i].to, j < i
               PROVE  rows'[j].status # "PENDING"
    BY DEF InTurn, Neighbours
  <1>2. i \in DOMAIN rows /\ j \in DOMAIN rows
    BY <1>1 DEF Moves
  <1>3. rows[j].to = rows[i].to
    BY <1>2 DEF Moves, Evolves, Same
  <1>4. rows[j].status # "PENDING" /\ j # i
    BY <1>1, <1>2, <1>3 DEF InTurn, Neighbours
  <1> QED
    BY <1>2, <1>4 DEF Moves

LEMMA HolderStays ==
    ASSUME IInv, IInv', NEW w, NEW i, Moves(w, i), rows'[i].status = rows[i].status,
           worker[w].step # "idle", HolderOk(w), worker'[w].step # "again",
           AtWork(w)' => AtWork(w), AtEnd(w)' => AtEnd(w)
    PROVE  HolderOk(w)'
  <1>1. worker[w].row = i
    BY DEF Moves
  <1>2. ASSUME AtWork(w)' PROVE Row(w)'.status = "PENDING" /\ InTurn(worker[w].row)'
    <2>1. rows[i].status = "PENDING" /\ InTurn(i)
      BY <1>1, <1>2 DEF HolderOk, Row
    <2>2. worker'[w].row = i
      BY <1>2 DEF AtWork, At, Moves
    <2>3. InTurn(i)'
      BY <2>1, TurnStays
    <2> QED
      BY <2>1, <2>2, <2>3 DEF Row, InTurn
  <1>3. ASSUME AtEnd(w)' PROVE Row(w)'.status = "ACCEPTED"
    <2>1. rows[i].status = "ACCEPTED"
      BY <1>1, <1>3 DEF HolderOk, Row
    <2>2. worker'[w].row = i
      BY <1>3 DEF AtEnd, At, Moves
    <2> QED
      BY <2>1, <2>2 DEF Row
  <1> QED
    BY <1>2, <1>3 DEF HolderOk, At

LEMMA HolderIdle ==
    ASSUME NEW w, worker'[w].step = "idle"
    PROVE  HolderOk(w)'
  BY DEF HolderOk, AtWork, AtEnd, At

----------------------------------------------------------------------------
(* The steps of workers that freeze and reserve nothing.                   *)
LEMMA StepNow ==
    ASSUME IInv, NEW w \in Workers, NEW s, Step(w, s)
    PROVE  worker'[w] = s /\ \A v \in Workers \ {w} : worker'[v] = worker[v]
  BY DEF IInv, Step

LEMMA CalmCounts ==
    ASSUME FreezeInv, UNCHANGED <<serial, spent>>
    PROVE  (Unshaken' => Unshaken) /\ Counted'
  BY DEF Unshaken, FreezeInv, Counted

LEMMA FrozenSame ==
    ASSUME IInv, IInv', NEW w, NEW i, Moves(w, i), FrozenRow(rows'[i]) = FrozenRow(rows[i]), NEW a
    PROVE  FrozenIn(rows', a) = FrozenIn(rows, a)
  <1>1. rows \in Seq(RowSet) /\ rows' \in Seq(RowSet) /\ DOMAIN rows \subseteq DOMAIN rows'
    BY RowsNow DEF Moves, Evolves
  <1>2. ASSUME NEW j \in DOMAIN rows
        PROVE  rows'[j].to = rows[j].to /\ (rows[j].to = a => FrozenRow(rows'[j]) = FrozenRow(rows[j]))
    BY DEF Moves, Evolves, Same
  <1>3. \A j \in DOMAIN rows' \ DOMAIN rows : FrozenRow(rows'[j]) = 0
    BY DEF Moves, Evolves, FrozenRow
  <1> QED
    BY <1>1, <1>2, <1>3, FreezeStays

LEMMA Quiet ==
    ASSUME IInv, IInv', NEW w, NEW i, Moves(w, i), FrozenRow(rows'[i]) = FrozenRow(rows[i]),
           NEW a \in Addr, balance'[a] >= balance[a],
           Reserved(w) \in Nat, Reserved(w)' = 0, worker'[w].step \notin {"write", "credit"}, Fits(w, a)
    PROVE  Fits(w, a)'
  <1>1. FrozenIn(rows', a) = FrozenIn(rows, a)
    BY FrozenSame
  <1>2. FrozenFor(a)' = FrozenFor(a) /\ FrozenFor(a) \in Nat /\ balance[a] \in Nat
                                     /\ balance'[a] \in Nat
    BY <1>1, RowsNow, FreezeFacts, FrozenForIs DEF IInv
  <1> QED
    BY <1>2 DEF Fits, At, Writing

LEMMA QuietStep ==
    ASSUME FreezeInv, IInv', NEW w \in Workers, NEW i, Moves(w, i), Counted', Unshaken' => Unshaken,
           \A a \in Addr : balance'[a] >= balance[a],
           rows'[i].ok = rows[i].ok,
           "ACCEPTED" \in {rows[i].status, rows'[i].status} => rows'[i].status = rows[i].status,
           Unshaken' => ~At(w, "emit"), worker'[w].step \notin {"write", "credit", "accepted", "emit"},
           Unshaken' /\ Orderly => HolderOk(w)' /\ (rows'[i].status # rows[i].status => InTurn(i))
    PROVE  FreezeInv'
  <1>1. FrozenRow(rows'[i]) = FrozenRow(rows[i])
    BY DEF FrozenRow, Moves, Evolves, Same
  <1>2. Reserved(w)' = 0
    BY DEF Reserved, At
  <1>3. ASSUME Unshaken' PROVE Reserved(w) \in Nat
    <2>1. CASE worker[w].step = "idle"
      BY <2>1 DEF Reserved, At
    <2>2. CASE worker[w].step # "idle"
      BY <1>3, <2>2, ReservedInt DEF FreezeInv
    <2> QED
      BY <2>1, <2>2
  <1>4. ASSUME NEW a \in Contracts, Unshaken', Fits(w, a) PROVE Fits(w, a)'
    BY <1>1, <1>2, <1>3, <1>4, Quiet, ContractsAreAccounts DEF FreezeInv
  <1>5. \A a \in Contracts : balance'[a] >= balance[a]
    BY ContractsAreAccounts
  <1> QED
    BY <1>4, <1>5, WorkerFreeze

LEMMA BalancesStay ==
    ASSUME IInv, UNCHANGED balance
    PROVE  \A a \in Addr : balance'[a] >= balance[a]
  BY DEF IInv

LEMMA ClaimFreezes ==
    ASSUME FreezeInv, IInv', NEW w \in Workers, Claim(w)
    PROVE  FreezeInv'
  <1>1. PICK i \in DOMAIN rows :
          /\ rows[i].status = "PENDING"
          /\ \A j \in Neighbours(i) : ~Held(j) /\ (j < i => rows[j].status # "PENDING")
          /\ Step(w, [step |-> "pending", row |-> i])
    BY DEF Claim
  <1> DEFINE s == [step |-> "pending", row |-> i]
  <1>2. At(w, "idle") /\ UNCHANGED <<serial, spent>> /\ UNCHANGED balance /\ UNCHANGED rows
    BY DEF Claim, Calm, Kept
  <1>3. worker'[w] = s /\ \A v \in Workers \ {w} : worker'[v] = worker[v]
    BY <1>1, StepNow DEF FreezeInv
  <1>4. Moves(w, i)
    BY <1>1, <1>2, <1>3, RowsUntouched DEF Moves, At
  <1>5. HolderOk(w)'
    <2>1. InTurn(i)
      BY <1>1 DEF InTurn
    <2>2. InTurn(i)'
      BY <1>2, <1>4, <2>1, TurnStays DEF FreezeInv
    <2> QED
      BY <1>1, <1>2, <1>3, <2>2 DEF HolderOk, AtWork, AtEnd, At, Row, InTurn
  <1>6. \A a \in Addr : balance'[a] >= balance[a]
    BY <1>2, BalancesStay DEF FreezeInv
  <1> QED
    BY <1>2, <1>3, <1>4, <1>5, <1>6, CalmCounts, QuietStep DEF At

(* The end of a row: a worker lets go of it, with another status or not.   *)
LEMMA LetGo ==
    ASSUME FreezeInv, IInv', NEW w \in Workers, ~At(w, "idle"), Step(w, Idle),
           Counted', Unshaken' => Unshaken, UNCHANGED balance, Unshaken' => ~At(w, "emit"),
           \/ rows' = rows
           \/ /\ \E status \in {"FINALIZED", "UNDETERMINED"} :
                    rows' = [rows EXCEPT ![worker[w].row].status = status]
              /\ AtWork(w)
    PROVE  FreezeInv'
  <1> DEFINE i == worker[w].row
  <1>1. i \in DOMAIN rows /\ IInv
    BY Exists DEF FreezeInv, At
  <1>2. /\ Evolves /\ rows'[i].ok = rows[i].ok
        /\ \A j \in DOMAIN rows \ {i} : rows'[j] = rows[j]
        /\ rows'[i].status # rows[i].status =>
             rows'[i].status \in {"FINALIZED", "UNDETERMINED"} /\ AtWork(w)
    <2>1. CASE rows' = rows
      BY <2>1, RowsUntouched
    <2>2. CASE rows' # rows
      <3>1. PICK status \in {"FINALIZED", "UNDETERMINED"} : rows' = [rows EXCEPT ![i].status = status]
        BY <2>2
      <3> DEFINE r == [rows[i] EXCEPT !.status = status]
      <3>2. rows[i] \in RowSet
        BY <1>1, RowFacts
      <3>3. Same(rows[i], r) /\ r.status = status /\ r.ok = rows[i].ok
                             /\ rows' = [rows EXCEPT ![i] = r]
        BY <3>1, <3>2 DEF Same, RowSet
      <3> HIDE DEF r
      <3>4. Evolves /\ rows'[i] = r /\ \A j \in DOMAIN rows \ {i} : rows'[j] = rows[j]
        BY <1>1, <3>3, RowReplaced
      <3> QED
        BY <2>2, <3>3, <3>4
    <2> QED
      BY <2>1, <2>2
  <1>3. worker'[w] = Idle /\ \A v \in Workers \ {w} : worker'[v] = worker[v]
    BY <1>1, StepNow
  <1>4. Moves(w, i) /\ worker'[w].step = "idle"
    BY <1>1, <1>2, <1>3 DEF Moves, Idle, At
  <1>5. HolderOk(w)'
    BY <1>4, HolderIdle
  <1>6. \A a \in Addr : balance'[a] >= balance[a]
    BY <1>1, BalancesStay
  <1>7. ASSUME Unshaken', Orderly
        PROVE  /\ rows'[i].status # rows[i].status => InTurn(i)
    BY <1>2, <1>7 DEF Orderly, HolderOk
  <1> HIDE DEF i
  <1>8. CASE ~Unshaken'
    BY <1>1, <1>2, <1>8, PlacedStays DEF FreezeInv
  <1>9. CASE Unshaken'
    <2>1. "ACCEPTED" \in {rows[i].status, rows'[i].status} => rows'[i].status = rows[i].status
      <3>1. AtWork(w) => rows[i].status = "PENDING"
        BY <1>9 DEF FreezeInv, Orderly, HolderOk, Row, i
      <3> QED
        BY <1>2, <3>1
    <2> QED
      BY <1>2, <1>4, <1>5, <1>6, <1>7, <2>1, QuietStep
  <1> QED
    BY <1>8, <1>9

LEMMA StopsAndCounts ==
    ASSUME FreezeInv, NEW w \in Workers, Stops(w)
    PROVE  Counted' /\ (Unshaken' => Unshaken /\ serial /\ ~At(w, "emit"))
  <1>1. /\ serial' = serial
        /\ spent' = IF At(w, "emit") THEN [spent EXCEPT !.midway = @ + 1]
                    ELSE [spent EXCEPT !.crashes = @ + 1]
    BY DEF Stops
  <1>2. spent \in [crashes : Nat, midway : Nat, appeals : Nat]
    BY DEF FreezeInv, Counted
  <1> QED
    BY <1>1, <1>2 DEF Counted, Unshaken

LEMMA LetsGo ==
    ASSUME FreezeInv, IInv', NEW w \in Workers,
           TransferDone(w) \/ TransferFails(w) \/ Undetermined(w) \/ Crash(w) \/ Release(w)
    PROVE  FreezeInv'
  <1>1. CASE TransferDone(w) \/ TransferFails(w) \/ Undetermined(w)
    <2>1. /\ At(w, "pending") \/ At(w, "round")
          /\ Step(w, Idle) /\ UNCHANGED <<serial, spent>> /\ UNCHANGED balance
          /\ \E status \in {"FINALIZED", "UNDETERMINED"} :
               rows' = [rows EXCEPT ![worker[w].row].status = status]
      BY <1>1 DEF TransferDone, TransferFails, Undetermined, Calm, Kept
    <2>2. AtWork(w) /\ ~At(w, "idle") /\ ~At(w, "emit")
      BY <2>1 DEF AtWork, At
    <2> QED
      BY <2>1, <2>2, CalmCounts, LetGo
  <1>2. CASE Crash(w)
    <2>1. ~At(w, "idle") /\ Step(w, Idle) /\ UNCHANGED balance /\ rows' = rows
      BY <1>2 DEF Crash, Stops, Kept
    <2>2. Counted' /\ (Unshaken' => Unshaken /\ ~At(w, "emit"))
      BY <1>2, StopsAndCounts DEF Crash
    <2> QED
      BY <2>1, <2>2, LetGo
  <1>3. CASE Release(w)
    <2>1. /\ ~At(w, "idle") /\ ~At(w, "emit") /\ Step(w, Idle) /\ UNCHANGED balance /\ rows' = rows
          /\ serial' = serial /\ spent' = [spent EXCEPT !.crashes = @ + 1]
      BY <1>3 DEF Release, Kept, At
    <2>2. spent \in [crashes : Nat, midway : Nat, appeals : Nat]
      BY DEF FreezeInv, Counted
    <2>3. Counted' /\ (Unshaken' => Unshaken)
      BY <2>1, <2>2 DEF Counted, Unshaken
    <2> QED
      BY <2>1, <2>3, LetGo
  <1> QED
    BY <1>1, <1>2, <1>3

(* A worker cancels the row it holds, and gives its value back: what it    *)
(* froze is free.                                                          *)
LEMMA AbandonFreezes ==
    ASSUME FreezeInv, IInv', NEW w \in Workers, Abandon(w)
    PROVE  FreezeInv'
  <1> DEFINE i == worker[w].row
             r == rows[i]
             q == rows'[i]
  <1>1. ~At(w, "idle") /\ Step(w, Idle) /\ GiveBack(i, "CANCELED") /\ Stops(w)
    BY DEF Abandon, Stops
  <1>2. IInv /\ i \in DOMAIN rows /\ worker[w].step # "idle"
    BY <1>1, Exists DEF FreezeInv, At
  <1>3. /\ Evolves /\ DOMAIN rows' = DOMAIN rows /\ q.status = "CANCELED"
        /\ \A j \in DOMAIN rows \ {i} : rows'[j] = rows[j]
        /\ \A a \in Addr : balance'[a] >= balance[a]
    BY <1>1, <1>2, GiveBackFreezesNothing
  <1>4. worker'[w] = Idle /\ \A v \in Workers \ {w} : worker'[v] = worker[v]
    BY <1>1, <1>2, StepNow
  <1>5. Moves(w, i) /\ worker'[w].step = "idle"
    BY <1>2, <1>3, <1>4 DEF Moves, Idle
  <1>6. Counted' /\ (Unshaken' => Unshaken /\ ~At(w, "emit"))
    BY <1>1, StopsAndCounts
  <1>7. HolderOk(w)'
    BY <1>5, HolderIdle
  <1>8. ASSUME Unshaken', NEW a \in Contracts, a = r.to, Fits(w, a) PROVE Fits(w, a)'
    <2>1. rows \in Seq(RowSet) /\ rows' \in Seq(RowSet) /\ a \in Addr /\ r \in RowSet /\ q \in RowSet
      BY <1>2, <1>3, RowsNow, ContractsAreAccounts
    <2>2. q.to = r.to
      BY <1>2, <1>3 DEF Evolves, Same
    <2>3. rows' = [rows EXCEPT ![i] = q]
      BY <1>2, <1>3, <2>1
    <2>4. FrozenRow(r) \in Nat /\ FrozenRow(q) = 0 /\ FrozenIn(rows, a) \in Nat
      BY <1>3, <2>1, FrozenRowNat, FreezeFacts
    <2> HIDE DEF q
    <2>5. FrozenIn(rows', a) = FrozenIn(rows, a) - FrozenRow(r) + FrozenRow(q)
      <3>1. FrozenIn([rows EXCEPT ![i] = q], q.to) = FrozenIn(rows, q.to) - FrozenRow(r) + FrozenRow(q)
        BY <1>2, <2>1, <2>2, FreezeChanges
      <3> QED
        BY <1>8, <2>2, <2>3, <3>1
    <2>6. FrozenIn(rows', a) <= FrozenIn(rows, a) /\ FrozenIn(rows', a) \in Int
      BY <2>4, <2>5
    <2>7. FrozenFor(a) = FrozenIn(rows, a) /\ FrozenFor(a)' = FrozenIn(rows', a)
      BY FrozenForIs
    <2>8. balance[a] \in Nat /\ balance'[a] \in Nat /\ balance'[a] >= balance[a]
      BY <1>2, <1>3, <2>1 DEF IInv
    <2>9. Reserved(w) \in Nat
      BY <1>2, <1>6, <1>8, ReservedInt
    <2>10. Reserved(w)' = 0 /\ ~Writing(w)'
      BY <1>5 DEF Reserved, Writing, At
    <2>11. FrozenFor(a) + Reserved(w) <= balance[a]
      BY <1>8 DEF Fits
    <2> QED
      BY <2>4, <2>6, <2>7, <2>8, <2>9, <2>10, <2>11 DEF Fits
  <1>9. \A a \in Contracts : balance'[a] >= balance[a]
    BY <1>3, ContractsAreAccounts
  <1> HIDE DEF i
  <1> QED
    BY <1>3, <1>5, <1>6, <1>7, <1>8, <1>9, WorkerFreeze

(* A call is activated, a transfer has begun.                              *)
LEMMA BeginFreezesNothing ==
    ASSUME FreezeInv, IInv', NEW w \in Workers, ReadFrom(w) \/ Activate(w)
    PROVE  FreezeInv'
  <1> DEFINE i == worker[w].row
  <1>1. At(w, "pending") /\ UNCHANGED <<serial, spent>>
    BY DEF ReadFrom, Activate, Calm
  <1>2. IInv /\ i \in DOMAIN rows /\ worker[w].step = "pending"
    BY <1>1, Exists DEF FreezeInv, At
  <1>3. PICK s : Step(w, s) /\ s.step \in {"to", "round"} /\ s.row = i
    <2>1. CASE ReadFrom(w)
      BY <2>1 DEF ReadFrom
    <2>2. CASE Activate(w)
      <3>1. On(w, "round") = [step |-> "round", row |-> i]
        BY <1>1, <1>2, WorkerFacts DEF Holding, At
      <3> QED
        BY <2>2, <3>1 DEF Activate
    <2> QED
      BY <2>1, <2>2
  <1>4. /\ Evolves /\ \A j \in DOMAIN rows \ {i} : rows'[j] = rows[j]
        /\ rows'[i].ok = rows[i].ok /\ rows'[i].status = rows[i].status
        /\ \A a \in Addr : balance'[a] >= balance[a]
    <2>1. CASE ReadFrom(w)
      <3>1. UNCHANGED balance /\ UNCHANGED rows
        BY <2>1 DEF ReadFrom, Kept
      <3> QED
        BY <1>2, <3>1, RowsUntouched, BalancesStay
    <2>2. CASE Activate(w)
      BY <1>2, <2>2, CreditFreezesNothing DEF Activate
    <2> QED
      BY <2>1, <2>2
  <1>5. worker'[w] = s /\ \A v \in Workers \ {w} : worker'[v] = worker[v]
    BY <1>2, <1>3, StepNow
  <1>6. Moves(w, i)
    BY <1>1, <1>2, <1>3, <1>4, <1>5 DEF Moves
  <1>7. ASSUME Orderly PROVE HolderOk(w)'
    <2>1. HolderOk(w) /\ AtWork(w) /\ ~AtEnd(w)'
      BY <1>2, <1>3, <1>5, <1>7 DEF Orderly, AtWork, AtEnd, At
    <2> QED
      BY <1>2, <1>3, <1>4, <1>5, <1>6, <2>1, HolderStays
  <1> QED
    BY <1>1, <1>2, <1>3, <1>4, <1>5, <1>6, <1>7, CalmCounts, QuietStep DEF At

(* A transfer: what it will write is no less than what is there.           *)
LEMMA ReadToFreezesNothing ==
    ASSUME FreezeInv, IInv', NEW w \in Workers, ReadTo(w)
    PROVE  FreezeInv'
  <1> DEFINE i == worker[w].row
             r == rows[i]
             has == IF PaysNow(r) /\ r.from = r.to THEN worker[w].rest ELSE balance[r.to]
             s == [step |-> "write", row |-> i, rest |-> worker[w].rest, total |-> has + r.value]
  <1>1. /\ At(w, "to") /\ UNCHANGED <<serial, spent>> /\ Step(w, s)
        /\ UNCHANGED balance /\ UNCHANGED rows
    BY DEF ReadTo, Row, Calm, Kept
  <1>2. IInv /\ i \in DOMAIN rows /\ worker[w].step = "to" /\ r.to \in Addr /\ r.value \in Nat
    BY <1>1, Exists, RowFacts DEF FreezeInv, At
  <1>3. worker'[w] = s /\ \A v \in Workers \ {w} : worker'[v] = worker[v]
    BY <1>1, <1>2, StepNow
  <1>4. s.step = "write" /\ s.row = i /\ s.total = has + r.value
    OBVIOUS
  <1> HIDE DEF s
  <1>5. Moves(w, i)
    BY <1>1, <1>2, <1>3, <1>4, CalmCounts, RowsUntouched DEF Moves
  <1>6. ASSUME Orderly PROVE HolderOk(w)'
    <2>1. HolderOk(w) /\ AtWork(w) /\ ~AtEnd(w)'
      BY <1>2, <1>3, <1>4, <1>6 DEF Orderly, AtWork, AtEnd, At
    <2> QED
      BY <1>1, <1>2, <1>3, <1>4, <1>5, <2>1, HolderStays
  <1>7. \A a \in Addr : balance'[a] >= balance[a]
    BY <1>1, <1>2, BalancesStay
  <1>8. ASSUME NEW a \in Contracts, a = r.to, Fits(w, a) PROVE Fits(w, a)'
    <2>1. ~(PaysNow(r) /\ r.from = r.to)
      BY <1>2, <1>8 DEF FreezeInv, Placed
    <2>2. has = balance[a]
      BY <1>8, <2>1
    <2>3. Reserved(w) = 0 /\ Reserved(w)' = 0
      BY <1>2, <1>3, <1>4 DEF Reserved, At
    <2>4. FrozenFor(a)' = FrozenFor(a) /\ FrozenFor(a) \in Nat /\ balance[a] \in Nat
      BY <1>1, <1>2, <1>8, RowsNow, FreezeFacts, FrozenForIs DEF IInv
    <2>5. FrozenFor(a) <= balance[a]
      BY <2>3, <2>4, <1>8 DEF Fits
    <2> HIDE DEF has, r
    <2>6. FrozenFor(a) <= worker'[w].total
      BY <1>2, <1>3, <1>4, <2>2, <2>4, <2>5
    <2> QED
      BY <1>1, <2>3, <2>4, <2>5, <2>6 DEF Fits
  <1>9. \A a \in Contracts : balance'[a] >= balance[a]
    BY <1>7, ContractsAreAccounts
  <1> HIDE DEF i
  <1>10. rows'[i].status = rows[i].status
    BY <1>1
  <1> QED
    BY <1>1, <1>5, <1>6, <1>8, <1>9, <1>10, CalmCounts, WorkerFreeze

(* The debit of a transfer is of no contract.                              *)
LEMMA ContractsPayNothing ==
    ASSUME FreezeInv, NEW w \in Workers, worker[w].step # "idle", NEW a \in Contracts
    PROVE  Debited(w)[a] = balance[a] /\ a \in DOMAIN Debited(w) /\ balance[a] \in Nat
  <1>1. worker[w].row \in DOMAIN rows /\ a \in Addr /\ balance \in [Addr -> Nat]
    BY Exists, ContractsAreAccounts DEF FreezeInv, IInv
  <1>2. PaysNow(Row(w)) => Row(w).from # a
    BY <1>1 DEF FreezeInv, Placed, Row
  <1> QED
    BY <1>1, <1>2 DEF Debited

LEMMA CreateRecipientFreezes ==
    ASSUME FreezeInv, IInv', NEW w \in Workers, CreateRecipient(w)
    PROVE  FreezeInv'
  <1> DEFINE i == worker[w].row
             r == rows[i]
             q == [r EXCEPT !.paid = PaysNow(r) \/ r.paid]
             s == On(w, "credit")
  <1>1. /\ At(w, "write") /\ UNCHANGED <<serial, spent>> /\ Step(w, s)
        /\ balance' = Debited(w)
        /\ rows' = [rows EXCEPT ![i].paid = PaysNow(r) \/ @]
    BY DEF CreateRecipient, Row
  <1>2. /\ IInv /\ i \in DOMAIN rows /\ worker[w].step = "write" /\ worker[w].step # "idle"
        /\ r \in RowSet
    BY <1>1, Exists, RowFacts DEF FreezeInv, At
  <1>3. Same(r, q) /\ q.status = r.status /\ q.ok = r.ok
    BY <1>2 DEF Same, RowSet
  <1>4. rows' = [rows EXCEPT ![i] = q]
    BY <1>1, <1>2
  <1> HIDE DEF q
  <1>5. Evolves /\ rows'[i] = q /\ \A j \in DOMAIN rows \ {i} : rows'[j] = rows[j]
    BY <1>2, <1>3, <1>4, RowReplaced
  <1>6. s.step = "credit" /\ s.row = i /\ s.total = worker[w].total
    BY <1>1, <1>2, OnCredit
  <1>7. worker'[w] = s /\ \A v \in Workers \ {w} : worker'[v] = worker[v]
    BY <1>1, <1>2, StepNow
  <1> HIDE DEF s
  <1>8. Moves(w, i)
    BY <1>2, <1>3, <1>5, <1>6, <1>7 DEF Moves
  <1>9. ASSUME Orderly PROVE HolderOk(w)'
    <2>1. HolderOk(w) /\ AtWork(w) /\ ~AtEnd(w)' /\ worker'[w].step # "again"
      BY <1>2, <1>6, <1>7, <1>9 DEF Orderly, AtWork, AtEnd, At
    <2> QED
      BY <1>2, <1>3, <1>5, <1>8, <2>1, HolderStays
  <1>10. \A a \in Contracts : balance'[a] = balance[a] /\ balance[a] \in Nat
    BY <1>1, <1>2, ContractsPayNothing
  <1>11. ASSUME NEW a \in Contracts, Fits(w, a) PROVE Fits(w, a)'
    <2>1. FrozenRow(rows'[i]) = FrozenRow(rows[i])
      BY <1>3, <1>5 DEF FrozenRow, Same
    <2>2. FrozenIn(rows', a) = FrozenIn(rows, a)
      BY <1>2, <1>8, <2>1, FrozenSame
    <2>3. FrozenFor(a)' = FrozenFor(a)
      BY <2>2, FrozenForIs
    <2>4. Reserved(w) = 0 /\ Reserved(w)' = 0 /\ Writing(w)
      BY <1>2, <1>6, <1>7 DEF Reserved, Writing, At
    <2>5. worker'[w].total = worker[w].total
      BY <1>6, <1>7
    <2>6. balance'[a] = balance[a]
      BY <1>10, <1>11
    <2>7. FrozenFor(a) + 0 <= balance[a] /\ FrozenFor(a) <= worker[w].total
      BY <1>11, <2>4 DEF Fits
    <2>8. FrozenFor(a)' + Reserved(w)' <= balance'[a]
      BY <2>3, <2>4, <2>6, <2>7, Zenon
    <2> QED
      BY <2>3, <2>5, <2>7, <2>8 DEF Fits
  <1>12. \A a \in Contracts : balance'[a] >= balance[a]
    BY <1>10
  <1> HIDE DEF i
  <1> QED
    BY <1>1, <1>3, <1>5, <1>8, <1>9, <1>11, <1>12, CalmCounts, WorkerFreeze

LEMMA WriteTransferFreezes ==
    ASSUME FreezeInv, IInv', NEW w \in Workers, WriteTransfer(w) \/ WriteCredit(w)
    PROVE  FreezeInv'
  <1> DEFINE i == worker[w].row
             r == rows[i]
             q == [r EXCEPT !.status = "FINALIZED", !.credited = (r.value > 0) \/ r.credited,
                            !.credits = r.credits + 1]
  <1>1. /\ Writing(w) /\ UNCHANGED <<serial, spent>> /\ Step(w, Idle)
        /\ \/ balance' = [Debited(w) EXCEPT ![r.to] = worker[w].total]
           \/ balance' = [balance EXCEPT ![r.to] = worker[w].total]
        /\ rows' = [rows EXCEPT ![i].status = "FINALIZED",
                                ![i].credited = (r.value > 0) \/ @, ![i].credits = @ + 1]
    BY DEF WriteTransfer, WriteCredit, Writing, Transferred, Row, Calm
  <1>2. /\ IInv /\ i \in DOMAIN rows /\ worker[w].step \in {"write", "credit"}
        /\ worker[w].step # "idle" /\ r.to \in Addr /\ r \in RowSet
        /\ worker[w].total \in Nat
    BY <1>1, Exists, RowFacts, WorkerFacts DEF FreezeInv, At, Writing
  <1>3. worker'[w] = Idle /\ \A v \in Workers \ {w} : worker'[v] = worker[v]
    BY <1>1, <1>2, StepNow
  <1>4. Same(r, q) /\ q.status = "FINALIZED" /\ q.ok = r.ok
    BY <1>2 DEF Same, RowSet
  <1>5. rows' = [rows EXCEPT ![i] = q]
    BY <1>1, <1>2
  <1> HIDE DEF q
  <1>6. Evolves /\ rows'[i] = q /\ \A j \in DOMAIN rows \ {i} : rows'[j] = rows[j]
    BY <1>2, <1>4, <1>5, RowReplaced
  <1>7. Moves(w, i) /\ worker'[w].step = "idle"
    BY <1>1, <1>2, <1>3, <1>4, <1>6 DEF Moves, Idle
  <1>8. ASSUME Orderly PROVE HolderOk(w)' /\ InTurn(i) /\ r.status = "PENDING"
    <2>1. AtWork(w)
      BY <1>2 DEF AtWork
    <2> QED
      BY <1>7, <1>8, <2>1, HolderIdle DEF Orderly, HolderOk, Row
  <1>9. ASSUME NEW a \in Contracts PROVE balance'[a] = IF a = r.to THEN worker[w].total ELSE balance[a]
    <2>1. /\ Debited(w)[a] = balance[a] /\ a \in DOMAIN Debited(w) /\ a \in DOMAIN balance
      BY <1>2, <1>9, ContractsPayNothing, ContractsAreAccounts DEF IInv
    <2> QED
      BY <1>1, <2>1
  <1>10. ASSUME NEW a \in Contracts, a = r.to, Orderly, Fits(w, a) PROVE Fits(w, a)'
    <2>1. FrozenRow(rows'[i]) = FrozenRow(rows[i])
      BY <1>4, <1>6, <1>8, <1>10 DEF FrozenRow
    <2>2. FrozenIn(rows', a) = FrozenIn(rows, a)
      BY <1>2, <1>7, <2>1, FrozenSame
    <2>3. FrozenFor(a)' = FrozenFor(a) /\ FrozenFor(a) \in Nat
      BY <1>2, <2>2, RowsNow, FreezeFacts, FrozenForIs
    <2>4. FrozenFor(a) <= worker[w].total
      BY <1>1, <1>10 DEF Fits
    <2>5. balance'[a] = worker[w].total
      BY <1>9, <1>10
    <2>6. Reserved(w)' = 0 /\ ~Writing(w)'
      BY <1>7 DEF Reserved, Writing, At
    <2> QED
      BY <1>2, <2>3, <2>4, <2>5, <2>6 DEF Fits
  <1>11. \A a \in Contracts : a # r.to => balance'[a] >= balance[a]
    BY <1>2, <1>9, ContractsAreAccounts DEF IInv
  <1> HIDE DEF i
  <1> QED
    BY <1>1, <1>7, <1>8, <1>10, <1>11, CalmCounts, WorkerFreeze

LEMMA ClaimFinalFreezes ==
    ASSUME FreezeInv, IInv', NEW w \in Workers, ClaimFinal(w)
    PROVE  FreezeInv'
  <1>1. PICK i \in DOMAIN rows :
          /\ rows[i].status \in Decided
          /\ \A j \in Neighbours(i) : ~Held(j) /\ (j < i => rows[j].status \notin Decided)
          /\ IF rows[i].status = "ACCEPTED" \/ rows[i].kind = "send"
             THEN Step(w, [step |-> "final", row |-> i]) /\ UNCHANGED rows
             ELSE rows' = [rows EXCEPT ![i].status = "FINALIZED"] /\ UNCHANGED worker
    BY Zenon DEF ClaimFinal
  <1>2. At(w, "idle") /\ UNCHANGED <<serial, spent>> /\ UNCHANGED balance /\ IInv
    BY DEF ClaimFinal, FreezeInv, Calm, Kept
  <1>3. \A a \in Addr : balance'[a] >= balance[a]
    BY <1>2, BalancesStay
  <1>4. CASE rows[i].status = "ACCEPTED" \/ rows[i].kind = "send"
    <2> DEFINE s == [step |-> "final", row |-> i]
    <2>1. worker'[w] = s /\ (\A v \in Workers \ {w} : worker'[v] = worker[v]) /\ UNCHANGED rows
      BY <1>1, <1>2, <1>4, StepNow
    <2>2. Moves(w, i)
      BY <1>1, <1>2, <2>1, RowsUntouched DEF Moves, At
    <2>3. HolderOk(w)'
      <3>1. worker'[w].step = "final" /\ worker'[w].row = i
        BY <2>1
      <3>2. ~AtWork(w)' /\ ~At(w, "again")'
        BY <3>1 DEF AtWork, At
      <3>3. ASSUME AtEnd(w)' PROVE Row(w)'.status = "ACCEPTED"
        <4>1. rows[i].kind = "call"
          BY <2>1, <3>1, <3>3 DEF AtEnd, At, Row
        <4>2. i \in DOMAIN rows => rows[i].kind # "send"
          BY <4>1
        <4> QED
          BY <1>4, <2>1, <3>1, <4>2 DEF Row
      <3> QED
        BY <3>2, <3>3 DEF HolderOk
    <2> QED
      BY <1>2, <1>3, <2>1, <2>2, <2>3, CalmCounts, QuietStep DEF At
  <1>5. CASE ~(rows[i].status = "ACCEPTED" \/ rows[i].kind = "send")
    <2> DEFINE q == [rows[i] EXCEPT !.status = "FINALIZED"]
    <2>1. rows[i] \in RowSet
      BY <1>2, RowFacts
    <2>2. Same(rows[i], q) /\ q.status = "FINALIZED" /\ q.ok = rows[i].ok
                           /\ rows' = [rows EXCEPT ![i] = q]
      BY <1>1, <1>5, <2>1 DEF Same, RowSet
    <2> HIDE DEF q
    <2>3. Evolves /\ rows'[i] = q /\ \A j \in DOMAIN rows \ {i} : rows'[j] = rows[j]
      BY <1>2, <2>2, RowReplaced
    <2>4. worker' = worker /\ worker'[w].step = "idle"
      BY <1>1, <1>2, <1>5 DEF At
    <2>5. Moves(w, i)
      BY <1>1, <1>2, <2>2, <2>3, <2>4 DEF Moves
    <2>6. HolderOk(w)'
      BY <2>4, HolderIdle
    <2>7. ASSUME Orderly PROVE InTurn(i)
      <3>1. DOMAIN rows \subseteq Int
        BY <1>2, RowsNow
      <3> SUFFICES ASSUME NEW j \in Neighbours(i), j < i, rows[j].status = "PENDING" PROVE FALSE
        BY DEF InTurn
      <3>2. i \in Neighbours(j) /\ j \in DOMAIN rows
        BY DEF Neighbours
      <3>3. rows[i].status \in {"PENDING", "CANCELED"}
        BY <2>7, <3>2 DEF Orderly, OldestFirst
      <3> QED
        BY <1>1, <3>3 DEF Decided
    <2> QED
      BY <1>2, <1>3, <1>5, <2>2, <2>3, <2>4, <2>5, <2>6, <2>7, CalmCounts, QuietStep DEF At
  <1> QED
    BY <1>4, <1>5

(* After an appeal nothing is said of the balances.                        *)
LEMMA AppealsShake ==
    ASSUME FreezeInv, IInv', NEW w \in Workers, AppealFails(w) \/ AppealSucceeds(w)
    PROVE  FreezeInv'
  <1>1. spent' = [spent EXCEPT !.appeals = @ + 1]
    BY Zenon DEF AppealFails, AppealSucceeds, MayAppeal
  <1>2. Counted' /\ ~Unshaken'
    BY <1>1 DEF FreezeInv, Counted, Unshaken
  <1>3. Evolves
    <2>1. CASE AppealFails(w)
      <3>1. UNCHANGED rows
        BY <2>1 DEF AppealFails
      <3> QED
        BY <3>1, RowsUntouched
    <2>2. CASE AppealSucceeds(w)
      <3>1. PICK i \in DOMAIN rows :
              rows' = [j \in DOMAIN rows |->
                    IF j \in Neighbours(i) /\ j >= i
                    THEN [rows[j] EXCEPT !.status = "PENDING", !.refunds = 0] ELSE rows[j]]
        BY <2>2, Zenon DEF AppealSucceeds
      <3>2. DOMAIN rows' = DOMAIN rows
        BY <3>1
      <3>3. ASSUME NEW j \in DOMAIN rows PROVE Same(rows[j], rows'[j])
        <4>1. rows'[j] = rows[j] \/ rows'[j] = [rows[j] EXCEPT !.status = "PENDING", !.refunds = 0]
          BY <3>1, <3>3
        <4>2. rows[j] \in RowSet
          BY <3>3, RowFacts DEF FreezeInv
        <4> QED
          BY <4>1, <4>2 DEF Same, RowSet
      <3> QED
        BY <3>2, <3>3 DEF Evolves
    <2> QED
      BY <2>1, <2>2
  <1> QED
    BY <1>2, <1>3, PlacedStays DEF FreezeInv

LEMMA GiveUpFreezes ==
    ASSUME FreezeInv, Unshaken => Untaken, IInv', NEW i \in givingUp, GiveUp(i)
    PROVE  FreezeInv'
  <1>1. i \in DOMAIN rows /\ UNCHANGED <<worker, serial, spent>> /\ GiveBack(i, "CANCELED")
    BY DEF FreezeInv, IInv, RowsExist, GiveUp
  <1>2. /\ Evolves /\ rows'[i].status = "CANCELED" /\ rows'[i].ok = rows[i].ok
        /\ \A j \in DOMAIN rows \ {i} : rows'[j] = rows[j]
        /\ \A a \in Addr : balance'[a] >= balance[a]
    BY <1>1, GiveBackFreezesNothing
  <1>3. CASE Unshaken
    <2>1. rows[i].status = "PENDING" /\ ~Held(i)
      BY <1>3 DEF Untaken
    <2>2. \A a \in Contracts : balance'[a] >= balance[a]
      BY <1>2, ContractsAreAccounts
    <2>3. PICK c : c \notin Workers
      <3>1. \A S : \E x : x \notin S
        <4> SUFFICES ASSUME NEW S, \A x : x \in S PROVE FALSE
          OBVIOUS
        <4>1. {x \in S : x \notin x} \in S
          OBVIOUS
        <4> QED
          BY <4>1
      <3> QED
        BY <3>1
    <2>4. ASSUME NEW j \in DOMAIN rows
          PROVE  /\ rows'[j].ok = rows[j].ok
                 /\ rows'[j].status # rows[j].status =>
                      rows[j].status = "PENDING" /\ rows'[j].status = "CANCELED" /\ ~Held(j)
      BY <1>2, <2>1, <2>4
    <2> QED
      BY <1>1, <1>2, <2>2, <2>3, <2>4, CallerFreeze
  <1>4. CASE ~Unshaken
    <2>1. ~Unshaken' /\ Counted'
      BY <1>1, <1>4 DEF FreezeInv, Unshaken, Counted
    <2> QED
      BY <1>2, <2>1, PlacedStays DEF FreezeInv
  <1> QED
    BY <1>3, <1>4

----------------------------------------------------------------------------
(* The steps of workers that freeze, reserve and withdraw.                 *)

(* Of a row at work, what its older neighbours freeze is all there is.     *)
LEMMA PendingIsAll ==
    ASSUME IInv, IInv', OldestFirst, NEW i \in DOMAIN rows, rows[i].status = "PENDING"
    PROVE  PendingFreeze(i) = FrozenIn(rows, rows[i].to)
  <1> DEFINE f == FreezeOf(rows)
             S == RowsTo(rows, rows[i].to)
             T == {j \in Neighbours(i) : j < i}
  <1>1. rows \in Seq(RowSet) /\ DOMAIN rows \subseteq Int
    BY RowsNow
  <1>2. IsFiniteSet(S) /\ S \subseteq DOMAIN rows /\ \A j \in S : f[j] = FrozenRow(rows[j]) /\ f[j] \in Nat
    BY <1>1, FreezeFacts
  <1>3. S = Neighbours(i) /\ T \subseteq S
    BY DEF RowsTo, Neighbours
  <1>4. AllFrozen = f
    BY DEF AllFrozen, Frozen, FreezeOf, FrozenRow
  <1>5. ASSUME NEW j \in S \ T PROVE f[j] = 0
    <2>1. j = i \/ i < j
      BY <1>1, <1>2, <1>3
    <2>2. rows[j].status # "ACCEPTED"
      <3>1. CASE j = i
        BY <3>1
      <3>2. CASE i < j
        BY <1>3, <3>2 DEF OldestFirst
      <3> QED
        BY <2>1, <3>1, <3>2
    <2> QED
      BY <1>2, <2>2 DEF FrozenRow
  <1> HIDE DEF f, S, T
  <1>6. IsFiniteSet(T) /\ IsFiniteSet(S \ T) /\ T \cup (S \ T) = S /\ T \cap (S \ T) = {}
    BY <1>2, <1>3, FS_Subset
  <1>7. Total(f, S \ T) = 0
    BY <1>5, <1>6, TotalZero
  <1>8. \A j \in T \cup (S \ T) : f[j] \in Int
    BY <1>2, <1>6
  <1>9. Total(f, T \cup (S \ T)) = Total(f, T) + Total(f, S \ T)
    BY <1>6, <1>8, TotalUnion
  <1>10. Total(f, T) \in Nat
    BY <1>2, <1>3, <1>6, TotalNat
  <1>11. Total(f, S) = Total(f, T)
    <2>1. Total(f, S) = Total(f, T) + Total(f, S \ T)
      BY <1>6, <1>9, Zenon
    <2> QED
      BY <1>7, <1>10, <2>1
  <1> QED
    BY <1>4, <1>11, SumIsTotal DEF PendingFreeze, FrozenIn, f, S, T

LEMMA AcceptFreezes ==
    ASSUME FreezeInv, IInv', NEW w \in Workers, Accept(w)
    PROVE  FreezeInv'
  <1> DEFINE i == worker[w].row
  <1>1. /\ At(w, "round") \/ At(w, "again")
        /\ Step(w, On(w, "accepted")) /\ UNCHANGED <<serial, spent>> /\ UNCHANGED balance
    BY DEF Accept, Calm, Kept
  <1>2. PICK ran : rows' = [rows EXCEPT ![i].ok = ran /\ FreezeOk(i)]
    BY DEF Accept
  <1>3. IInv /\ i \in DOMAIN rows /\ worker[w].step \in {"round", "again"}
    BY <1>1, Exists DEF FreezeInv, At
  <1> DEFINE ok == ran /\ FreezeOk(i)
             q == [rows[i] EXCEPT !.ok = ok]
             s == [step |-> "accepted", row |-> i]
  <1>4. rows[i] \in RowSet
    BY <1>3, RowFacts
  <1>5. Same(rows[i], q) /\ q.status = rows[i].status /\ q.ok = ok /\ rows' = [rows EXCEPT ![i] = q]
    BY <1>2, <1>4 DEF Same, RowSet
  <1> HIDE DEF q
  <1>6. Evolves /\ rows'[i] = q /\ \A j \in DOMAIN rows \ {i} : rows'[j] = rows[j]
    BY <1>3, <1>5, RowReplaced
  <1>7. worker'[w] = s /\ \A v \in Workers \ {w} : worker'[v] = worker[v]
    <2>1. On(w, "accepted") = s
      BY <1>3, WorkerFacts DEF Holding, At
    <2> QED
      BY <1>1, <1>3, <2>1, StepNow
  <1>8. worker'[w].step = "accepted" /\ worker'[w].row = i
    BY <1>7
  <1> HIDE DEF s, ok
  <1>9. Moves(w, i)
    BY <1>1, <1>3, <1>5, <1>6, <1>7, <1>8 DEF Moves
  <1>10. ASSUME Orderly PROVE HolderOk(w)' /\ rows[i].status = "PENDING" /\ worker[w].step = "round"
    <2>1. HolderOk(w) /\ worker[w].step = "round" /\ AtWork(w) /\ ~AtEnd(w)'
      BY <1>3, <1>8, <1>10 DEF Orderly, HolderOk, AtWork, AtEnd, At
    <2>2. HolderOk(w)'
      BY <1>3, <1>5, <1>6, <1>8, <1>9, <2>1, HolderStays
    <2> QED
      BY <2>1, <2>2 DEF HolderOk, Row
  <1>11. ASSUME NEW a \in Contracts, a = rows[i].to, Orderly, Fits(w, a) PROVE Fits(w, a)'
    <2>1. FrozenRow(rows'[i]) = FrozenRow(rows[i])
      BY <1>5, <1>6, <1>10, <1>11 DEF FrozenRow
    <2>2. FrozenIn(rows', a) = FrozenIn(rows, a)
      BY <1>3, <1>9, <2>1, FrozenSame
    <2>3. FrozenFor(a) = FrozenIn(rows, a) /\ FrozenFor(a)' = FrozenFor(a) /\ FrozenFor(a) \in Nat
          /\ balance[a] \in Nat
      BY <1>3, <1>11, <2>2, RowsNow, FreezeFacts, FrozenForIs, ContractsAreAccounts DEF IInv
    <2>4. Reserved(w) = 0
      BY <1>10, <1>11 DEF Reserved, At
    <2>5. FrozenFor(a) <= balance[a]
      BY <1>11, <2>3, <2>4 DEF Fits
    <2>6. Row(w)' = q /\ q.emits = rows[i].emits
      BY <1>5, <1>6, <1>8 DEF Row, Same
    <2>7. Reserved(w)' = IF ok THEN AllExternal(rows[i].emits) ELSE 0
      BY <1>5, <1>8, <2>6 DEF Reserved, At
    <2>8. FrozenFor(a) + Reserved(w)' <= balance[a]
      <3>1. CASE ok
        <4>1. \/ AllExternal(rows[i].emits) = 0
              \/ AllExternal(rows[i].emits) <= balance[a] - PendingFreeze(i)
          BY <1>11, <3>1 DEF ok, FreezeOk
        <4>2. PendingFreeze(i) = FrozenFor(a)
          BY <1>3, <1>10, <1>11, <2>3, PendingIsAll DEF Orderly
        <4>3. AllExternal(rows[i].emits) \in Nat
          BY <1>3, ReservedInt DEF Row
        <4> QED
          BY <2>3, <2>5, <2>7, <3>1, <4>1, <4>2, <4>3
      <3>2. CASE ~ok
        <4>1. Reserved(w)' = 0
          BY <2>7, <3>2
        <4> QED
          BY <2>3, <2>5, <4>1
      <3> QED
        BY <3>1, <3>2
    <2> QED
      BY <1>1, <1>8, <2>3, <2>8 DEF Fits, At, Writing
  <1>12. \A a \in Contracts : balance'[a] >= balance[a]
    BY <1>1, <1>3, BalancesStay, ContractsAreAccounts
  <1> HIDE DEF i
  <1> QED
    BY <1>1, <1>5, <1>6, <1>9, <1>10, <1>11, <1>12, CalmCounts, WorkerFreeze

(* What a withdrawal leaves, when the call was accepted within its means.  *)
LEMMA LeftAccepted ==
    ASSUME IInv, IInv', OldestFirst, NEW i \in DOMAIN rows, rows[i].status = "PENDING", rows[i].ok,
           FrozenIn(rows, rows[i].to) + AllExternal(rows[i].emits) <= balance[rows[i].to]
    PROVE  FrozenIn(rows, rows[i].to) + AtFinal(rows[i]) <= Left(i, "accepted")
  <1> DEFINE out == Worth(rows[i].emits, TRUE, "accepted")
             last == Worth(rows[i].emits, TRUE, "finalized")
             in == Worth(rows[i].emits, FALSE, "accepted")
             has == balance[rows[i].to]
             frozen == FrozenIn(rows, rows[i].to)
             after == AfterExternal(i, "accepted")
  <1>1. out \in Nat /\ last \in Nat /\ in \in Nat /\ has \in Nat /\ frozen \in Nat
    <2>1. out \in Nat /\ last \in Nat /\ in \in Nat
      BY WorthNat DEF Phases
    <2> QED
      BY <2>1, RowFacts, RowsNow, FreezeFacts DEF IInv
  <1>2. PendingFreeze(i) = frozen
    BY PendingIsAll
  <1>3. AtFinal(rows[i]) = last /\ AllExternal(rows[i].emits) = out + last
    BY DEF AtFinal, AllExternal
  <1>4. ExternalBacked(i, "accepted") <=> out <= has
    BY DEF ExternalBacked
  <1>5. after = has - (IF ExternalBacked(i, "accepted") THEN out ELSE 0)
    BY DEF AfterExternal
  <1>6. InternalCap(i, "accepted") = (after - frozen) - last
    BY <1>2 DEF InternalCap
  <1>7. InternalBacked(i, "accepted") => in = 0 \/ in <= InternalCap(i, "accepted")
    BY DEF InternalBacked
  <1>8. Left(i, "accepted") = after - (IF InternalBacked(i, "accepted") THEN in ELSE 0)
    BY DEF Left
  <1>9. frozen + (out + last) <= has
    BY <1>3
  <1> HIDE DEF out, last, in, has, frozen, after
  <1>10. after = has - out
    BY <1>1, <1>4, <1>5, <1>9
  <1>11. frozen + last <= after /\ after \in Int
    BY <1>1, <1>9, <1>10
  <1>12. frozen + last <= Left(i, "accepted")
    <2>1. CASE ~InternalBacked(i, "accepted") \/ in = 0
      <3>1. Left(i, "accepted") = after
        BY <1>1, <1>8, <1>11, <2>1
      <3> QED
        BY <1>11, <3>1
    <2>2. CASE InternalBacked(i, "accepted") /\ in # 0
      <3>1. in <= (after - frozen) - last /\ Left(i, "accepted") = after - in
        BY <1>6, <1>7, <1>8, <2>2
      <3> QED
        BY <1>1, <1>11, <3>1
    <2> QED
      BY <2>1, <2>2
  <1> QED
    BY <1>3, <1>12 DEF frozen

LEMMA LeftFinal ==
    ASSUME IInv, IInv', NEW i \in DOMAIN rows, rows[i].status = "ACCEPTED", rows[i].ok,
           FrozenIn(rows, rows[i].to) <= balance[rows[i].to], Worth(rows[i].emits, FALSE, "finalized") = 0
    PROVE  Left(i, "finalized") = balance[rows[i].to] - AtFinal(rows[i])
  <1> DEFINE out == Worth(rows[i].emits, TRUE, "finalized")
             has == balance[rows[i].to]
             frozen == FrozenIn(rows, rows[i].to)
  <1>1. out \in Nat /\ has \in Nat /\ frozen \in Nat
    <2>1. out \in Nat
      BY WorthNat DEF Phases
    <2> QED
      BY <2>1, RowFacts, RowsNow, FreezeFacts DEF IInv
  <1>2. AtFinal(rows[i]) = out /\ FrozenRow(rows[i]) = out
    BY DEF AtFinal, FrozenRow
  <1>3. out <= frozen
    BY <1>2, RowsNow, FreezeCovers
  <1>4. ExternalBacked(i, "finalized") <=> out <= has
    BY DEF ExternalBacked
  <1>5. AfterExternal(i, "finalized") = has - (IF ExternalBacked(i, "finalized") THEN out ELSE 0)
    BY DEF AfterExternal
  <1>6. Left(i, "finalized") =
          AfterExternal(i, "finalized") - (IF InternalBacked(i, "finalized") THEN 0 ELSE 0)
    BY DEF Left
  <1>7. frozen <= has
    OBVIOUS
  <1> HIDE DEF out, has, frozen
  <1>8. AfterExternal(i, "finalized") = has - out
    BY <1>1, <1>3, <1>4, <1>5, <1>7
  <1>9. Left(i, "finalized") = has - out
    BY <1>1, <1>6, <1>8
  <1> QED
    BY <1>2, <1>9 DEF has

(* A worker that emits: its row is as it was, a child may be new.          *)
Emitting(w, i, on) ==
    /\ Evolves /\ \A j \in DOMAIN rows : rows'[j] = rows[j]
    /\ \A v \in Workers \ {w} : worker'[v] = worker[v]
    /\ worker'[w].step = "emit" /\ worker'[w].row = i /\ worker'[w].on = on

LEMMA EmitFirstNow ==
    ASSUME IInv, NEW w \in Workers, NEW i \in DOMAIN rows, NEW on, NEW left, NEW backed,
           EmitFirst(w, i, on, left, backed)
    PROVE  Emitting(w, i, on)
  <1>1. PICK k \in left :
          /\ Insert(Child(rows[i].emits[k], rows[i], backed))
          /\ Step(w, [step |-> "emit", row |-> i, on |-> on, left |-> left \ {k}, backed |-> backed])
    BY DEF EmitFirst
  <1> DEFINE r == Child(rows[i].emits[k], rows[i], backed)
             s == [step |-> "emit", row |-> i, on |-> on, left |-> left \ {k}, backed |-> backed]
  <1>2. Placed(r) /\ r.status = "PENDING"
    BY DEF Child, NewRow, Placed, PaysNow
  <1>3. rows' = Append(rows, r)
    BY <1>1 DEF Insert
  <1> HIDE DEF r
  <1>4. Evolves /\ \A j \in DOMAIN rows : rows'[j] = rows[j]
    BY <1>2, <1>3, RowAppended
  <1>5. worker'[w] = s /\ \A v \in Workers \ {w} : worker'[v] = worker[v]
    BY <1>1, StepNow
  <1> QED
    BY <1>4, <1>5 DEF Emitting

LEMMA EmitMoves ==
    ASSUME IInv, NEW w \in Workers, NEW i \in DOMAIN rows, NEW on, Emitting(w, i, on),
           worker[w].step # "idle", worker[w].row = i
    PROVE  Moves(w, i) /\ rows'[i] = rows[i]
  BY DEF Emitting, Moves

LEMMA EmitHolds ==
    ASSUME FreezeInv, IInv', NEW w \in Workers, NEW i \in DOMAIN rows, NEW on \in Phases,
           Emitting(w, i, on), Moves(w, i), rows'[i] = rows[i], Orderly, worker[w].step # "idle",
           on = "accepted" => AtWork(w), on = "finalized" => AtEnd(w)
    PROVE  HolderOk(w)'
  <1>1. AtWork(w)' => AtWork(w)
    BY DEF Emitting, AtWork, At
  <1>2. AtEnd(w)' => AtEnd(w)
    BY DEF Emitting, AtEnd, At
  <1>3. worker'[w].step # "again"
    BY DEF Emitting
  <1> QED
    BY <1>1, <1>2, <1>3, HolderStays DEF FreezeInv, Orderly

LEMMA WithdrawFreezes ==
    ASSUME FreezeInv, IInv', NEW w \in Workers, NEW on \in Phases, Withdraw(w, on),
           worker[w].step = IF on = "accepted" THEN "accepted" ELSE "final",
           on = "finalized" => Row(w).kind = "call"
    PROVE  FreezeInv'
  <1> DEFINE i == worker[w].row
             r == rows[i]
             out == IF r.ok THEN Emitted(i, on) ELSE {}
             s == [step |-> "emit", row |-> i, on |-> on, left |-> out, backed |-> InternalBacked(i, on)]
  <1>1. /\ worker[w].step # "idle" /\ (on = "accepted" \/ on = "finalized")
        /\ ~At(w, "idle")
    BY DEF Phases, At
  <1>2. IInv /\ i \in DOMAIN rows /\ r \in RowSet /\ r.to \in Addr /\ balance \in [Addr -> Nat]
    BY <1>1, Exists, RowFacts DEF FreezeInv, IInv
  <1>3. /\ balance' = IF r.ok THEN [balance EXCEPT ![r.to] = Left(i, on)] ELSE balance
        /\ (Step(w, s) /\ UNCHANGED rows) \/ EmitFirst(w, i, on, out, InternalBacked(i, on))
        /\ UNCHANGED <<serial, spent>>
    BY DEF Withdraw, Calm
  <1>4. Emitting(w, i, on)
    <2>1. CASE Step(w, s) /\ UNCHANGED rows
      <3>1. worker'[w] = s /\ \A v \in Workers \ {w} : worker'[v] = worker[v]
        BY <1>2, <2>1, StepNow
      <3>2. s.step = "emit" /\ s.row = i /\ s.on = on
        OBVIOUS
      <3> HIDE DEF s
      <3> QED
        BY <2>1, <3>1, <3>2, RowsUntouched DEF Emitting
    <2>2. CASE EmitFirst(w, i, on, out, InternalBacked(i, on))
      BY <1>2, <2>2, EmitFirstNow
    <2> QED
      BY <1>3, <2>1, <2>2
  <1> HIDE DEF s, out
  <1>5. Moves(w, i) /\ rows'[i] = r
    BY <1>1, <1>2, <1>3, <1>4, EmitMoves
  <1>6. ASSUME Orderly
        PROVE  /\ HolderOk(w)' /\ (on = "accepted" => r.status = "PENDING")
               /\ on = "finalized" => r.status = "ACCEPTED"
    <2>1. (on = "accepted" => AtWork(w)) /\ (on = "finalized" => AtEnd(w))
      BY DEF AtWork, AtEnd, At
    <2>2. HolderOk(w)'
      BY <1>1, <1>2, <1>4, <1>5, <1>6, <2>1, EmitHolds
    <2> QED
      BY <1>6, <2>1, <2>2 DEF Orderly, HolderOk, Row
  <1>7. ASSUME NEW a \in Contracts, a = r.to, Orderly, PlainCalls(a), Fits(w, a) PROVE Fits(w, a)'
    <2>1. FrozenIn(rows', a) = FrozenIn(rows, a)
      BY <1>2, <1>5, FrozenSame
    <2>2. FrozenFor(a) = FrozenIn(rows, a) /\ FrozenFor(a)' = FrozenFor(a) /\ FrozenFor(a) \in Nat
          /\ balance[a] \in Nat
      BY <1>2, <1>7, <2>1, RowsNow, FreezeFacts, FrozenForIs
    <2>3. Row(w) = r /\ Row(w)' = r /\ AtFinal(r) \in Nat
      BY <1>2, <1>4, <1>5, FrozenRowNat DEF Row, Emitting
    <2>4. Reserved(w)' = IF on = "accepted" THEN AtFinal(r) ELSE 0 - AtFinal(r)
      BY <1>4, <2>3 DEF Reserved, At, AtFinal, Emitting
    <2>5. FrozenFor(a) + Reserved(w) <= balance[a]
      BY <1>7 DEF Fits
    <2>6. balance'[a] = IF r.ok THEN Left(i, on) ELSE balance[a]
      BY <1>2, <1>3, <1>7
    <2>7. CASE ~r.ok
      <3>0. AtFinal(r) = 0
        BY <2>7 DEF AtFinal
      <3>1. AtFinal(r) = 0 /\ Reserved(w) = 0
        <4>1. worker[w].step \in {"accepted", "final"} /\ ~Row(w).ok
          BY <1>1, <2>3, <2>7
        <4> QED
          BY <3>0, <4>1 DEF Reserved, At
      <3>2. Reserved(w)' = 0
        <4>1. Reserved(w)' \in {AtFinal(r), 0 - AtFinal(r)}
          BY <2>4
        <4> QED
          BY <3>0, <4>1
      <3>3. FrozenFor(a)' + Reserved(w)' <= balance'[a]
        BY <2>2, <2>5, <2>6, <2>7, <3>1, <3>2
      <3> QED
        BY <1>4, <3>3 DEF Fits, At, Writing, Emitting
    <2>8. CASE r.ok /\ on = "accepted"
      <3>1. Reserved(w) = AllExternal(r.emits)
        BY <2>3, <2>8 DEF Reserved, At
      <3>2. FrozenIn(rows, r.to) + AtFinal(r) <= Left(i, "accepted")
        BY <1>2, <1>6, <1>7, <2>2, <2>5, <2>8, <3>1, LeftAccepted DEF Orderly
      <3>3. FrozenFor(a)' + Reserved(w)' <= balance'[a]
        BY <1>7, <2>2, <2>4, <2>6, <2>8, <3>2
      <3> QED
        BY <1>4, <3>3 DEF Fits, At, Writing, Emitting
    <2>9. CASE r.ok /\ on = "finalized"
      <3>1. Reserved(w) = 0
        BY <2>9 DEF Reserved, At
      <3>2. Worth(r.emits, FALSE, "finalized") = 0
        BY <1>2, <1>7 DEF PlainCalls, CallsTo
      <3>3. FrozenIn(rows, r.to) <= balance[r.to]
        BY <1>7, <2>2, <2>5, <3>1
      <3>4. Left(i, "finalized") = balance[r.to] - AtFinal(r)
        BY <1>2, <1>6, <1>7, <2>9, <3>2, <3>3, LeftFinal
      <3>5. balance'[a] = balance[a] - AtFinal(r) /\ Reserved(w)' = 0 - AtFinal(r)
        BY <1>7, <2>4, <2>6, <2>9, <3>4
      <3>6. FrozenFor(a)' + Reserved(w)' <= balance'[a]
        BY <1>7, <2>2, <2>3, <3>3, <3>5
      <3> QED
        BY <1>4, <3>6 DEF Fits, At, Writing, Emitting
    <2> QED
      BY <1>1, <2>7, <2>8, <2>9
  <1>8. ASSUME NEW a \in Contracts, a # r.to PROVE balance'[a] >= balance[a]
    <2>1. a \in Addr /\ balance[a] \in Nat
      BY <1>2, ContractsAreAccounts
    <2>2. balance'[a] = balance[a]
      BY <1>2, <1>3, <1>8, <2>1
    <2> QED
      BY <2>1, <2>2
  <1> HIDE DEF i
  <1>9. rows'[i].status = rows[i].status
    BY <1>5
  <1> QED
    BY <1>3, <1>5, <1>6, <1>7, <1>8, <1>9, CalmCounts, WorkerFreeze

LEMMA EmitNextFreezesNothing ==
    ASSUME FreezeInv, IInv', NEW w \in Workers, EmitNext(w)
    PROVE  FreezeInv'
  <1> DEFINE i == worker[w].row
             on == worker[w].on
  <1>1. /\ At(w, "emit") /\ ~At(w, "idle") /\ worker[w].step = "emit"
        /\ UNCHANGED <<serial, spent>> /\ UNCHANGED balance
        /\ EmitFirst(w, i, on, worker[w].left, worker[w].backed)
    BY DEF EmitNext, At, Calm, Kept
  <1>2. IInv /\ i \in DOMAIN rows /\ on \in Phases
    BY <1>1, WorkerFacts DEF FreezeInv
  <1>3. Emitting(w, i, on)
    BY <1>1, <1>2, EmitFirstNow
  <1>4. Moves(w, i) /\ rows'[i] = rows[i]
    BY <1>1, <1>2, <1>3, EmitMoves
  <1>5. ASSUME Orderly PROVE HolderOk(w)'
    <2>1. (on = "accepted" => AtWork(w)) /\ (on = "finalized" => AtEnd(w))
      BY <1>1 DEF AtWork, AtEnd
    <2> QED
      BY <1>1, <1>2, <1>3, <1>4, <1>5, <2>1, EmitHolds
  <1>6. ASSUME NEW a \in Contracts, Fits(w, a) PROVE Fits(w, a)'
    <2>1. FrozenIn(rows', a) = FrozenIn(rows, a)
      BY <1>2, <1>4, FrozenSame
    <2>2. FrozenFor(a)' = FrozenFor(a)
      BY <2>1, FrozenForIs
    <2>3. Reserved(w)' = Reserved(w)
      BY <1>1, <1>3, <1>4 DEF Reserved, At, Row, Emitting, AtFinal
    <2> QED
      BY <1>1, <1>3, <1>6, <2>2, <2>3 DEF Fits, At, Writing, Emitting
  <1>7. \A a \in Contracts : balance'[a] >= balance[a]
    BY <1>1, <1>2, BalancesStay, ContractsAreAccounts
  <1> HIDE DEF i, on
  <1> QED
    BY <1>1, <1>4, <1>5, <1>6, <1>7, CalmCounts, WorkerFreeze

(* The row freezes what its worker had reserved for it, or no longer what  *)
(* its worker has sent.                                                    *)
LEMMA DecideFreezes ==
    ASSUME FreezeInv, IInv', NEW w \in Workers, Decide(w)
    PROVE  FreezeInv'
  <1> DEFINE i == worker[w].row
             r == rows[i]
             status == IF worker[w].on = "accepted" THEN "ACCEPTED" ELSE "FINALIZED"
             q == [r EXCEPT !.status = status]
  <1>1. /\ At(w, "emit") /\ ~At(w, "idle") /\ Step(w, Idle) /\ UNCHANGED balance
        /\ UNCHANGED <<serial, spent>> /\ rows' = [rows EXCEPT ![i].status = status]
    BY DEF Decide, At, Calm, Kept
  <1>2. IInv /\ i \in DOMAIN rows /\ worker[w].on \in Phases /\ worker[w].step = "emit"
             /\ worker[w].step # "idle"
    BY <1>1, WorkerFacts DEF FreezeInv, At
  <1>3. r \in RowSet
    BY <1>2, RowFacts
  <1>4. Same(r, q) /\ q.status = status /\ q.ok = r.ok /\ rows' = [rows EXCEPT ![i] = q]
                   /\ status # "PENDING"
    BY <1>1, <1>3 DEF Same, RowSet
  <1> HIDE DEF q
  <1>5. Evolves /\ rows'[i] = q /\ \A j \in DOMAIN rows \ {i} : rows'[j] = rows[j]
    BY <1>2, <1>4, RowReplaced
  <1>6. worker'[w] = Idle /\ \A v \in Workers \ {w} : worker'[v] = worker[v]
    BY <1>1, <1>2, StepNow
  <1>7. Moves(w, i) /\ worker'[w].step = "idle"
    BY <1>1, <1>2, <1>4, <1>5, <1>6 DEF Moves, Idle
  <1>8. ASSUME Orderly
        PROVE  /\ HolderOk(w)' /\ (q.status # r.status => InTurn(i))
               /\ worker[w].on = "accepted" => r.status = "PENDING"
               /\ worker[w].on # "accepted" => r.status = "ACCEPTED"
    <2>1. /\ worker[w].on = "accepted" => r.status = "PENDING" /\ InTurn(i)
          /\ worker[w].on # "accepted" => r.status = "ACCEPTED"
      BY <1>1, <1>2, <1>8 DEF Orderly, HolderOk, AtWork, AtEnd, Phases, Row
    <2>2. worker[w].on # "accepted" => InTurn(i)
      <3> SUFFICES ASSUME worker[w].on # "accepted", NEW j \in Neighbours(i), j < i,
                          rows[j].status = "PENDING"
                   PROVE  FALSE
        BY DEF InTurn
      <3>1. i \in Neighbours(j) /\ j \in DOMAIN rows
        BY <1>2 DEF Neighbours
      <3>2. rows[i].status \in {"PENDING", "CANCELED"}
        BY <1>8, <3>1 DEF Orderly, OldestFirst
      <3> QED
        BY <2>1, <3>2
    <2> QED
      BY <1>7, <2>1, <2>2, HolderIdle
  <1>9. ASSUME NEW a \in Contracts, a = r.to, Orderly, Fits(w, a) PROVE Fits(w, a)'
    <2>1. rows \in Seq(RowSet) /\ q \in RowSet /\ q.to = r.to /\ a \in Addr
      BY <1>2, <1>4, <1>5, RowsNow, ContractsAreAccounts DEF Same
    <2>2. FrozenIn(rows', a) = FrozenIn(rows, a) - FrozenRow(r) + FrozenRow(q)
      <3>1. FrozenIn([rows EXCEPT ![i] = q], q.to) = FrozenIn(rows, q.to) - FrozenRow(r) + FrozenRow(q)
        BY <1>2, <2>1, FreezeChanges
      <3> QED
        BY <1>4, <1>9, <2>1, <3>1
    <2>3. FrozenRow(r) \in Nat /\ FrozenRow(q) \in Nat /\ AtFinal(r) \in Nat
                               /\ FrozenIn(rows, a) \in Nat
      BY <1>3, <2>1, FrozenRowNat, FreezeFacts
    <2>4. AtFinal(q) = AtFinal(r)
      BY <1>4 DEF AtFinal, Same
    <2>5. FrozenFor(a) = FrozenIn(rows, a) /\ FrozenFor(a)' = FrozenIn(rows', a)
                                           /\ balance'[a] = balance[a]
          /\ balance[a] \in Nat
      BY <1>1, <1>2, <2>1, FrozenForIs DEF IInv
    <2>6. Reserved(w)' = 0 /\ ~Writing(w)'
      BY <1>7 DEF Reserved, At, Writing
    <2>7. FrozenFor(a) + Reserved(w) <= balance[a]
      BY <1>9 DEF Fits
    <2>8. CASE worker[w].on = "accepted"
      <3>1. Reserved(w) = AtFinal(r)
        BY <1>1, <1>2, <2>8 DEF Reserved, At, Row
      <3>2. FrozenRow(r) = 0
        BY <1>3, <1>8, <1>9, <2>8, FrozenRowNat
      <3>3. FrozenRow(q) = AtFinal(q)
        BY <1>4, <2>1, <2>8, FrozenRowNat
      <3>4. FrozenFor(a)' + Reserved(w)' <= balance'[a]
        BY <2>2, <2>3, <2>4, <2>5, <2>6, <2>7, <3>1, <3>2, <3>3
      <3> QED
        BY <2>6, <3>4 DEF Fits
    <2>9. CASE worker[w].on # "accepted"
      <3>1. Reserved(w) = 0 - AtFinal(r)
        BY <1>1, <1>2, <2>9 DEF Reserved, At, Row
      <3>2. FrozenRow(r) = AtFinal(r)
        BY <1>3, <1>8, <1>9, <2>9, FrozenRowNat
      <3>3. FrozenRow(q) = 0
        BY <1>4, <2>1, <2>9, FrozenRowNat
      <3>4. FrozenFor(a)' + Reserved(w)' <= balance'[a]
        BY <2>2, <2>3, <2>5, <2>6, <2>7, <3>1, <3>2, <3>3
      <3> QED
        BY <2>6, <3>4 DEF Fits
    <2> QED
      BY <2>8, <2>9
  <1>10. \A a \in Contracts : balance'[a] >= balance[a]
    BY <1>1, <1>2, BalancesStay, ContractsAreAccounts
  <1> HIDE DEF i
  <1> QED
    BY <1>1, <1>5, <1>7, <1>8, <1>9, <1>10, CalmCounts, WorkerFreeze

----------------------------------------------------------------------------
LEMMA FreezeInit ==
    ASSUME Init
    PROVE  FreezeInv
  <1>1. IInv /\ rows = <<>> /\ Counted /\ \A w \in Workers : worker[w].step = "idle"
    BY InitOk DEF Init, Idle, Counted
  <1>2. Orderly
    BY <1>1 DEF Orderly, OneHolder, Holds, OldestFirst, HolderOk, AtWork, AtEnd, At
  <1>3. ASSUME NEW a \in Contracts PROVE Backed(a)
    <2>1. balance[a] \in Nat
      BY <1>1, ContractsAreAccounts DEF IInv
    <2>2. CallsTo(a) = {}
      BY <1>1 DEF CallsTo
    <2>3. FrozenFor(a) = 0
      BY <2>2, SumIsTotal, TotalEmpty DEF FrozenFor
    <2> QED
      BY <1>1, <2>1, <2>3 DEF Backed, Holds, At
  <1> QED
    BY <1>1, <1>2, <1>3 DEF FreezeInv

LEMMA FreezeStep ==
    ContractsDoNotSign /\ FreezeInv /\ (Unshaken => Untaken) /\ [Next]_vars => FreezeInv'
  <1> SUFFICES ASSUME ContractsDoNotSign, FreezeInv, Unshaken => Untaken, [Next]_vars
               PROVE  FreezeInv'
    OBVIOUS
  <1>1. IInv'
    BY StepKeeps DEF FreezeInv
  <1>2. ASSUME NEW c \in Callers,
               ReadDuplicate(c) \/ ReadBalance(c) \/ Submit(c) \/ InsertFaucet(c)
               \/ CreditFaucet(c) \/ CancelStatus(c) \/ CancelRefund(c)
        PROVE  FreezeInv'
    BY <1>1, <1>2, CallersFreezeNothing
  <1>3. ASSUME NEW w \in Workers, WithdrawAccepted(w) \/ WithdrawFinal(w)
        PROVE  FreezeInv'
    BY <1>1, <1>3, WithdrawFreezes DEF WithdrawAccepted, WithdrawFinal, Phases, At
  <1>4. ASSUME NEW w \in Workers,
               Claim(w) \/ TransferDone(w) \/ TransferFails(w) \/ ReadFrom(w) \/ ReadTo(w)
               \/ CreateRecipient(w) \/ WriteTransfer(w) \/ WriteCredit(w)
               \/ Activate(w) \/ Undetermined(w) \/ Accept(w)
               \/ EmitNext(w) \/ Decide(w) \/ ClaimFinal(w) \/ AppealFails(w)
               \/ AppealSucceeds(w) \/ Crash(w) \/ Abandon(w) \/ Release(w)
        PROVE  FreezeInv'
    BY <1>1, <1>4, ClaimFreezes, LetsGo, BeginFreezesNothing, ReadToFreezesNothing,
       CreateRecipientFreezes, WriteTransferFreezes, AcceptFreezes, EmitNextFreezesNothing,
       DecideFreezes, ClaimFinalFreezes, AppealsShake, AbandonFreezes
  <1>5. ASSUME NEW i \in givingUp, GiveUp(i)
        PROVE  FreezeInv'
    BY <1>1, <1>5, GiveUpFreezes
  <1>6. CASE UNCHANGED vars
    <2>1. UNCHANGED <<balance, rows, worker, serial, spent>>
      BY <1>6 DEF vars
    <2>2. (Unshaken' <=> Unshaken) /\ Counted'
      BY <2>1 DEF FreezeInv, Counted, Unshaken
    <2>3. Orderly => Orderly'
      BY <2>1
      DEF Orderly, OneHolder, OldestFirst, HolderOk, Holds, InTurn, Neighbours, AtWork, AtEnd,
         At, Row
    <2>4. ASSUME NEW a, PlainCalls(a)', PlainCalls(a) => Backed(a) PROVE Backed(a)'
      <3>1. PlainCalls(a)
        BY <2>1, <2>4 DEF PlainCalls, CallsTo
      <3>2. FrozenFor(a)' = FrozenFor(a)
        BY <2>1, FrozenForIs
      <3>3. \A w \in Workers : Reserved(w)' = Reserved(w) /\ (Holds(w, a)' <=> Holds(w, a))
        BY <2>1 DEF Reserved, Holds, At, Row
      <3> QED
        BY <2>1, <2>4, <3>1, <3>2, <3>3 DEF Backed, Writing, At
    <2>5. \A i \in DOMAIN rows' : Placed(rows'[i])
      BY <2>1 DEF FreezeInv
    <2> QED
      BY <1>1, <2>2, <2>3, <2>4, <2>5 DEF FreezeInv
  <1> QED
    BY <1>2, <1>3, <1>4, <1>5, <1>6, Zenon DEF Next

(* Who gives up is the only one to act, so nobody takes the row meanwhile. *)
LEMMA OnlyReleasedIsGivenUp ==
    FreezeInv /\ (Unshaken => Untaken) /\ [Next]_vars => (Unshaken => Untaken)'
  <1> SUFFICES ASSUME FreezeInv, Unshaken => Untaken, [Next]_vars, Unshaken'
               PROVE  Untaken'
    OBVIOUS
  <1>1. IInv /\ IInv'
    BY StepKeeps DEF FreezeInv
  <1>2. CASE UNCHANGED vars
    BY <1>2 DEF vars, Unshaken, Untaken, Held
  <1>3. CASE \E c \in Callers :
               /\ Turn(c)
               /\ ReadDuplicate(c) \/ ReadBalance(c) \/ Submit(c) \/ InsertFaucet(c)
                  \/ CreditFaucet(c) \/ CancelStatus(c) \/ CancelRefund(c)
    <2>1. PICK c \in Callers :
               /\ Turn(c)
               /\ ReadDuplicate(c) \/ ReadBalance(c) \/ Submit(c) \/ InsertFaucet(c)
                  \/ CreditFaucet(c) \/ CancelStatus(c) \/ CancelRefund(c)
      BY <1>3
    <2>2. UNCHANGED <<givingUp, serial, spent>>
      BY <2>1 DEF ReadDuplicate, ReadBalance, Submit, InsertFaucet, CreditFaucet, CancelStatus,
         CancelRefund, Unmoved
    <2>3. givingUp = {}
      <3>1. Untaken
        BY <2>2 DEF Unshaken
      <3> QED
        BY <2>1, <3>1 DEF Turn, Untaken
    <2> QED
      BY <2>2, <2>3 DEF Untaken
  <1>4. ASSUME NEW w \in Workers, Turn(w), Unshaken
        PROVE  givingUp = {}
    BY <1>4 DEF Turn, Untaken
  <1>5. ASSUME NEW w \in Workers, Turn(w),
               \/ Claim(w) \/ TransferDone(w) \/ TransferFails(w) \/ ReadFrom(w) \/ ReadTo(w)
               \/ CreateRecipient(w) \/ WriteTransfer(w) \/ WriteCredit(w)
               \/ Activate(w) \/ Undetermined(w) \/ Accept(w)
               \/ WithdrawAccepted(w) \/ EmitNext(w) \/ Decide(w) \/ ClaimFinal(w) \/ WithdrawFinal(w)
        PROVE  Untaken'
    <2>1. UNCHANGED <<givingUp, serial, spent>>
      BY <1>5 DEF Claim, TransferDone, TransferFails, ReadFrom, ReadTo, CreateRecipient, WriteTransfer,
         WriteCredit, Activate, Undetermined, Accept, WithdrawAccepted, EmitNext, Decide, ClaimFinal,
         WithdrawFinal, Withdraw, Calm
    <2> QED
      BY <1>4, <1>5, <2>1 DEF Unshaken, Untaken
  <1>6. ASSUME NEW w \in Workers, Turn(w), Crash(w) \/ Abandon(w)
        PROVE  Untaken'
    <2>1. Unshaken /\ givingUp' = givingUp
      BY <1>6, StopsAndCounts DEF Crash, Abandon, Stops
    <2> QED
      BY <1>4, <1>6, <2>1 DEF Untaken
  <1>7. ASSUME NEW w \in Workers, AppealFails(w) \/ AppealSucceeds(w)
        PROVE  FALSE
    <2>1. spent' = [spent EXCEPT !.appeals = @ + 1]
      BY <1>7, Zenon DEF AppealFails, AppealSucceeds, MayAppeal
    <2> QED
      BY <2>1 DEF FreezeInv, Counted, Unshaken
  <1>8. ASSUME NEW w \in Workers, Turn(w), Release(w)
        PROVE  Untaken'
    <2>0. PICK i : i = worker[w].row
      OBVIOUS
    <2>1. /\ worker[w].step = "pending" /\ Step(w, Idle) /\ givingUp' = givingUp \cup {i}
          /\ serial' = serial /\ spent' = [spent EXCEPT !.crashes = @ + 1] /\ rows' = rows
      BY <1>8, <2>0 DEF Release, Kept, At
    <2>2. Unshaken /\ serial
      BY <2>1 DEF FreezeInv, Counted, Unshaken
    <2>3. givingUp' = {i}
      BY <1>4, <1>8, <2>1, <2>2
    <2>4. i \in DOMAIN rows /\ rows[i].to \in Addr
      BY <1>1, <2>0, <2>1, Exists, RowFacts
    <2>5. OneHolder /\ HolderOk(w)
      BY <2>2 DEF FreezeInv, Orderly
    <2>6. rows[i].status = "PENDING"
      BY <2>0, <2>1, <2>5 DEF HolderOk, AtWork, Row
    <2>7. worker'[w] = Idle /\ \A v \in Workers \ {w} : worker'[v] = worker[v]
      BY <1>1, <2>1, StepNow
    <2>8. ASSUME NEW v \in Workers, worker'[v].step # "idle", worker'[v].row = i PROVE FALSE
      <3>1. v # w /\ worker[v].step # "idle" /\ worker[v].row = i
        BY <2>7, <2>8 DEF Idle
      <3>2. Holds(v, rows[i].to) /\ Holds(w, rows[i].to)
        BY <2>0, <2>1, <3>1 DEF Holds, At, Row
      <3> QED
        BY <2>4, <2>5, <3>1, <3>2 DEF OneHolder
    <2>9. ~Held(i)'
      BY <2>8 DEF Held
    <2> QED
      BY <2>1, <2>2, <2>3, <2>6, <2>9 DEF Untaken, Held
  <1>9. ASSUME NEW i \in givingUp, GiveUp(i)
        PROVE  Untaken'
    <2>1. /\ UNCHANGED <<worker, serial, spent>> /\ givingUp' = givingUp \ {i}
          /\ GiveBack(i, "CANCELED") /\ i \in DOMAIN rows /\ givingUp \subseteq DOMAIN rows
      BY <1>1, <1>9 DEF GiveUp, IInv, RowsExist
    <2>2. Untaken
      BY <2>1 DEF Unshaken
    <2>3. \A j \in DOMAIN rows \ {i} : rows'[j] = rows[j]
      BY <2>1, GiveBackFreezesNothing
    <2> QED
      BY <2>1, <2>2, <2>3 DEF Untaken, Held
  <1> QED
    BY <1>2, <1>3, <1>5, <1>6, <1>7, <1>8, <1>9, Zenon DEF Next

(* What accepted calls will send to others at finalization stays in the    *)
(* balance of their contract, whatever requests, transfers and other calls *)
(* do beside them: the freeze check reserves it for a call it accepts, and *)
(* the withdrawals of younger calls leave it.  Of any accounts, workers    *)
(* and requests, where no contract signs a request; with the exceptions    *)
(* FreezeKept names.                                                       *)
THEOREM FreezeIsKept ==
    ASSUME ContractsDoNotSign
    PROVE  Spec => []FreezeKept
  <1>1. FreezeInv => FreezeKept
    <2> SUFFICES ASSUME FreezeInv, NEW a \in Addr, Unshaken, PlainCalls(a),
                        \A i \in CallsTo(a) : ~\E w \in Workers : At(w, "emit") /\ worker[w].row = i
                 PROVE  FrozenFor(a) <= balance[a]
      BY DEF FreezeKept, Unshaken, PlainCalls, CallsTo, FrozenFor
    <2>1. IInv /\ balance[a] \in Nat /\ rows \in Seq(RowSet)
      <3>1. \A t \in Seq(GoodRow) : t \in Seq(RowSet)
        BY DEF GoodRow
      <3> QED
        BY <3>1 DEF FreezeInv, IInv
    <2>2. FrozenFor(a) = FrozenIn(rows, a) /\ FrozenFor(a) \in Nat
      BY <2>1, FreezeFacts, FrozenForIs
    <2>3. CASE a \in Contracts
      <3>1. Backed(a)
        BY <2>3 DEF FreezeInv
      <3>2. ASSUME NEW w \in Workers, Holds(w, a) PROVE FrozenFor(a) <= balance[a]
        <4>1. worker[w].step # "idle" /\ worker[w].row \in CallsTo(a)
          BY <2>1, <3>2, Exists DEF Holds, At, Row, CallsTo
        <4>2. ~At(w, "emit")
          BY <4>1
        <4>3. Reserved(w) \in Nat
          BY <2>1, <4>1, <4>2, ReservedInt
        <4>4. FrozenFor(a) + Reserved(w) <= balance[a]
          BY <3>1, <3>2 DEF Backed
        <4> QED
          BY <2>1, <2>2, <4>3, <4>4
      <3> QED
        BY <3>1, <3>2 DEF Backed
    <2>4. CASE a \notin Contracts
      <3> DEFINE f == FreezeOf(rows)
                 S == RowsTo(rows, a)
      <3>1. IsFiniteSet(S) /\ \A i \in S : f[i] = FrozenRow(rows[i]) /\ rows[i] \in RowSet
                                                   /\ rows[i].to = a
        BY <2>1, FreezeFacts DEF RowsTo
      <3>2. ASSUME NEW i \in S PROVE f[i] = 0
        <4>1. rows[i].emits = <<>>
          BY <2>4, <3>1, <3>2 DEF FreezeInv, Placed, RowsTo
        <4> QED
          BY <3>1, <4>1, FrozenRowNat
      <3> HIDE DEF f, S
      <3>3. Total(f, S) = 0
        BY <3>1, <3>2, TotalZero
      <3> QED
        BY <2>1, <2>2, <3>3 DEF FrozenIn, f, S
    <2> QED
      BY <2>3, <2>4
  <1>2. FreezeInv /\ (Unshaken => Untaken) /\ [Next]_vars => (FreezeInv /\ (Unshaken => Untaken))'
    BY FreezeStep, OnlyReleasedIsGivenUp
  <1>3. Init => Untaken
    BY DEF Init, Untaken
  <1> QED
    BY <1>1, <1>2, <1>3, FreezeInit, PTL DEF Spec
=============================================================================
