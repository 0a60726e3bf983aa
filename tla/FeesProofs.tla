---------------------------- MODULE FeesProofs ----------------------------
(***************************************************************************)
(* Proofs about TransactionFees.  The fee record of a transaction exists   *)
(* in several copies: in the row, in the context of the worker, and in     *)
(* what each request has read.  What is proved of every copy (Good) is     *)
(* kept by every operator of FeeAccounting, whichever copy is written      *)
(* over which; what relates the row to the money that moved holds until a  *)
(* write is lost.                                                          *)
(***************************************************************************)
EXTENDS TransactionFees, Sums

-----------------------------------------------------------------------------
(* Numbers and sequences.                                                  *)

LEMMA NatTimes == ASSUME NEW a \in Nat, NEW b \in Nat PROVE a * b \in Nat
  OBVIOUS

LEMMA LeastFacts ==
    ASSUME NEW a \in Nat, NEW b \in Nat
    PROVE  Least(a, b) \in Nat /\ Least(a, b) <= a /\ Least(a, b) <= b
  BY DEF Least

LEMMA SumIsTotal == ASSUME NEW f, NEW S PROVE Sum(f, S) = Total(f, S)
  BY DEF Sum, Total

(* A sequence, whatever its elements are.                                  *)
IsSeq(s) == s \in Seq(Elements(s))

LEMMA SeqFacts ==
    ASSUME NEW s, IsSeq(s)
    PROVE  /\ Len(s) \in Nat /\ DOMAIN s = 1..Len(s) /\ IsFiniteSet(DOMAIN s)
           /\ s = <<>> <=> Len(s) = 0
  <1>1. Len(s) \in Nat /\ DOMAIN s = 1..Len(s) /\ (s = <<>> <=> Len(s) = 0)
    BY DEF IsSeq
  <1> QED  BY <1>1, FS_Interval

LEMMA FunctionIsSeq ==
    ASSUME NEW n \in Nat, NEW s, s = [i \in 1..n |-> s[i]]
    PROVE  IsSeq(s) /\ Len(s) = n
  BY DEF IsSeq, Elements

LEMMA AppendFacts ==
    ASSUME NEW s, IsSeq(s), NEW e
    PROVE  /\ IsSeq(Append(s, e)) /\ DOMAIN Append(s, e) = DOMAIN s \cup {Len(s) + 1}
           /\ Len(Append(s, e)) = Len(s) + 1
           /\ \A i \in DOMAIN s : Append(s, e)[i] = s[i]
           /\ Append(s, e)[Len(s) + 1] = e /\ Len(s) + 1 \notin DOMAIN s
  <1> DEFINE S == Elements(s) \cup {e}
  <1>1. s \in Seq(S)
    BY DEF IsSeq, Elements
  <1>2. Append(s, e) \in Seq(S) /\ Len(Append(s, e)) = Len(s) + 1 /\ Len(s) \in Nat
        /\ Append(s, e)[Len(s) + 1] = e
        /\ \A i \in 1..Len(s) : Append(s, e)[i] = s[i]
    BY <1>1
  <1>3. IsSeq(Append(s, e))
    BY <1>2 DEF IsSeq, Elements
  <1> QED  BY <1>1, <1>2, <1>3

LEMMA ExceptFacts ==
    ASSUME NEW s, IsSeq(s), NEW i \in DOMAIN s, NEW e
    PROVE  /\ IsSeq([s EXCEPT ![i] = e]) /\ DOMAIN [s EXCEPT ![i] = e] = DOMAIN s
           /\ [s EXCEPT ![i] = e][i] = e
           /\ \A j \in DOMAIN s \ {i} : [s EXCEPT ![i] = e][j] = s[j]
  <1> DEFINE t == [s EXCEPT ![i] = e]
  <1>1. Len(s) \in Nat /\ DOMAIN s = 1..Len(s)
    BY SeqFacts
  <1>2. DOMAIN t = 1..Len(s)
    BY <1>1
  <1>3. t = [j \in 1..Len(s) |-> t[j]]
    BY <1>1, <1>2
  <1>4. IsSeq(t)
    <2> HIDE DEF t
    <2> QED  BY <1>1, <1>3, FunctionIsSeq
  <1> QED  BY <1>1, <1>2, <1>4

-----------------------------------------------------------------------------
(* The schedule: what is charged is a natural number.                      *)

LEMMA HistoryFacts ==
    ASSUME NEW h, IsSeq(h), NEW r
    PROVE  FinalRound(h) \in Nat /\ Rotations(h, r) \in Nat
  <1>1. IsFiniteSet(DOMAIN h)
    BY SeqFacts
  <1>2. \A S \in SUBSET DOMAIN h : Cardinality(S) \in Nat
    BY <1>1, FS_Subset, FS_CardinalityType
  <1>3. CompletedRounds(h) \in SUBSET DOMAIN h
    BY DEF CompletedRounds
  <1>4. Cardinality(CompletedRounds(h)) \in Nat
    BY <1>2, <1>3
  <1>5. FinalRound(h) \in Nat
    BY <1>4 DEF FinalRound, AtLeastZero
  <1>6. {i \in DOMAIN h \ CompletedRounds(h) : RoundOf(h, i) = r} \in SUBSET DOMAIN h
    OBVIOUS
  <1>7. Rotations(h, r) \in Nat
    BY <1>2, <1>6 DEF Rotations
  <1> QED  BY <1>5, <1>7

LEMMA SlotsFacts ==
    ASSUME NEW d \in Fees, NEW r \in Nat, NEW h, IsSeq(h)
    PROVE  FundedSlots(d, r) \in Nat /\ UsedSlots(d, h, r) \in Nat
  <1>1. FundedSlots(d, r) \in Nat
    <2>1. CASE ~Funded(d, r)
      BY <2>1 DEF FundedSlots
    <2>2. CASE Funded(d, r)
      <3>1. d.rotations \in Seq(Nat)
        BY DEF Fees
      <3>2. r \div 2 \in Nat /\ r \div 2 < Len(d.rotations)
        BY <2>2 DEF Funded
      <3>3. r \div 2 + 1 \in 1..Len(d.rotations)
        BY <3>1, <3>2
      <3>4. d.rotations[r \div 2 + 1] \in Nat
        BY <3>1, <3>3
      <3> QED  BY <2>2, <3>4 DEF FundedSlots
    <2> QED  BY <2>1, <2>2
  <1>2. Rotations(h, r) + 1 \in Nat
    BY HistoryFacts
  <1> QED  BY <1>1, <1>2, LeastFacts DEF UsedSlots

LEMMA RoundFeeNat ==
    ASSUME NEW d \in Fees, NEW v \in Nat, NEW slots \in Nat, NEW half \in BOOLEAN
    PROVE  RoundFee(d, v, slots, half) \in Nat
  <1>1. d.leader \in Nat /\ d.validator \in Nat
    BY DEF Fees
  <1>2. slots * d.leader \in Nat /\ slots * v \in Nat /\ (slots * v) * d.validator \in Nat
    BY <1>1, NatTimes
  <1>3. (slots * d.leader) \div (IF half THEN 2 ELSE 1) \in Nat
    <2>1. \A x \in Nat : x \div 2 \in Nat /\ x \div 1 \in Nat
      OBVIOUS
    <2>2. CASE half
      BY <1>2, <2>1, <2>2
    <2>3. CASE ~half
      BY <1>2, <2>1, <2>3
    <2> QED  BY <2>2, <2>3
  <1> QED  BY <1>2, <1>3 DEF RoundFee

LEMMA ValidatorsNat ==
    ASSUME NEW n, NEW rounds \in Nat, ValidNumber(n, rounds), NEW r \in 0..rounds
    PROVE  Validators(n, r) \in Nat
  <1>1. VALIDATORS_PER_ROUND \in Seq(Nat)
    BY DEF VALIDATORS_PER_ROUND
  <1>2. ValidatorIndex(n) \in DOMAIN VALIDATORS_PER_ROUND
    BY DEF ValidNumber, ValidatorIndex
  <1>3. ValidatorIndex(n) + rounds <= Len(VALIDATORS_PER_ROUND)
    BY DEF ValidNumber
  <1>4. ValidatorIndex(n) + r \in 1..Len(VALIDATORS_PER_ROUND)
    BY <1>1, <1>2, <1>3
  <1> QED  BY <1>1, <1>4 DEF Validators

LEMMA PriceNat == ASSUME NEW p \in Policies PROVE Price(p) \in Nat
  BY DEF Policies, Price

LEMMA LeaderRoundsNat ==
    ASSUME NEW d \in Fees
    PROVE  LeaderRounds(d) \in Nat
  <1> DEFINE f == [i \in DOMAIN d.rotations |-> d.rotations[i] + 1]
  <1>1. d.rotations \in Seq(Nat) /\ d.appealRounds \in Nat
    BY DEF Fees
  <1>2. IsFiniteSet(DOMAIN d.rotations) /\ \A i \in DOMAIN d.rotations : f[i] \in Nat
    <2>1. DOMAIN d.rotations = 1..Len(d.rotations) /\ Len(d.rotations) \in Nat
      BY <1>1
    <2>2. IsFiniteSet(1..Len(d.rotations))
      BY <2>1, FS_Interval
    <2> QED  BY <1>1, <2>1, <2>2
  <1>3. Sum(f, DOMAIN d.rotations) \in Nat
    <2> HIDE DEF f
    <2> QED  BY <1>2, TotalNat, SumIsTotal
  <1> QED  BY <1>1, <1>3 DEF LeaderRounds

LEMMA RoundFeesNat ==
    ASSUME NEW d \in Fees, NEW p \in Policies, NEW n, Computable(d, n, p)
    PROVE  RoundFees(d, n, p) \in Nat
  <1> DEFINE rounds == 0..2 * d.appealRounds
             f == [r \in rounds |-> RoundFee(d, Validators(n, r), FundedSlots(d, r), FALSE)]
  <1>1. d.appealRounds \in Nat /\ 2 * d.appealRounds \in Nat /\ d.execution \in Nat
    BY DEF Fees
  <1>2. ASSUME NEW r \in rounds PROVE f[r] \in Nat
    <2>1. r \in Nat /\ ValidNumber(n, 2 * d.appealRounds) /\ IsSeq(<<>>)
      BY <1>1 DEF Computable, IsSeq, Elements
    <2>2. Validators(n, r) \in Nat /\ FundedSlots(d, r) \in Nat
      BY <1>1, <2>1, ValidatorsNat, SlotsFacts
    <2> QED  BY <2>2, RoundFeeNat
  <1>3. IsFiniteSet(rounds)
    BY <1>1, FS_Interval
  <1>4. Sum(f, rounds) \in Nat
    <2> HIDE DEF f, rounds
    <2> QED  BY <1>2, <1>3, TotalNat, SumIsTotal
  <1>5. InitialTimeUnits(d, n) * Price(p) \in Nat
    <2>1. InitialTimeUnits(d, n) \in Nat
      BY <1>4 DEF InitialTimeUnits
    <2> QED  BY <2>1, PriceNat, NatTimes
  <1>6. d.execution * LeaderRounds(d) \in Nat
    BY <1>1, LeaderRoundsNat, NatTimes
  <1> QED  BY <1>5, <1>6 DEF RoundFees, TimeUnitFees

LEMMA ThroughNat ==
    ASSUME NEW d \in Fees, NEW p \in Policies, NEW n, NEW final \in Nat, NEW h, IsSeq(h),
           Chargeable(d, n, final, p)
    PROVE  /\ TimeUnitFeesThrough(d, n, final, p, h) \in Nat
           /\ LeaderRoundsThrough(d, final, h) \in Nat
  <1> DEFINE last == LastCharged(d, final)
             rounds == 0..last
             TimedOut(r) == \E i \in CompletedRounds(h) : RoundOf(h, i) = r /\ h[i] = "Leader Timeout"
             f == [r \in rounds |-> RoundFee(d, Validators(n, r), UsedSlots(d, h, r), TimedOut(r))]
             g == [r \in rounds |-> IF r % 2 = 1 \/ Funded(d, r) THEN UsedSlots(d, h, r) ELSE 0]
  <1>1. last \in Nat
    <2>1. 2 * d.appealRounds \in Nat
      BY DEF Fees
    <2> QED  BY <2>1, LeastFacts DEF LastCharged
  <1>2. ASSUME NEW r \in rounds PROVE f[r] \in Nat /\ g[r] \in Nat
    <2>1. r \in Nat /\ ValidNumber(n, last)
      BY <1>1 DEF Chargeable
    <2>2. Validators(n, r) \in Nat /\ UsedSlots(d, h, r) \in Nat
      BY <1>1, <2>1, ValidatorsNat, SlotsFacts
    <2>3. TimedOut(r) \in BOOLEAN
      OBVIOUS
    <2>4. RoundFee(d, Validators(n, r), UsedSlots(d, h, r), TimedOut(r)) \in Nat
      <3> HIDE DEF TimedOut
      <3> QED  BY <2>2, <2>3, RoundFeeNat
    <2> QED  BY <2>2, <2>4
  <1>3. IsFiniteSet(rounds)
    BY <1>1, FS_Interval
  <1>4. Sum(f, rounds) \in Nat /\ Sum(g, rounds) \in Nat
    <2> HIDE DEF f, g, rounds
    <2> QED  BY <1>2, <1>3, TotalNat, SumIsTotal
  <1>5. Price(p) * Sum(f, rounds) \in Nat
    BY <1>4, PriceNat, NatTimes
  <1> QED  BY <1>4, <1>5 DEF TimeUnitFeesThrough, LeaderRoundsThrough

-----------------------------------------------------------------------------
(* Sums of a field over some entries of a sequence of records.             *)

Field(s, f) == [x \in DOMAIN s |-> s[x][f]]

LEMMA FieldNat ==
    ASSUME NEW s, IsSeq(s), NEW f, \A x \in DOMAIN s : s[x][f] \in Nat, NEW S \in SUBSET DOMAIN s
    PROVE  /\ Total(Field(s, f), S) \in Nat
           /\ \A x \in S : s[x][f] <= Total(Field(s, f), S)
  <1>1. IsFiniteSet(S) /\ \A x \in S : Field(s, f)[x] = s[x][f] /\ Field(s, f)[x] \in Nat
    BY SeqFacts, FS_Subset DEF Field
  <1>2. Total(Field(s, f), S) \in Nat
    BY <1>1, TotalNat
  <1>3. ASSUME NEW x \in S PROVE s[x][f] <= Total(Field(s, f), S)
    <2>1. IsFiniteSet(S \ {x})
      BY <1>1, FS_RemoveElement
    <2>2. Total(Field(s, f), S \ {x}) \in Nat
      BY <1>1, <2>1, TotalNat
    <2>3. Total(Field(s, f), S) = Field(s, f)[x] + Total(Field(s, f), S \ {x})
      BY <1>1, TotalRemove
    <2> QED  BY <1>1, <2>2, <2>3
  <1> QED  BY <1>2, <1>3

LEMMA FieldAppend ==
    ASSUME NEW s, IsSeq(s), NEW f, \A x \in DOMAIN s : s[x][f] \in Nat, NEW e, e[f] \in Nat,
           NEW S \in SUBSET DOMAIN s
    PROVE  /\ Total(Field(Append(s, e), f), S) = Total(Field(s, f), S)
           /\ Total(Field(Append(s, e), f), S \cup {Len(s) + 1}) = e[f] + Total(Field(s, f), S)
  <1> DEFINE t == Append(s, e)
             k == Len(s) + 1
  <1>1. IsFiniteSet(S)
    BY SeqFacts, FS_Subset
  <1>2. /\ DOMAIN t = DOMAIN s \cup {k} /\ k \notin DOMAIN s
        /\ t[k] = e /\ \A i \in DOMAIN s : t[i] = s[i]
    BY AppendFacts
  <1>3. /\ \A x \in S : Field(t, f)[x] = Field(s, f)[x] /\ Field(t, f)[x] \in Int
        /\ Field(t, f)[k] = e[f] /\ Field(t, f)[k] \in Int /\ k \notin S
    <2> HIDE DEF t, k
    <2> QED  BY <1>2 DEF Field
  <1> HIDE DEF t, k
  <1>4. Total(Field(t, f), S) = Total(Field(s, f), S)
    BY <1>1, <1>3, TotalSame
  <1>5. Total(Field(t, f), S \cup {k}) = Field(t, f)[k] + Total(Field(t, f), S)
    BY <1>1, <1>3, TotalAdd
  <1> QED  BY <1>3, <1>4, <1>5 DEF t, k

Changed(s, t, x, f) ==
    /\ IsSeq(s) /\ x \in DOMAIN s /\ DOMAIN t = DOMAIN s /\ t[x][f] \in Nat
    /\ \A y \in DOMAIN s : s[y][f] \in Nat
    /\ \A y \in DOMAIN s \ {x} : t[y] = s[y]

LEMMA FieldChange ==
    ASSUME NEW s, NEW t, NEW x, NEW f, Changed(s, t, x, f), NEW S \in SUBSET DOMAIN s
    PROVE  /\ x \in S => Total(Field(t, f), S \ {x}) = Total(Field(t, f), S) - t[x][f]
           /\ Total(Field(t, f), S \ {x}) = Total(Field(s, f), S \ {x})
           /\ x \in S => Total(Field(s, f), S \ {x}) = Total(Field(s, f), S) - s[x][f]
           /\ x \notin S => Total(Field(t, f), S) = Total(Field(s, f), S)
  <1> USE DEF Changed
  <1>1. IsFiniteSet(S) /\ IsFiniteSet(S \ {x})
    BY SeqFacts, FS_Subset
  <1>2. \A y \in DOMAIN s : Field(s, f)[y] = s[y][f] /\ Field(t, f)[y] = t[y][f]
    BY DEF Field
  <1>3. \A y \in DOMAIN s \ {x} : Field(t, f)[y] = Field(s, f)[y]
    BY <1>2
  <1>4. \A y \in DOMAIN s : Field(s, f)[y] \in Nat /\ Field(t, f)[y] \in Nat
    BY <1>2
  <1>5. Total(Field(t, f), S \ {x}) = Total(Field(s, f), S \ {x})
    BY <1>1, <1>3, TotalSame
  <1>6. Total(Field(s, f), S \ {x}) \in Nat
    BY <1>1, <1>4, TotalNat
  <1>7. CASE x \in S
    <2>1. Total(Field(s, f), S) = s[x][f] + Total(Field(s, f), S \ {x})
      <3>1. Total(Field(s, f), S) = Field(s, f)[x] + Total(Field(s, f), S \ {x})
        BY <1>1, <1>4, <1>7, TotalRemove
      <3> QED  BY <1>2, <3>1
    <2>2. Total(Field(t, f), S) = t[x][f] + Total(Field(t, f), S \ {x})
      <3>1. Total(Field(t, f), S) = Field(t, f)[x] + Total(Field(t, f), S \ {x})
        BY <1>1, <1>4, <1>7, TotalRemove
      <3> QED  BY <1>2, <3>1
    <2>3. s[x][f] \in Nat /\ t[x][f] \in Nat
      OBVIOUS
    <2>4. \A a, b, c \in Int : a = b + c => c = a - b
      OBVIOUS
    <2>5. Total(Field(s, f), S) \in Nat /\ Total(Field(t, f), S) \in Nat
      BY <1>5, <1>6, <2>1, <2>2, <2>3
    <2> QED  BY <1>5, <1>6, <1>7, <2>1, <2>2, <2>3, <2>4, <2>5
  <1>8. CASE x \notin S
    <2>1. S \ {x} = S
      BY <1>8
    <2> QED  BY <1>5, <1>8, <2>1
  <1> QED  BY <1>7, <1>8

-----------------------------------------------------------------------------
(* What every copy of the record satisfies.  Its fields, and those the     *)
(* charging of messages writes:                                            *)

Names == {"status", "policy", "fees", "validators", "paid", "required", "primary", "spent",
          "refunded", "execBudget", "execConsumed", "message", "consumed", "messageRefunded",
          "reserved", "reimbursed", "remainder", "events", "bonds", "settlements", "payout",
          "totalRefunded", "allocations", "used", "recorded", "fromReceipt", "atReveal"}
Booked == {"used", "reserved", "reimbursed", "remainder", "events", "consumed",
           "recorded", "fromReceipt", "atReveal"}
Charging(acc, new) == DOMAIN new = Names /\ \A f \in Names \ Booked : new[f] = acc[f]

(* It is a record of this transaction ...                                  *)
IsCopy(acc) ==
    /\ DOMAIN acc = Names
    /\ acc.allocations = Allocations /\ acc.policy = Policy /\ acc.fees \in Fees

(* ... whose events are of external nodes, the totals those of its live    *)
(* events, and no node over its budget; ...                                *)
EventNames == {"to", "key", "node", "price", "gasLimit", "reservation", "reimbursement",
               "remainder", "executed", "unreserved"}
IsEvent(e) ==
    /\ DOMAIN e = EventNames
    /\ e.node \in DOMAIN Allocations /\ Allocations[e.node].type = "external"
    /\ e.price \in Nat /\ e.gasLimit \in Nat /\ e.reservation \in Nat /\ e.reimbursement \in Nat
    /\ ~e.executed => e.reimbursement = 0
AreEvents(s) == IsSeq(s) /\ \A x \in DOMAIN s : IsEvent(s[x])
LiveIn(s) == {x \in DOMAIN s : ~s[x].unreserved}
OnNode(s, i) == {x \in LiveIn(s) : s[x].node = i}
Reservation0(s, S) == Total(Field(s, "reservation"), S)
Reimbursement0(s, S) == Total(Field(s, "reimbursement"), S)
Within(used) == \A i \in DOMAIN Allocations : used[i] <= Allocations[i].budget
Externals == {i \in DOMAIN Allocations : Allocations[i].type = "external"}
Internals == {i \in DOMAIN Allocations : Allocations[i].type = "internal"}
Books(acc) ==
    /\ acc.used \in [DOMAIN Allocations -> Nat] /\ Within(acc.used)
    /\ AreEvents(acc.events)
    /\ acc.consumed \in Nat /\ acc.reserved \in Nat /\ acc.reimbursed \in Nat
    /\ acc.reserved = Reservation0(acc.events, LiveIn(acc.events))
    /\ acc.reimbursed = Reimbursement0(acc.events, LiveIn(acc.events))
    /\ \A i \in Externals : acc.used[i] = Reservation0(acc.events, OnNode(acc.events, i))

(* ... what counts as consumed is the reimbursed gas and what internal     *)
(* messages used, or less once an unwinding gave back too much ...         *)
Balanced(acc, over) ==
    Allocations # <<>> =>
      /\ acc.consumed <= acc.reimbursed + Total(acc.used, Internals)
      /\ ~over => acc.consumed = acc.reimbursed + Total(acc.used, Internals)

(* ... and it does not promise more than was paid.                         *)
Pots(acc) ==
    /\ acc.status \in Terminal \cup {"active"}
    /\ acc.paid \in Nat /\ acc.primary \in Nat /\ acc.message \in Nat /\ acc.spent \in Nat
    /\ acc.refunded \in Nat /\ acc.messageRefunded \in Nat /\ acc.totalRefunded \in Nat
    /\ acc.execConsumed \in Nat
    /\ IsSeq(acc.bonds) /\ \A i \in DOMAIN acc.bonds : acc.bonds[i].amount \in Nat
    /\ acc.primary + acc.message = acc.paid /\ acc.totalRefunded <= acc.paid
    /\ acc.status = "active" =>
         /\ acc.spent = 0 /\ acc.refunded = 0 /\ acc.messageRefunded = 0 /\ acc.totalRefunded = 0
         /\ acc.settlements = <<>> /\ acc.consumed <= acc.message
    /\ acc.status = "settled" =>
         /\ acc.consumed + acc.messageRefunded <= acc.message
         /\ acc.spent + acc.refunded <= acc.primary
Good(acc, over) == IsCopy(acc) /\ Books(acc) /\ Balanced(acc, over) /\ Pots(acc)

-----------------------------------------------------------------------------
(* The inductive invariant.                                                *)

Steps == {"idle", "round", "vote", "reveal", "result", "dispatch", "status",
          "final messages", "finalized", "settle"}
Statuses == Decided \cup {"PENDING", "PROPOSING", "COMMITTING", "REVEALING", "FINALIZED", "CANCELED"}
Returned == Receipts \cup {NoReceipt}

RowOK ==
    /\ DOMAIN row = {"status", "acc", "history", "receipt", "appeal"}
    /\ row.status \in Statuses /\ row.appeal \in Decided \cup {"none", "raised"}
    /\ IsSeq(row.history) /\ Len(row.history) <= MaxHistory
    /\ row.receipt \in Returned
    /\ Good(row.acc, overdrawn)

(* The worker has room in the history for the round it ends; once it has   *)
(* closed the row it is done with it.                                      *)
WorkerOK ==
    /\ worker.step \in Steps
    /\ worker.step # "idle" =>
         /\ DOMAIN worker = {"step", "acc", "status", "appeal", "receipt", "prior"}
         /\ worker.receipt \in Returned /\ worker.prior \in Returned
         /\ Good(worker.acc, overdrawn)
    /\ "step" \in DOMAIN worker
    /\ worker.step \in {"reveal", "result"} => Len(row.history) < MaxHistory
    /\ worker.step = "settle" => row.status \in {"FINALIZED", "CANCELED"}

CallOK(call) ==
    /\ call.step \in {"none", "top up", "bond", "flag", "refund"}
    /\ call.step \in {"top up", "bond"} => Good(call.read, overdrawn)
    /\ call.step = "top up" =>
         call.of \in TopUps /\ TopUpOk(call.read, call.of.more, call.of.amount, Validators0)
    /\ call.step = "bond" => call.of \in Bonds
CallsOK == DOMAIN calls = Callers /\ \A c \in Callers : CallOK(calls[c])

(* A record is settled when the row is closed, and nobody works on it.     *)
Over0 == At("idle") /\ row.status \in {"FINALIZED", "CANCELED"}
SettledLast ==
    /\ row.acc.status = "settled" => Over0
    /\ worker.step # "idle" => worker.acc.status # "settled"
    /\ \A c \in Callers : calls[c].step \in {"top up", "bond"} /\ calls[c].read.status = "settled" => Over0

(* What the record says was paid and refunded is what was moved.           *)
MoneyOK ==
    /\ DOMAIN money = {"fees", "bonds", "refund", "payout", "children"}
    /\ money.fees \in Nat /\ money.bonds \in Nat /\ money.refund \in Nat /\ money.payout \in Nat
    /\ ~lost =>
         /\ money.refund = row.acc.totalRefunded
         /\ row.acc.paid <= money.fees + money.bonds
         /\ money.bonds = Total(Field(row.acc.bonds, "amount"), DOMAIN row.acc.bonds)
         /\ row.acc.status = "active" => money.payout = 0
         /\ 2 * money.payout <= 3 * money.bonds
FlagsOK == lost \in BOOLEAN /\ overdrawn \in BOOLEAN /\ givingUp \in BOOLEAN

IInv == RowOK /\ WorkerOK /\ CallsOK /\ SettledLast /\ MoneyOK /\ FlagsOK

-----------------------------------------------------------------------------
(* The events: one is appended, executed, or taken back.                   *)

LEMMA EventFields ==
    ASSUME NEW s, AreEvents(s), NEW S \in SUBSET DOMAIN s
    PROVE  /\ Reservation0(s, S) \in Nat /\ Reimbursement0(s, S) \in Nat
           /\ \A x \in S : s[x].reservation <= Reservation0(s, S)
           /\ \A x \in S : s[x].reimbursement <= Reimbursement0(s, S)
  <1>1. \A x \in DOMAIN s : s[x]["reservation"] \in Nat /\ s[x]["reimbursement"] \in Nat
    BY DEF AreEvents, IsEvent
  <1>2. IsSeq(s)
    BY DEF AreEvents
  <1>3. Reservation0(s, S) \in Nat /\ \A x \in S : s[x]["reservation"] <= Reservation0(s, S)
    BY <1>1, <1>2, FieldNat DEF Reservation0
  <1>4. Reimbursement0(s, S) \in Nat /\ \A x \in S : s[x]["reimbursement"] <= Reimbursement0(s, S)
    BY <1>1, <1>2, FieldNat DEF Reimbursement0
  <1> QED  BY <1>3, <1>4

LEMMA EventAppended ==
    ASSUME NEW s, AreEvents(s), NEW e, IsEvent(e), e.unreserved = FALSE
    PROVE  LET t == Append(s, e)
           IN /\ AreEvents(t)
              /\ Reservation0(t, LiveIn(t)) = e.reservation + Reservation0(s, LiveIn(s))
              /\ Reimbursement0(t, LiveIn(t)) = e.reimbursement + Reimbursement0(s, LiveIn(s))
              /\ Reservation0(t, OnNode(t, e.node)) = e.reservation + Reservation0(s, OnNode(s, e.node))
              /\ \A i : i # e.node => Reservation0(t, OnNode(t, i)) = Reservation0(s, OnNode(s, i))
  <1> DEFINE t == Append(s, e)
             k == Len(s) + 1
  <1>1. IsSeq(s) /\ \A x \in DOMAIN s : s[x]["reservation"] \in Nat /\ s[x]["reimbursement"] \in Nat
    BY DEF AreEvents, IsEvent
  <1>2. e["reservation"] \in Nat /\ e["reimbursement"] \in Nat
    BY DEF IsEvent
  <1>3. /\ IsSeq(t) /\ DOMAIN t = DOMAIN s \cup {k} /\ k \notin DOMAIN s
        /\ t[k] = e /\ \A i \in DOMAIN s : t[i] = s[i]
    BY <1>1, AppendFacts
  <1>4. \A S \in SUBSET DOMAIN s :
          /\ Reservation0(t, S) = Reservation0(s, S)
          /\ Reservation0(t, S \cup {k}) = e.reservation + Reservation0(s, S)
          /\ Reimbursement0(t, S \cup {k}) = e.reimbursement + Reimbursement0(s, S)
    BY <1>1, <1>2, FieldAppend DEF Reservation0, Reimbursement0
  <1> HIDE DEF t, k
  <1>5. AreEvents(t)
    BY <1>3 DEF AreEvents
  <1>6. LiveIn(t) = LiveIn(s) \cup {k} /\ LiveIn(s) \in SUBSET DOMAIN s
    BY <1>3 DEF LiveIn
  <1>7. OnNode(t, e.node) = OnNode(s, e.node) \cup {k} /\ OnNode(s, e.node) \in SUBSET DOMAIN s
    BY <1>3, <1>6 DEF OnNode, LiveIn
  <1>8. ASSUME NEW i, i # e.node PROVE OnNode(t, i) = OnNode(s, i) /\ OnNode(s, i) \in SUBSET DOMAIN s
    BY <1>3, <1>6, <1>8 DEF OnNode, LiveIn
  <1> QED  BY <1>4, <1>5, <1>6, <1>7, <1>8 DEF t, k

LEMMA EventExecuted ==
    ASSUME NEW s, AreEvents(s), NEW x \in LiveIn(s), NEW e, IsEvent(e),
           e.unreserved = s[x].unreserved, e.node = s[x].node, e.reservation = s[x].reservation,
           NEW due \in Nat, e.reimbursement = due, s[x].reimbursement = 0
    PROVE  LET t == [s EXCEPT ![x] = e]
           IN /\ AreEvents(t)
              /\ Reservation0(t, LiveIn(t)) = Reservation0(s, LiveIn(s))
              /\ Reimbursement0(t, LiveIn(t)) = due + Reimbursement0(s, LiveIn(s))
              /\ \A i : Reservation0(t, OnNode(t, i)) = Reservation0(s, OnNode(s, i))
  <1> DEFINE t == [s EXCEPT ![x] = e]
  <1>1. IsSeq(s) /\ \A y \in DOMAIN s : s[y]["reservation"] \in Nat /\ s[y]["reimbursement"] \in Nat
    BY DEF AreEvents, IsEvent
  <1>2. x \in DOMAIN s /\ IsEvent(s[x])
    BY DEF AreEvents, LiveIn
  <1>3. e["reservation"] = s[x]["reservation"] /\ e["reimbursement"] = due /\ s[x]["reimbursement"] = 0
    OBVIOUS
  <1>4. IsSeq(t) /\ DOMAIN t = DOMAIN s /\ t[x] = e /\ \A y \in DOMAIN s \ {x} : t[y] = s[y]
    BY <1>1, <1>2, ExceptFacts
  <1> HIDE DEF t
  <1>6. AreEvents(t)
    BY <1>4 DEF AreEvents
  <1>5. ASSUME NEW S \in SUBSET DOMAIN s
        PROVE  /\ Reservation0(t, S) = Reservation0(s, S)
               /\ x \in S => Reimbursement0(t, S) = due + Reimbursement0(s, S)
    <2>1. ASSUME NEW f \in {"reservation", "reimbursement"}
          PROVE  /\ x \in S => /\ Total(Field(t, f), S \ {x}) = Total(Field(t, f), S) - t[x][f]
                               /\ Total(Field(t, f), S \ {x}) = Total(Field(s, f), S) - s[x][f]
                 /\ x \notin S => Total(Field(t, f), S) = Total(Field(s, f), S)
      <3>1. \A y \in DOMAIN s : s[y][f] \in Nat
        BY <1>1
      <3>2. t[x][f] \in Nat
        BY <1>2, <1>3, <1>4, <3>1
      <3>3. Changed(s, t, x, f)
        BY <1>1, <1>2, <1>4, <3>1, <3>2 DEF Changed
      <3> QED  BY <3>3, FieldChange
    <2>2. \A a, b, c, d \in Int : a - b = c - d => (b = d => a = c) /\ (d = 0 => a = b + c)
      OBVIOUS
    <2>3. /\ Reservation0(s, S) \in Nat /\ Reimbursement0(s, S) \in Nat
          /\ Reservation0(t, S) \in Nat /\ Reimbursement0(t, S) \in Nat
      BY <1>4, <1>6, EventFields
    <2>4. CASE x \in S
      <3>1. /\ Reservation0(t, S) - t[x]["reservation"] = Reservation0(s, S) - s[x]["reservation"]
            /\ Reimbursement0(t, S) - t[x]["reimbursement"] = Reimbursement0(s, S) - s[x]["reimbursement"]
        BY <2>1, <2>4 DEF Reservation0, Reimbursement0
      <3>2. /\ t[x]["reservation"] = s[x]["reservation"] /\ s[x]["reservation"] \in Nat
            /\ t[x]["reimbursement"] = due /\ s[x]["reimbursement"] = 0
        BY <1>1, <1>2, <1>3, <1>4
      <3> QED  BY <2>2, <2>3, <3>1, <3>2
    <2>5. CASE x \notin S
      BY <2>1, <2>5 DEF Reservation0
    <2> QED  BY <2>4, <2>5
  <1>7. LiveIn(t) = LiveIn(s) /\ LiveIn(s) \in SUBSET DOMAIN s
    BY <1>4 DEF LiveIn
  <1>8. ASSUME NEW i PROVE OnNode(t, i) = OnNode(s, i) /\ OnNode(s, i) \in SUBSET DOMAIN s
    BY <1>4, <1>7 DEF OnNode, LiveIn
  <1> QED  BY <1>5, <1>6, <1>7, <1>8 DEF t

TakenBack(s, t, x) ==
    /\ AreEvents(t)
    /\ Reservation0(s, LiveIn(s)) = s[x].reservation + Reservation0(t, LiveIn(t))
    /\ Reimbursement0(s, LiveIn(s)) = s[x].reimbursement + Reimbursement0(t, LiveIn(t))
    /\ Reservation0(s, OnNode(s, s[x].node)) =
         s[x].reservation + Reservation0(t, OnNode(t, s[x].node))
    /\ \A i : i # s[x].node => Reservation0(t, OnNode(t, i)) = Reservation0(s, OnNode(s, i))

LEMMA EventTakenBack ==
    ASSUME NEW s, AreEvents(s), NEW x \in LiveIn(s), NEW e, IsEvent(e), e.unreserved = TRUE,
           e.node = s[x].node, e.reservation = s[x].reservation, e.reimbursement = s[x].reimbursement
    PROVE  TakenBack(s, [s EXCEPT ![x] = e], x)
  <1> DEFINE t == [s EXCEPT ![x] = e]
  <1>1. IsSeq(s) /\ \A y \in DOMAIN s : s[y]["reservation"] \in Nat /\ s[y]["reimbursement"] \in Nat
    BY DEF AreEvents, IsEvent
  <1>2. x \in DOMAIN s /\ IsEvent(s[x])
    BY DEF AreEvents, LiveIn
  <1>3. e["reservation"] = s[x]["reservation"] /\ e["reimbursement"] = s[x]["reimbursement"]
    OBVIOUS
  <1>4. IsSeq(t) /\ DOMAIN t = DOMAIN s /\ t[x] = e /\ \A y \in DOMAIN s \ {x} : t[y] = s[y]
    BY <1>1, <1>2, ExceptFacts
  <1> HIDE DEF t
  <1>5. ASSUME NEW S \in SUBSET DOMAIN s, NEW f \in {"reservation", "reimbursement"}
        PROVE  /\ x \notin S => Total(Field(t, f), S) = Total(Field(s, f), S)
               /\ x \in S => Total(Field(t, f), S \ {x}) = Total(Field(s, f), S) - s[x][f]
    <2>1. \A y \in DOMAIN s : s[y][f] \in Nat
      BY <1>1
    <2>2. t[x][f] \in Nat
      BY <1>2, <1>3, <1>4, <2>1
    <2>3. Changed(s, t, x, f)
      BY <1>1, <1>2, <1>4, <2>1, <2>2 DEF Changed
    <2> QED  BY <2>3, FieldChange
  <1>6. AreEvents(t)
    BY <1>3, <1>4 DEF AreEvents
  <1>7. LiveIn(t) = LiveIn(s) \ {x} /\ LiveIn(s) \in SUBSET DOMAIN s
    BY <1>3, <1>4 DEF LiveIn
  <1>8. OnNode(t, s[x].node) = OnNode(s, s[x].node) \ {x}
        /\ OnNode(s, s[x].node) \in SUBSET DOMAIN s /\ x \in OnNode(s, s[x].node)
    BY <1>2, <1>3, <1>4, <1>7 DEF OnNode, LiveIn
  <1>9. ASSUME NEW i, i # s[x].node
        PROVE  OnNode(t, i) = OnNode(s, i) /\ OnNode(s, i) \in SUBSET DOMAIN s /\ x \notin OnNode(s, i)
    BY <1>3, <1>4, <1>7, <1>9 DEF OnNode, LiveIn
  <1>10. /\ Reservation0(s, LiveIn(s)) = s[x]["reservation"] + Reservation0(t, LiveIn(t))
         /\ Reimbursement0(s, LiveIn(s)) = s[x]["reimbursement"] + Reimbursement0(t, LiveIn(t))
         /\ Reservation0(s, OnNode(s, s[x].node)) =
              s[x]["reservation"] + Reservation0(t, OnNode(t, s[x].node))
    <2>1. \A a, c, d \in Int : d = a - c => a = c + d
      OBVIOUS
    <2>2. s[x]["reservation"] \in Nat /\ s[x]["reimbursement"] \in Nat
      BY <1>1, <1>2
    <2>3. /\ Reservation0(t, LiveIn(t)) = Reservation0(s, LiveIn(s)) - s[x]["reservation"]
          /\ Reimbursement0(t, LiveIn(t)) = Reimbursement0(s, LiveIn(s)) - s[x]["reimbursement"]
          /\ Reservation0(t, OnNode(t, s[x].node)) =
               Reservation0(s, OnNode(s, s[x].node)) - s[x]["reservation"]
      BY <1>5, <1>7, <1>8 DEF Reservation0, Reimbursement0
    <2>4. /\ Reservation0(s, LiveIn(s)) \in Nat /\ Reimbursement0(s, LiveIn(s)) \in Nat
          /\ Reservation0(s, OnNode(s, s[x].node)) \in Nat
      BY <1>7, <1>8, EventFields
    <2> QED  BY <2>1, <2>2, <2>3, <2>4
  <1>11. \A i : i # s[x].node => Reservation0(t, OnNode(t, i)) = Reservation0(s, OnNode(s, i))
    BY <1>5, <1>9 DEF Reservation0
  <1> QED  BY <1>6, <1>10, <1>11 DEF t, TakenBack

(* The allocation a message resolves to is of its type.                    *)
LEMMA ResolveFacts ==
    ASSUME NEW m, Resolve(Allocations, m) # 0
    PROVE  /\ Resolve(Allocations, m) \in DOMAIN Allocations
           /\ Allocations[Resolve(Allocations, m)].type = m.type
           /\ Allocations # <<>>
  <1>1. IsSeq(Allocations)
    BY SubmissionIsNumbers DEF IsSeq
  <1>2. DOMAIN Allocations \in SUBSET Nat
    BY <1>1, SeqFacts
  <1>3. ASSUME NEW key PROVE Matching(Allocations, m, key) \in SUBSET DOMAIN Allocations
                             /\ \A i \in Matching(Allocations, m, key) : Allocations[i].type = m.type
    BY DEF Matching, Children, NodeKey
  <1>4. ASSUME NEW S \in SUBSET Nat, S # {} PROVE Min(S) \in S
    <2>1. \E n \in S : \A k \in S : n <= k
      BY <1>4, LeastNumber
    <2> QED  BY <2>1 DEF Min
  <1>5. \E key : Resolve(Allocations, m) = Min(Matching(Allocations, m, key))
                 /\ Matching(Allocations, m, key) # {}
    BY DEF Resolve
  <1>6. PICK key : Resolve(Allocations, m) = Min(Matching(Allocations, m, key))
                 /\ Matching(Allocations, m, key) # {}
    BY <1>5
  <1>7. Resolve(Allocations, m) \in Matching(Allocations, m, key)
    BY <1>2, <1>3, <1>4, <1>6
  <1> QED  BY <1>1, <1>3, <1>7, SeqFacts

(* An internal message uses its budget, an external one reserves gas.      *)
LEMMA NodeFacts ==
    ASSUME NEW i \in DOMAIN Allocations
    PROVE  /\ Allocations[i].budget \in Nat
           /\ Allocations[i].type \in Types
           /\ Allocations[i].type = "external" =>
                Allocations[i].params.gasLimit \in Nat /\ LockedPrice(Allocations[i], Policy) \in Nat
  <1>1. IsNode(Allocations[i]) /\ Policy.receipt \in Nat
    BY SubmissionIsNumbers DEF Policies
  <1> QED  BY <1>1, LeastFacts DEF IsNode, LockedPrice

UsedBy(acc) == Total(acc.used, Internals)

LEMMA NodesFinite == IsFiniteSet(Internals) /\ IsFiniteSet(Externals) /\ IsFiniteSet(DOMAIN Allocations)
  <1>1. IsSeq(Allocations)
    BY SubmissionIsNumbers DEF IsSeq
  <1> QED  BY <1>1, SeqFacts, FS_Subset DEF Internals, Externals

LEMMA UsedByNat ==
    ASSUME NEW acc, acc.used \in [DOMAIN Allocations -> Nat]
    PROVE  UsedBy(acc) \in Nat /\ \A i \in Internals : acc.used[i] <= UsedBy(acc)
  <1>1. \A i \in Internals : acc.used[i] \in Nat
    BY DEF Internals
  <1>2. UsedBy(acc) \in Nat
    BY <1>1, NodesFinite, TotalNat DEF UsedBy
  <1>3. ASSUME NEW i \in Internals PROVE acc.used[i] <= UsedBy(acc)
    <2>1. IsFiniteSet(Internals \ {i})
      BY NodesFinite, FS_RemoveElement
    <2>2. Total(acc.used, Internals) = acc.used[i] + Total(acc.used, Internals \ {i})
      BY <1>1, NodesFinite, TotalRemove
    <2>3. Total(acc.used, Internals \ {i}) \in Nat
      BY <1>1, <2>1, TotalNat
    <2> QED  BY <1>1, <2>2, <2>3 DEF UsedBy
  <1> QED  BY <1>2, <1>3

(* One node's use changes.                                                 *)
LEMMA UseChanges ==
    ASSUME NEW used \in [DOMAIN Allocations -> Nat], NEW i \in DOMAIN Allocations, NEW n \in Nat
    PROVE  LET new == [used EXCEPT ![i] = n]
           IN /\ new \in [DOMAIN Allocations -> Nat] /\ new[i] = n
              /\ \A j \in DOMAIN Allocations : j # i => new[j] = used[j]
              /\ i \notin Internals => Total(new, Internals) = Total(used, Internals)
              /\ i \in Internals => Total(new, Internals) = Total(used, Internals) - used[i] + n
  <1> DEFINE new == [used EXCEPT ![i] = n]
  <1>1. /\ new \in [DOMAIN Allocations -> Nat] /\ new[i] = n
        /\ \A j \in DOMAIN Allocations : j # i => new[j] = used[j]
    OBVIOUS
  <1> HIDE DEF new
  <1>2. \A j \in Internals : used[j] \in Int /\ new[j] \in Int
    BY <1>1 DEF Internals
  <1>3. \A j \in Internals \ {i} : new[j] = used[j]
    BY <1>1 DEF Internals
  <1>4. i \notin Internals => Total(new, Internals) = Total(used, Internals)
    BY <1>3, NodesFinite, TotalSame
  <1>5. i \in Internals => Total(new, Internals) = Total(used, Internals) - used[i] + n
    BY <1>1, <1>2, <1>3, NodesFinite, TotalUpdate
  <1> QED  BY <1>1, <1>4, <1>5 DEF new

-----------------------------------------------------------------------------
(* Charging messages.                                                      *)

Charges(acc, new, m) ==
    /\ Books(new) /\ Charging(acc, new)
    /\ new.consumed = acc.consumed /\ acc.reimbursed <= new.reimbursed
    /\ Allocations # <<>> => UsedBy(new) = UsedBy(acc) + DeclaredOf(m)

(* The entry of an external message.                                       *)
LEMMA EventFacts ==
    ASSUME NEW acc, IsCopy(acc), NEW m, IsMessage(m), NEW reimburse \in BOOLEAN,
           m.type = "external", Resolve(Allocations, m) # 0
    PROVE  LET e == Event(acc, m, reimburse)
           IN IsEvent(e) /\ e.unreserved = FALSE /\ e.node = Resolve(Allocations, m)
              /\ e.reservation = Reservation(acc, m)
  <1> DEFINE i == Resolve(Allocations, m)
             e == Event(acc, m, reimburse)
             price == LockedPrice(Allocations[i], Policy)
             limit == Allocations[i].params.gasLimit
             paid == Least(Reservation(acc, m), m.gasUsed * price)
  <1>1. i \in DOMAIN Allocations /\ Allocations[i].type = "external"
    BY ResolveFacts
  <1>2. price \in Nat /\ limit \in Nat
    BY <1>1, NodeFacts
  <1>3. acc.allocations = Allocations /\ acc.policy = Policy
    BY DEF IsCopy
  <1>4. Reservation(acc, m) = limit * price /\ limit * price \in Nat
    BY <1>2, <1>3, NatTimes DEF Reservation
  <1>5. paid \in Nat
    <2>1. m.gasUsed \in Nat
      BY DEF IsMessage
    <2> QED  BY <1>2, <1>4, <2>1, NatTimes, LeastFacts
  <1>6. /\ DOMAIN e = EventNames /\ e.node = i /\ e.price = price /\ e.gasLimit = limit
        /\ e.reservation = Reservation(acc, m) /\ e.executed = reimburse /\ e.unreserved = FALSE
        /\ e.reimbursement = IF reimburse THEN paid ELSE 0
    BY <1>3 DEF Event, EventNames
  <1>7. e.reimbursement \in Nat /\ (~e.executed => e.reimbursement = 0)
    <2> HIDE DEF e, paid
    <2>1. CASE reimburse
      BY <1>5, <1>6, <2>1
    <2>2. CASE ~reimburse
      BY <1>6, <2>2
    <2> QED  BY <2>1, <2>2
  <1> HIDE DEF e, i, price, limit, paid
  <1>8. IsEvent(e)
    BY <1>1, <1>2, <1>4, <1>6, <1>7 DEF IsEvent
  <1> QED  BY <1>6, <1>8 DEF e, i

LEMMA ReserveKeeps ==
    ASSUME NEW acc, IsCopy(acc), Books(acc), NEW m, IsMessage(m), MessageOk(acc, m),
           NEW reimburse \in BOOLEAN, m.type = "external", Reserves(acc, m)
    PROVE  Charges(acc, Reserve(acc, m, reimburse), m)
  <1> DEFINE i == Resolve(Allocations, m)
             e == Event(acc, m, reimburse)
             new == Reserve(acc, m, reimburse)
             n == acc.used[i] + e.reservation
             used == [acc.used EXCEPT ![i] = n]
             events == Append(acc.events, e)
  <1>1. acc.allocations = Allocations /\ acc.policy = Policy /\ DOMAIN acc = Names
    BY DEF IsCopy
  <1>2. i # 0 /\ m.type = "external"
    BY <1>1 DEF Reserves
  <1>3. /\ IsEvent(e) /\ e.unreserved = FALSE /\ e.node = i
        /\ e.reservation = Reservation(acc, m)
    BY <1>2, EventFacts
  <1>4. i \in DOMAIN Allocations /\ i \in Externals /\ i \notin Internals
    BY <1>2, ResolveFacts DEF Externals, Internals
  <1>5. acc.used \in [DOMAIN Allocations -> Nat] /\ AreEvents(acc.events) /\ Within(acc.used)
        /\ acc.consumed \in Nat /\ acc.reserved \in Nat /\ acc.reimbursed \in Nat
    BY DEF Books
  <1>6. e.reservation \in Nat /\ e.reimbursement \in Nat
    BY <1>3 DEF IsEvent
  <1>7. n \in Nat /\ n <= Allocations[i].budget
    <2>1. Fits(acc, i, e.reservation)
      BY <1>1, <1>3 DEF MessageOk, ExternalOk
    <2> QED  BY <1>1, <1>4, <1>5, <1>6, <2>1 DEF Fits
  <1>8. /\ new.used = used /\ new.events = events /\ new.consumed = acc.consumed
        /\ new.reserved = acc.reserved + e.reservation
        /\ new.reimbursed = acc.reimbursed + e.reimbursement
        /\ DOMAIN new = Names
    <2> HIDE DEF e, i
    <2> QED  BY <1>1, <1>3 DEF Reserve, Names, e
  <1>9. \A f \in Names \ Booked : new[f] = acc[f]
    <2> HIDE DEF e, i
    <2> QED  BY <1>1 DEF Reserve, Names, Booked, e
  <1>10. /\ used \in [DOMAIN Allocations -> Nat] /\ used[i] = n
         /\ \A j \in DOMAIN Allocations : j # i => used[j] = acc.used[j]
         /\ Total(used, Internals) = Total(acc.used, Internals)
    <2> HIDE DEF i, n
    <2> QED  BY <1>4, <1>5, <1>7, UseChanges
  <1> DEFINE s == acc.events
  <1>11. /\ AreEvents(events)
         /\ Reservation0(events, LiveIn(events)) = e.reservation + Reservation0(s, LiveIn(s))
         /\ Reimbursement0(events, LiveIn(events)) = e.reimbursement + Reimbursement0(s, LiveIn(s))
         /\ Reservation0(events, OnNode(events, i)) = e.reservation + Reservation0(s, OnNode(s, i))
         /\ \A j : j # i => Reservation0(events, OnNode(events, j)) = Reservation0(s, OnNode(s, j))
    <2>1. IsEvent(e) /\ e.unreserved = FALSE /\ e.node = i /\ AreEvents(s)
      BY <1>3, <1>5
    <2> HIDE DEF i, e, s
    <2>2. /\ AreEvents(Append(s, e))
          /\ Reservation0(Append(s, e), LiveIn(Append(s, e))) = e.reservation + Reservation0(s, LiveIn(s))
          /\ Reimbursement0(Append(s, e), LiveIn(Append(s, e))) =
               e.reimbursement + Reimbursement0(s, LiveIn(s))
          /\ Reservation0(Append(s, e), OnNode(Append(s, e), e.node)) =
               e.reservation + Reservation0(s, OnNode(s, e.node))
          /\ \A j : j # e.node =>
               Reservation0(Append(s, e), OnNode(Append(s, e), j)) = Reservation0(s, OnNode(s, j))
      BY <2>1, EventAppended
    <2> QED  BY <2>1, <2>2 DEF s
  <1> HIDE DEF i, e, new, n, used, events, s
  <1>12. Within(used)
    BY <1>5, <1>7, <1>10 DEF Within
  <1>13. ASSUME NEW j \in Externals
         PROVE  used[j] = Reservation0(events, OnNode(events, j))
    <2>1. acc.used[j] = Reservation0(s, OnNode(s, j)) /\ j \in DOMAIN Allocations
      BY DEF Books, s, Externals
    <2>2. CASE j = i
      BY <1>4, <1>5, <1>6, <1>10, <1>11, <2>1, <2>2 DEF n
    <2>3. CASE j # i
      BY <1>10, <1>11, <2>1, <2>3
    <2> QED  BY <2>2, <2>3
  <1>14. /\ new.reserved = Reservation0(events, LiveIn(events)) /\ new.reserved \in Nat
         /\ new.reimbursed = Reimbursement0(events, LiveIn(events)) /\ new.reimbursed \in Nat
         /\ acc.reimbursed <= new.reimbursed
    <2>1. acc.reserved = Reservation0(s, LiveIn(s)) /\ acc.reimbursed = Reimbursement0(s, LiveIn(s))
      BY DEF Books, s
    <2> QED  BY <1>5, <1>6, <1>8, <1>11, <2>1
  <1>15. Books(new)
    BY <1>5, <1>8, <1>10, <1>11, <1>12, <1>13, <1>14 DEF Books
  <1>16. UsedBy(new) = UsedBy(acc) + DeclaredOf(m)
    <2>1. DeclaredOf(m) = 0 /\ UsedBy(acc) \in Nat
      BY <1>2, <1>5, UsedByNat DEF DeclaredOf
    <2> QED  BY <1>8, <1>10, <2>1 DEF UsedBy
  <1> QED  BY <1>8, <1>9, <1>14, <1>15, <1>16 DEF Charges, Charging, new

LEMMA ChargeKeeps ==
    ASSUME NEW acc, IsCopy(acc), Books(acc), NEW m, IsMessage(m), MessageOk(acc, m),
           NEW reimburse \in BOOLEAN
    PROVE  Charges(acc, Charge(acc, m, reimburse), m)
  <1>1. acc.allocations = Allocations /\ acc.policy = Policy /\ DOMAIN acc = Names
    BY DEF IsCopy
  <1>2. acc.used \in [DOMAIN Allocations -> Nat] /\ Within(acc.used)
        /\ acc.consumed \in Nat /\ acc.reimbursed \in Nat /\ UsedBy(acc) \in Nat
    BY UsedByNat DEF Books
  <1>3. ASSUME Allocations # <<>> => DeclaredOf(m) = 0 PROVE Charges(acc, acc, m)
    BY <1>1, <1>2, <1>3 DEF Charges, Charging
  <1>4. CASE m.type = "external" /\ Reserves(acc, m)
    BY <1>4, ReserveKeeps DEF Charge
  <1>5. CASE m.type = "external" /\ ~Reserves(acc, m)
    BY <1>3, <1>5 DEF Charge, DeclaredOf
  <1>6. CASE m.type = "internal" /\ Allocations = <<>>
    BY <1>1, <1>3, <1>6 DEF Charge
  <1>7. CASE m.type = "internal" /\ Allocations # <<>>
    <2> DEFINE i == Resolve(Allocations, m)
               n == acc.used[i] + m.declared
               used == [acc.used EXCEPT ![i] = n]
               new == Charge(acc, m, reimburse)
    <2>1. i # 0 /\ Fits(acc, i, m.declared) /\ m.declared \in Nat
      BY <1>1, <1>7 DEF MessageOk, InternalOk, IsMessage
    <2>2. i \in DOMAIN Allocations /\ i \in Internals /\ i \notin Externals
      BY <1>7, <2>1, ResolveFacts DEF Internals, Externals
    <2>3. n \in Nat /\ n <= Allocations[i].budget /\ acc.used[i] \in Nat
      BY <1>1, <1>2, <2>1, <2>2 DEF Fits
    <2>4. /\ used \in [DOMAIN Allocations -> Nat] /\ used[i] = n
          /\ \A j \in DOMAIN Allocations : j # i => used[j] = acc.used[j]
          /\ Total(used, Internals) = Total(acc.used, Internals) - acc.used[i] + n
      <3> HIDE DEF i, n
      <3> QED  BY <1>2, <2>2, <2>3, UseChanges
    <2>5. new = [acc EXCEPT !.used = used]
      BY <1>1, <1>7 DEF Charge
    <2> HIDE DEF i, new, used
    <2>6. /\ DOMAIN new = Names /\ new.used = used
          /\ \A f \in Names \ {"used"} : new[f] = acc[f]
      BY <1>1, <2>5 DEF Names
    <2>7. Within(used)
      BY <1>2, <2>3, <2>4 DEF Within
    <2>8. \A j \in Externals : used[j] = acc.used[j]
      BY <2>2, <2>4 DEF Externals
    <2>9. new.events = acc.events /\ new.consumed = acc.consumed /\ new.reserved = acc.reserved
          /\ new.reimbursed = acc.reimbursed
      BY <2>6 DEF Names
    <2>10. Books(new)
      BY <2>4, <2>6, <2>7, <2>8, <2>9 DEF Books
    <2>11. UsedBy(new) = UsedBy(acc) + DeclaredOf(m)
      <3>1. DeclaredOf(m) = m.declared
        BY <1>7 DEF DeclaredOf
      <3> QED  BY <1>2, <2>1, <2>3, <2>4, <2>6, <3>1 DEF UsedBy
    <2> QED  BY <1>2, <2>6, <2>9, <2>10, <2>11 DEF Charges, Charging, new, Booked
  <1>8. m.type \in {"internal", "external"}
    BY DEF IsMessage, Types
  <1> QED  BY <1>4, <1>5, <1>6, <1>7, <1>8

-----------------------------------------------------------------------------
(* Executing a message that was charged at the reveal.                     *)

LEMMA FirstFacts ==
    ASSUME NEW S \in SUBSET Nat, First(S) # 0
    PROVE  First(S) \in S
  <1>1. S # {}
    BY DEF First
  <1>2. \E n \in S : \A k \in S : n <= k
    BY <1>1, LeastNumber
  <1> QED  BY <1>1, <1>2 DEF First, Min

Executes(acc, new) ==
    /\ Books(new) /\ Charging(acc, new)
    /\ new.consumed + acc.reimbursed = acc.consumed + new.reimbursed
    /\ UsedBy(new) = UsedBy(acc)

LEMMA ExecuteKeeps ==
    ASSUME NEW acc, IsCopy(acc), Books(acc), NEW m, IsMessage(m)
    PROVE  /\ Executes(acc, ExecuteOne(acc, m))
           /\ m.type # "external" \/ Unexecuted(acc, m) = 0 => ExecuteOne(acc, m) = acc
  <1> DEFINE s == acc.events
             x == Unexecuted(acc, m)
             due == Reimbursement(s[x], m)
             left == s[x].reservation - due
             e == [s[x] EXCEPT !.reimbursement = due, !.remainder = left, !.executed = TRUE]
             events == [s EXCEPT ![x] = e]
             new == ExecuteOne(acc, m)
  <1>1. DOMAIN acc = Names
    BY DEF IsCopy
  <1>2. acc.used \in [DOMAIN Allocations -> Nat] /\ AreEvents(s)
        /\ acc.consumed \in Nat /\ acc.reserved \in Nat /\ acc.reimbursed \in Nat
    BY DEF Books
  <1>3. m.type # "external" \/ x = 0 => new = acc
    BY DEF ExecuteOne
  <1>4. Executes(acc, acc)
    BY <1>1, <1>2 DEF Executes, Charging
  <1>5. CASE m.type # "external" \/ x = 0
    BY <1>3, <1>4, <1>5
  <1>6. CASE m.type = "external" /\ x # 0
    <2>1. DOMAIN s \in SUBSET Nat
      BY <1>2, SeqFacts DEF AreEvents
    <2>2. x \in {i \in DOMAIN s : SameTarget(s[i], m) /\ ~s[i].executed /\ ~s[i].unreserved}
      <3> DEFINE S == {i \in DOMAIN s : SameTarget(s[i], m) /\ ~s[i].executed /\ ~s[i].unreserved}
      <3>1. S \in SUBSET Nat /\ x = First(S)
        BY <2>1 DEF Unexecuted
      <3> HIDE DEF S, x
      <3>2. x \in S
        BY <1>6, <3>1, FirstFacts
      <3> QED  BY <3>2 DEF S
    <2>3. x \in LiveIn(s) /\ ~s[x].executed /\ x \in DOMAIN s
      BY <2>2 DEF LiveIn
    <2>4. IsEvent(s[x])
      BY <1>2, <2>3 DEF AreEvents
    <2>5. due \in Nat
      <3>1. m.gasUsed \in Nat /\ s[x].gasLimit \in Nat /\ s[x].price \in Nat /\ s[x].reservation \in Nat
        BY <2>4 DEF IsEvent, IsMessage
      <3> QED  BY <3>1, LeastFacts, NatTimes DEF Reimbursement
    <2>6. /\ DOMAIN new = Names /\ new.used = acc.used /\ new.events = events
          /\ new.consumed = acc.consumed + due /\ new.reimbursed = acc.reimbursed + due
          /\ new.reserved = acc.reserved
          /\ \A f \in Names \ Booked : new[f] = acc[f]
      <3> HIDE DEF x, due
      <3> QED  BY <1>1, <1>6, <2>3 DEF ExecuteOne, Names, Booked, x, due
    <2>7. /\ DOMAIN e = EventNames /\ e.reimbursement = due /\ e.executed = TRUE
          /\ e.unreserved = s[x].unreserved /\ e.node = s[x].node /\ e.reservation = s[x].reservation
          /\ e.price = s[x].price /\ e.gasLimit = s[x].gasLimit
      <3> HIDE DEF x, due, left
      <3> QED  BY <2>4 DEF IsEvent, EventNames
    <2>8. s[x].reimbursement = 0
      BY <2>3, <2>4 DEF IsEvent
    <2> HIDE DEF s, x, due, left, e, new
    <2>9. IsEvent(e)
      BY <2>4, <2>5, <2>7 DEF IsEvent
    <2>10. /\ AreEvents(events)
           /\ Reservation0(events, LiveIn(events)) = Reservation0(s, LiveIn(s))
           /\ Reimbursement0(events, LiveIn(events)) = due + Reimbursement0(s, LiveIn(s))
           /\ \A i : Reservation0(events, OnNode(events, i)) = Reservation0(s, OnNode(s, i))
      BY <1>2, <2>3, <2>5, <2>7, <2>8, <2>9, EventExecuted
    <2> HIDE DEF events
    <2>11. Books(new)
      <3>1. /\ acc.reserved = Reservation0(s, LiveIn(s)) /\ acc.reimbursed = Reimbursement0(s, LiveIn(s))
            /\ \A i \in Externals : acc.used[i] = Reservation0(s, OnNode(s, i))
            /\ Within(acc.used)
        BY DEF Books, s
      <3>2. new.reimbursed = Reimbursement0(events, LiveIn(events))
        BY <1>2, <2>5, <2>6, <2>10, <3>1
      <3>3. new.consumed \in Nat /\ new.reimbursed \in Nat
        BY <1>2, <2>5, <2>6
      <3> QED  BY <1>2, <2>6, <2>10, <3>1, <3>2, <3>3 DEF Books
    <2>12. new.consumed + acc.reimbursed = acc.consumed + new.reimbursed
      BY <1>2, <2>5, <2>6
    <2>13. UsedBy(new) = UsedBy(acc)
      BY <2>6 DEF UsedBy
    <2> QED  BY <1>6, <2>6, <2>11, <2>12, <2>13 DEF Executes, Charging, new, x
  <1> QED  BY <1>3, <1>5, <1>6

-----------------------------------------------------------------------------
(* Taking back what was charged.                                           *)

Known(m) == IsMessage(m) /\ (m.type = "internal" /\ Allocations # <<>> => Resolve(Allocations, m) # 0)
TooMuch(acc, m, dispatched) ==
    /\ m.type = "internal" /\ ~(dispatched /\ m.onAcceptance) /\ Resolve(acc.allocations, m) # 0
    /\ m.declared > acc.used[Resolve(acc.allocations, m)]
Unwinding(acc, new, tooMuch) ==
    /\ Books(new) /\ Charging(acc, new)
    /\ new.consumed <= acc.consumed
    /\ Balanced(acc, TRUE) => Balanced(new, TRUE)
    /\ ~tooMuch /\ Balanced(acc, FALSE) => Balanced(new, FALSE)

LEMMA UnwindEvent ==
    ASSUME NEW acc, IsCopy(acc), Books(acc), NEW m, NEW dispatched \in BOOLEAN,
           m.type = "external", Reserved(acc, m) # 0
    PROVE  Unwinding(acc, UnwindOne(acc, m, dispatched), FALSE)
  <1> DEFINE s == acc.events
             x == Reserved(acc, m)
             i == s[x].node
             r == s[x].reservation
             b == s[x].reimbursement
             e == [s[x] EXCEPT !.unreserved = TRUE]
             events == [s EXCEPT ![x] = e]
             n == AtLeastZero(acc.used[i] - r)
             used == [acc.used EXCEPT ![i] = n]
             new == UnwindOne(acc, m, dispatched)
  <1>1. DOMAIN acc = Names /\ acc.allocations = Allocations
    BY DEF IsCopy
  <1>2. acc.used \in [DOMAIN Allocations -> Nat] /\ AreEvents(s) /\ Within(acc.used)
        /\ acc.consumed \in Nat /\ acc.reserved \in Nat /\ acc.reimbursed \in Nat
    BY DEF Books
  <1>3. DOMAIN s \in SUBSET Nat
    BY <1>2, SeqFacts DEF AreEvents
  <1>4. x \in {j \in DOMAIN s : SameTarget(s[j], m) /\ ~s[j].unreserved}
    <2> DEFINE S == {j \in DOMAIN s : SameTarget(s[j], m) /\ ~s[j].unreserved}
    <2>1. S \in SUBSET Nat /\ x = First(S)
      BY <1>3 DEF Reserved
    <2> HIDE DEF S, x
    <2>2. x \in S
      BY <2>1, FirstFacts DEF x
    <2> QED  BY <2>2 DEF S
  <1>5. x \in LiveIn(s) /\ x \in DOMAIN s /\ x \in OnNode(s, i)
    BY <1>4 DEF LiveIn, OnNode
  <1>6. IsEvent(s[x])
    BY <1>2, <1>5 DEF AreEvents
  <1>7. r \in Nat /\ b \in Nat /\ i \in DOMAIN Allocations /\ i \in Externals /\ i \notin Internals
    BY <1>6 DEF IsEvent, Externals, Internals
  <1>8. /\ acc.reserved = Reservation0(s, LiveIn(s)) /\ acc.reimbursed = Reimbursement0(s, LiveIn(s))
        /\ \A j \in Externals : acc.used[j] = Reservation0(s, OnNode(s, j))
    BY DEF Books
  <1>9. r <= acc.reserved /\ b <= acc.reimbursed /\ r <= acc.used[i]
    <2>1. LiveIn(s) \in SUBSET DOMAIN s /\ OnNode(s, i) \in SUBSET DOMAIN s
      BY DEF LiveIn, OnNode
    <2> HIDE DEF s, x, i
    <2> QED  BY <1>2, <1>5, <1>7, <1>8, <2>1, EventFields
  <1>10. n = acc.used[i] - r /\ n \in Nat
    BY <1>2, <1>7, <1>9 DEF AtLeastZero
  <1>11. /\ DOMAIN new = Names /\ new.used = used /\ new.events = events
         /\ new.consumed = AtLeastZero(acc.consumed - b)
         /\ new.reimbursed = AtLeastZero(acc.reimbursed - b)
         /\ new.reserved = AtLeastZero(acc.reserved - r)
         /\ \A f \in Names \ Booked : new[f] = acc[f]
    <2> HIDE DEF x
    <2> QED  BY <1>1, <1>5 DEF UnwindOne, Names, Booked, x
  <1>12. /\ used \in [DOMAIN Allocations -> Nat] /\ used[i] = n
         /\ \A j \in DOMAIN Allocations : j # i => used[j] = acc.used[j]
         /\ Total(used, Internals) = Total(acc.used, Internals)
    <2> HIDE DEF i, n
    <2> QED  BY <1>2, <1>7, <1>10, UseChanges
  <1>13. /\ AreEvents(events)
         /\ Reservation0(s, LiveIn(s)) = r + Reservation0(events, LiveIn(events))
         /\ Reimbursement0(s, LiveIn(s)) = b + Reimbursement0(events, LiveIn(events))
         /\ Reservation0(s, OnNode(s, i)) = r + Reservation0(events, OnNode(events, i))
         /\ \A j : j # i => Reservation0(events, OnNode(events, j)) = Reservation0(s, OnNode(s, j))
    <2>1. /\ AreEvents(s) /\ x \in LiveIn(s) /\ IsEvent(e) /\ e.unreserved = TRUE
          /\ e.node = s[x].node /\ e.reservation = s[x].reservation
          /\ e.reimbursement = s[x].reimbursement
      <3> HIDE DEF x
      <3> QED  BY <1>2, <1>5, <1>6 DEF IsEvent, EventNames
    <2> HIDE DEF s, x, e
    <2>2. TakenBack(s, events, x)
      BY <2>1, EventTakenBack
    <2> QED  BY <2>2 DEF TakenBack
  <1> HIDE DEF s, x, i, r, b, e, events, n, used, new
  <1>14. /\ new.reserved = acc.reserved - r /\ new.reserved \in Nat
         /\ new.reimbursed = acc.reimbursed - b /\ new.reimbursed \in Nat
         /\ new.consumed \in Nat /\ new.consumed <= acc.consumed
         /\ acc.consumed >= b => new.consumed = acc.consumed - b
         /\ acc.consumed < b => new.consumed = 0
    BY <1>2, <1>7, <1>9, <1>11 DEF AtLeastZero
  <1> DEFINE Held == Reservation0(events, LiveIn(events))
             Paid == Reimbursement0(events, LiveIn(events))
             On(j) == Reservation0(events, OnNode(events, j))
  <1>15. Held \in Nat /\ Paid \in Nat /\ \A j : On(j) \in Nat
    <2>1. LiveIn(events) \in SUBSET DOMAIN events /\ \A j : OnNode(events, j) \in SUBSET DOMAIN events
      BY DEF LiveIn, OnNode
    <2> QED  BY <1>13, <2>1, EventFields
  <1>16. new.reserved = Held /\ new.reimbursed = Paid
    BY <1>2, <1>7, <1>8, <1>13, <1>14, <1>15
  <1>17. Within(used)
    <2>1. n <= acc.used[i] /\ acc.used[i] \in Nat /\ Allocations[i].budget \in Nat
      BY <1>2, <1>7, <1>10, NodeFacts
    <2> QED  BY <1>2, <1>7, <1>10, <1>12, <2>1 DEF Within
  <1>18. ASSUME NEW j \in Externals PROVE used[j] = Reservation0(events, OnNode(events, j))
    <2>1. j \in DOMAIN Allocations
      BY DEF Externals
    <2>2. CASE j = i
      BY <1>2, <1>7, <1>8, <1>10, <1>12, <1>13, <1>15, <2>1, <2>2
    <2>3. CASE j # i
      BY <1>8, <1>12, <1>13, <2>1, <2>3
    <2> QED  BY <2>2, <2>3
  <1>19. Books(new)
    BY <1>11, <1>12, <1>13, <1>14, <1>17, <1>18, <1>16 DEF Books
  <1>20. UsedBy(new) = UsedBy(acc) /\ UsedBy(acc) \in Nat
    BY <1>2, <1>11, <1>12, UsedByNat DEF UsedBy
  <1>21. Balanced(acc, TRUE) => Balanced(new, TRUE)
    <2>1. \A c, d, v, w, y \in Nat : /\ c <= v + w /\ y <= v /\ (c >= y => d = c - y) /\ (c < y => d = 0)
                                     => d <= (v - y) + w
      OBVIOUS
    <2> QED  BY <1>2, <1>7, <1>9, <1>14, <1>20, <2>1 DEF Balanced, UsedBy
  <1>22. Balanced(acc, FALSE) => Balanced(new, FALSE)
    <2>1. \A c, d, v, w, y \in Nat : /\ c = v + w /\ y <= v /\ (c >= y => d = c - y)
                                     => d = (v - y) + w
      OBVIOUS
    <2>2. \A v, w \in Nat : v = w => v <= w
      OBVIOUS
    <2> QED  BY <1>2, <1>7, <1>9, <1>14, <1>20, <2>1, <2>2 DEF Balanced, UsedBy
  <1> QED  BY <1>11, <1>14, <1>19, <1>21, <1>22 DEF Unwinding, Charging, new

LEMMA UnwindKeeps ==
    ASSUME NEW acc, IsCopy(acc), Books(acc), NEW m, Known(m), NEW dispatched \in BOOLEAN
    PROVE  Unwinding(acc, UnwindOne(acc, m, dispatched), TooMuch(acc, m, dispatched))
  <1> DEFINE i == Resolve(Allocations, m)
             d == m.declared
             c == AtLeastZero(acc.consumed - d)
             n == AtLeastZero(acc.used[i] - d)
             used == [acc.used EXCEPT ![i] = n]
             new == UnwindOne(acc, m, dispatched)
  <1>1. DOMAIN acc = Names /\ acc.allocations = Allocations
    BY DEF IsCopy
  <1>2. acc.used \in [DOMAIN Allocations -> Nat] /\ Within(acc.used)
        /\ acc.consumed \in Nat /\ acc.reserved \in Nat /\ acc.reimbursed \in Nat
        /\ UsedBy(acc) \in Nat /\ \A j \in Internals : acc.used[j] <= UsedBy(acc)
    BY UsedByNat DEF Books
  <1>3. m.type \in {"internal", "external"} /\ d \in Nat
    BY DEF Known, IsMessage, Types
  <1>4. ASSUME NEW much PROVE Unwinding(acc, acc, much)
    <2>1. Charging(acc, acc) /\ acc.consumed <= acc.consumed
      BY <1>1, <1>2 DEF Charging
    <2> QED  BY <2>1, Zenon DEF Unwinding
  <1>5. c \in Nat /\ c <= acc.consumed /\ (acc.consumed >= d => c = acc.consumed - d)
        /\ (acc.consumed < d => c = 0)
    BY <1>2, <1>3 DEF AtLeastZero
  <1>6. CASE m.type = "external"
    <2>1. CASE Reserved(acc, m) = 0
      <3>1. new = acc
        BY <1>6, <2>1 DEF UnwindOne
      <3> QED  BY <1>4, <3>1
    <2>2. CASE Reserved(acc, m) # 0
      <3>1. ~TooMuch(acc, m, dispatched)
        BY <1>6 DEF TooMuch
      <3>2. Unwinding(acc, new, FALSE)
        BY <1>6, <2>2, UnwindEvent
      <3> QED  BY <3>1, <3>2 DEF Unwinding
    <2> QED  BY <2>1, <2>2
  <1>7. CASE m.type = "internal" /\ ((dispatched /\ m.onAcceptance) \/ d <= 0)
    <2>1. new = acc
      BY <1>7 DEF UnwindOne
    <2> QED  BY <1>4, <2>1
  <1>8. CASE m.type = "internal" /\ ~((dispatched /\ m.onAcceptance) \/ d <= 0) /\ i = 0
    <2>1. Allocations = <<>>
      BY <1>8 DEF Known
    <2>2. new = [acc EXCEPT !.consumed = c]
      BY <1>1, <1>8 DEF UnwindOne
    <2> HIDE DEF new, c
    <2>3. /\ DOMAIN new = Names /\ new.consumed = c
          /\ \A f \in Names \ {"consumed"} : new[f] = acc[f]
      BY <1>1, <2>2 DEF Names
    <2>4. new.used = acc.used /\ new.events = acc.events /\ new.reserved = acc.reserved
          /\ new.reimbursed = acc.reimbursed
      BY <2>3 DEF Names
    <2>5. Books(new)
      BY <1>5, <2>3, <2>4 DEF Books
    <2> QED  BY <1>5, <2>1, <2>3, <2>5 DEF Unwinding, Charging, Booked, Balanced, new
  <1>9. CASE m.type = "internal" /\ ~((dispatched /\ m.onAcceptance) \/ d <= 0) /\ i # 0
    <2>1. i \in DOMAIN Allocations /\ i \in Internals /\ i \notin Externals
      BY <1>9, ResolveFacts DEF Internals, Externals
    <2>2. acc.used[i] \in Nat /\ n \in Nat /\ n <= acc.used[i]
          /\ (acc.used[i] >= d => n = acc.used[i] - d) /\ (acc.used[i] < d => n = 0)
      BY <1>2, <1>3, <2>1 DEF AtLeastZero
    <2>3. new = [acc EXCEPT !.consumed = c, !.used = used]
      BY <1>1, <1>9 DEF UnwindOne
    <2>4. /\ used \in [DOMAIN Allocations -> Nat] /\ used[i] = n
          /\ \A j \in DOMAIN Allocations : j # i => used[j] = acc.used[j]
          /\ Total(used, Internals) = Total(acc.used, Internals) - acc.used[i] + n
      <3> HIDE DEF i, n
      <3> QED  BY <1>2, <2>1, <2>2, UseChanges
    <2> HIDE DEF new, c, n, used, i
    <2>5. /\ DOMAIN new = Names /\ new.consumed = c /\ new.used = used
          /\ \A f \in Names \ {"consumed", "used"} : new[f] = acc[f]
      BY <1>1, <2>3 DEF Names
    <2>6. new.events = acc.events /\ new.reserved = acc.reserved /\ new.reimbursed = acc.reimbursed
      BY <2>5 DEF Names
    <2>7. Within(used)
      <3>1. Allocations[i].budget \in Nat
        BY <2>1, NodeFacts
      <3> QED  BY <1>2, <2>1, <2>2, <2>4, <3>1 DEF Within
    <2>8. \A j \in Externals : used[j] = acc.used[j]
      BY <2>1, <2>4 DEF Externals
    <2>9. Books(new)
      BY <1>5, <2>4, <2>5, <2>6, <2>7, <2>8 DEF Books
    <2>10. UsedBy(new) = (UsedBy(acc) - acc.used[i]) + n /\ acc.used[i] <= UsedBy(acc)
      BY <1>2, <2>1, <2>4, <2>5 DEF UsedBy
    <2>11. Balanced(acc, TRUE) => Balanced(new, TRUE)
      <3>1. \A a, z, v, w, u, y, k \in Nat :
              /\ a <= v + w /\ u <= w /\ (a >= y => z = a - y) /\ (a < y => z = 0)
              /\ (u >= y => k = u - y) /\ (u < y => k = 0)
              => z <= v + ((w - u) + k)
        OBVIOUS
      <3>2. ASSUME acc.consumed <= acc.reimbursed + UsedBy(acc)
            PROVE  new.consumed <= new.reimbursed + UsedBy(new)
        BY <1>2, <1>3, <1>5, <2>2, <2>5, <2>6, <2>10, <3>1, <3>2
      <3> QED  BY <3>2 DEF Balanced, UsedBy
    <2>12. ~TooMuch(acc, m, dispatched) /\ Balanced(acc, FALSE) => Balanced(new, FALSE)
      <3>1. \A a, z, v, w, u, y, k \in Nat :
              /\ a = v + w /\ u <= w /\ (a >= y => z = a - y)
              /\ u >= y /\ (u >= y => k = u - y)
              => z = v + ((w - u) + k)
        OBVIOUS
      <3>2. ~TooMuch(acc, m, dispatched) => acc.used[i] >= d
        BY <1>1, <1>3, <1>9, <2>2 DEF TooMuch, i
      <3>3. \A v, w \in Nat : v = w => v <= w
        OBVIOUS
      <3> QED  BY <1>2, <1>3, <1>5, <2>2, <2>5, <2>6, <2>10, <3>1, <3>2, <3>3 DEF Balanced, UsedBy
    <2> QED  BY <1>5, <2>5, <2>9, <2>11, <2>12 DEF Unwinding, Charging, Booked, new
  <1> QED  BY <1>3, <1>6, <1>7, <1>8, <1>9

-----------------------------------------------------------------------------
(* Lists of messages: the record after each of them.                       *)

LEMMA UpTo ==
    ASSUME NEW n \in Nat, NEW C, 0 \in C, \A k \in 1..n : k - 1 \in C => k \in C
    PROVE  n \in C /\ \A k \in 0..n : k \in C
  <1> DEFINE Bad == {k \in 0..n : k \notin C}
  <1>1. ASSUME Bad # {} PROVE FALSE
    <2>1. PICK k \in Bad : \A j \in Bad : k <= j
      <3>1. Bad \in SUBSET Nat
        OBVIOUS
      <3> HIDE DEF Bad
      <3> QED  BY <1>1, <3>1, LeastNumber
    <2>2. k \in 1..n /\ k - 1 \in 0..n /\ k - 1 \notin Bad
      BY <2>1
    <2> QED  BY <2>1, <2>2
  <1> QED  BY <1>1

LEMMA ChargedUnfold ==
    ASSUME NEW acc, NEW msgs, Len(msgs) \in Nat, NEW reimburse
    PROVE  /\ Charged(acc, msgs, reimburse)[0] = acc
           /\ \A i \in 1..Len(msgs) :
                Charged(acc, msgs, reimburse)[i] = Charge(Charged(acc, msgs, reimburse)[i - 1], msgs[i], reimburse)
  <1> DEFINE n == Len(msgs)
             Run(k, g) == g = [i \in 0..k |-> IF i = 0 THEN acc ELSE Charge(g[i - 1], msgs[i], reimburse)]
             C == {k \in 0..n : \E g : Run(k, g)}
  <1>1. 0 \in C
    <2> DEFINE h == [i \in 0..0 |-> acc]
    <2>1. Run(0, h) /\ 0 \in 0..n
      OBVIOUS
    <2> HIDE DEF h
    <2> QED  BY <2>1
  <1>2. ASSUME NEW k \in 1..n, k - 1 \in C PROVE k \in C
    <2>1. PICK g : Run(k - 1, g)
      BY <1>2
    <2> DEFINE h == [i \in 0..k |-> IF i = k THEN Charge(g[k - 1], msgs[k], reimburse) ELSE g[i]]
    <2>2. ASSUME NEW i \in 0..k
          PROVE  h[i] = IF i = 0 THEN acc ELSE Charge(h[i - 1], msgs[i], reimburse)
      <3>1. CASE i = k
        BY <3>1
      <3>2. CASE i # k
        <4>1. i \in 0..(k - 1) /\ h[i] = g[i] /\ (i # 0 => h[i - 1] = g[i - 1])
          BY <3>2
        <4>2. g[i] = IF i = 0 THEN acc ELSE Charge(g[i - 1], msgs[i], reimburse)
          BY <2>1, <4>1
        <4> QED  BY <4>1, <4>2
      <3> QED  BY <3>1, <3>2
    <2>3. Run(k, h)
      BY <2>2
    <2> HIDE DEF h
    <2> QED  BY <2>3
  <1>3. n \in C
    <2> HIDE DEF C
    <2> QED  BY <1>1, <1>2, UpTo
  <1> DEFINE it == CHOOSE g : Run(n, g)
  <1>4. Run(n, it)
    BY <1>3
  <1>5. Charged(acc, msgs, reimburse) = it
    BY DEF Charged
  <1> HIDE DEF it
  <1>6. it[0] = acc /\ \A i \in 1..n : it[i] = Charge(it[i - 1], msgs[i], reimburse)
    BY <1>4
  <1> QED  BY <1>5, <1>6

LEMMA ExecutedUnfold ==
    ASSUME NEW acc, NEW msgs, Len(msgs) \in Nat
    PROVE  /\ Executed(acc, msgs)[0] = acc
           /\ \A i \in 1..Len(msgs) :
                Executed(acc, msgs)[i] = ExecuteOne(Executed(acc, msgs)[i - 1], msgs[i])
  <1> DEFINE n == Len(msgs)
             Run(k, g) == g = [i \in 0..k |-> IF i = 0 THEN acc ELSE ExecuteOne(g[i - 1], msgs[i])]
             C == {k \in 0..n : \E g : Run(k, g)}
  <1>1. 0 \in C
    <2> DEFINE h == [i \in 0..0 |-> acc]
    <2>1. Run(0, h) /\ 0 \in 0..n
      OBVIOUS
    <2> HIDE DEF h
    <2> QED  BY <2>1
  <1>2. ASSUME NEW k \in 1..n, k - 1 \in C PROVE k \in C
    <2>1. PICK g : Run(k - 1, g)
      BY <1>2
    <2> DEFINE h == [i \in 0..k |-> IF i = k THEN ExecuteOne(g[k - 1], msgs[k]) ELSE g[i]]
    <2>2. ASSUME NEW i \in 0..k
          PROVE  h[i] = IF i = 0 THEN acc ELSE ExecuteOne(h[i - 1], msgs[i])
      <3>1. CASE i = k
        BY <3>1
      <3>2. CASE i # k
        <4>1. i \in 0..(k - 1) /\ h[i] = g[i] /\ (i # 0 => h[i - 1] = g[i - 1])
          BY <3>2
        <4>2. g[i] = IF i = 0 THEN acc ELSE ExecuteOne(g[i - 1], msgs[i])
          BY <2>1, <4>1
        <4> QED  BY <4>1, <4>2
      <3> QED  BY <3>1, <3>2
    <2>3. Run(k, h)
      BY <2>2
    <2> HIDE DEF h
    <2> QED  BY <2>3
  <1>3. n \in C
    <2> HIDE DEF C
    <2> QED  BY <1>1, <1>2, UpTo
  <1> DEFINE it == CHOOSE g : Run(n, g)
  <1>4. Run(n, it)
    BY <1>3
  <1>5. Executed(acc, msgs) = it
    BY DEF Executed
  <1> HIDE DEF it
  <1>6. it[0] = acc /\ \A i \in 1..n : it[i] = ExecuteOne(it[i - 1], msgs[i])
    BY <1>4
  <1> QED  BY <1>5, <1>6

LEMMA UnwoundUnfold ==
    ASSUME NEW acc, NEW msgs, Len(msgs) \in Nat, NEW dispatched
    PROVE  /\ Unwound(acc, msgs, dispatched)[0] = acc
           /\ \A i \in 1..Len(msgs) :
                Unwound(acc, msgs, dispatched)[i] = UnwindOne(Unwound(acc, msgs, dispatched)[i - 1], msgs[i], dispatched)
  <1> DEFINE n == Len(msgs)
             Run(k, g) == g = [i \in 0..k |-> IF i = 0 THEN acc ELSE UnwindOne(g[i - 1], msgs[i], dispatched)]
             C == {k \in 0..n : \E g : Run(k, g)}
  <1>1. 0 \in C
    <2> DEFINE h == [i \in 0..0 |-> acc]
    <2>1. Run(0, h) /\ 0 \in 0..n
      OBVIOUS
    <2> HIDE DEF h
    <2> QED  BY <2>1
  <1>2. ASSUME NEW k \in 1..n, k - 1 \in C PROVE k \in C
    <2>1. PICK g : Run(k - 1, g)
      BY <1>2
    <2> DEFINE h == [i \in 0..k |-> IF i = k THEN UnwindOne(g[k - 1], msgs[k], dispatched) ELSE g[i]]
    <2>2. ASSUME NEW i \in 0..k
          PROVE  h[i] = IF i = 0 THEN acc ELSE UnwindOne(h[i - 1], msgs[i], dispatched)
      <3>1. CASE i = k
        BY <3>1
      <3>2. CASE i # k
        <4>1. i \in 0..(k - 1) /\ h[i] = g[i] /\ (i # 0 => h[i - 1] = g[i - 1])
          BY <3>2
        <4>2. g[i] = IF i = 0 THEN acc ELSE UnwindOne(g[i - 1], msgs[i], dispatched)
          BY <2>1, <4>1
        <4> QED  BY <4>1, <4>2
      <3> QED  BY <3>1, <3>2
    <2>3. Run(k, h)
      BY <2>2
    <2> HIDE DEF h
    <2> QED  BY <2>3
  <1>3. n \in C
    <2> HIDE DEF C
    <2> QED  BY <1>1, <1>2, UpTo
  <1> DEFINE it == CHOOSE g : Run(n, g)
  <1>4. Run(n, it)
    BY <1>3
  <1>5. Unwound(acc, msgs, dispatched) = it
    BY DEF Unwound
  <1> HIDE DEF it
  <1>6. it[0] = acc /\ \A i \in 1..n : it[i] = UnwindOne(it[i - 1], msgs[i], dispatched)
    BY <1>4
  <1> QED  BY <1>5, <1>6

-----------------------------------------------------------------------------
(* What a contract emits, completed from the allocations.                  *)

Messages(msgs) == IsSeq(msgs) /\ \A i \in DOMAIN msgs : IsMessage(msgs[i])

LEMMA FilledFacts ==
    ASSUME NEW acc, IsCopy(acc), NEW m, IsMessage(m)
    PROVE  /\ m.type = "internal" /\ FillOk(acc, m) => Known(FillPayload(acc, m))
           /\ FillOk(acc, m) => IsMessage(FillPayload(acc, m))
           /\ m.type = "external" => Known(Unmatched(m))
  <1> DEFINE i == Resolve(Allocations, m)
             new == FillPayload(acc, m)
             like(n) == n.type = m.type /\ n.to = m.to /\ n.key = m.key /\ n.gasUsed = m.gasUsed
  <1>1. acc.allocations = Allocations
    BY DEF IsCopy
  <1>2. like(Unmatched(m)) /\ Unmatched(m).declared = m.declared
    BY DEF Unmatched
  <1>3. m.type \in {"internal", "external"} /\ m.declared \in Nat /\ m.gasUsed \in Nat
    BY DEF IsMessage, Types
  <1>4. IsMessage(Unmatched(m))
    BY <1>2, <1>3 DEF IsMessage, Types
  <1>5. like(new)
    BY <1>1 DEF FillPayload, Unmatched
  <1>6. \A n : like(n) => Resolve(Allocations, n) = i
    BY DEF Resolve, Matching
  <1>7. FillOk(acc, m) /\ Allocations # <<>> => i # 0
    BY <1>1 DEF FillOk
  <1>8. FillOk(acc, m) => new.declared \in Nat
    <2>1. CASE Allocations = <<>> \/ m.type = "external"
      BY <1>1, <1>2, <1>3, <2>1 DEF FillPayload, Unmatched
    <2>2. CASE FillOk(acc, m) /\ Allocations # <<>> /\ m.type # "external"
      <3>1. Allocations[i].budget \in Nat
        BY <1>7, <2>2, ResolveFacts, NodeFacts
      <3>2. new.declared = IF m.declared = 0 THEN Allocations[i].budget ELSE m.declared
        BY <1>1, <2>2 DEF FillPayload, Unmatched
      <3> QED  BY <1>3, <3>1, <3>2
    <2> QED  BY <2>1, <2>2
  <1> HIDE DEF new, i
  <1>9. FillOk(acc, m) => IsMessage(new)
    BY <1>3, <1>5, <1>8 DEF IsMessage, Types
  <1>10. m.type = "internal" /\ FillOk(acc, m) => Known(new)
    BY <1>5, <1>6, <1>7, <1>9 DEF Known
  <1>11. m.type = "external" => Known(Unmatched(m))
    BY <1>2, <1>4 DEF Known
  <1> QED  BY <1>9, <1>10, <1>11 DEF new

LEMMA PayloadsFacts ==
    ASSUME NEW acc, IsCopy(acc), NEW msgs, Messages(msgs), FilledOk(acc, msgs)
    PROVE  /\ Messages(Payloads(acc, msgs)) /\ Len(Payloads(acc, msgs)) = Len(msgs)
           /\ \A i \in DOMAIN Payloads(acc, msgs) : Known(Payloads(acc, msgs)[i])
  <1> DEFINE p == Payloads(acc, msgs)
             n == Len(msgs)
  <1>1. n \in Nat /\ DOMAIN msgs = 1..n
    BY SeqFacts DEF Messages
  <1>2. ASSUME NEW i \in 1..n PROVE Known(p[i])
    <2>1. IsMessage(msgs[i]) /\ (msgs[i].type = "internal" => FillOk(acc, msgs[i]))
      BY <1>1 DEF Messages, FilledOk
    <2>2. msgs[i].type \in {"internal", "external"}
      BY <2>1 DEF IsMessage, Types
    <2>3. p[i] = IF msgs[i].type = "external" THEN Unmatched(msgs[i]) ELSE FillPayload(acc, msgs[i])
      BY <1>1 DEF Payloads
    <2> HIDE DEF p
    <2>4. CASE msgs[i].type = "external"
      BY <2>1, <2>3, <2>4, FilledFacts
    <2>5. CASE msgs[i].type = "internal"
      BY <2>1, <2>3, <2>5, FilledFacts
    <2> QED  BY <2>2, <2>4, <2>5
  <1>3. DOMAIN p = 1..n /\ p = [i \in 1..n |-> p[i]]
    BY <1>1 DEF Payloads
  <1>4. IsSeq(p) /\ Len(p) = n
    <2> HIDE DEF p, n
    <2> QED  BY <1>1, <1>3, FunctionIsSeq
  <1> HIDE DEF p
  <1> QED  BY <1>2, <1>3, <1>4 DEF Messages, Known, p

IsReceipt(r) == r.receiptFee \in Nat /\ r.storageFee \in Nat /\ r.ok \in BOOLEAN /\ Messages(r.messages)

LEMMA ReturnedFacts ==
    ASSUME NEW r \in Returned
    PROVE  IsReceipt(r)
  <1>1. CASE r \in Receipts
    BY <1>1, InputsAreNumbers DEF IsReceipt, Messages, IsSeq
  <1>2. CASE r = NoReceipt
    BY <1>2 DEF NoReceipt, IsReceipt, Messages, IsSeq, Elements
  <1> QED  BY <1>1, <1>2 DEF Returned

LEMMA ReceiptMessagesFacts ==
    ASSUME NEW acc, IsCopy(acc), NEW r, IsReceipt(r), ReceiptOk(acc, r)
    PROVE  Messages(ReceiptMessages(acc, r))
  <1> DEFINE p == ReceiptMessages(acc, r)
             n == Len(r.messages)
  <1>1. CASE ~r.ok
    BY <1>1 DEF ReceiptMessages, Messages, IsSeq, Elements
  <1>2. CASE r.ok
    <2>1. n \in Nat /\ DOMAIN r.messages = 1..n
      BY SeqFacts DEF IsReceipt, Messages
    <2>2. DOMAIN p = 1..n /\ \A i \in 1..n : p[i] = FillPayload(acc, r.messages[i])
      BY <1>2, <2>1 DEF ReceiptMessages
    <2>3. p = [i \in 1..n |-> p[i]]
      BY <1>2, <2>1 DEF ReceiptMessages
    <2> HIDE DEF p, n
    <2>4. IsSeq(p)
      BY <2>1, <2>3, FunctionIsSeq
    <2>5. ASSUME NEW i \in 1..n PROVE IsMessage(p[i])
      <3>1. IsMessage(r.messages[i]) /\ FillOk(acc, r.messages[i])
        BY <1>2, <2>1 DEF IsReceipt, Messages, ReceiptOk
      <3> QED  BY <2>2, <3>1, FilledFacts
    <2> QED  BY <2>2, <2>4, <2>5 DEF Messages, p
  <1> QED  BY <1>1, <1>2

-----------------------------------------------------------------------------
(* A copy stays good when messages are charged to it, executed, or taken   *)
(* back.                                                                   *)

Keeps(acc, new, over) == Good(new, over) /\ Charging(acc, new)

LEMMA ChargingIsCopy ==
    ASSUME NEW acc, IsCopy(acc), NEW new, Charging(acc, new)
    PROVE  IsCopy(new) /\ \A more : Charging(new, more) => Charging(acc, more)
  <1>1. new.allocations = acc.allocations /\ new.policy = acc.policy /\ new.fees = acc.fees
        /\ DOMAIN new = Names
    BY DEF Charging, Names, Booked
  <1> QED  BY <1>1 DEF IsCopy, Charging

LEMMA PotsKept ==
    ASSUME NEW acc, Pots(acc), NEW new, Charging(acc, new), acc.status # "settled",
           acc.status = "active" => new.consumed <= new.message
    PROVE  Pots(new)
  <1>1. /\ new.status = acc.status /\ new.paid = acc.paid /\ new.primary = acc.primary
        /\ new.message = acc.message /\ new.spent = acc.spent /\ new.refunded = acc.refunded
        /\ new.messageRefunded = acc.messageRefunded /\ new.totalRefunded = acc.totalRefunded
        /\ new.execConsumed = acc.execConsumed /\ new.bonds = acc.bonds
        /\ new.settlements = acc.settlements
    BY DEF Charging, Names, Booked
  <1> QED  BY <1>1 DEF Pots

(* The flags say what was charged so far, and count nothing.               *)
Flags == {"recorded", "fromReceipt", "atReveal"}
LEMMA FlagsAreFree ==
    ASSUME NEW acc, NEW new, DOMAIN new = Names, \A f \in Names \ Flags : new[f] = acc[f], NEW over,
           NEW old, Keeps(old, acc, over)
    PROVE  Keeps(old, new, over)
  <1>1. /\ new.allocations = acc.allocations /\ new.policy = acc.policy /\ new.fees = acc.fees
        /\ new.used = acc.used /\ new.events = acc.events /\ new.consumed = acc.consumed
        /\ new.reserved = acc.reserved /\ new.reimbursed = acc.reimbursed
    BY DEF Names, Flags
  <1>2. IsCopy(new) /\ Books(new)
    BY <1>1 DEF Keeps, Good, IsCopy, Books
  <1>3. Balanced(new, over)
    BY <1>1 DEF Keeps, Good, Balanced
  <1>4. /\ new.status = acc.status /\ new.paid = acc.paid /\ new.primary = acc.primary
        /\ new.message = acc.message /\ new.spent = acc.spent /\ new.refunded = acc.refunded
        /\ new.messageRefunded = acc.messageRefunded /\ new.totalRefunded = acc.totalRefunded
        /\ new.execConsumed = acc.execConsumed /\ new.bonds = acc.bonds
        /\ new.settlements = acc.settlements
    BY DEF Names, Flags
  <1>5. Pots(new)
    BY <1>1, <1>4 DEF Keeps, Good, Pots
  <1>6. Charging(old, new)
    BY DEF Keeps, Charging, Booked, Flags, Names
  <1> QED  BY <1>2, <1>3, <1>5, <1>6 DEF Keeps, Good

(* The sum of what a list declares, one message more.                      *)
DeclaredBy(msgs, k) == Total([i \in DOMAIN msgs |-> DeclaredOf(msgs[i])], 1..k)
LEMMA DeclaredFacts ==
    ASSUME NEW msgs, Messages(msgs)
    PROVE  /\ DeclaredBy(msgs, 0) = 0
           /\ \A k \in 1..Len(msgs) :
                DeclaredBy(msgs, k) = DeclaredBy(msgs, k - 1) + DeclaredOf(msgs[k])
           /\ \A k \in 0..Len(msgs) : DeclaredBy(msgs, k) \in Nat
           /\ \A k \in DOMAIN msgs : DeclaredOf(msgs[k]) \in Nat
  <1> DEFINE f == [i \in DOMAIN msgs |-> DeclaredOf(msgs[i])]
  <1>1. Len(msgs) \in Nat /\ DOMAIN msgs = 1..Len(msgs)
    BY SeqFacts DEF Messages
  <1>2. \A k \in 1..Len(msgs) : f[k] = DeclaredOf(msgs[k]) /\ f[k] \in Nat
    BY <1>1 DEF Messages, IsMessage, DeclaredOf
  <1> HIDE DEF f
  <1>3. \A k \in Nat : IsFiniteSet(1..k)
    BY FS_Interval
  <1>4. Total(f, 1..0) = 0
    <2>1. 1..0 = {}
      OBVIOUS
    <2> QED  BY <2>1, TotalEmpty
  <1>5. ASSUME NEW k \in 1..Len(msgs) PROVE Total(f, 1..k) = f[k] + Total(f, 1..(k - 1))
    <2>1. 1..k = 1..(k - 1) \cup {k} /\ k \notin 1..(k - 1) /\ k - 1 \in Nat
      BY <1>1
    <2>2. \A j \in 1..(k - 1) : f[j] \in Int
      BY <1>1, <1>2
    <2>3. f[k] \in Int /\ IsFiniteSet(1..(k - 1))
      BY <1>2, <1>3, <2>1
    <2> DEFINE S == 1..(k - 1)
    <2>4. 1..k = S \cup {k} /\ k \notin S /\ IsFiniteSet(S) /\ \A j \in S : f[j] \in Int
      BY <2>1, <2>2, <2>3
    <2> HIDE DEF S
    <2>5. Total(f, S \cup {k}) = f[k] + Total(f, S)
      BY <2>3, <2>4, TotalAdd
    <2> QED  BY <2>4, <2>5 DEF S
  <1>6. ASSUME NEW k \in 0..Len(msgs) PROVE Total(f, 1..k) \in Nat
    <2>1. \A j \in 1..k : f[j] \in Nat
      BY <1>1, <1>2
    <2> QED  BY <1>1, <1>3, <2>1, TotalNat
  <1>7. \A k \in 1..Len(msgs) : Total(f, 1..k) = Total(f, 1..(k - 1)) + DeclaredOf(msgs[k])
    <2>1. \A k \in 1..Len(msgs) : k - 1 \in 0..Len(msgs)
      BY <1>1
    <2> QED  BY <1>2, <1>5, <1>6, <2>1
  <1> QED  BY <1>1, <1>2, <1>4, <1>6, <1>7 DEF DeclaredBy, f

LEMMA ChargedKeeps ==
    ASSUME NEW acc, IsCopy(acc), Books(acc), NEW msgs, Messages(msgs), NEW reimburse \in BOOLEAN,
           ConsumeOk(acc, msgs, reimburse)
    PROVE  LET new == Charged(acc, msgs, reimburse)[Len(msgs)]
           IN /\ Books(new) /\ Charging(acc, new)
              /\ new.consumed = acc.consumed /\ acc.reimbursed <= new.reimbursed
              /\ Allocations # <<>> => UsedBy(new) = UsedBy(acc) + DeclaredBy(msgs, Len(msgs))
  <1> DEFINE n == Len(msgs)
             X(k) == Charged(acc, msgs, reimburse)[k]
             P(k) == /\ Books(X(k)) /\ Charging(acc, X(k))
                     /\ X(k).consumed = acc.consumed /\ acc.reimbursed <= X(k).reimbursed
                     /\ Allocations # <<>> => UsedBy(X(k)) = UsedBy(acc) + DeclaredBy(msgs, k)
             C == {k \in 0..n : P(k)}
  <1>1. n \in Nat /\ DOMAIN msgs = 1..n
    BY SeqFacts DEF Messages
  <1>2. X(0) = acc /\ \A k \in 1..n : X(k) = Charge(X(k - 1), msgs[k], reimburse)
    <2>1. Len(msgs) \in Nat
      BY <1>1
    <2> QED  BY <2>1, ChargedUnfold, SMTT(60)
  <1>3. UsedBy(acc) \in Nat /\ acc.reimbursed \in Nat
    BY UsedByNat DEF Books
  <1>4. 0 \in C
    <2>1. Charging(acc, acc)
      BY DEF Charging, IsCopy
    <2> HIDE DEF X
    <2> QED  BY <1>1, <1>2, <1>3, <2>1, DeclaredFacts
  <1>5. ASSUME NEW k \in 1..n, k - 1 \in C PROVE k \in C
    <2> DEFINE old == X(k - 1)
               new == X(k)
    <2>1. P(k - 1)
      BY <1>5
    <2>2. IsMessage(msgs[k]) /\ MessageOk(old, msgs[k]) /\ new = Charge(old, msgs[k], reimburse)
      BY <1>1, <1>2 DEF ConsumeOk, Messages
    <2>3. IsCopy(old)
      BY <2>1, ChargingIsCopy
    <2> HIDE DEF X
    <2>4. Charges(old, new, msgs[k])
      BY <2>1, <2>2, <2>3, ChargeKeeps
    <2>5. Charging(acc, new)
      BY <2>1, <2>4, ChargingIsCopy DEF Charges
    <2>6. acc.reimbursed <= new.reimbursed
      <3>1. old.reimbursed \in Nat /\ new.reimbursed \in Nat
        BY <2>1, <2>4 DEF Books, Charges
      <3> QED  BY <1>3, <2>1, <2>4, <3>1 DEF Charges
    <2>7. Allocations # <<>> => UsedBy(new) = UsedBy(acc) + DeclaredBy(msgs, k)
      <3>1. /\ DeclaredBy(msgs, k) = DeclaredBy(msgs, k - 1) + DeclaredOf(msgs[k])
            /\ DeclaredBy(msgs, k - 1) \in Nat /\ DeclaredOf(msgs[k]) \in Nat
        <4>1. k - 1 \in 0..n /\ k \in DOMAIN msgs
          BY <1>1
        <4> QED  BY <4>1, DeclaredFacts
      <3> QED  BY <1>3, <2>1, <2>4, <3>1 DEF Charges
    <2>8. new.consumed = acc.consumed /\ k \in 0..n /\ Books(new)
      BY <1>1, <2>1, <2>4 DEF Charges
    <2> QED  BY <2>5, <2>6, <2>7, <2>8
  <1>6. n \in C
    <2> HIDE DEF C
    <2> QED  BY <1>1, <1>4, <1>5, UpTo
  <1> QED  BY <1>6

LEMMA ConsumeKeeps ==
    ASSUME NEW acc, NEW over \in BOOLEAN, Good(acc, over), acc.status # "settled",
           NEW msgs, Messages(msgs), NEW reimburse \in BOOLEAN, ConsumeOk(acc, msgs, reimburse)
    PROVE  Keeps(acc, Consume(acc, msgs, reimburse), over)
  <1> DEFINE x == Charged(acc, msgs, reimburse)[Len(msgs)]
             total == Attempted(acc, msgs, reimburse)
             new == Consume(acc, msgs, reimburse)
             d == DeclaredBy(msgs, Len(msgs))
  <1>1. IsCopy(acc) /\ Books(acc) /\ Pots(acc) /\ Balanced(acc, over)
    BY DEF Good
  <1>2. /\ Books(x) /\ Charging(acc, x)
        /\ x.consumed = acc.consumed /\ acc.reimbursed <= x.reimbursed
        /\ Allocations # <<>> => UsedBy(x) = UsedBy(acc) + d
    BY <1>1, ChargedKeeps
  <1>3. d \in Nat
    <2>1. Len(msgs) \in 0..Len(msgs)
      BY SeqFacts DEF Messages
    <2> QED  BY <2>1, DeclaredFacts
  <1>4. total = acc.consumed + d + (x.reimbursed - acc.reimbursed)
    <2>1. DOMAIN msgs = 1..Len(msgs)
      BY SeqFacts DEF Messages
    <2> QED  BY <2>1, SumIsTotal DEF Attempted, DeclaredBy
  <1>5. /\ acc.consumed \in Nat /\ acc.reimbursed \in Nat /\ x.reimbursed \in Nat
        /\ UsedBy(acc) \in Nat /\ UsedBy(x) \in Nat
    BY <1>1, <1>2, UsedByNat DEF Books
  <1>6. total <= acc.message
    BY DEF ConsumeOk
  <1>7. new = [x EXCEPT !.consumed = total, !.recorded = TRUE]
    BY DEF Consume
  <1>8. DOMAIN x = Names /\ x.message = acc.message
    BY <1>2 DEF Charging, Names, Booked
  <1> HIDE DEF x, total, new, d
  <1>9. /\ DOMAIN new = Names /\ new.consumed = total
        /\ \A f \in Names \ {"consumed", "recorded"} : new[f] = x[f]
    BY <1>7, <1>8 DEF Names
  <1>10. /\ new.used = x.used /\ new.events = x.events /\ new.reserved = x.reserved
         /\ new.reimbursed = x.reimbursed /\ new.message = x.message
    BY <1>9 DEF Names
  <1>11. total \in Nat
    BY <1>2, <1>3, <1>4, <1>5
  <1>12. Books(new)
    BY <1>2, <1>9, <1>10, <1>11 DEF Books
  <1>13. Charging(acc, new)
    BY <1>2, <1>9 DEF Charging, Booked
  <1>14. IsCopy(new) /\ Pots(new)
    BY <1>1, <1>6, <1>8, <1>9, <1>10, <1>13, ChargingIsCopy, PotsKept
  <1>15. Balanced(new, over)
    <2>1. UsedBy(new) = UsedBy(x)
      BY <1>10 DEF UsedBy
    <2>2. ASSUME Allocations # <<>>, acc.consumed <= acc.reimbursed + UsedBy(acc)
          PROVE  new.consumed <= new.reimbursed + UsedBy(new)
      <3>1. \A c, r, u, more, y \in Nat : c <= r + u => c + more + (y - r) <= y + (u + more)
        OBVIOUS
      <3>2. total <= x.reimbursed + (UsedBy(acc) + d)
        BY <1>3, <1>4, <1>5, <2>2, <3>1
      <3> QED  BY <1>2, <1>9, <1>10, <2>1, <2>2, <3>2
    <2>3. ASSUME Allocations # <<>>, acc.consumed = acc.reimbursed + UsedBy(acc)
          PROVE  new.consumed = new.reimbursed + UsedBy(new)
      <3>1. \A c, r, u, more, y \in Nat : c = r + u => c + more + (y - r) = y + (u + more)
        OBVIOUS
      <3>2. total = x.reimbursed + (UsedBy(acc) + d)
        BY <1>3, <1>4, <1>5, <2>3, <3>1
      <3> QED  BY <1>2, <1>9, <1>10, <2>1, <2>3, <3>2
    <2> QED  BY <1>1, <2>2, <2>3 DEF Balanced, UsedBy
  <1> QED  BY <1>12, <1>13, <1>14, <1>15 DEF Keeps, Good, new

LEMMA ExecutedKeeps ==
    ASSUME NEW acc, NEW over \in BOOLEAN, Good(acc, over), acc.status # "settled",
           NEW msgs, Messages(msgs), ExecutionOk(acc, msgs)
    PROVE  Keeps(acc, RecordExecution(acc, msgs), over)
  <1> DEFINE n == Len(msgs)
             X(k) == Executed(acc, msgs)[k]
             C == {k \in 0..n : Keeps(acc, X(k), over)}
  <1>1. n \in Nat /\ DOMAIN msgs = 1..n
    BY SeqFacts DEF Messages
  <1>2. X(0) = acc /\ \A k \in 1..n : X(k) = ExecuteOne(X(k - 1), msgs[k])
    <2>1. Len(msgs) \in Nat
      BY <1>1
    <2> QED  BY <2>1, ExecutedUnfold, SMTT(60)
  <1>3. 0 \in C
    <2>1. Charging(acc, acc)
      BY DEF Charging, Good, IsCopy
    <2> HIDE DEF X
    <2> QED  BY <1>1, <1>2, <2>1 DEF Keeps
  <1>4. ASSUME NEW k \in 1..n, k - 1 \in C PROVE k \in C
    <2> DEFINE old == X(k - 1)
               new == X(k)
               m == msgs[k]
    <2>1. Keeps(acc, old, over)
      BY <1>4
    <2>2. IsMessage(m) /\ new = ExecuteOne(old, m)
      BY <1>1, <1>2 DEF Messages
    <2>3. m.type = "external" /\ Unexecuted(old, m) # 0 => new.consumed <= acc.message
      BY <1>1 DEF ExecutionOk
    <2>4. k \in 0..n
      BY <1>1
    <2> HIDE DEF X
    <2>5. IsCopy(old) /\ Books(old) /\ Pots(old) /\ Balanced(old, over) /\ Charging(acc, old)
      BY <2>1 DEF Keeps, Good
    <2>6. /\ Executes(old, new)
          /\ m.type # "external" \/ Unexecuted(old, m) = 0 => new = old
      BY <2>2, <2>5, ExecuteKeeps
    <2>7. CASE m.type # "external" \/ Unexecuted(old, m) = 0
      BY <2>1, <2>4, <2>6, <2>7
    <2>8. CASE m.type = "external" /\ Unexecuted(old, m) # 0
      <3>1. Books(new) /\ Charging(old, new) /\ UsedBy(new) = UsedBy(old)
            /\ new.consumed + old.reimbursed = old.consumed + new.reimbursed
        BY <2>6 DEF Executes
      <3>2. Charging(acc, new) /\ IsCopy(new)
        BY <2>5, <3>1, ChargingIsCopy DEF Good
      <3>3. new.message = acc.message /\ old.status = acc.status
        BY <2>5, <3>2 DEF Charging, Names, Booked
      <3>4. Pots(new)
        BY <2>3, <2>5, <2>8, <3>1, <3>3, PotsKept
      <3>5. Balanced(new, over)
        <4>1. /\ new.consumed \in Nat /\ old.consumed \in Nat /\ new.reimbursed \in Nat
              /\ old.reimbursed \in Nat /\ UsedBy(old) \in Nat
          BY <2>5, <3>1, UsedByNat DEF Books
        <4>2. ASSUME old.consumed <= old.reimbursed + UsedBy(old)
              PROVE  new.consumed <= new.reimbursed + UsedBy(new)
          BY <3>1, <4>1, <4>2
        <4>3. ASSUME old.consumed = old.reimbursed + UsedBy(old)
              PROVE  new.consumed = new.reimbursed + UsedBy(new)
          BY <3>1, <4>1, <4>3
        <4> QED  BY <2>5, <4>2, <4>3 DEF Balanced, UsedBy
      <3> QED  BY <2>4, <3>1, <3>2, <3>4, <3>5 DEF Keeps, Good
    <2> QED  BY <2>7, <2>8
  <1>5. n \in C
    <2> HIDE DEF C
    <2> QED  BY <1>1, <1>3, <1>4, UpTo
  <1> QED  BY <1>5 DEF RecordExecution

LEMMA BalancedWidens ==
    ASSUME NEW acc, NEW over \in BOOLEAN, Balanced(acc, over), NEW wide \in BOOLEAN, over => wide
    PROVE  Balanced(acc, wide)
  <1>1. CASE wide
    BY <1>1 DEF Balanced
  <1>2. CASE ~wide
    <2>1. ~over
      BY <1>2
    <2> QED  BY <1>2, <2>1 DEF Balanced
  <1> QED  BY <1>1, <1>2

LEMMA UnwoundKeeps ==
    ASSUME NEW acc, NEW over \in BOOLEAN, Good(acc, over), acc.status # "settled",
           NEW msgs, Messages(msgs), \A i \in DOMAIN msgs : Known(msgs[i]), NEW dispatched \in BOOLEAN,
           NEW wide \in BOOLEAN, over => wide, Overdraws(acc, msgs, dispatched) => wide
    PROVE  Keeps(acc, Unwind(acc, msgs, dispatched), wide)
  <1> DEFINE n == Len(msgs)
             X(k) == Unwound(acc, msgs, dispatched)[k]
             C == {k \in 0..n : Keeps(acc, X(k), wide)}
  <1>1. n \in Nat /\ DOMAIN msgs = 1..n
    BY SeqFacts DEF Messages
  <1>2. X(0) = acc /\ \A k \in 1..n : X(k) = UnwindOne(X(k - 1), msgs[k], dispatched)
    <2>1. Len(msgs) \in Nat
      BY <1>1
    <2>2. /\ Unwound(acc, msgs, dispatched)[0] = acc
          /\ \A i \in 1..Len(msgs) :
               Unwound(acc, msgs, dispatched)[i] = UnwindOne(Unwound(acc, msgs, dispatched)[i - 1], msgs[i], dispatched)
      BY ONLY <2>1, UnwoundUnfold, SMTT(60)
    <2> QED  BY <2>2, Zenon
  <1>3. 0 \in C
    <2>1. Charging(acc, acc)
      BY DEF Charging, Good, IsCopy
    <2>2. Good(acc, wide)
      BY BalancedWidens DEF Good
    <2> HIDE DEF X
    <2> QED  BY <1>1, <1>2, <2>1, <2>2 DEF Keeps
  <1>4. ASSUME NEW k \in 1..n, k - 1 \in C PROVE k \in C
    <2> DEFINE old == X(k - 1)
               new == X(k)
               m == msgs[k]
    <2>1. Keeps(acc, old, wide)
      BY <1>4
    <2>2. Known(m) /\ new = UnwindOne(old, m, dispatched)
      BY <1>1, <1>2
    <2>3. IsCopy(old) /\ Books(old) /\ Pots(old) /\ Balanced(old, wide) /\ Charging(acc, old)
      BY <2>1 DEF Keeps, Good
    <2>4. TooMuch(old, m, dispatched) => wide
      <3>1. old.allocations = acc.allocations
        BY <2>3 DEF Charging, Names, Booked
      <3> QED  BY <1>1, <3>1 DEF TooMuch, Overdraws
    <2>5. k \in 0..n
      BY <1>1
    <2> HIDE DEF X
    <2>6. Unwinding(old, new, TooMuch(old, m, dispatched))
      BY <2>2, <2>3, UnwindKeeps
    <2>7. Books(new) /\ Charging(old, new) /\ new.consumed <= old.consumed
      BY <2>6 DEF Unwinding
    <2>8. Balanced(new, wide)
      <3>1. CASE wide
        BY <2>3, <2>6, <3>1, Zenon DEF Unwinding
      <3>2. CASE ~wide
        BY <2>3, <2>4, <2>6, <3>2, Zenon DEF Unwinding
      <3> QED  BY <3>1, <3>2
    <2>9. Charging(acc, new) /\ IsCopy(new)
      BY <2>3, <2>7, ChargingIsCopy DEF Good
    <2>10. Pots(new)
      <3>1. new.message = old.message /\ old.status = acc.status
        BY <2>3, <2>7 DEF Charging, Names, Booked
      <3>2. new.consumed \in Nat /\ old.consumed \in Nat /\ old.message \in Nat
        BY <2>3, <2>7 DEF Books, Pots
      <3>3. old.status = "active" => old.consumed <= old.message
        BY <2>3 DEF Pots
      <3> QED  BY <2>3, <2>7, <3>1, <3>2, <3>3, PotsKept
    <2> QED  BY <2>5, <2>7, <2>8, <2>9, <2>10 DEF Keeps, Good
  <1>5. Keeps(acc, X(n), wide)
    <2> HIDE DEF C
    <2>1. n \in C
      BY <1>1, <1>3, <1>4, UpTo
    <2> QED  BY <2>1 DEF C
  <1> DEFINE x == X(n)
             new == [x EXCEPT !.recorded = FALSE, !.fromReceipt = FALSE]
  <1>6. new = Unwind(acc, msgs, dispatched)
    BY DEF Unwind
  <1> HIDE DEF X
  <1>7. DOMAIN x = Names
    BY <1>5 DEF Keeps, Charging
  <1> HIDE DEF x
  <1>8. DOMAIN new = Names /\ \A f \in Names \ Flags : new[f] = x[f]
    BY <1>7 DEF Names, Flags
  <1> HIDE DEF new
  <1>9. Keeps(acc, new, wide)
    <2>1. Keeps(acc, x, wide)
      BY <1>5 DEF x
    <2> QED  BY <1>8, <2>1, FlagsAreFree
  <1> QED  BY <1>6, <1>9

-----------------------------------------------------------------------------
(* The pots: creation, top-ups, bonds, settlement and cancellation.        *)

LEMMA SubmittedIsGood == Good(Submitted(Distribution, Allocations, Validators0, Deposit, Policy), FALSE)
  <1> DEFINE d == Distribution
             acc == Submitted(d, Allocations, Validators0, Deposit, Policy)
             used == [i \in DOMAIN Allocations |-> 0]
  <1>1. d \in Fees /\ Policy \in Policies /\ Deposit \in Nat
    BY SubmissionIsNumbers
  <1>2. Computable(d, Validators0, Policy) /\ Deposit >= RequiredDeposit(d, Validators0, Policy)
    BY SubmissionIsValid DEF DepositOk
  <1>3. RoundFees(d, Validators0, Policy) \in Nat
    BY <1>1, <1>2, RoundFeesNat
  <1>4. d.messages \in Nat
    BY <1>1 DEF Fees
  <1>5. Deposit >= d.messages
    BY <1>1, <1>2, <1>3, <1>4 DEF RequiredDeposit
  <1>6. /\ DOMAIN acc = Names /\ acc.allocations = Allocations /\ acc.policy = Policy /\ acc.fees = d
        /\ acc.used = used /\ acc.events = <<>> /\ acc.consumed = 0 /\ acc.reserved = 0
        /\ acc.reimbursed = 0 /\ acc.status = "active" /\ acc.paid = Deposit
        /\ acc.primary = AtLeastZero(Deposit - d.messages) /\ acc.message = d.messages
        /\ acc.spent = 0 /\ acc.refunded = 0 /\ acc.messageRefunded = 0 /\ acc.totalRefunded = 0
        /\ acc.execConsumed = 0 /\ acc.bonds = <<>> /\ acc.settlements = <<>>
    BY DEF Submitted, NewAccounting, Names
  <1> HIDE DEF acc, d
  <1>7. IsSeq(<<>>) /\ DOMAIN <<>> = {}
    BY DEF IsSeq, Elements
  <1>8. AreEvents(<<>>) /\ LiveIn(<<>>) = {} /\ \A i : OnNode(<<>>, i) = {}
    BY <1>7 DEF AreEvents, LiveIn, OnNode
  <1>9. Reservation0(<<>>, {}) = 0 /\ Reimbursement0(<<>>, {}) = 0
    BY TotalEmpty DEF Reservation0, Reimbursement0
  <1>10. used \in [DOMAIN Allocations -> Nat] /\ \A i \in DOMAIN Allocations : used[i] = 0
    OBVIOUS
  <1> HIDE DEF used
  <1>11. Within(used)
    BY <1>10, NodeFacts DEF Within
  <1>12. Total(used, Internals) = 0
    <2>1. \A i \in Internals : used[i] = 0
      BY <1>10 DEF Internals
    <2> QED  BY <2>1, NodesFinite, TotalZero
  <1>13. Books(acc)
    <2> DEFINE s == acc.events
    <2>1. AreEvents(s) /\ Reservation0(s, LiveIn(s)) = 0 /\ Reimbursement0(s, LiveIn(s)) = 0
      BY <1>6, <1>8, <1>9
    <2>2. \A i : Reservation0(s, OnNode(s, i)) = 0
      BY <1>6, <1>8, <1>9
    <2> HIDE DEF s
    <2>3. \A i \in Externals : acc.used[i] = Reservation0(s, OnNode(s, i))
      BY <1>6, <1>10, <2>2 DEF Externals
    <2> QED  BY <1>6, <1>10, <1>11, <2>1, <2>3 DEF Books, s
  <1>14. Balanced(acc, FALSE)
    BY <1>6, <1>12 DEF Balanced
  <1>15. Pots(acc)
    BY <1>1, <1>4, <1>5, <1>6, <1>7 DEF Pots, AtLeastZero
  <1>16. IsCopy(acc)
    BY <1>1, <1>6 DEF IsCopy
  <1> QED  BY <1>13, <1>14, <1>15, <1>16 DEF Good, acc, d

PotNames == {"status", "fees", "paid", "primary", "spent", "refunded", "execBudget", "execConsumed",
             "message", "messageRefunded", "bonds", "settlements", "payout", "totalRefunded"}
Paying(acc, new) == DOMAIN new = Names /\ \A f \in Names \ PotNames : new[f] = acc[f]

LEMMA PayingIsGood ==
    ASSUME NEW acc, NEW over, Good(acc, over), NEW new, Paying(acc, new), Pots(new), new.fees \in Fees
    PROVE  Good(new, over)
  <1>1. /\ new.allocations = acc.allocations /\ new.policy = acc.policy /\ new.used = acc.used
        /\ new.events = acc.events /\ new.consumed = acc.consumed /\ new.reserved = acc.reserved
        /\ new.reimbursed = acc.reimbursed
    BY DEF Paying, Names, PotNames
  <1>2. IsCopy(new) /\ Books(new)
    BY <1>1 DEF Good, IsCopy, Books, Paying
  <1>3. Balanced(new, over)
    BY <1>1 DEF Good, Balanced
  <1> QED  BY <1>2, <1>3 DEF Good

(* What a request leaves alone, and what it adds to what was paid.         *)
Standing(acc, new) ==
    /\ new.status = acc.status /\ new.totalRefunded = acc.totalRefunded
    /\ new.settlements = acc.settlements

FeeNames == {"leader", "validator", "appealRounds", "execution", "messages", "rotations",
             "maxTimeUnit", "maxStorage", "maxReceipt"}
AreFees(d) ==
    /\ d = [f \in FeeNames |-> d[f]]
    /\ d.leader \in Nat /\ d.validator \in Nat /\ d.appealRounds \in Nat /\ d.execution \in Nat
    /\ d.messages \in Nat /\ d.rotations \in Seq(Nat)
    /\ d.maxTimeUnit \in Nat /\ d.maxStorage \in Nat /\ d.maxReceipt \in Nat

LEMMA FeesByField == ASSUME NEW d, AreFees(d) PROVE d \in Fees
  <1> DEFINE a == d.leader  b == d.validator  c == d.appealRounds  x == d.execution  m == d.messages
             r == d.rotations  t == d.maxTimeUnit  s == d.maxStorage  v == d.maxReceipt
             e == [leader |-> a, validator |-> b, appealRounds |-> c, execution |-> x, messages |-> m,
                   rotations |-> r, maxTimeUnit |-> t, maxStorage |-> s, maxReceipt |-> v]
  <1>1. d = e
    BY DEF AreFees, FeeNames
  <1>2. /\ a \in Nat /\ b \in Nat /\ c \in Nat /\ x \in Nat /\ m \in Nat /\ r \in Seq(Nat)
        /\ t \in Nat /\ s \in Nat /\ v \in Nat
    BY DEF AreFees
  <1> HIDE DEF a, b, c, x, m, r, t, s, v
  <1>3. e \in Fees
    BY <1>2 DEF Fees
  <1> QED  BY <1>1, <1>3

LEMMA MergedIsFees ==
    ASSUME NEW d \in Fees, NEW more \in Fees
    PROVE  MergedFees(d, more) \in Fees
  <1>1. \A a, b \in Nat : RaisedCap(a, b) \in Nat
    BY DEF RaisedCap
  <1>2. d.rotations \o more.rotations \in Seq(Nat)
    BY DEF Fees
  <1>3. /\ DOMAIN d = FeeNames
        /\ d.leader \in Nat /\ d.validator \in Nat /\ d.appealRounds \in Nat
        /\ d.execution + more.execution \in Nat /\ d.messages + more.messages \in Nat
        /\ RaisedCap(d.maxTimeUnit, more.maxTimeUnit) \in Nat
        /\ RaisedCap(d.maxStorage, more.maxStorage) \in Nat
        /\ RaisedCap(d.maxReceipt, more.maxReceipt) \in Nat
    <2>1. DOMAIN d = FeeNames
      BY DEF Fees, FeeNames
    <2>2. /\ d.leader \in Nat /\ d.validator \in Nat /\ d.appealRounds \in Nat
          /\ d.execution \in Nat /\ more.execution \in Nat /\ d.messages \in Nat
          /\ more.messages \in Nat
      BY DEF Fees
    <2>3. /\ d.maxTimeUnit \in Nat /\ d.maxStorage \in Nat /\ d.maxReceipt \in Nat
          /\ more.maxTimeUnit \in Nat /\ more.maxStorage \in Nat /\ more.maxReceipt \in Nat
      BY DEF Fees
    <2>4. d.execution + more.execution \in Nat /\ d.messages + more.messages \in Nat
      BY <2>2
    <2> QED  BY <1>1, <2>1, <2>2, <2>3, <2>4
  <1> DEFINE rotations == d.rotations \o more.rotations
             timeUnit == RaisedCap(d.maxTimeUnit, more.maxTimeUnit)
             storage == RaisedCap(d.maxStorage, more.maxStorage)
             receipt == RaisedCap(d.maxReceipt, more.maxReceipt)
             execution == d.execution + more.execution
             messages == d.messages + more.messages
             new == [d EXCEPT !.execution = execution, !.messages = messages, !.rotations = rotations,
                              !.maxTimeUnit = timeUnit, !.maxStorage = storage, !.maxReceipt = receipt]
  <1>4. new = MergedFees(d, more)
    BY DEF MergedFees
  <1>5. /\ rotations \in Seq(Nat) /\ timeUnit \in Nat /\ storage \in Nat /\ receipt \in Nat
        /\ execution \in Nat /\ messages \in Nat
    BY <1>2, <1>3
  <1> HIDE DEF rotations, timeUnit, storage, receipt, execution, messages
  <1>6. AreFees(new)
    BY <1>3, <1>5 DEF AreFees, FeeNames
  <1> QED  BY <1>4, <1>6, FeesByField

LEMMA WiderIsFees ==
    ASSUME NEW d \in Fees
    PROVE  [d EXCEPT !.appealRounds = @ + 1] \in Fees
  <1> DEFINE rounds == d.appealRounds + 1
             new == [d EXCEPT !.appealRounds = rounds]
  <1>1. rounds \in Nat
    BY DEF Fees
  <1> HIDE DEF rounds
  <1>2. AreFees(new)
    BY <1>1 DEF AreFees, FeeNames, Fees
  <1> QED  BY <1>2, FeesByField DEF rounds

(* More was paid into the pots of a record.                                *)
More(acc, new, toPrimary, toMessage) ==
    /\ Standing(acc, new)
    /\ new.primary = acc.primary + toPrimary /\ new.message = acc.message + toMessage
    /\ new.paid = acc.paid + (toPrimary + toMessage)
    /\ new.spent = acc.spent /\ new.refunded = acc.refunded
    /\ new.messageRefunded = acc.messageRefunded /\ new.consumed = acc.consumed
    /\ new.execConsumed = acc.execConsumed

LEMMA MorePots ==
    ASSUME NEW acc, Pots(acc), acc.consumed \in Nat, NEW new, NEW a \in Nat, NEW b \in Nat,
           More(acc, new, a, b),
           IsSeq(new.bonds), \A i \in DOMAIN new.bonds : new.bonds[i].amount \in Nat
    PROVE  Pots(new)
  <1>1. /\ acc.paid \in Nat /\ acc.primary \in Nat /\ acc.message \in Nat
        /\ acc.spent \in Nat /\ acc.refunded \in Nat /\ acc.messageRefunded \in Nat
        /\ acc.totalRefunded \in Nat /\ acc.execConsumed \in Nat
        /\ acc.status \in Terminal \cup {"active"}
        /\ acc.primary + acc.message = acc.paid /\ acc.totalRefunded <= acc.paid
    BY DEF Pots
  <1>2. /\ new.paid \in Nat /\ new.primary \in Nat /\ new.message \in Nat
        /\ new.primary + new.message = new.paid /\ new.totalRefunded <= new.paid
    BY <1>1 DEF More, Standing
  <1>3. new.status = "active" =>
          /\ new.spent = 0 /\ new.refunded = 0 /\ new.messageRefunded = 0
          /\ new.totalRefunded = 0 /\ new.settlements = <<>>
    BY DEF More, Standing, Pots
  <1>4. new.status = "active" => new.consumed <= new.message
    <2>1. new.status = "active" => acc.consumed <= acc.message
      BY DEF More, Standing, Pots
    <2> QED  BY <1>1, <2>1 DEF More
  <1>5. new.status = "settled" =>
          /\ new.consumed + new.messageRefunded <= new.message
          /\ new.spent + new.refunded <= new.primary
    <2>1. new.status = "settled" =>
            /\ acc.consumed + acc.messageRefunded <= acc.message
            /\ acc.spent + acc.refunded <= acc.primary
      BY DEF More, Standing, Pots
    <2> QED  BY <1>1, <2>1 DEF More
  <1> QED  BY <1>1, <1>2, <1>3, <1>4, <1>5 DEF Pots, More, Standing

LEMMA TopUpKeeps ==
    ASSUME NEW acc, NEW over, Good(acc, over), NEW more \in Fees, NEW amount \in Nat,
           TopUpOk(acc, more, amount, Validators0)
    PROVE  LET new == TopUp(acc, more, amount)
           IN /\ Good(new, over) /\ Standing(acc, new)
              /\ new.paid = acc.paid + amount /\ new.bonds = acc.bonds
  <1> DEFINE new == TopUp(acc, more, amount)
             merged == MergedFees(acc.fees, more)
             budget == merged.execution * LeaderRounds(merged)
             in == amount - more.messages
  <1>1. IsCopy(acc) /\ Books(acc) /\ Pots(acc) /\ DOMAIN acc = Names
    BY DEF Good, IsCopy
  <1>2. merged \in Fees
    BY <1>1, MergedIsFees DEF IsCopy
  <1>3. more.messages \in Nat /\ in \in Nat /\ in + more.messages = amount
    <2>1. more.messages \in Nat /\ more.messages <= amount
      BY DEF Fees, TopUpOk
    <2> QED  BY <2>1
  <1>4. new = [acc EXCEPT !.fees = merged, !.paid = @ + amount, !.primary = @ + in,
                          !.message = @ + more.messages, !.execBudget = budget]
    BY DEF TopUp
  <1> HIDE DEF new, merged, budget, in
  <1>5. /\ DOMAIN new = Names /\ new.fees = merged /\ new.paid = acc.paid + amount
        /\ new.primary = acc.primary + in /\ new.message = acc.message + more.messages
        /\ \A f \in Names \ {"fees", "paid", "primary", "message", "execBudget"} : new[f] = acc[f]
    BY <1>1, <1>4 DEF Names
  <1>6. /\ new.status = acc.status /\ new.spent = acc.spent /\ new.refunded = acc.refunded
        /\ new.messageRefunded = acc.messageRefunded /\ new.totalRefunded = acc.totalRefunded
        /\ new.execConsumed = acc.execConsumed /\ new.bonds = acc.bonds
        /\ new.settlements = acc.settlements /\ new.consumed = acc.consumed
    BY <1>5 DEF Names
  <1>7. acc.consumed \in Nat
    BY <1>1 DEF Books
  <1>8. Pots(new)
    <2>1. acc.paid \in Nat
      BY <1>1 DEF Pots
    <2>2. More(acc, new, in, more.messages)
      BY <1>3, <1>5, <1>6 DEF More, Standing
    <2>3. IsSeq(new.bonds) /\ \A i \in DOMAIN new.bonds : new.bonds[i].amount \in Nat
      BY <1>1, <1>6 DEF Pots
    <2> QED  BY <1>1, <1>3, <1>7, <2>2, <2>3, MorePots
  <1>9. Paying(acc, new)
    BY <1>5 DEF Paying, PotNames
  <1> QED  BY <1>2, <1>5, <1>6, <1>8, <1>9, PayingIsGood DEF Standing, new

Bonded(acc) == Total(Field(acc.bonds, "amount"), DOMAIN acc.bonds)
LEMMA BondKeeps ==
    ASSUME NEW acc, NEW over, Good(acc, over), NEW amount \in Nat, NEW appealer, NEW round,
           NEW topUpAndSubmit \in BOOLEAN
    PROVE  LET new == AppealBond(acc, amount, appealer, round, topUpAndSubmit)
           IN /\ Good(new, over) /\ Standing(acc, new)
              /\ new.paid \in Nat /\ acc.paid <= new.paid /\ new.paid <= acc.paid + amount
              /\ Bonded(new) = amount + Bonded(acc)
  <1> DEFINE new == AppealBond(acc, amount, appealer, round, topUpAndSubmit)
             bond == [appealer |-> appealer, amount |-> amount, round |-> round]
             bonds == Append(acc.bonds, bond)
             wider == [acc.fees EXCEPT !.appealRounds = @ + 1]
             budget == wider.execution * LeaderRounds(wider)
  <1>1. IsCopy(acc) /\ Books(acc) /\ Pots(acc) /\ DOMAIN acc = Names
    BY DEF Good, IsCopy
  <1>2. wider \in Fees /\ acc.fees \in Fees
    BY <1>1, WiderIsFees DEF IsCopy
  <1>3. IsSeq(acc.bonds) /\ \A x \in DOMAIN acc.bonds : acc.bonds[x]["amount"] \in Nat
    BY <1>1 DEF Pots
  <1>4. /\ IsSeq(bonds) /\ DOMAIN bonds = DOMAIN acc.bonds \cup {Len(acc.bonds) + 1}
        /\ \A i \in DOMAIN acc.bonds : bonds[i] = acc.bonds[i]
        /\ bonds[Len(acc.bonds) + 1] = bond
    <2> HIDE DEF bond
    <2> QED  BY <1>3, AppendFacts
  <1>5. bond["amount"] = amount
    OBVIOUS
  <1>6. Total(Field(bonds, "amount"), DOMAIN bonds) = amount + Bonded(acc)
    <2> HIDE DEF bond
    <2>1. DOMAIN acc.bonds \in SUBSET DOMAIN acc.bonds /\ bond["amount"] \in Nat
      BY <1>5
    <2>2. Total(Field(Append(acc.bonds, bond), "amount"), DOMAIN acc.bonds \cup {Len(acc.bonds) + 1})
          = bond["amount"] + Total(Field(acc.bonds, "amount"), DOMAIN acc.bonds)
      BY <1>3, <2>1, FieldAppend
    <2> QED  BY <1>4, <1>5, <2>2 DEF Bonded
  <1>7. CASE ~topUpAndSubmit
    <2>1. new = [acc EXCEPT !.bonds = bonds]
      BY <1>7 DEF AppealBond
    <2> HIDE DEF new, bonds, bond
    <2>2. /\ DOMAIN new = Names /\ new.bonds = bonds
          /\ \A f \in Names \ {"bonds"} : new[f] = acc[f]
      BY <1>1, <2>1 DEF Names
    <2>3. /\ new.status = acc.status /\ new.spent = acc.spent /\ new.refunded = acc.refunded
          /\ new.messageRefunded = acc.messageRefunded /\ new.totalRefunded = acc.totalRefunded
          /\ new.execConsumed = acc.execConsumed /\ new.paid = acc.paid
          /\ new.settlements = acc.settlements /\ new.consumed = acc.consumed
          /\ new.primary = acc.primary /\ new.message = acc.message /\ new.fees = acc.fees
      BY <2>2 DEF Names
    <2>4. \A i \in DOMAIN bonds : bonds[i].amount \in Nat
      BY <1>3, <1>4, <1>5
    <2>5. Pots(new)
      BY <1>1, <1>4, <2>2, <2>3, <2>4 DEF Pots
    <2>6. Paying(acc, new)
      BY <2>2 DEF Paying, PotNames
    <2>7. Good(new, over)
      BY <1>2, <2>3, <2>5, <2>6, PayingIsGood
    <2>8. acc.paid \in Nat
      BY <1>1 DEF Pots
    <2> QED  BY <1>6, <2>2, <2>3, <2>7, <2>8 DEF Standing, Bonded, new
  <1>8. CASE topUpAndSubmit
    <2>1. new = [acc EXCEPT !.bonds = bonds, !.primary = @ + amount, !.paid = @ + amount,
                            !.fees = wider, !.execBudget = budget]
      BY <1>1, <1>8 DEF AppealBond, Names
    <2> HIDE DEF new, bonds, bond, wider, budget
    <2>2. /\ DOMAIN new = Names /\ new.bonds = bonds /\ new.primary = acc.primary + amount
          /\ new.paid = acc.paid + amount /\ new.fees = wider
          /\ \A f \in Names \ {"bonds", "primary", "paid", "fees", "execBudget"} : new[f] = acc[f]
      BY <1>1, <2>1 DEF Names
    <2>3. /\ new.status = acc.status /\ new.spent = acc.spent /\ new.refunded = acc.refunded
          /\ new.messageRefunded = acc.messageRefunded /\ new.totalRefunded = acc.totalRefunded
          /\ new.execConsumed = acc.execConsumed
          /\ new.settlements = acc.settlements /\ new.consumed = acc.consumed
          /\ new.message = acc.message
      BY <2>2 DEF Names
    <2>4. \A i \in DOMAIN bonds : bonds[i].amount \in Nat
      BY <1>3, <1>4, <1>5
    <2>5. Pots(new)
      <3>1. acc.consumed \in Nat /\ acc.message \in Nat /\ acc.paid \in Nat
        BY <1>1 DEF Books, Pots
      <3>2. More(acc, new, amount, 0)
        BY <2>2, <2>3, <3>1 DEF More, Standing
      <3>3. IsSeq(new.bonds) /\ \A i \in DOMAIN new.bonds : new.bonds[i].amount \in Nat
        BY <1>4, <2>2, <2>4
      <3> QED  BY <1>1, <3>1, <3>2, <3>3, MorePots
    <2>6. Paying(acc, new)
      BY <2>2 DEF Paying, PotNames
    <2>7. Good(new, over)
      BY <1>2, <2>2, <2>5, <2>6, PayingIsGood
    <2>8. acc.paid \in Nat
      BY <1>1 DEF Pots
    <2> QED  BY <1>6, <2>2, <2>3, <2>7, <2>8 DEF Standing, Bonded, new
  <1> QED  BY <1>7, <1>8

-----------------------------------------------------------------------------
(* The end of a record: the receipt that settlement charges, ...           *)

Receiving(acc, new) ==
    /\ DOMAIN new = Names
    /\ \A f \in Names \ (Booked \cup {"execConsumed"}) : new[f] = acc[f]

LEMMA ReceiptKeeps ==
    ASSUME NEW acc, NEW over \in BOOLEAN, Good(acc, over), acc.status # "settled",
           NEW r, IsReceipt(r), ReceiptOk(acc, r)
    PROVE  Good(RecordReceipt(acc, r), over) /\ Receiving(acc, RecordReceipt(acc, r))
  <1> DEFINE msgs == ReceiptMessages(acc, r)
             x == Consume(acc, msgs, TRUE)
             y == [x EXCEPT !.fromReceipt = TRUE]
             charged == IF Unrecorded(acc, r) THEN y ELSE acc
             fee == r.receiptFee + (IF r.ok THEN r.storageFee ELSE 0)
             new == [charged EXCEPT !.execConsumed = fee]
  <1>1. new = RecordReceipt(acc, r)
    BY DEF RecordReceipt
  <1>2. fee \in Nat
    BY DEF IsReceipt
  <1>3. IsCopy(acc) /\ DOMAIN acc = Names
    BY DEF Good, IsCopy
  <1>4. Keeps(acc, charged, over)
    <2>1. CASE Unrecorded(acc, r)
      <3>1. Messages(msgs) /\ ConsumeOk(acc, msgs, TRUE)
        BY <1>3, <2>1, ReceiptMessagesFacts DEF ReceiptOk
      <3> HIDE DEF msgs
      <3>2. Keeps(acc, x, over)
        BY <3>1, ConsumeKeeps
      <3> HIDE DEF x
      <3>3. DOMAIN x = Names
        BY <3>2 DEF Keeps, Charging
      <3>4. DOMAIN y = Names /\ \A f \in Names \ Flags : y[f] = x[f]
        BY <3>3 DEF Names, Flags
      <3> HIDE DEF y
      <3>5. Keeps(acc, y, over)
        BY <3>2, <3>4, FlagsAreFree
      <3> QED  BY <2>1, <3>5
    <2>2. CASE ~Unrecorded(acc, r)
      <3>1. Charging(acc, acc)
        BY <1>3 DEF Charging
      <3> QED  BY <2>2, <3>1, Zenon DEF Keeps
    <2> QED  BY <2>1, <2>2
  <1> HIDE DEF charged, fee
  <1>5. DOMAIN charged = Names /\ Pots(charged) /\ IsCopy(charged) /\ Good(charged, over)
    BY <1>4 DEF Keeps, Good, IsCopy
  <1>6. DOMAIN new = Names /\ new.execConsumed = fee
        /\ \A f \in Names \ {"execConsumed"} : new[f] = charged[f]
    BY <1>5 DEF Names
  <1> HIDE DEF new
  <1>7. /\ new.status = charged.status /\ new.paid = charged.paid /\ new.primary = charged.primary
        /\ new.message = charged.message /\ new.spent = charged.spent
        /\ new.refunded = charged.refunded /\ new.messageRefunded = charged.messageRefunded
        /\ new.totalRefunded = charged.totalRefunded /\ new.bonds = charged.bonds
        /\ new.settlements = charged.settlements /\ new.consumed = charged.consumed
        /\ new.fees = charged.fees
    BY <1>6 DEF Names
  <1>8. Pots(new)
    BY <1>2, <1>5, <1>6, <1>7 DEF Pots
  <1>9. Paying(charged, new) /\ new.fees \in Fees
    BY <1>5, <1>6, <1>7 DEF Paying, PotNames, IsCopy
  <1>10. Good(new, over)
    BY <1>5, <1>8, <1>9, PayingIsGood
  <1>11. Receiving(acc, new)
    BY <1>4, <1>6 DEF Receiving, Keeps, Charging, Names, Booked
  <1> QED  BY <1>1, <1>10, <1>11

(* ... what closing it gives back, ...                                     *)
LEMMA CloseKeeps ==
    ASSUME NEW acc, NEW over, Good(acc, over), acc.status = "active", NEW st \in Terminal,
           NEW spend \in Nat, spend <= acc.primary, NEW settlements
    PROVE  LET new == Closed(acc, st, spend, settlements)
           IN /\ Good(new, over) /\ new.status = st /\ new.settlements = settlements
              /\ new.paid = acc.paid /\ new.bonds = acc.bonds
  <1> DEFINE new == Closed(acc, st, spend, settlements)
             a == acc.primary - spend
             b == acc.message - acc.consumed
             total == a + b
             paid == IF acc.settlements # <<>> THEN acc.payout ELSE acc.payout + PayoutTotal(settlements)
  <1>1. IsCopy(acc) /\ Books(acc) /\ Pots(acc) /\ DOMAIN acc = Names
    BY DEF Good, IsCopy
  <1>2. /\ acc.primary \in Nat /\ acc.message \in Nat /\ acc.consumed \in Nat /\ acc.paid \in Nat
        /\ acc.consumed <= acc.message /\ acc.primary + acc.message = acc.paid
        /\ acc.spent = 0 /\ acc.refunded = 0 /\ acc.messageRefunded = 0 /\ acc.totalRefunded = 0
        /\ acc.execConsumed \in Nat
    BY <1>1 DEF Books, Pots
  <1>3. a \in Nat /\ b \in Nat /\ spend + a = acc.primary /\ acc.consumed + b = acc.message
    BY <1>2
  <1>4. total \in Nat /\ total <= acc.paid
    <2>1. \A p, m, s, c, x, y \in Nat : s + x = p /\ c + y = m => x + y \in Nat /\ x + y <= p + m
      OBVIOUS
    <2> HIDE DEF a, b
    <2> QED  BY <1>2, <1>3, <2>1
  <1>5. PrimaryRefund(acc, spend) = a /\ MessageRefund(acc) = b
    BY <1>2, <1>3 DEF PrimaryRefund, MessageRefund, AtLeastZero
  <1>6. new = [acc EXCEPT !.refunded = a, !.messageRefunded = b, !.totalRefunded = total,
                          !.status = st, !.spent = spend, !.settlements = settlements, !.payout = paid]
    <2>1. acc.refunded + a = a /\ acc.messageRefunded + b = b /\ acc.totalRefunded + a + b = total
      BY <1>2, <1>3
    <2> HIDE DEF a, b, total
    <2> QED  BY <1>1, <1>5, <2>1 DEF Closed, Refunded, Names
  <1> HIDE DEF new, a, b, total, paid
  <1>7. /\ DOMAIN new = Names /\ new.refunded = a /\ new.messageRefunded = b /\ new.totalRefunded = total
        /\ new.status = st /\ new.spent = spend /\ new.settlements = settlements
        /\ \A f \in Names \ {"refunded", "messageRefunded", "totalRefunded", "status", "spent",
                             "settlements", "payout"} : new[f] = acc[f]
    BY <1>1, <1>6 DEF Names
  <1>8. /\ new.paid = acc.paid /\ new.primary = acc.primary /\ new.message = acc.message
        /\ new.bonds = acc.bonds /\ new.consumed = acc.consumed /\ new.fees = acc.fees
        /\ new.execConsumed = acc.execConsumed
    BY <1>7 DEF Names
  <1>9. Pots(new)
    <2>1. st # "active"
      BY DEF Terminal
    <2>2. IsSeq(new.bonds) /\ \A i \in DOMAIN new.bonds : new.bonds[i].amount \in Nat
      BY <1>1, <1>8 DEF Pots
    <2>3. new.consumed + new.messageRefunded <= new.message /\ new.spent + new.refunded <= new.primary
      BY <1>2, <1>3, <1>7, <1>8
    <2> QED  BY <1>2, <1>3, <1>4, <1>7, <1>8, <2>1, <2>2, <2>3 DEF Pots
  <1>10. Paying(acc, new) /\ new.fees \in Fees
    BY <1>1, <1>7, <1>8 DEF Paying, PotNames, IsCopy
  <1>11. Good(new, over)
    BY <1>9, <1>10, PayingIsGood
  <1> QED  BY <1>7, <1>8, <1>11 DEF new

(* ... and what the appealers get for their bonds.                         *)
LEMMA PayoutFacts ==
    ASSUME NEW acc, Pots(acc), acc.settlements = <<>>, NEW h, NEW cancel
    PROVE  LET payout == PayoutTotal(BondSettlements(acc, h, cancel))
           IN payout \in Nat /\ Bonded(acc) \in Nat /\ 2 * payout <= 3 * Bonded(acc)
  <1> DEFINE t == BondSettlements(acc, h, cancel)
             S == DOMAIN acc.bonds
             f == [i \in DOMAIN t |-> t[i].payout]
             g == Field(acc.bonds, "amount")
  <1>1. IsSeq(acc.bonds) /\ IsFiniteSet(S) /\ \A i \in S : acc.bonds[i].amount \in Nat
    BY SeqFacts DEF Pots
  <1>2. DOMAIN t = S /\ \A i \in S : t[i].payout = BondPayout(acc.bonds[i], h, cancel)
    BY DEF BondSettlements
  <1>3. ASSUME NEW i \in S
        PROVE  f[i] \in Nat /\ g[i] \in Nat /\ 2 * f[i] <= 3 * g[i]
    <2> DEFINE a == acc.bonds[i].amount
    <2>1. a \in Nat /\ g[i] = a
      BY <1>1 DEF Field
    <2>2. f[i] = a \/ f[i] = (a * 3) \div 2 \/ f[i] = 0
      BY <1>2 DEF BondPayout
    <2>3. \A x \in Nat : (x * 3) \div 2 \in Nat /\ 2 * ((x * 3) \div 2) <= 3 * x
      OBVIOUS
    <2> HIDE DEF a, f, g
    <2> QED  BY <2>1, <2>2, <2>3
  <1>4. PayoutTotal(t) = Total(f, S)
    BY <1>2, SumIsTotal DEF PayoutTotal
  <1> HIDE DEF f, g, t
  <1> DEFINE C == {s \in SUBSET S : 2 * Total(f, s) <= 3 * Total(g, s)}
  <1>5. \A s \in SUBSET S : IsFiniteSet(s) /\ Total(f, s) \in Nat /\ Total(g, s) \in Nat
    <2> TAKE s \in SUBSET S
    <2>1. IsFiniteSet(s)
      BY <1>1, FS_Subset
    <2>2. \A i \in s : f[i] \in Nat /\ g[i] \in Nat
      BY <1>3
    <2> QED  BY <2>1, <2>2, TotalNat
  <1>6. {} \in C
    <2>1. Total(f, {}) = 0 /\ Total(g, {}) = 0
      BY TotalEmpty
    <2> QED  BY <2>1
  <1>7. ASSUME NEW s \in C, NEW x \in S \ s PROVE s \cup {x} \in C
    <2>1. \A i \in s : f[i] \in Int /\ g[i] \in Int
      BY <1>3
    <2>2. f[x] \in Nat /\ g[x] \in Nat /\ 2 * f[x] <= 3 * g[x]
      BY <1>3
    <2>3. Total(f, s \cup {x}) = f[x] + Total(f, s) /\ Total(g, s \cup {x}) = g[x] + Total(g, s)
      BY <1>5, <2>1, <2>2, TotalAdd
    <2>4. Total(f, s) \in Nat /\ Total(g, s) \in Nat /\ 2 * Total(f, s) <= 3 * Total(g, s)
      BY <1>5
    <2>5. 2 * Total(f, s \cup {x}) <= 3 * Total(g, s \cup {x})
      <3>1. \A a, b, c, d \in Nat : 2 * a <= 3 * b /\ 2 * c <= 3 * d => 2 * (a + c) <= 3 * (b + d)
        OBVIOUS
      <3> QED  BY <2>2, <2>3, <2>4, <3>1
    <2> QED  BY <2>5
  <1>8. C = SUBSET S
    <2>1. C \in SUBSET (SUBSET S)
      OBVIOUS
    <2> HIDE DEF C
    <2> QED  BY <1>1, <1>6, <1>7, <2>1, SetsGrow
  <1>9. 2 * Total(f, S) <= 3 * Total(g, S)
    BY <1>8
  <1> QED  BY <1>4, <1>5, <1>9 DEF Bonded, g, t

(* A record that is open is closed, one that is closed stays as it is.     *)
Ends(acc, new) ==
    /\ new.paid = acc.paid /\ new.bonds = acc.bonds
    /\ acc.status \in Terminal => Standing(acc, new)
    /\ acc.status = "active" =>
         /\ new.status \in Terminal
         /\ PayoutTotal(new.settlements) \in Nat
         /\ 2 * PayoutTotal(new.settlements) <= 3 * Bonded(acc)

LEMMA SettleEnds ==
    ASSUME NEW acc, NEW over \in BOOLEAN, Good(acc, over), acc.status # "settled",
           NEW h, IsSeq(h), NEW r, IsReceipt(r), SettleOk(acc, h, Validators0, r)
    PROVE  LET new == Settle(acc, h, Validators0, r)
           IN Good(new, over) /\ Ends(acc, new)
  <1> DEFINE seen == RecordReceipt(acc, r)
             final == FinalRound(h)
             through == TimeUnitFeesThrough(seen.fees, Validators0, final, seen.policy, h)
             rounds == LeaderRoundsThrough(seen.fees, final, h)
             spend == PrimarySpent(seen, h, final, Validators0)
             bonds == BondSettlements(seen, h, FALSE)
             new == Settle(acc, h, Validators0, r)
  <1>1. ReceiptOk(acc, r)
    BY DEF SettleOk
  <1>2. Good(seen, over) /\ Receiving(acc, seen)
    BY <1>1, ReceiptKeeps
  <1>3. /\ seen.status = acc.status /\ seen.paid = acc.paid /\ seen.bonds = acc.bonds
        /\ seen.totalRefunded = acc.totalRefunded /\ seen.settlements = acc.settlements
        /\ seen.fees = acc.fees /\ seen.policy = acc.policy
    <2> HIDE DEF seen
    <2> QED  BY <1>2 DEF Receiving, Names, Booked
  <1> HIDE DEF seen
  <1>4. IsCopy(seen) /\ Pots(seen) /\ Pots(acc)
    BY <1>2 DEF Good
  <1>5. CASE acc.status \in Terminal
    <2>1. new = seen
      BY <1>5 DEF Settle, seen
    <2>2. acc.status # "active"
      BY <1>5 DEF Terminal
    <2> QED  BY <1>2, <1>3, <2>1, <2>2 DEF Ends, Standing
  <1>6. CASE acc.status \notin Terminal
    <2>1. acc.status = "active"
      BY <1>4, <1>6 DEF Pots
    <2>2. new = Closed(seen, "settled", spend, bonds)
      BY <1>6 DEF Settle, seen
    <2>3. Chargeable(seen.fees, Validators0, final, seen.policy)
      BY <1>3, <1>6 DEF SettleOk
    <2>4. seen.fees \in Fees /\ seen.policy \in Policies /\ final \in Nat
      BY <1>4, SubmissionIsNumbers, HistoryFacts DEF IsCopy
    <2>5. through \in Nat /\ rounds \in Nat
      BY <2>3, <2>4, ThroughNat
    <2>6. spend \in Nat /\ spend <= seen.primary
      <3>1. seen.primary \in Nat /\ seen.execConsumed \in Nat /\ seen.fees.execution \in Nat
        BY <1>4, <2>4 DEF Pots, Fees
      <3>2. Least(seen.execConsumed, seen.fees.execution * rounds) \in Nat
        BY <2>5, <3>1, NatTimes, LeastFacts
      <3>3. through + Least(seen.execConsumed, seen.fees.execution * rounds) \in Nat
        BY <2>5, <3>2
      <3> QED  BY <3>1, <3>3, LeastFacts DEF PrimarySpent
    <2>7. "settled" \in Terminal
      BY DEF Terminal
    <2> HIDE DEF spend, bonds
    <2>8. /\ Good(new, over) /\ new.status = "settled" /\ new.settlements = bonds
          /\ new.paid = seen.paid /\ new.bonds = seen.bonds
      BY <1>2, <1>3, <2>1, <2>2, <2>6, <2>7, CloseKeeps
    <2>9. seen.settlements = <<>>
      BY <1>3, <1>4, <2>1 DEF Pots
    <2>10. PayoutTotal(bonds) \in Nat /\ 2 * PayoutTotal(bonds) <= 3 * Bonded(seen)
      BY <1>4, <2>9, PayoutFacts DEF bonds
    <2>11. Bonded(seen) = Bonded(acc)
      BY <1>3 DEF Bonded
    <2> QED  BY <1>3, <1>6, <2>7, <2>8, <2>10, <2>11 DEF Ends
  <1> QED  BY <1>5, <1>6

LEMMA CancelEnds ==
    ASSUME NEW acc, NEW over, Good(acc, over)
    PROVE  LET new == Cancel(acc)
           IN Good(new, over) /\ Ends(acc, new) /\ (new.status = "settled" => acc.status = "settled")
  <1> DEFINE bonds == BondSettlements(acc, <<>>, TRUE)
             new == Cancel(acc)
  <1>1. Pots(acc)
    BY DEF Good
  <1>2. CASE acc.status \in Terminal
    <2>1. new = acc
      BY <1>2 DEF Cancel
    <2>2. acc.status # "active"
      BY <1>2 DEF Terminal
    <2> QED  BY <2>1, <2>2 DEF Ends, Standing
  <1>3. CASE acc.status \notin Terminal
    <2>1. acc.status = "active"
      BY <1>1, <1>3 DEF Pots
    <2>2. new = Closed(acc, "canceled", acc.spent, bonds)
      BY <1>3 DEF Cancel
    <2>3. acc.spent \in Nat /\ acc.spent <= acc.primary /\ acc.settlements = <<>>
      BY <1>1, <2>1 DEF Pots
    <2>4. "canceled" \in Terminal
      BY DEF Terminal
    <2> HIDE DEF bonds
    <2>5. /\ Good(new, over) /\ new.status = "canceled" /\ new.settlements = bonds
          /\ new.paid = acc.paid /\ new.bonds = acc.bonds
      BY <2>1, <2>2, <2>3, <2>4, CloseKeeps
    <2>6. PayoutTotal(bonds) \in Nat /\ 2 * PayoutTotal(bonds) <= 3 * Bonded(acc)
      BY <1>1, <2>3, PayoutFacts DEF bonds
    <2> QED  BY <1>3, <2>4, <2>5, <2>6 DEF Ends
  <1> QED  BY <1>2, <1>3

-----------------------------------------------------------------------------
(* The messages of a phase.                                                *)

LEMMA PhaseUnfold ==
    ASSUME NEW messages, Len(messages) \in Nat, NEW onAcceptance
    PROVE  \E it : /\ it[0] = <<>> /\ Phase(messages, onAcceptance) = it[Len(messages)]
                   /\ \A i \in 1..Len(messages) :
                        it[i] = IF messages[i].onAcceptance = onAcceptance
                                THEN Append(it[i - 1], messages[i]) ELSE it[i - 1]
  <1> DEFINE n == Len(messages)
             Next1(i, old) == IF messages[i].onAcceptance = onAcceptance
                              THEN Append(old, messages[i]) ELSE old
             Run(k, g) == g = [i \in 0..k |->
                                 IF i = 0 THEN <<>>
                                 ELSE IF messages[i].onAcceptance = onAcceptance
                                      THEN Append(g[i - 1], messages[i]) ELSE g[i - 1]]
             C == {k \in 0..n : \E g : Run(k, g)}
  <1>1. 0 \in C
    <2> DEFINE h == [i \in 0..0 |-> <<>>]
    <2>1. Run(0, h) /\ 0 \in 0..n
      OBVIOUS
    <2> HIDE DEF h
    <2> QED  BY <2>1
  <1>2. ASSUME NEW k \in 1..n, k - 1 \in C PROVE k \in C
    <2>1. PICK g : Run(k - 1, g)
      BY <1>2
    <2> DEFINE h == [i \in 0..k |-> IF i = k THEN Next1(k, g[k - 1]) ELSE g[i]]
    <2>2. ASSUME NEW i \in 0..k
          PROVE  h[i] = IF i = 0 THEN <<>> ELSE Next1(i, h[i - 1])
      <3>1. CASE i = k
        BY <3>1
      <3>2. CASE i # k
        <4>1. i \in 0..(k - 1) /\ h[i] = g[i] /\ (i # 0 => h[i - 1] = g[i - 1])
          BY <3>2
        <4>2. g[i] = IF i = 0 THEN <<>> ELSE Next1(i, g[i - 1])
          BY <2>1, <4>1
        <4> HIDE DEF h, Next1
        <4> QED  BY <4>1, <4>2
      <3> QED  BY <3>1, <3>2
    <2>3. Run(k, h)
      BY <2>2
    <2>4. k \in 0..n
      OBVIOUS
    <2> HIDE DEF h, Run
    <2> QED  BY <2>3, <2>4
  <1>3. n \in C
    <2> HIDE DEF C
    <2> QED  BY <1>1, <1>2, UpTo
  <1> DEFINE it == CHOOSE g : Run(n, g)
  <1>4. Run(n, it)
    <2> HIDE DEF Run
    <2> QED  BY <1>3
  <1>5. Phase(messages, onAcceptance) = it[n]
    BY DEF Phase
  <1> HIDE DEF it
  <1>6. it[0] = <<>> /\ \A i \in 1..n : it[i] = Next1(i, it[i - 1])
    <2>1. it[0] = <<>>
      BY <1>4
    <2>2. ASSUME NEW i \in 1..n PROVE it[i] = Next1(i, it[i - 1])
      <3>1. i \in 0..n /\ i # 0
        OBVIOUS
      <3> QED  BY <1>4, <3>1
    <2> HIDE DEF Next1
    <2> QED  BY <2>1, <2>2
  <1> QED  BY <1>5, <1>6

LEMMA PhaseFacts ==
    ASSUME NEW msgs, Messages(msgs), NEW onAcceptance
    PROVE  Messages(Phase(msgs, onAcceptance))
  <1> DEFINE n == Len(msgs)
  <1>1. n \in Nat /\ DOMAIN msgs = 1..n
    BY SeqFacts DEF Messages
  <1>2. PICK it : /\ it[0] = <<>> /\ Phase(msgs, onAcceptance) = it[n]
                  /\ \A i \in 1..n : it[i] = IF msgs[i].onAcceptance = onAcceptance
                                             THEN Append(it[i - 1], msgs[i]) ELSE it[i - 1]
    BY <1>1, PhaseUnfold
  <1> DEFINE C == {k \in 0..n : Messages(it[k])}
  <1>3. 0 \in C
    <2>1. Messages(<<>>)
      BY DEF Messages, IsSeq, Elements
    <2> QED  BY <1>1, <1>2, <2>1
  <1>4. ASSUME NEW k \in 1..n, k - 1 \in C PROVE k \in C
    <2>1. Messages(it[k - 1]) /\ IsMessage(msgs[k])
      BY <1>1, <1>4 DEF Messages
    <2> DEFINE old == it[k - 1]
               m == msgs[k]
    <2>2. Messages(Append(old, m))
      <3> HIDE DEF old, m
      <3>1. IsSeq(old) /\ IsMessage(m) /\ \A i \in DOMAIN old : IsMessage(old[i])
        BY <2>1 DEF old, m, Messages
      <3>2. /\ IsSeq(Append(old, m)) /\ DOMAIN Append(old, m) = DOMAIN old \cup {Len(old) + 1}
            /\ \A i \in DOMAIN old : Append(old, m)[i] = old[i]
            /\ Append(old, m)[Len(old) + 1] = m
        BY <3>1, AppendFacts
      <3> QED  BY <3>1, <3>2 DEF Messages
    <2>3. k \in 0..n
      BY <1>1
    <2>4. it[k] = Append(old, m) \/ it[k] = old
      BY <1>2
    <2> QED  BY <2>1, <2>2, <2>3, <2>4
  <1>5. n \in C
    <2> HIDE DEF C
    <2> QED  BY <1>1, <1>3, <1>4, UpTo
  <1> QED  BY <1>2, <1>5

-----------------------------------------------------------------------------
(* Steps that leave the accounting alone.                                  *)

RowFields == {"status", "acc", "history", "receipt", "appeal"}
WorkerFields == {"step", "acc", "status", "appeal", "receipt", "prior"}
Appeals == Decided \cup {"none", "raised"}

RowMoves ==
    /\ DOMAIN row' = RowFields /\ row'.acc = row.acc
    /\ row'.status \in Statuses /\ row'.appeal \in Appeals
    /\ IsSeq(row'.history) /\ Len(row'.history) <= MaxHistory /\ row'.receipt \in Returned
    /\ lost' = lost /\ overdrawn' = overdrawn /\ givingUp' \in BOOLEAN
    /\ money' = money \/ \E n : money' = [money EXCEPT !.children = n]

(* What the worker works on is what it had, or what it just loaded.        *)
Carries ==
    /\ "step" \in DOMAIN worker' /\ worker'.step \in Steps
    /\ worker'.step # "idle" =>
         /\ DOMAIN worker' = WorkerFields
         /\ worker'.receipt \in Returned /\ worker'.prior \in Returned
         /\ worker'.acc = row.acc \/ (worker.step # "idle" /\ worker'.acc = worker.acc)
    /\ worker'.step \in {"reveal", "result"} => Len(row'.history) < MaxHistory
    /\ worker'.step = "settle" => row'.status \in {"FINALIZED", "CANCELED"}

(* Unless a write was lost, a closed record is not touched again.          *)
StaysClosed == row.acc.status \in Terminal /\ ~lost' => Standing(row.acc, row'.acc)

LEMMA RowFacts ==
    ASSUME IInv
    PROVE  /\ DOMAIN row = RowFields /\ row.status \in Statuses /\ row.appeal \in Appeals
           /\ IsSeq(row.history) /\ Len(row.history) \in Nat /\ Len(row.history) <= MaxHistory
           /\ row.receipt \in Returned /\ MaxHistory \in Nat /\ Good(row.acc, overdrawn)
           /\ lost \in BOOLEAN /\ overdrawn \in BOOLEAN /\ givingUp \in BOOLEAN
  BY SeqFacts, SubmissionIsNumbers DEF IInv, RowOK, FlagsOK, RowFields, Appeals

LEMMA WorkerFacts ==
    ASSUME IInv, worker.step # "idle"
    PROVE  /\ DOMAIN worker = WorkerFields /\ worker.receipt \in Returned /\ worker.prior \in Returned
           /\ Good(worker.acc, overdrawn) /\ worker.acc.status # "settled" /\ row.acc.status # "settled"
           /\ worker.step \in Steps
           /\ worker.step \in {"reveal", "result"} => Len(row.history) < MaxHistory
           /\ worker.step = "settle" => row.status \in {"FINALIZED", "CANCELED"}
  BY DEF IInv, WorkerOK, WorkerFields, SettledLast, Over0, At

LEMMA CallsStay ==
    ASSUME IInv, calls' = calls, overdrawn' = overdrawn
    PROVE  CallsOK'
  BY DEF IInv, CallsOK, CallOK

LEMMA MoneyStays ==
    ASSUME IInv, RowMoves
    PROVE  RowOK' /\ MoneyOK' /\ FlagsOK'
  <1>1. RowOK'
    BY RowFacts DEF RowOK, RowMoves, RowFields, Appeals
  <1>2. MoneyOK'
    <2>1. MoneyOK
      BY DEF IInv
    <2>2. /\ DOMAIN money' = DOMAIN money /\ money'.fees = money.fees /\ money'.bonds = money.bonds
          /\ money'.refund = money.refund /\ money'.payout = money.payout
      BY <2>1 DEF MoneyOK, RowMoves
    <2> QED  BY <2>1, <2>2 DEF MoneyOK, RowMoves
  <1>3. FlagsOK'
    BY RowFacts DEF FlagsOK, RowMoves
  <1> QED  BY <1>1, <1>2, <1>3

LEMMA Carried ==
    ASSUME IInv, RowMoves, Carries, ~Over0
    PROVE  WorkerOK' /\ (worker'.step # "idle" => worker'.acc.status # "settled")
  <1>1. row.acc.status # "settled"
    BY DEF IInv, SettledLast
  <1>2. Good(row.acc, overdrawn) /\ overdrawn' = overdrawn
    BY RowFacts DEF RowMoves
  <1>3. worker'.step # "idle" => Good(worker'.acc, overdrawn') /\ worker'.acc.status # "settled"
    BY <1>1, <1>2, WorkerFacts DEF Carries
  <1> QED  BY <1>3 DEF WorkerOK, Carries, WorkerFields

(* A step of the worker while the row is not done with.                    *)
LEMMA WorkStep ==
    ASSUME IInv, RowMoves, Carries, calls' = calls, ~Over0
    PROVE  IInv' /\ StaysClosed
  <1>1. RowOK' /\ MoneyOK' /\ FlagsOK'
    BY MoneyStays
  <1>2. CallsOK'
    BY CallsStay DEF RowMoves
  <1>3. WorkerOK' /\ (worker'.step # "idle" => worker'.acc.status # "settled")
    BY Carried
  <1>4. SettledLast'
    <2>1. row'.acc.status # "settled"
      BY DEF IInv, SettledLast, RowMoves
    <2>2. \A c \in Callers : ~(calls'[c].step \in {"top up", "bond"} /\ calls'[c].read.status = "settled")
      BY DEF IInv, SettledLast
    <2> QED  BY <1>3, <2>1, <2>2 DEF SettledLast
  <1>5. StaysClosed
    BY DEF StaysClosed, Standing, RowMoves
  <1> QED  BY <1>1, <1>2, <1>3, <1>4, <1>5 DEF IInv

LEMMA HistoryGrows ==
    ASSUME IInv, Len(row.history) < MaxHistory, NEW entry
    PROVE  IsSeq(With(entry)) /\ Len(With(entry)) <= MaxHistory
  <1>1. IsSeq(row.history) /\ Len(row.history) \in Nat /\ MaxHistory \in Nat
    BY RowFacts
  <1>2. IsSeq(With(entry)) /\ Len(With(entry)) = Len(row.history) + 1
    <2> DEFINE h == row.history
    <2> HIDE DEF h
    <2>1. IsSeq(Append(h, entry)) /\ Len(Append(h, entry)) = Len(h) + 1
      BY <1>1, AppendFacts DEF h
    <2> QED  BY <2>1 DEF With, h
  <1> QED  BY <1>1, <1>2

LEMMA LoadKeeps ==
    ASSUME IInv, Load \/ LoadAppeal \/ Finalize
    PROVE  IInv' /\ StaysClosed
  <1> USE DEF At
  <1>1. ~Over0
    BY DEF Over0, Load, LoadAppeal, Finalize, Decided
  <1>2. RowMoves
    <2>1. CASE Load
      BY <2>1, RowFacts DEF Load, RowMoves, RowFields, Statuses, Appeals, Resumed, LeaderAppeal, Decided,
                            Stays, Rest
    <2>2. CASE LoadAppeal
      BY <2>2, RowFacts DEF LoadAppeal, RowMoves, RowFields, Statuses, Appeals, Decided, Stays, Rest
    <2>3. CASE Finalize
      BY <2>3, RowFacts DEF Finalize, RowMoves, Stays, Rest
    <2> QED  BY <2>1, <2>2, <2>3
  <1>3. Carries
    <2>1. CASE Load
      BY <2>1, RowFacts DEF Load, Carries, Context, WorkerFields, Steps
    <2>2. CASE LoadAppeal
      BY <2>2, RowFacts DEF LoadAppeal, Carries, Context, WorkerFields, Steps
    <2>3. CASE Finalize
      BY <2>3, RowFacts DEF Finalize, Carries, Context, WorkerFields, Steps
    <2> QED  BY <2>1, <2>2, <2>3
  <1>4. calls' = calls
    BY DEF Load, LoadAppeal, Finalize, Stays, Rest
  <1> QED  BY <1>1, <1>2, <1>3, <1>4, WorkStep

LEMMA RefuseAppealKeeps ==
    ASSUME IInv, RefuseAppeal
    PROVE  IInv' /\ StaysClosed
  <1>1. ~Over0 /\ calls' = calls
    BY DEF Over0, RefuseAppeal, Decided, Stays, Rest
  <1>2. RowMoves
    BY RowFacts DEF RefuseAppeal, RowMoves, RowFields, Appeals, Stays, Rest
  <1>3. Carries
    BY DEF RefuseAppeal, Carries, At, Stays, Rest, Steps, IInv, WorkerOK
  <1> QED  BY <1>1, <1>2, <1>3, WorkStep

(* A step of the worker that holds the row.                                *)
LEMMA Onward ==
    ASSUME IInv, worker.step # "idle", RowMoves, calls' = calls,
           \/ worker' = Idle
           \/ \E r \in Returned, step \in Steps :
                /\ worker' = [worker EXCEPT !.step = step, !.receipt = r]
                /\ step \in {"reveal", "result"} => Len(row'.history) < MaxHistory
                /\ step = "settle" => row'.status \in {"FINALIZED", "CANCELED"}
    PROVE  IInv' /\ StaysClosed
  <1>1. ~Over0
    BY DEF Over0, At
  <1>2. Carries
    <2>1. CASE worker' = Idle
      BY <2>1 DEF Carries, Idle, Steps
    <2>2. CASE worker' # Idle
      <3>1. PICK r \in Returned, step \in Steps :
              /\ worker' = [worker EXCEPT !.step = step, !.receipt = r]
              /\ step \in {"reveal", "result"} => Len(row'.history) < MaxHistory
              /\ step = "settle" => row'.status \in {"FINALIZED", "CANCELED"}
        BY <2>2
      <3> QED  BY <3>1, WorkerFacts DEF Carries, WorkerFields
    <2> QED  BY <2>1, <2>2
  <1> QED  BY <1>1, <1>2, WorkStep

LEMMA GotoStep ==
    ASSUME IInv, worker.step # "idle", RowMoves, calls' = calls, NEW step \in Steps, Goto(step),
           step \in {"reveal", "result"} => Len(row'.history) < MaxHistory,
           step = "settle" => row'.status \in {"FINALIZED", "CANCELED"}
    PROVE  IInv' /\ StaysClosed
  <1> DEFINE r == worker.receipt
  <1>1. r \in Returned /\ DOMAIN worker = WorkerFields
    BY WorkerFacts
  <1>2. worker' = [worker EXCEPT !.step = step, !.receipt = r]
    BY <1>1 DEF Goto, WorkerFields
  <1> HIDE DEF r
  <1> QED  BY <1>1, <1>2, Onward

LEMMA ProposeKeeps ==
    ASSUME IInv, Propose
    PROVE  IInv' /\ StaysClosed
  <1>1. worker.step # "idle" /\ calls' = calls
    BY DEF Propose, At, Stays, Rest
  <1>2. PICK r \in Receipts :
          worker' = [worker EXCEPT !.step = "vote", !.receipt = r] /\ row' = [row EXCEPT !.receipt = r]
    BY DEF Propose
  <1>3. r \in Returned /\ "vote" \in Steps
    BY DEF Returned, Steps
  <1>4. RowMoves
    BY <1>2, <1>3, RowFacts DEF Propose, RowMoves, RowFields, Stays, Rest
  <1> QED  BY <1>1, <1>2, <1>3, <1>4, Onward

LEMMA RotateKeeps ==
    ASSUME IInv, Rotate
    PROVE  IInv' /\ StaysClosed
  <1>1. worker.step # "idle" /\ calls' = calls /\ Goto("round") /\ "round" \in Steps
    BY DEF Rotate, At, Stays, Rest, Steps
  <1>2. PICK entry : row' = [row EXCEPT !.history = With(entry)]
    BY DEF Rotate
  <1>3. IsSeq(With(entry)) /\ Len(With(entry)) <= MaxHistory
    BY HistoryGrows DEF Rotate, Room
  <1>4. RowMoves
    BY <1>2, <1>3, RowFacts DEF Rotate, RowMoves, RowFields, Stays, Rest
  <1> QED  BY <1>1, <1>4, GotoStep

LEMMA ConcludedKeeps ==
    ASSUME IInv, worker.step # "idle", NEW status \in Statuses, NEW entry, NEW receipt \in Returned,
           Concluded(status, entry, receipt)
    PROVE  IInv' /\ StaysClosed
  <1>1. calls' = calls /\ worker' = Idle
    BY DEF Concluded, Stays, Rest
  <1>2. IsSeq(With(entry)) /\ Len(With(entry)) <= MaxHistory
    BY HistoryGrows DEF Concluded, Room
  <1>3. row' = [row EXCEPT !.status = status, !.history = With(entry), !.receipt = receipt, !.appeal = "none"]
    BY DEF Concluded
  <1>4. RowMoves
    BY <1>2, <1>3, RowFacts DEF Concluded, RowMoves, RowFields, Appeals, Stays, Rest
  <1> QED  BY <1>1, <1>4, Onward

LEMMA RoundEndsKeeps ==
    ASSUME IInv,
           Undetermined \/ LeaderTimeout \/ ValidatorsTimeout \/ ValidatorsAppealSucceeds
    PROVE  IInv' /\ StaysClosed
  <1>1. worker.step # "idle"
    BY DEF Undetermined, LeaderTimeout, ValidatorsTimeout, ValidatorsAppealSucceeds, At
  <1>2. worker.receipt \in Returned /\ NoReceipt \in Returned
    BY <1>1, WorkerFacts DEF Returned
  <1>3. \E status \in Statuses, receipt \in Returned : \E entry : Concluded(status, entry, receipt)
    <2>1. {"UNDETERMINED", "LEADER_TIMEOUT", "VALIDATORS_TIMEOUT", "PENDING"} \subseteq Statuses
      BY DEF Statuses, Decided
    <2>2. CASE Undetermined
      BY <1>2, <2>1, <2>2 DEF Undetermined
    <2>3. CASE LeaderTimeout
      BY <1>2, <2>1, <2>3 DEF LeaderTimeout
    <2>4. CASE ValidatorsTimeout
      BY <1>2, <2>1, <2>4 DEF ValidatorsTimeout
    <2>5. CASE ValidatorsAppealSucceeds
      BY <1>2, <2>1, <2>5 DEF ValidatorsAppealSucceeds
    <2> QED  BY <2>2, <2>3, <2>4, <2>5
  <1> QED  BY <1>1, <1>3, ConcludedKeeps

LEMMA AcceptKeeps ==
    ASSUME IInv, Accept
    PROVE  IInv' /\ StaysClosed
  <1>1. worker.step # "idle" /\ calls' = calls /\ Goto("reveal") /\ "reveal" \in Steps
    BY DEF Accept, At, Stays, Rest, Steps
  <1>2. RowMoves
    BY RowFacts DEF Accept, RowMoves, RowFields, Statuses, Stays, Rest
  <1>3. Len(row'.history) < MaxHistory
    BY RowFacts DEF Accept, Room, RowFields
  <1> QED  BY <1>1, <1>2, <1>3, GotoStep

LEMMA StoreResultKeeps ==
    ASSUME IInv, StoreResult
    PROVE  IInv' /\ StaysClosed
  <1>1. /\ worker.step # "idle" /\ calls' = calls /\ Goto("dispatch") /\ "dispatch" \in Steps
        /\ worker.step \in {"reveal", "result"}
    BY DEF StoreResult, At, Stays, Rest, Steps
  <1>2. PICK entry : row' = [row EXCEPT !.receipt = worker.receipt, !.history = With(entry)]
    BY DEF StoreResult
  <1>3. IsSeq(With(entry)) /\ Len(With(entry)) <= MaxHistory /\ worker.receipt \in Returned
    BY <1>1, WorkerFacts, HistoryGrows
  <1>4. RowMoves
    BY <1>2, <1>3, RowFacts DEF StoreResult, RowMoves, RowFields, Stays, Rest
  <1> QED  BY <1>1, <1>4, GotoStep

LEMMA AcceptStatusKeeps ==
    ASSUME IInv, AcceptStatus
    PROVE  IInv' /\ StaysClosed
  <1>1. worker.step # "idle" /\ calls' = calls /\ worker' = Idle
    BY DEF AcceptStatus, At, Stays, Rest
  <1>2. RowMoves
    BY RowFacts DEF AcceptStatus, RowMoves, RowFields, Statuses, Decided, Appeals, Stays, Rest
  <1> QED  BY <1>1, <1>2, Onward

LEMMA FinalStatusKeeps ==
    ASSUME IInv, FinalStatus
    PROVE  IInv' /\ StaysClosed
  <1>1. worker.step # "idle" /\ calls' = calls /\ Goto("settle") /\ "settle" \in Steps
    BY DEF FinalStatus, At, Stays, Rest, Steps
  <1>2. RowMoves /\ row'.status = "FINALIZED"
    BY RowFacts DEF FinalStatus, RowMoves, RowFields, Statuses, Stays, Rest
  <1> QED  BY <1>1, <1>2, GotoStep

LEMMA FailKeeps ==
    ASSUME IInv, Fail \/ Release
    PROVE  IInv' /\ StaysClosed
  <1>1. worker.step # "idle" /\ calls' = calls /\ worker' = Idle
    BY DEF Fail, Release, At
  <1>2. RowMoves
    <2>1. CASE Fail
      BY <2>1, RowFacts DEF Fail, RowMoves, RowFields, Statuses
    <2>2. CASE Release
      BY <2>2, RowFacts DEF Release, RowMoves, RowFields, Statuses
    <2> QED  BY <2>1, <2>2
  <1> QED  BY <1>1, <1>2, Onward

-----------------------------------------------------------------------------
(* Steps of the worker that write the accounting.                          *)

LEMMA GoodWidens ==
    ASSUME NEW acc, NEW over \in BOOLEAN, Good(acc, over), NEW wide \in BOOLEAN, over => wide
    PROVE  Good(acc, wide)
  <1>1. IsCopy(acc) /\ Books(acc) /\ Pots(acc) /\ Balanced(acc, over)
    BY Zenon DEF Good
  <1>2. Balanced(acc, wide)
    BY <1>1, BalancedWidens
  <1> QED  BY <1>1, <1>2, Zenon DEF Good

LEMMA CallsWiden ==
    ASSUME IInv, calls' = calls, overdrawn' \in BOOLEAN, overdrawn => overdrawn'
    PROVE  CallsOK'
  <1>1. CallsOK /\ overdrawn \in BOOLEAN
    BY DEF IInv, FlagsOK
  <1>2. ASSUME NEW c \in Callers PROVE CallOK(calls[c])'
    <2>1. CallOK(calls[c])
      BY <1>1 DEF CallsOK
    <2>2. calls[c].step \in {"top up", "bond"} => Good(calls[c].read, overdrawn')
      BY <1>1, <2>1, GoodWidens DEF CallOK
    <2> QED  BY <2>1, <2>2 DEF CallOK
  <1> QED  BY <1>1, <1>2 DEF CallsOK

LEMMA WorkerWrites ==
    ASSUME IInv, worker.step # "idle", NEW acc, NEW step \in Steps, step # "idle", step # "settle",
           step \in {"reveal", "result"} => worker.step \in {"reveal", "result"},
           Write(acc), worker' = [worker EXCEPT !.step = step, !.acc = acc], Over(worker.acc),
           overdrawn' \in BOOLEAN, overdrawn => overdrawn', Keeps(worker.acc, acc, overdrawn'),
           calls' = calls, givingUp' = givingUp,
           money' = money \/ \E n : money' = [money EXCEPT !.children = n]
    PROVE  IInv' /\ StaysClosed
  <1>1. /\ DOMAIN worker = WorkerFields /\ worker.receipt \in Returned /\ worker.prior \in Returned
        /\ worker.acc.status # "settled" /\ row.acc.status # "settled"
        /\ worker.step \in {"reveal", "result"} => Len(row.history) < MaxHistory
    BY WorkerFacts
  <1>2. /\ Good(acc, overdrawn') /\ acc.status = worker.acc.status /\ acc.paid = worker.acc.paid
        /\ acc.bonds = worker.acc.bonds /\ acc.totalRefunded = worker.acc.totalRefunded
    BY DEF Keeps, Charging, Names, Booked
  <1>3. row' = [row EXCEPT !.acc = acc] /\ lost' = (lost \/ row.acc # worker.acc)
    BY DEF Write, Over
  <1>4. /\ DOMAIN row' = RowFields /\ row'.acc = acc /\ row'.status = row.status
        /\ row'.appeal = row.appeal /\ row'.history = row.history /\ row'.receipt = row.receipt
    BY <1>3, RowFacts DEF RowFields
  <1>5. /\ DOMAIN worker' = WorkerFields /\ worker'.step = step /\ worker'.acc = acc
        /\ worker'.receipt = worker.receipt /\ worker'.prior = worker.prior
    BY <1>1 DEF WorkerFields
  <1>6. RowOK'
    BY <1>2, <1>4, RowFacts DEF RowOK, RowFields, Appeals
  <1>7. WorkerOK'
    BY <1>1, <1>2, <1>4, <1>5 DEF WorkerOK, WorkerFields
  <1>8. CallsOK'
    BY CallsWiden
  <1>9. SettledLast'
    <2>1. \A c \in Callers : ~(calls'[c].step \in {"top up", "bond"} /\ calls'[c].read.status = "settled")
      BY DEF IInv, SettledLast, Over0, At
    <2> QED  BY <1>1, <1>2, <1>4, <1>5, <2>1 DEF SettledLast
  <1>10. MoneyOK'
    <2>1. MoneyOK
      BY DEF IInv
    <2>2. /\ DOMAIN money' = DOMAIN money /\ money'.fees = money.fees /\ money'.bonds = money.bonds
          /\ money'.refund = money.refund /\ money'.payout = money.payout
      BY <2>1 DEF MoneyOK
    <2>3. ~lost' => ~lost /\ row.acc = worker.acc
      BY <1>3
    <2> QED  BY <1>2, <1>4, <2>1, <2>2, <2>3 DEF MoneyOK
  <1>11. FlagsOK'
    BY <1>3, RowFacts DEF FlagsOK
  <1>12. StaysClosed
    <2>1. ~lost' => row.acc = worker.acc
      BY <1>3
    <2>2. acc.settlements = worker.acc.settlements
      BY DEF Keeps, Charging, Names, Booked
    <2> QED  BY <1>2, <1>4, <2>1, <2>2 DEF StaysClosed, Standing
  <1> QED  BY <1>6, <1>7, <1>8, <1>9, <1>10, <1>11, <1>12 DEF IInv

LEMMA RevealKeeps ==
    ASSUME IInv, Reveal
    PROVE  IInv' /\ StaysClosed
  <1> DEFINE acc == worker.acc
             msgs == worker.receipt.messages
             charged == Consume(acc, Payloads(acc, msgs), FALSE)
             unwound == Unwind(acc, Discarded, worker.status = "ACCEPTED")
  <1>1. /\ worker.step # "idle" /\ worker.step \in {"reveal", "result"} /\ "result" \in Steps
        /\ calls' = calls /\ givingUp' = givingUp /\ money' = money /\ RevealOk
    BY DEF Reveal, At, Rest, Steps
  <1>2. /\ Good(acc, overdrawn) /\ acc.status # "settled" /\ overdrawn \in BOOLEAN
        /\ worker.receipt \in Returned /\ worker.prior \in Returned
        /\ Len(row.history) < MaxHistory
    BY <1>1, WorkerFacts, RowFacts
  <1>3. IsCopy(acc) /\ Messages(msgs) /\ Messages(worker.prior.messages)
    BY <1>2, ReturnedFacts DEF Good, IsReceipt
  <1>4. /\ overdrawn' \in BOOLEAN /\ (overdrawn => overdrawn')
        /\ (HasMessages(worker.receipt) => overdrawn' = overdrawn)
        /\ (~Unwinds => overdrawn' = overdrawn)
        /\ (Unwinds /\ Overdraws(acc, Discarded, worker.status = "ACCEPTED") => overdrawn')
    <2>1. overdrawn' = (overdrawn \/ (Unwinds /\ Overdraws(acc, Discarded, worker.status = "ACCEPTED")))
      BY DEF Reveal
    <2>2. HasMessages(worker.receipt) => ~Unwinds
      BY DEF Unwinds
    <2> HIDE DEF acc
    <2> QED  BY <1>2, <2>1, <2>2
  <1>5. CASE HasMessages(worker.receipt)
    <2>1. FilledOk(acc, msgs) /\ ConsumeOk(acc, Payloads(acc, msgs), FALSE)
      BY <1>1, <1>5 DEF RevealOk
    <2>2. Messages(Payloads(acc, msgs))
      BY <1>3, <2>1, PayloadsFacts
    <2> DEFINE new == [charged EXCEPT !.atReveal = TRUE]
    <2>3. Revealed = new
      BY <1>5 DEF Revealed, RecordReveal
    <2>4. Write(new) /\ worker' = [worker EXCEPT !.step = "result", !.acc = new] /\ Over(acc)
      BY <1>5, <2>3 DEF Reveal
    <2>5. Keeps(acc, charged, overdrawn')
      <3>1. Keeps(acc, charged, overdrawn)
        <4> HIDE DEF acc, msgs
        <4> QED  BY <1>2, <2>1, <2>2, ConsumeKeeps
      <3> HIDE DEF charged
      <3> QED  BY <1>4, <1>5, <3>1
    <2> HIDE DEF charged
    <2>6. DOMAIN charged = Names
      BY <2>5 DEF Keeps, Charging
    <2>7. DOMAIN new = Names /\ \A f \in Names \ Flags : new[f] = charged[f]
      BY <2>6 DEF Names, Flags
    <2> HIDE DEF new
    <2>8. Keeps(acc, new, overdrawn')
      BY <2>5, <2>7, FlagsAreFree
    <2> QED  BY <1>1, <1>4, <2>4, <2>8, WorkerWrites
  <1>6. CASE ~HasMessages(worker.receipt) /\ Unwinds
    <2>1. FilledOk(acc, worker.prior.messages)
      BY <1>1, <1>6 DEF RevealOk
    <2>2. Messages(Discarded) /\ \A i \in DOMAIN Discarded : Known(Discarded[i])
      BY <1>3, <2>1, PayloadsFacts DEF Discarded
    <2> DEFINE new == [unwound EXCEPT !.atReveal = TRUE]
    <2>3. Revealed = new
      BY <1>6 DEF Revealed
    <2>4. Write(new) /\ worker' = [worker EXCEPT !.step = "result", !.acc = new] /\ Over(acc)
      BY <1>6, <2>3 DEF Reveal
    <2>5. Keeps(acc, unwound, overdrawn')
      <3> DEFINE dispatched == worker.status = "ACCEPTED"
                 wide == overdrawn'
                 list == Discarded
      <3>1. /\ dispatched \in BOOLEAN /\ wide \in BOOLEAN /\ (overdrawn => wide)
            /\ (Overdraws(acc, list, dispatched) => wide)
        BY <1>4, <1>6
      <3>2. Messages(list) /\ \A i \in DOMAIN list : Known(list[i])
        BY <2>2
      <3> HIDE DEF acc, dispatched, wide, list
      <3>3. Keeps(acc, Unwind(acc, list, dispatched), wide)
        BY <1>2, <3>1, <3>2, UnwoundKeeps
      <3> QED  BY <3>3 DEF dispatched, wide, list
    <2> HIDE DEF unwound
    <2>6. DOMAIN unwound = Names
      BY <2>5 DEF Keeps, Charging
    <2>7. DOMAIN new = Names /\ \A f \in Names \ Flags : new[f] = unwound[f]
      BY <2>6 DEF Names, Flags
    <2> HIDE DEF new
    <2>8. Keeps(acc, new, overdrawn')
      BY <2>5, <2>7, FlagsAreFree
    <2> QED  BY <1>1, <1>4, <2>4, <2>8, WorkerWrites
  <1>7. CASE ~HasMessages(worker.receipt) /\ ~Unwinds
    <2>1. Goto("result") /\ row' = row /\ lost' = lost
      BY <1>7 DEF Reveal
    <2>2. RowMoves
      BY <1>1, <1>4, <1>7, <2>1, RowFacts DEF RowMoves
    <2> QED  BY <1>1, <1>2, <2>1, <2>2, GotoStep
  <1> QED  BY <1>5, <1>6, <1>7

LEMMA EmitKeeps ==
    ASSUME IInv, worker.step # "idle", NEW onAcceptance \in BOOLEAN,
           NEW next \in {"status", "finalized"}, Emit(onAcceptance, next)
    PROVE  IInv' /\ StaysClosed
  <1> DEFINE acc == worker.acc
             msgs == Outgoing(onAcceptance)
             payloads == Payloads(acc, msgs)
             new == Dispatched(msgs)
  <1>1. /\ next \in Steps /\ next \notin {"idle", "settle", "reveal", "result"}
        /\ calls' = calls /\ givingUp' = givingUp /\ overdrawn' = overdrawn /\ DispatchOk(msgs)
        /\ money' = money \/ \E n : money' = [money EXCEPT !.children = n]
    BY DEF Emit, Rest, Steps
  <1>2. /\ Good(acc, overdrawn) /\ acc.status # "settled" /\ overdrawn \in BOOLEAN
        /\ worker.receipt \in Returned
    BY WorkerFacts, RowFacts
  <1>3. CASE msgs = <<>>
    <2>1. Goto(next) /\ row' = row /\ lost' = lost
      BY <1>3 DEF Emit
    <2>2. RowMoves
      BY <1>1, <2>1, RowFacts DEF RowMoves
    <2> QED  BY <1>1, <2>1, <2>2, GotoStep
  <1>4. CASE msgs # <<>>
    <2>1. Messages(msgs)
      <3>1. Messages(worker.receipt.messages)
        BY <1>2, ReturnedFacts DEF IsReceipt
      <3>2. Messages(<<>>)
        BY DEF Messages, IsSeq, Elements
      <3> QED  BY <3>1, <3>2, PhaseFacts DEF Outgoing
    <2>2. IsCopy(acc) /\ FilledOk(acc, msgs)
      BY <1>1, <1>2 DEF Good, DispatchOk
    <2> HIDE DEF msgs
    <2>3. Messages(payloads)
      BY <2>1, <2>2, PayloadsFacts
    <2>4. Keeps(acc, new, overdrawn)
      <3>1. CASE acc.atReveal
        <4>1. ExecutionOk(acc, payloads) /\ new = RecordExecution(acc, payloads)
          BY <1>1, <3>1 DEF DispatchOk, Dispatched
        <4> HIDE DEF acc, payloads, new
        <4> QED  BY <1>2, <2>3, <4>1, ExecutedKeeps
      <3>2. CASE ~acc.atReveal
        <4>1. ConsumeOk(acc, payloads, TRUE) /\ new = Consume(acc, payloads, TRUE)
          BY <1>1, <3>2 DEF DispatchOk, Dispatched
        <4> HIDE DEF acc, payloads, new
        <4> QED  BY <1>2, <2>3, <4>1, ConsumeKeeps
      <3> QED  BY <3>1, <3>2
    <2>5. Write(new) /\ worker' = [worker EXCEPT !.step = next, !.acc = new] /\ Over(acc)
      BY <1>4 DEF Emit, msgs
    <2> HIDE DEF new
    <2>6. overdrawn' \in BOOLEAN /\ (overdrawn => overdrawn') /\ Keeps(acc, new, overdrawn')
      BY <1>1, <1>2, <2>4
    <2> QED  BY <1>1, <2>5, <2>6, WorkerWrites
  <1> QED  BY <1>3, <1>4

LEMMA MessagesKeep ==
    ASSUME IInv, Dispatch \/ FinalMessages
    PROVE  IInv' /\ StaysClosed
  <1>1. worker.step # "idle"
    BY DEF Dispatch, FinalMessages, At
  <1>2. CASE Dispatch
    BY <1>1, <1>2, EmitKeeps DEF Dispatch
  <1>3. CASE FinalMessages /\ worker.status = "ACCEPTED"
    BY <1>1, <1>3, EmitKeeps DEF FinalMessages
  <1>4. CASE FinalMessages /\ worker.status # "ACCEPTED"
    <2>1. Goto("finalized") /\ calls' = calls /\ "finalized" \in Steps
      BY <1>4 DEF FinalMessages, Stays, Rest, Steps
    <2>2. RowMoves
      BY <1>4, RowFacts DEF FinalMessages, RowMoves, Stays, Rest
    <2> QED  BY <1>1, <2>1, <2>2, GotoStep
  <1> QED  BY <1>2, <1>3, <1>4

-----------------------------------------------------------------------------
(* Steps that close the record.                                            *)

LEMMA GoodFacts ==
    ASSUME NEW acc, NEW over, Good(acc, over)
    PROVE  /\ acc.status \in Terminal \cup {"active"} /\ acc.paid \in Nat /\ acc.totalRefunded \in Nat
           /\ acc.totalRefunded <= acc.paid /\ (acc.status = "active" => acc.totalRefunded = 0)
           /\ IsCopy(acc) /\ Pots(acc)
  <1>1. IsCopy(acc) /\ Pots(acc)
    BY Zenon DEF Good
  <1> QED  BY <1>1 DEF Pots

LEMMA ClosingMoney ==
    ASSUME IInv, NEW new, Good(new, overdrawn), Ends(row.acc, new), Close(new), row'.acc = new,
           lost' = lost
    PROVE  MoneyOK'
  <1> DEFINE old == row.acc
             back == new.totalRefunded - old.totalRefunded
             payout == IF old.status \in Terminal THEN 0 ELSE PayoutTotal(new.settlements)
  <1>1. MoneyOK /\ Good(old, overdrawn)
    BY RowFacts DEF IInv
  <1>2. /\ old.status \in Terminal \cup {"active"}
        /\ old.totalRefunded \in Nat /\ new.totalRefunded \in Nat
        /\ (old.status = "active" => old.totalRefunded = 0)
    BY <1>1, GoodFacts
  <1>3. /\ new.paid = old.paid /\ new.bonds = old.bonds
        /\ (old.status \in Terminal => new.totalRefunded = old.totalRefunded /\ new.status = old.status)
        /\ (old.status = "active" =>
              /\ PayoutTotal(new.settlements) \in Nat
              /\ 2 * PayoutTotal(new.settlements) <= 3 * Bonded(old)
              /\ new.status \in Terminal)
    BY DEF Ends, Standing
  <1>4. "active" \notin Terminal
    BY DEF Terminal
  <1>5. payout \in Nat /\ (old.status \in Terminal => payout = 0)
        /\ (old.status = "active" => 2 * payout <= 3 * Bonded(old))
    BY <1>2, <1>3, <1>4
  <1>6. back \in Nat /\ old.totalRefunded + back = new.totalRefunded
    BY <1>2, <1>3, <1>4
  <1>7. money' = [money EXCEPT !.refund = @ + back, !.payout = @ + payout]
    <2>1. money.refund \in Nat
      BY <1>1 DEF MoneyOK
    <2>2. money.refund + new.totalRefunded - old.totalRefunded = money.refund + back
      BY <1>2, <2>1
    <2> QED  BY <2>2 DEF Close
  <1> HIDE DEF back, payout
  <1>8. /\ DOMAIN money' = DOMAIN money /\ money'.fees = money.fees /\ money'.bonds = money.bonds
        /\ money'.refund = money.refund + back /\ money'.payout = money.payout + payout
    BY <1>1, <1>7 DEF MoneyOK
  <1>9. money.refund \in Nat /\ money.payout \in Nat /\ money.bonds \in Nat /\ money.fees \in Nat
        /\ DOMAIN money = {"fees", "bonds", "refund", "payout", "children"}
    BY <1>1 DEF MoneyOK
  <1>10. ~lost => /\ money.refund = old.totalRefunded /\ old.paid <= money.fees + money.bonds
                  /\ money.bonds = Bonded(old) /\ (old.status = "active" => money.payout = 0)
                  /\ 2 * money.payout <= 3 * money.bonds
    BY <1>1 DEF MoneyOK, Bonded
  <1>11. money'.refund \in Nat /\ money'.payout \in Nat
    BY <1>5, <1>6, <1>8, <1>9
  <1>12. ~lost => money'.refund = new.totalRefunded
    BY <1>6, <1>8, <1>10
  <1>13. ~lost => 2 * money'.payout <= 3 * money'.bonds
    <2>1. CASE old.status = "active"
      BY <1>5, <1>8, <1>9, <1>10, <2>1
    <2>2. CASE old.status \in Terminal
      BY <1>5, <1>8, <1>9, <1>10, <2>2
    <2> QED  BY <1>2, <2>1, <2>2
  <1>14. new.status # "active"
    BY <1>2, <1>3, <1>4
  <1>15. Bonded(new) = Bonded(old)
    BY <1>3 DEF Bonded
  <1> QED  BY <1>3, <1>8, <1>9, <1>10, <1>11, <1>12, <1>13, <1>14, <1>15 DEF MoneyOK, Bonded

LEMMA SettleFeesKeeps ==
    ASSUME IInv, SettleFees
    PROVE  IInv' /\ StaysClosed
  <1> DEFINE new == Settle(row.acc, row.history, Validators0, worker.receipt)
  <1>1. /\ worker.step # "idle" /\ worker.step = "settle" /\ calls' = calls /\ worker' = Idle
        /\ lost' = lost /\ overdrawn' = overdrawn /\ givingUp' = givingUp
        /\ SettleOk(row.acc, row.history, Validators0, worker.receipt)
        /\ row' = [row EXCEPT !.acc = new] /\ Close(new)
    BY DEF SettleFees, At, Stays, Rest, Write
  <1>2. /\ row.acc.status # "settled" /\ worker.receipt \in Returned
        /\ row.status \in {"FINALIZED", "CANCELED"}
    BY <1>1, WorkerFacts
  <1>3. Good(row.acc, overdrawn) /\ IsSeq(row.history) /\ overdrawn \in BOOLEAN
    BY RowFacts
  <1>4. Good(new, overdrawn) /\ Ends(row.acc, new)
    BY <1>1, <1>2, <1>3, ReturnedFacts, SettleEnds
  <1> HIDE DEF new
  <1>5. /\ DOMAIN row' = RowFields /\ row'.acc = new /\ row'.status = row.status
        /\ row'.appeal = row.appeal /\ row'.history = row.history /\ row'.receipt = row.receipt
    BY <1>1, RowFacts DEF RowFields
  <1>6. RowOK'
    BY <1>1, <1>4, <1>5, RowFacts DEF RowOK, RowFields, Appeals
  <1>7. WorkerOK'
    BY <1>1 DEF WorkerOK, Idle, Steps
  <1>8. CallsOK'
    BY <1>1, CallsStay
  <1>9. SettledLast'
    BY <1>1, <1>2, <1>5 DEF SettledLast, Over0, At, Idle
  <1>10. MoneyOK'
    BY <1>1, <1>4, <1>5, ClosingMoney
  <1>11. FlagsOK'
    BY <1>1, RowFacts DEF FlagsOK
  <1>12. StaysClosed
    BY <1>4, <1>5 DEF StaysClosed, Ends
  <1> QED  BY <1>6, <1>7, <1>8, <1>9, <1>10, <1>11, <1>12 DEF IInv

(* A step of a request or of a worker that gave up, which the worker does  *)
(* not notice.                                                             *)
LEMMA Aside ==
    ASSUME IInv, RowOK', CallsOK', MoneyOK', FlagsOK', worker' = worker, overdrawn' = overdrawn,
           row'.history = row.history, Over0 => row'.status \in {"FINALIZED", "CANCELED"},
           row.status \in {"FINALIZED", "CANCELED"} => row'.status \in {"FINALIZED", "CANCELED"},
           row'.acc.status = "settled" => Over0,
           \A c \in Callers :
             calls'[c].step \in {"top up", "bond"} /\ calls'[c].read.status = "settled" => Over0
    PROVE  IInv'
  <1>1. WorkerOK /\ SettledLast
    BY DEF IInv
  <1>2. WorkerOK'
    BY <1>1 DEF WorkerOK
  <1>3. Over0 => Over0'
    BY DEF Over0, At
  <1>4. SettledLast'
    BY <1>1, <1>3 DEF SettledLast
  <1> QED  BY <1>2, <1>4 DEF IInv

LEMMA GiveUpKeeps ==
    ASSUME IInv, GiveUp
    PROVE  IInv' /\ StaysClosed
  <1> DEFINE new == Cancel(row.acc)
  <1>1. /\ calls' = calls /\ worker' = worker /\ lost' = lost /\ overdrawn' = overdrawn
        /\ givingUp' = FALSE /\ row' = [row EXCEPT !.status = "CANCELED", !.acc = new] /\ Close(new)
    BY DEF GiveUp
  <1>2. Good(row.acc, overdrawn)
    BY RowFacts
  <1>3. Good(new, overdrawn) /\ Ends(row.acc, new) /\ (new.status = "settled" => row.acc.status = "settled")
    BY <1>2, CancelEnds
  <1> HIDE DEF new
  <1>4. /\ DOMAIN row' = RowFields /\ row'.acc = new /\ row'.status = "CANCELED"
        /\ row'.appeal = row.appeal /\ row'.history = row.history /\ row'.receipt = row.receipt
    BY <1>1, RowFacts DEF RowFields
  <1>5. RowOK'
    BY <1>1, <1>3, <1>4, RowFacts DEF RowOK, RowFields, Appeals, Statuses
  <1>6. CallsOK' /\ FlagsOK'
    BY <1>1, CallsStay, RowFacts DEF FlagsOK
  <1>7. MoneyOK'
    BY <1>1, <1>3, <1>4, ClosingMoney
  <1>8. /\ (row'.acc.status = "settled" => Over0)
        /\ \A c \in Callers :
             calls'[c].step \in {"top up", "bond"} /\ calls'[c].read.status = "settled" => Over0
    BY <1>1, <1>3, <1>4 DEF IInv, SettledLast
  <1>9. StaysClosed
    BY <1>3, <1>4 DEF StaysClosed, Ends
  <1>10. IInv'
    BY <1>1, <1>4, <1>5, <1>6, <1>7, <1>8, Aside
  <1> QED  BY <1>9, <1>10

LEMMA CallUpdated ==
    ASSUME IInv, NEW c \in Callers, NEW call, CallOK(call), calls' = [calls EXCEPT ![c] = call],
           overdrawn' = overdrawn,
           call.step \in {"top up", "bond"} /\ call.read.status = "settled" => Over0
    PROVE  /\ CallsOK'
           /\ \A d \in Callers :
                calls'[d].step \in {"top up", "bond"} /\ calls'[d].read.status = "settled" => Over0
  <1>1. CallsOK /\ SettledLast
    BY DEF IInv
  <1>2. DOMAIN calls' = Callers
    BY <1>1 DEF CallsOK
  <1>3. ASSUME NEW d \in Callers
        PROVE  /\ CallOK(calls[d])'
               /\ calls'[d].step \in {"top up", "bond"} /\ calls'[d].read.status = "settled" => Over0
    <2>1. CASE d = c
      <3>1. calls'[d] = call
        BY <1>1, <2>1 DEF CallsOK
      <3> QED  BY <3>1 DEF CallOK
    <2>2. CASE d # c
      <3>1. calls'[d] = calls[d] /\ CallOK(calls[d])
        BY <1>1, <2>2 DEF CallsOK
      <3> QED  BY <1>1, <3>1 DEF CallOK, SettledLast
    <2> QED  BY <2>1, <2>2
  <1> QED  BY <1>2, <1>3 DEF CallsOK

-----------------------------------------------------------------------------
(* Requests.                                                               *)

LEMMA NoCallOK == CallOK(NoCall) /\ CallOK([step |-> "flag"]) /\ CallOK([step |-> "refund"])
  BY DEF CallOK, NoCall

LEMMA ReadKeeps ==
    ASSUME IInv, NEW c \in Callers, ReadForTopUp(c) \/ ReadForAppeal(c)
    PROVE  IInv' /\ StaysClosed
  <1>1. /\ row' = row /\ worker' = worker /\ givingUp' = givingUp /\ money' = money /\ lost' = lost
        /\ overdrawn' = overdrawn
    BY DEF ReadForTopUp, ReadForAppeal, Begin
  <1>2. Good(row.acc, overdrawn)
    BY RowFacts
  <1>3. \E call : /\ CallOK(call) /\ calls' = [calls EXCEPT ![c] = call]
                  /\ (call.step \in {"top up", "bond"} /\ call.read.status = "settled" => Over0)
    <2>1. CASE ReadForTopUp(c)
      <3>1. PICK t \in TopUps :
              /\ TopUpOk(row.acc, t.more, t.amount, Validators0)
              /\ calls' = [calls EXCEPT ![c] = [step |-> "top up", read |-> row.acc, of |-> t]]
        BY <2>1 DEF ReadForTopUp, Begin
      <3> DEFINE call == [step |-> "top up", read |-> row.acc, of |-> t]
      <3>2. CallOK(call)
        BY <1>2, <3>1 DEF CallOK
      <3>3. call.read.status = "settled" => Over0
        BY DEF IInv, SettledLast
      <3> HIDE DEF call
      <3>4. calls' = [calls EXCEPT ![c] = call]
        BY <3>1 DEF call
      <3> QED  BY <3>2, <3>3, <3>4
    <2>2. CASE ReadForAppeal(c)
      <3>1. PICK b \in Bonds :
              calls' = [calls EXCEPT ![c] = [step |-> "bond", read |-> row.acc, of |-> b,
                                             round |-> FinalRound(row.history)]]
        BY <2>2 DEF ReadForAppeal, Begin
      <3> DEFINE call == [step |-> "bond", read |-> row.acc, of |-> b, round |-> FinalRound(row.history)]
      <3>2. CallOK(call)
        BY <1>2, <3>1 DEF CallOK
      <3>3. call.read.status = "settled" => Over0
        BY DEF IInv, SettledLast
      <3>4. calls' = [calls EXCEPT ![c] = call]
        BY <3>1
      <3> HIDE DEF call
      <3> QED  BY <3>2, <3>3, <3>4
    <2> QED  BY <2>1, <2>2
  <1>4. /\ CallsOK'
        /\ \A d \in Callers :
             calls'[d].step \in {"top up", "bond"} /\ calls'[d].read.status = "settled" => Over0
    BY <1>1, <1>3, CallUpdated
  <1>5. RowMoves
    BY <1>1, RowFacts DEF RowMoves
  <1>6. RowOK' /\ MoneyOK' /\ FlagsOK'
    BY <1>5, MoneyStays
  <1>7. row'.acc.status = "settled" => Over0
    BY <1>1 DEF IInv, SettledLast
  <1>8. Over0 => row.status \in {"FINALIZED", "CANCELED"}
    BY DEF Over0
  <1>9. StaysClosed
    BY <1>1 DEF StaysClosed, Standing
  <1>10. IInv'
    BY <1>1, <1>4, <1>6, <1>7, <1>8, Aside
  <1> QED  BY <1>9, <1>10

(* What a request writes is computed from what it read.                    *)
Pays(read, new, x, y) ==
    /\ Standing(read, new)
    /\ new.paid \in Nat /\ new.paid <= read.paid + (x + y)
    /\ Bonded(new) = y + Bonded(read)

Passive(call) == call.step \notin {"top up", "bond"}
PaidIn(x, y) == money' = [money EXCEPT !.fees = @ + x, !.bonds = @ + y]

LEMMA PaidArithmetic ==
    ASSUME NEW p \in Nat, NEW q \in Nat, NEW f \in Nat, NEW b \in Nat, NEW x \in Nat, NEW y \in Nat,
           p <= q + (x + y), q <= f + b
    PROVE  p <= (f + x) + (b + y)
  OBVIOUS

LEMMA RequestWrites ==
    ASSUME IInv, NEW c \in Callers, NEW call, CallOK(call), Passive(call),
           calls' = [calls EXCEPT ![c] = call],
           NEW read, Good(read, overdrawn), read.status = "settled" => Over0,
           NEW new, Good(new, overdrawn), NEW x \in Nat, NEW y \in Nat,
           Pays(read, new, x, y), Write(new), Over(read),
           PaidIn(x, y),
           worker' = worker, givingUp' = givingUp, overdrawn' = overdrawn
    PROVE  IInv' /\ StaysClosed
  <1>1. row' = [row EXCEPT !.acc = new] /\ lost' = (lost \/ row.acc # read)
    BY DEF Write, Over
  <1>2. /\ DOMAIN row' = RowFields /\ row'.acc = new /\ row'.status = row.status
        /\ row'.appeal = row.appeal /\ row'.history = row.history /\ row'.receipt = row.receipt
    BY <1>1, RowFacts DEF RowFields
  <1>3. RowOK'
    BY <1>2, RowFacts DEF RowOK, RowFields, Appeals
  <1>4. FlagsOK'
    BY <1>1, RowFacts DEF FlagsOK
  <1>5. /\ CallsOK'
        /\ \A d \in Callers :
             calls'[d].step \in {"top up", "bond"} /\ calls'[d].read.status = "settled" => Over0
    BY CallUpdated DEF Passive
  <1>6. MoneyOK'
    <2>1. MoneyOK
      BY DEF IInv
    <2>2. money.fees \in Nat /\ money.bonds \in Nat /\ money.refund \in Nat /\ money.payout \in Nat
          /\ DOMAIN money = {"fees", "bonds", "refund", "payout", "children"}
      BY <2>1 DEF MoneyOK
    <2>10. money.fees \in Nat /\ money.bonds \in Nat /\ money.payout \in Nat
      BY <2>2
    <2>3. /\ DOMAIN money' = DOMAIN money /\ money'.fees = money.fees + x
          /\ money'.bonds = money.bonds + y
          /\ money'.refund = money.refund /\ money'.payout = money.payout
      BY <2>2 DEF PaidIn
    <2>11. /\ money'.fees = money.fees + x /\ money'.bonds = money.bonds + y
           /\ money'.payout = money.payout
      BY <2>3
    <2>4. ~lost => /\ money.refund = row.acc.totalRefunded /\ row.acc.paid <= money.fees + money.bonds
                   /\ money.bonds = Bonded(row.acc) /\ (row.acc.status = "active" => money.payout = 0)
                   /\ 2 * money.payout <= 3 * money.bonds
      BY <2>1 DEF MoneyOK, Bonded
    <2>5. ~lost' => ~lost /\ row.acc = read
      BY <1>1
    <2>6. /\ new.status = read.status /\ new.totalRefunded = read.totalRefunded
          /\ new.paid \in Nat /\ new.paid <= read.paid + (x + y)
          /\ Bonded(new) = y + Bonded(read)
      BY DEF Pays, Standing
    <2>7. read.paid \in Nat
      BY GoodFacts
    <2>8. ~lost' => /\ money'.refund = new.totalRefunded /\ new.paid <= money'.fees + money'.bonds
                    /\ money'.bonds = Bonded(new) /\ (new.status = "active" => money'.payout = 0)
                    /\ 2 * money'.payout <= 3 * money'.bonds
      <3> SUFFICES ASSUME ~lost' PROVE
                    /\ money'.refund = new.totalRefunded /\ new.paid <= money'.fees + money'.bonds
                    /\ money'.bonds = Bonded(new) /\ (new.status = "active" => money'.payout = 0)
                    /\ 2 * money'.payout <= 3 * money'.bonds
        OBVIOUS
      <3>1. /\ money.refund = read.totalRefunded /\ read.paid <= money.fees + money.bonds
            /\ money.bonds = Bonded(read) /\ (read.status = "active" => money.payout = 0)
            /\ 2 * money.payout <= 3 * money.bonds
        BY <2>4, <2>5
      <3>3. new.paid <= money'.fees + money'.bonds
        BY <2>2, <2>3, <2>6, <2>7, <3>1, PaidArithmetic
      <3>4. money'.bonds = Bonded(new)
        <4>1. money.bonds + y = y + money.bonds
          BY <2>10
        <4> QED  BY <2>11, <2>6, <3>1, <4>1
      <3>5. 2 * money'.payout <= 3 * money'.bonds
        <4>1. \A p, b, z \in Nat : 2 * p <= 3 * b => 2 * p <= 3 * (b + z)
          OBVIOUS
        <4>2. 2 * money.payout <= 3 * (money.bonds + y)
          BY <2>10, <3>1, <4>1
        <4> QED  BY <2>11, <4>2
      <3> QED  BY <2>3, <2>6, <3>1, <3>3, <3>4, <3>5
    <2>9. money'.fees \in Nat /\ money'.bonds \in Nat
      BY <2>10, <2>11
    <2> QED  BY <1>2, <2>2, <2>3, <2>8, <2>9 DEF MoneyOK, Bonded
  <1>7. row'.acc.status = "settled" => Over0
    BY <1>2 DEF Pays, Standing
  <1>8. Over0 => row.status \in {"FINALIZED", "CANCELED"}
    BY DEF Over0
  <1>9. StaysClosed
    BY <1>1, <1>2 DEF StaysClosed, Pays
  <1>10. IInv'
    BY <1>2, <1>3, <1>4, <1>5, <1>6, <1>7, <1>8, Aside
  <1> QED  BY <1>9, <1>10

LEMMA WriteTopUpKeeps ==
    ASSUME IInv, NEW c \in Callers, WriteTopUp(c)
    PROVE  IInv' /\ StaysClosed
  <1> DEFINE read == calls[c].read
             more == calls[c].of.more
             amount == calls[c].of.amount
             new == TopUp(read, more, amount)
  <1>1. CallOK(calls[c]) /\ calls[c].step = "top up" /\ (read.status = "settled" => Over0)
    BY DEF WriteTopUp, IInv, CallsOK, SettledLast
  <1>2. more \in Fees /\ amount \in Nat /\ Good(read, overdrawn) /\ TopUpOk(read, more, amount, Validators0)
    BY <1>1, InputsAreNumbers DEF CallOK
  <1>3. /\ Good(new, overdrawn) /\ Standing(read, new)
        /\ new.paid = read.paid + amount /\ new.bonds = read.bonds
    BY <1>2, TopUpKeeps
  <1>4. read.paid \in Nat /\ Bonded(read) \in Nat
    <2>1. read.paid \in Nat /\ Pots(read)
      BY <1>2, GoodFacts
    <2> HIDE DEF read
    <2>2. IsSeq(read.bonds) /\ \A x \in DOMAIN read.bonds : read.bonds[x]["amount"] \in Nat
      BY <2>1 DEF Pots
    <2>3. DOMAIN read.bonds \in SUBSET DOMAIN read.bonds
      OBVIOUS
    <2> QED  BY <2>1, <2>2, <2>3, FieldNat DEF Bonded
  <1>5. Pays(read, new, amount, 0)
    <2>1. Bonded(new) = Bonded(read)
      BY <1>3 DEF Bonded
    <2> HIDE DEF new, read, amount
    <2> QED  BY <1>2, <1>3, <1>4, <2>1 DEF Pays
  <1>6. /\ Write(new) /\ Over(read) /\ money' = [money EXCEPT !.fees = @ + amount]
        /\ calls' = [calls EXCEPT ![c] = NoCall]
        /\ worker' = worker /\ givingUp' = givingUp /\ overdrawn' = overdrawn
    BY DEF WriteTopUp, Done
  <1>7. PaidIn(amount, 0)
    <2> DEFINE f == money.fees + amount
               b == money.bonds
    <2>1. b + 0 = b /\ DOMAIN money = {"fees", "bonds", "refund", "payout", "children"}
      BY DEF IInv, MoneyOK
    <2> HIDE DEF f, amount
    <2>2. [money EXCEPT !.fees = f, !.bonds = b] = [money EXCEPT !.fees = f]
      BY <2>1
    <2> QED  BY <1>6, <2>1, <2>2 DEF f, PaidIn
  <1>8. CallOK(NoCall) /\ Passive(NoCall)
    BY NoCallOK DEF NoCall, Passive
  <1> HIDE DEF new, read, amount, more
  <1> QED  BY <1>1, <1>2, <1>3, <1>5, <1>6, <1>7, <1>8, RequestWrites

LEMMA WriteBondKeeps ==
    ASSUME IInv, NEW c \in Callers, WriteBond(c)
    PROVE  IInv' /\ StaysClosed
  <1> DEFINE read == calls[c].read
             amount == calls[c].of.amount
             wider == calls[c].of.topUpAndSubmit
             new == AppealBond(read, amount, c, calls[c].round, wider)
             flag == [step |-> "flag"]
  <1>1. CallOK(calls[c]) /\ calls[c].step = "bond" /\ (read.status = "settled" => Over0)
    BY DEF WriteBond, IInv, CallsOK, SettledLast
  <1>2. amount \in Nat /\ wider \in BOOLEAN /\ Good(read, overdrawn)
    BY <1>1, InputsAreNumbers DEF CallOK
  <1>3. /\ Good(new, overdrawn) /\ Standing(read, new)
        /\ new.paid \in Nat /\ new.paid <= read.paid + amount
        /\ Bonded(new) = amount + Bonded(read)
    BY <1>2, BondKeeps
  <1>4. read.paid \in Nat
    BY <1>2, GoodFacts
  <1>5. Pays(read, new, 0, amount)
    <2> HIDE DEF new, read, amount
    <2> QED  BY <1>2, <1>3, <1>4 DEF Pays
  <1>6. /\ Write(new) /\ Over(read) /\ money' = [money EXCEPT !.bonds = @ + amount]
        /\ calls' = [calls EXCEPT ![c] = flag]
        /\ worker' = worker /\ givingUp' = givingUp /\ overdrawn' = overdrawn
    BY DEF WriteBond
  <1>7. PaidIn(0, amount)
    <2> DEFINE f == money.fees
               b == money.bonds + amount
    <2>1. f + 0 = f /\ DOMAIN money = {"fees", "bonds", "refund", "payout", "children"}
      BY DEF IInv, MoneyOK
    <2> HIDE DEF b, amount
    <2>2. [money EXCEPT !.fees = f, !.bonds = b] = [money EXCEPT !.bonds = b]
      BY <2>1
    <2> QED  BY <1>6, <2>1, <2>2 DEF b, PaidIn
  <1>8. CallOK(flag) /\ Passive(flag)
    BY NoCallOK DEF Passive
  <1> HIDE DEF new, read, amount, wider, flag
  <1> QED  BY <1>1, <1>2, <1>3, <1>5, <1>6, <1>7, <1>8, RequestWrites

LEMMA FlagKeeps ==
    ASSUME IInv, NEW c \in Callers, SetAppeal(c) \/ CancelStatus(c)
    PROVE  IInv' /\ StaysClosed
  <1>1. /\ worker' = worker /\ givingUp' = givingUp /\ money' = money /\ lost' = lost
        /\ overdrawn' = overdrawn
    BY DEF SetAppeal, CancelStatus
  <1>2. \E call : CallOK(call) /\ call.step \notin {"top up", "bond"} /\ calls' = [calls EXCEPT ![c] = call]
    <2>1. NoCall.step = "none" /\ [step |-> "refund"].step = "refund"
      BY DEF NoCall
    <2>2. calls' = [calls EXCEPT ![c] = NoCall] \/ calls' = [calls EXCEPT ![c] = [step |-> "refund"]]
      BY DEF SetAppeal, CancelStatus, Done
    <2> QED  BY <2>1, <2>2, NoCallOK
  <1>3. /\ CallsOK'
        /\ \A d \in Callers :
             calls'[d].step \in {"top up", "bond"} /\ calls'[d].read.status = "settled" => Over0
    BY <1>1, <1>2, CallUpdated
  <1>4. RowMoves /\ row'.history = row.history
    <2>1. CASE SetAppeal(c)
      BY <1>1, <2>1, RowFacts DEF SetAppeal, RowMoves, RowFields, Appeals
    <2>2. CASE CancelStatus(c)
      BY <1>1, <2>2, RowFacts DEF CancelStatus, RowMoves, RowFields, Statuses
    <2> QED  BY <2>1, <2>2
  <1>5. RowOK' /\ MoneyOK' /\ FlagsOK'
    BY <1>4, MoneyStays
  <1>6. row'.acc.status = "settled" => Over0
    BY <1>4 DEF IInv, SettledLast, RowMoves
  <1>7. row.status \in {"FINALIZED", "CANCELED"} => row'.status \in {"FINALIZED", "CANCELED"}
    <2>1. CASE SetAppeal(c)
      BY <2>1, RowFacts DEF SetAppeal, RowFields
    <2>2. CASE CancelStatus(c)
      BY <2>2 DEF CancelStatus
    <2> QED  BY <2>1, <2>2
  <1>8. Over0 => row'.status \in {"FINALIZED", "CANCELED"}
    BY <1>7 DEF Over0
  <1>9. StaysClosed
    BY <1>4 DEF StaysClosed, Standing, RowMoves
  <1>10. IInv'
    BY <1>1, <1>3, <1>4, <1>5, <1>6, <1>7, <1>8, Aside
  <1> QED  BY <1>9, <1>10

LEMMA CancelRefundKeeps ==
    ASSUME IInv, NEW c \in Callers, CancelRefund(c)
    PROVE  IInv' /\ StaysClosed
  <1> DEFINE new == Cancel(row.acc)
  <1>1. /\ worker' = worker /\ lost' = lost /\ overdrawn' = overdrawn /\ givingUp' = givingUp
        /\ calls' = [calls EXCEPT ![c] = NoCall] /\ row' = [row EXCEPT !.acc = new] /\ Close(new)
    BY DEF CancelRefund, Done, Write
  <1>2. Good(row.acc, overdrawn)
    BY RowFacts
  <1>3. Good(new, overdrawn) /\ Ends(row.acc, new) /\ (new.status = "settled" => row.acc.status = "settled")
    BY <1>2, CancelEnds
  <1> HIDE DEF new
  <1>4. /\ DOMAIN row' = RowFields /\ row'.acc = new /\ row'.status = row.status
        /\ row'.appeal = row.appeal /\ row'.history = row.history /\ row'.receipt = row.receipt
    BY <1>1, RowFacts DEF RowFields
  <1>5. RowOK'
    BY <1>1, <1>3, <1>4, RowFacts DEF RowOK, RowFields, Appeals
  <1>6. /\ CallsOK'
        /\ \A d \in Callers :
             calls'[d].step \in {"top up", "bond"} /\ calls'[d].read.status = "settled" => Over0
    <2>1. CallOK(NoCall) /\ NoCall.step = "none"
      BY NoCallOK DEF NoCall
    <2> QED  BY <1>1, <2>1, CallUpdated
  <1>7. MoneyOK'
    BY <1>1, <1>3, <1>4, ClosingMoney
  <1>8. FlagsOK'
    BY <1>1, RowFacts DEF FlagsOK
  <1>9. row'.acc.status = "settled" => Over0
    BY <1>3, <1>4 DEF IInv, SettledLast
  <1>10. Over0 => row.status \in {"FINALIZED", "CANCELED"}
    BY DEF Over0
  <1>11. StaysClosed
    BY <1>3, <1>4 DEF StaysClosed, Ends
  <1>12. IInv'
    BY <1>1, <1>4, <1>5, <1>6, <1>7, <1>8, <1>9, <1>10, Aside
  <1> QED  BY <1>11, <1>12

-----------------------------------------------------------------------------
(* The invariant is inductive.                                             *)

LEMMA InitOK == Init => IInv
  <1> SUFFICES ASSUME Init PROVE IInv
    OBVIOUS
  <1> DEFINE acc == Submitted(Distribution, Allocations, Validators0, Deposit, Policy)
  <1>1. Good(acc, FALSE) /\ Deposit \in Nat /\ MaxHistory \in Nat
    BY SubmittedIsGood, SubmissionIsNumbers
  <1>2. acc.status = "active" /\ acc.paid = Deposit /\ acc.bonds = <<>> /\ acc.totalRefunded = 0
    BY DEF Submitted, NewAccounting
  <1>3. row = [status |-> "PENDING", acc |-> acc, history |-> <<>>, receipt |-> NoReceipt, appeal |-> "none"]
    BY DEF Init
  <1> HIDE DEF acc
  <1>4. /\ DOMAIN row = RowFields /\ row.acc = acc /\ row.status = "PENDING" /\ row.history = <<>>
        /\ row.receipt = NoReceipt /\ row.appeal = "none"
    BY <1>3 DEF RowFields
  <1>5. worker = Idle /\ calls = [c \in Callers |-> NoCall] /\ givingUp = FALSE /\ lost = FALSE
        /\ overdrawn = FALSE
        /\ money = [fees |-> Deposit, bonds |-> 0, refund |-> 0, payout |-> 0, children |-> 0]
    BY DEF Init
  <1>6. RowOK
    <2>1. IsSeq(<<>>) /\ Len(<<>>) = 0
      BY DEF IsSeq, Elements
    <2>2. NoReceipt \in Returned /\ "PENDING" \in Statuses
      BY DEF Returned, Statuses
    <2>3. Good(row.acc, overdrawn)
      BY <1>1, <1>4, <1>5, Zenon
    <2>4. row.history = <<>> /\ IsSeq(row.history) /\ Len(row.history) <= MaxHistory
      BY <1>1, <1>4, <2>1
    <2> QED  BY <1>4, <2>2, <2>3, <2>4 DEF RowOK, RowFields
  <1>7. WorkerOK
    BY <1>5 DEF WorkerOK, Idle, Steps
  <1>8. CallsOK
    BY <1>5, NoCallOK DEF CallsOK
  <1>9. SettledLast
    BY <1>2, <1>4, <1>5 DEF SettledLast, Idle, NoCall
  <1>10. MoneyOK
    <2>1. DOMAIN <<>> = {}
      OBVIOUS
    <2>2. Total(Field(<<>>, "amount"), {}) = 0
      BY TotalEmpty
    <2>3. Total(Field(acc.bonds, "amount"), DOMAIN acc.bonds) = 0
      BY <1>2, <2>1, <2>2
    <2> QED  BY <1>1, <1>2, <1>4, <1>5, <2>3 DEF MoneyOK
  <1>11. FlagsOK
    BY <1>5 DEF FlagsOK
  <1> QED  BY <1>6, <1>7, <1>8, <1>9, <1>10, <1>11 DEF IInv

LEMMA NextOK == IInv /\ Next => IInv' /\ StaysClosed
  <1> SUFFICES ASSUME IInv, Next PROVE IInv' /\ StaysClosed
    OBVIOUS
  <1>1. CASE Load \/ LoadAppeal \/ Finalize
    BY <1>1, LoadKeeps
  <1>2. CASE RefuseAppeal
    BY <1>2, RefuseAppealKeeps
  <1>3. CASE Propose
    BY <1>3, ProposeKeeps
  <1>4. CASE Rotate
    BY <1>4, RotateKeeps
  <1>5. CASE Undetermined \/ LeaderTimeout \/ ValidatorsTimeout \/ ValidatorsAppealSucceeds
    BY <1>5, RoundEndsKeeps
  <1>6. CASE Accept
    BY <1>6, AcceptKeeps
  <1>7. CASE Reveal
    BY <1>7, RevealKeeps
  <1>8. CASE StoreResult
    BY <1>8, StoreResultKeeps
  <1>9. CASE Dispatch \/ FinalMessages
    BY <1>9, MessagesKeep
  <1>10. CASE AcceptStatus
    BY <1>10, AcceptStatusKeeps
  <1>11. CASE FinalStatus
    BY <1>11, FinalStatusKeeps
  <1>12. CASE SettleFees
    BY <1>12, SettleFeesKeeps
  <1>13. CASE Fail \/ Release
    BY <1>13, FailKeeps
  <1>14. CASE GiveUp
    BY <1>14, GiveUpKeeps
  <1>15. ASSUME NEW c \in Callers, ReadForTopUp(c) \/ ReadForAppeal(c)
         PROVE  IInv' /\ StaysClosed
    BY <1>15, ReadKeeps
  <1>16. ASSUME NEW c \in Callers, WriteTopUp(c) PROVE IInv' /\ StaysClosed
    BY <1>16, WriteTopUpKeeps
  <1>17. ASSUME NEW c \in Callers, WriteBond(c) PROVE IInv' /\ StaysClosed
    BY <1>17, WriteBondKeeps
  <1>18. ASSUME NEW c \in Callers, SetAppeal(c) \/ CancelStatus(c) PROVE IInv' /\ StaysClosed
    BY <1>18, FlagKeeps
  <1>19. ASSUME NEW c \in Callers, CancelRefund(c) PROVE IInv' /\ StaysClosed
    BY <1>19, CancelRefundKeeps
  <1> QED
    BY <1>1, <1>2, <1>3, <1>4, <1>5, <1>6, <1>7, <1>8, <1>9, <1>10, <1>11, <1>12, <1>13, <1>14,
       <1>15, <1>16, <1>17, <1>18, <1>19 DEF Next

LEMMA StepOK == IInv /\ [Next]_vars => IInv'
  <1> SUFFICES ASSUME IInv, [Next]_vars PROVE IInv'
    OBVIOUS
  <1>1. CASE Next
    BY <1>1, NextOK
  <1>2. CASE UNCHANGED vars
    <2>1. /\ row' = row /\ worker' = worker /\ calls' = calls /\ givingUp' = givingUp /\ money' = money
          /\ lost' = lost /\ overdrawn' = overdrawn
      BY <1>2 DEF vars
    <2>2. RowMoves
      BY <2>1, RowFacts DEF RowMoves
    <2>3. RowOK' /\ MoneyOK' /\ FlagsOK' /\ CallsOK'
      BY <2>1, <2>2, MoneyStays, CallsStay
    <2>4. /\ (row'.acc.status = "settled" => Over0)
          /\ \A c \in Callers :
               calls'[c].step \in {"top up", "bond"} /\ calls'[c].read.status = "settled" => Over0
      BY <2>1 DEF IInv, SettledLast
    <2>5. Over0 => row.status \in {"FINALIZED", "CANCELED"}
      BY DEF Over0
    <2> QED  BY <2>1, <2>3, <2>4, <2>5, Aside
  <1> QED  BY <1>1, <1>2

(* In every state of the accounting, every copy of the record (in the row, *)
(* with the worker, in a request) agrees with itself and with the row.     *)
THEOREM Invariance == Spec => []IInv
  <1> QED  BY InitOK, StepOK, PTL DEF Spec

-----------------------------------------------------------------------------
(* The properties of TransactionFees.                                      *)

(* The row, the worker and the requests are only ever in the states that   *)
(* the code names, and the history never outgrows its bound.               *)
THEOREM TypeCorrect == Spec => []TypeOK
  <1>1. IInv => TypeOK
    <2> SUFFICES ASSUME IInv PROVE TypeOK
      OBVIOUS
    <2>1. row.acc.status \in Terminal \cup {"active"}
      BY RowFacts, GoodFacts
    <2>2. worker.step \in Steps /\ \A c \in Callers : calls[c].step \in {"none", "top up", "bond", "flag", "refund"}
      BY DEF IInv, WorkerOK, CallsOK, CallOK
    <2> QED  BY <2>1, <2>2, RowFacts DEF TypeOK, Statuses, Appeals, Steps
  <1> QED  BY <1>1, Invariance, PTL

(* The totals of the record agree with the allocations and events it       *)
(* lists, for every submission, every sequence of charges, executions and  *)
(* unwindings, whatever writes are lost and whoever fails.                 *)
THEOREM Ledger == Spec => []LedgerAgrees
  <1>1. IInv => LedgerAgrees
    <2> SUFFICES ASSUME IInv PROVE LedgerAgrees
      OBVIOUS
    <2> DEFINE acc == row.acc
               s == acc.events
    <2>1. IsCopy(acc) /\ Books(acc) /\ Balanced(acc, overdrawn)
      BY RowFacts, Zenon DEF Good
    <2>2. acc.allocations = Allocations
      BY <2>1 DEF IsCopy
    <2> HIDE DEF acc
    <2>3. \A S : Reservations(acc, S) = Reservation0(s, S)
      BY SumIsTotal DEF Reservations, Reservation0, Field
    <2>4. Live(acc) = LiveIn(s)
      BY DEF Live, LiveIn
    <2>5. Reimbursements(acc) = Reimbursement0(s, LiveIn(s))
      BY <2>4, SumIsTotal DEF Reimbursements, Reimbursement0, Field
    <2>6. \A i : EventsOf(acc, i) = OnNode(s, i)
      BY <2>4 DEF EventsOf, OnNode
    <2>7. OfType(acc, "external") = Externals /\ OfType(acc, "internal") = Internals
      BY <2>2 DEF OfType, Externals, Internals
    <2>8. UsedInternally(acc) = Total(acc.used, Internals)
      BY <2>7, SumIsTotal DEF UsedInternally
    <2>9. \A i \in DOMAIN acc.allocations : acc.used[i] <= acc.allocations[i].budget
      BY <2>1, <2>2 DEF Books, Within
    <2>10. \A i \in OfType(acc, "external") : acc.used[i] = Reservations(acc, EventsOf(acc, i))
      BY <2>1, <2>3, <2>6, <2>7 DEF Books
    <2>11. acc.reserved = Reservations(acc, Live(acc)) /\ acc.reimbursed = Reimbursements(acc)
      BY <2>1, <2>3, <2>4, <2>5 DEF Books
    <2>12. acc.allocations # <<>> =>
             /\ acc.consumed <= acc.reimbursed + UsedInternally(acc)
             /\ ~overdrawn => acc.consumed = acc.reimbursed + UsedInternally(acc)
      BY <2>1, <2>2, <2>8 DEF Balanced
    <2> QED  BY <2>9, <2>10, <2>11, <2>12 DEF LedgerAgrees, acc
  <1> QED  BY <1>1, Invariance, PTL

(* Unless a write of the accounting is lost, the sender gets back no more  *)
(* than was paid, and appealers no more than one and a half times their    *)
(* bonds, although three parties may each close the record.                *)
THEOREM Refunds == Spec => []RefundBounded
  <1>1. IInv => RefundBounded
    <2> SUFFICES ASSUME IInv, ~lost
                 PROVE  money.refund <= money.fees + money.bonds /\ 2 * money.payout <= 3 * money.bonds
      BY DEF RefundBounded
    <2>1. /\ money.refund = row.acc.totalRefunded /\ row.acc.paid <= money.fees + money.bonds
          /\ 2 * money.payout <= 3 * money.bonds
          /\ money.fees \in Nat /\ money.bonds \in Nat
      BY DEF IInv, MoneyOK
    <2>2. row.acc.totalRefunded \in Nat /\ row.acc.paid \in Nat /\ row.acc.totalRefunded <= row.acc.paid
      BY RowFacts, GoodFacts
    <2> QED  BY <2>1, <2>2
  <1> QED  BY <1>1, Invariance, PTL

(* Neither pot of an open or settled record pays out more than was put     *)
(* into it, also when writes of the accounting overwrite each other.       *)
THEOREM PotsCovered == Spec => []PotsHold
  <1>1. IInv => PotsHold
    <2> SUFFICES ASSUME IInv PROVE PotsHold
      OBVIOUS
    <2> DEFINE acc == row.acc
    <2>1. Pots(acc) /\ acc.consumed \in Nat
      BY RowFacts, Zenon DEF Good, Books
    <2> HIDE DEF acc
    <2>2. /\ acc.message \in Nat /\ acc.primary \in Nat
          /\ acc.status \in {"settled", "canceled", "active"}
      BY <2>1 DEF Pots, Terminal
    <2>3. CASE acc.status = "active"
      <3>1. /\ acc.spent = 0 /\ acc.refunded = 0 /\ acc.messageRefunded = 0
            /\ acc.consumed <= acc.message
        BY <2>1, <2>3 DEF Pots
      <3>2. acc.consumed + acc.messageRefunded <= acc.message /\ acc.spent + acc.refunded <= acc.primary
        BY <2>1, <2>2, <3>1
      <3> QED  BY <3>2 DEF PotsHold, acc
    <2>4. CASE acc.status = "settled"
      BY <2>1, <2>4 DEF Pots, PotsHold, acc
    <2>5. CASE acc.status = "canceled"
      BY <2>5 DEF PotsHold, acc
    <2> QED  BY <2>2, <2>3, <2>4, <2>5
  <1> QED  BY <1>1, Invariance, PTL

(* Once a record is closed its status, its refunds and its settlements     *)
(* never change, whoever else settles or cancels it, unless a write of the *)
(* accounting is lost.                                                     *)
THEOREM ClosedOnce == Spec => ClosedForGood
  <1>1. IInv /\ [Next]_vars =>
          [row.acc.status \in Terminal /\ ~lost' =>
             /\ row'.acc.status = row.acc.status
             /\ row'.acc.totalRefunded = row.acc.totalRefunded
             /\ row'.acc.settlements = row.acc.settlements]_vars
    BY NextOK DEF StaysClosed, Standing
  <1> QED  BY <1>1, Invariance, PTL DEF Spec, ClosedForGood
=============================================================================
