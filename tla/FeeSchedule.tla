---------------------------- MODULE FeeSchedule ----------------------------
(***************************************************************************)
(* What a transaction costs: the schedule of backend/protocol_rpc/fees.py  *)
(* and the reading of the consensus history (consensus/history.py) that    *)
(* settles it.  Pure operators, no state.                                  *)
(*                                                                         *)
(*   policy p        timeUnit, storage and receipt prices, floor (the      *)
(*                   least execution budget of a round), maxMessages and   *)
(*                   maxDepth, as in StudioFeePolicy                       *)
(*   distribution d  leader, validator (time units), appealRounds,         *)
(*                   execution (budget per round), messages, rotations and *)
(*                   the price caps maxTimeUnit, maxStorage, maxReceipt    *)
(*   allocation      type, onAcceptance, parent (0 for a root), to, key,   *)
(*                   budget, params: a node of the tree of message budgets *)
(*   history h       the rounds of a transaction, as ConsensusRound names  *)
(*                                                                         *)
(* Where the code raises, a predicate says when it does not.               *)
(***************************************************************************)
EXTENDS Integers, Sequences, FiniteSetsExt, SequencesExt

VALIDATORS_PER_ROUND ==
    <<5, 7, 11, 13, 23, 25, 47, 49, 95, 97, 191, 193, 383, 385, 767, 769, 1535, 1537>>
AnyKey == "*"     \* CALL_KEY_WILDCARD

Least(a, b) == IF a < b THEN a ELSE b
AtLeastZero(x) == IF x < 0 THEN 0 ELSE x
Sum(f, S) == MapThenSumSet(LAMBDA x : f[x], S)

----------------------------------------------------------------------------
(* The history: which entries end a round, and how often the leader was    *)
(* rotated before each.                                                    *)

NonRound == {"Leader Rotation", "Leader Rotation Appeal"}
AppealSucceeds == {"Validator Appeal Successful", "Leader Appeal Successful",
                   "Leader Timeout Appeal Successful", "Validator Timeout Appeal Successful"}
AppealFails == {"Validator Appeal Failed", "Leader Appeal Failed",
                "Leader Timeout Appeal Failed", "Validators Timeout Appeal Failed"}

(* The entries that end a round, the number (from 0) of the round that an  *)
(* entry belongs to, and the rotations of a completed round.               *)
CompletedRounds(h) == {i \in DOMAIN h : h[i] \notin NonRound}
RoundOf(h, i) == Cardinality({j \in CompletedRounds(h) : j < i})
FinalRound(h) == AtLeastZero(Cardinality(CompletedRounds(h)) - 1)
Rotations(h, r) ==
    IF r >= Cardinality(CompletedRounds(h)) THEN 0
    ELSE Cardinality({i \in DOMAIN h \ CompletedRounds(h) : RoundOf(h, i) = r})

(* The first verdict on an appeal after round r, "none" when there is not. *)
AppealOutcome(h, r) ==
    LET verdicts == {i \in CompletedRounds(h) :
                        RoundOf(h, i) > r /\ h[i] \in AppealSucceeds \cup AppealFails}
    IN IF verdicts = {} THEN "none" ELSE h[Min(verdicts)]

----------------------------------------------------------------------------
(* Time units.  Round 0 and every second round after it may rotate its     *)
(* leader as often as the distribution pays for.                           *)

ValidatorIndex(n) == CHOOSE i \in DOMAIN VALIDATORS_PER_ROUND : VALIDATORS_PER_ROUND[i] = n
ValidNumber(n, rounds) ==
    /\ \E i \in DOMAIN VALIDATORS_PER_ROUND : VALIDATORS_PER_ROUND[i] = n
    /\ ValidatorIndex(n) + rounds <= Len(VALIDATORS_PER_ROUND)
Validators(n, round) == VALIDATORS_PER_ROUND[ValidatorIndex(n) + round]

RoundFee(d, validators, slots, halfLeader) ==
    (slots * d.leader) \div (IF halfLeader THEN 2 ELSE 1) + slots * validators * d.validator

Funded(d, round) == round % 2 = 0 /\ round \div 2 < Len(d.rotations)
FundedSlots(d, round) == IF Funded(d, round) THEN d.rotations[round \div 2 + 1] + 1 ELSE 1
UsedSlots(d, h, round) ==
    IF ~Funded(d, round) THEN 1
    ELSE IF CompletedRounds(h) = {} THEN FundedSlots(d, round)
    ELSE Least(FundedSlots(d, round), Rotations(h, round) + 1)

LeaderRounds(d) ==
    d.appealRounds + Sum([i \in DOMAIN d.rotations |-> d.rotations[i] + 1], DOMAIN d.rotations)
LastCharged(d, final) == Least(final, 2 * d.appealRounds)
LeaderRoundsThrough(d, final, h) ==
    LET rounds == 0..LastCharged(d, final)
    IN Sum([r \in rounds |-> IF r % 2 = 1 \/ Funded(d, r) THEN UsedSlots(d, h, r) ELSE 0], rounds)

Price(p) == IF p.timeUnit > 0 THEN p.timeUnit ELSE 1
WithinCap(price, cap) == cap = 0 \/ price <= cap

InitialTimeUnits(d, n) ==
    LET rounds == 0..2 * d.appealRounds
    IN Sum([r \in rounds |-> RoundFee(d, Validators(n, r), FundedSlots(d, r), FALSE)], rounds)
TimeUnitFees(d, n, p) == InitialTimeUnits(d, n) * Price(p)

(* What is charged once the history is known, in settle_fee_accounting.    *)
TimeUnitFeesThrough(d, n, final, p, h) ==
    LET rounds == 0..LastCharged(d, final)
        TimedOut(r) == \E i \in CompletedRounds(h) : RoundOf(h, i) = r /\ h[i] = "Leader Timeout"
    IN Price(p) * Sum([r \in rounds |-> RoundFee(d, Validators(n, r), UsedSlots(d, h, r), TimedOut(r))],
                      rounds)
Chargeable(d, n, final, p) ==
    /\ d.rotations # <<>>
    /\ ValidNumber(n, LastCharged(d, final))
    /\ WithinCap(p.timeUnit, d.maxTimeUnit)

(* calculate_round_fees of round 0, and the deposit a submission needs.    *)
Computable(d, n, p) ==
    /\ d.appealRounds = Len(d.rotations) - 1
    /\ ValidNumber(n, 2 * d.appealRounds)
    /\ WithinCap(p.timeUnit, d.maxTimeUnit)
    /\ WithinCap(p.storage, d.maxStorage)
    /\ WithinCap(p.receipt, d.maxReceipt)
RoundFees(d, n, p) == TimeUnitFees(d, n, p) + d.execution * LeaderRounds(d)
RequiredDeposit(d, n, p) == RoundFees(d, n, p) + d.messages
AboveFloor(budget, p) == budget = 0 \/ budget >= p.floor

(* calculate_min_appeal_bond: the round the appeal will open.              *)
MinAppealBond(d, round, status, p) ==
    CASE status \in {"LEADER_TIMEOUT", "UNDETERMINED"} ->
           Price(p) * RoundFee(d, VALIDATORS_PER_ROUND[round + 3],
                               IF round + 2 <= Len(d.rotations) THEN d.rotations[round + 2] ELSE 0,
                               FALSE)
      [] status \in {"VALIDATORS_TIMEOUT", "ACCEPTED"} ->
           Price(p) * VALIDATORS_PER_ROUND[round + 2] * d.validator
      [] OTHER -> 0

(* merge_fees_distribution, of a distribution that has rotations: time     *)
(* units and appeal rounds stay, and a cap is only ever raised.            *)
RaisedCap(old, new) == IF old > 0 /\ new > old THEN new ELSE old
MergedFees(d, more) ==
    [d EXCEPT !.execution = @ + more.execution,
              !.messages = @ + more.messages,
              !.rotations = @ \o more.rotations,
              !.maxTimeUnit = RaisedCap(@, more.maxTimeUnit),
              !.maxStorage = RaisedCap(@, more.maxStorage),
              !.maxReceipt = RaisedCap(@, more.maxReceipt)]

----------------------------------------------------------------------------
(* The tree of message budgets a submission declares.                      *)

FeesOfParams(params, messages, caps) ==
    [leader |-> params.leader, validator |-> params.validator,
     appealRounds |-> params.appealRounds, execution |-> params.execution,
     messages |-> messages, rotations |-> params.rotations,
     maxTimeUnit |-> caps.maxTimeUnit, maxStorage |-> caps.maxStorage,
     maxReceipt |-> caps.maxReceipt]
NoCaps == [maxTimeUnit |-> 0, maxStorage |-> 0, maxReceipt |-> 0]

MinMessageFees(params, p) ==
    RoundFees(FeesOfParams(params, 0, NoCaps), VALIDATORS_PER_ROUND[1], p)
ValidParams(params, p) ==
    /\ Computable(FeesOfParams(params, 0, NoCaps), VALIDATORS_PER_ROUND[1], p)
    /\ AboveFloor(params.execution, p)

(* A message sent at every acceptance may be sent once per appeal round.   *)
MinAllocation(node, p) ==
    MinMessageFees(node.params, p) * (IF node.onAcceptance THEN node.params.appealRounds + 1 ELSE 1)
PerCall(node) == node.params.gasLimit * node.params.maxGasPrice

Children(allocs, i) == {j \in DOMAIN allocs : allocs[j].parent = i}
BudgetOf(allocs, nodes) == Sum([j \in nodes |-> allocs[j].budget], nodes)
Depth(allocs) ==
    LET depth[i \in DOMAIN allocs] ==
          IF allocs[i].parent = 0 THEN 1 ELSE 1 + depth[allocs[i].parent]
    IN depth
NodeKey(node) == <<node.type, node.to, node.key>>

WellFormed(allocs) ==
    \A i \in DOMAIN allocs : allocs[i].parent # 0 =>
        allocs[i].parent < i /\ allocs[allocs[i].parent].type = "internal"
          /\ allocs[i].type = "internal"
ExternalValid(node) == node.budget > 0 /\ PerCall(node) > 0 /\ node.budget % PerCall(node) = 0
InternalValid(allocs, i, p) ==
    /\ ValidParams(allocs[i].params, p)
    /\ allocs[i].budget >= MinAllocation(allocs[i], p) + BudgetOf(allocs, Children(allocs, i))
NoTwins(allocs) ==
    \A i, j \in DOMAIN allocs :
        i # j /\ allocs[i].parent = allocs[j].parent => NodeKey(allocs[i]) # NodeKey(allocs[j])

(* validate_message_allocations                                            *)
ValidAllocations(allocs, total, p) ==
    allocs # <<>> =>
      /\ WellFormed(allocs)
      /\ \A i \in DOMAIN allocs :
           IF allocs[i].type = "external" THEN ExternalValid(allocs[i])
                                          ELSE InternalValid(allocs, i, p)
      /\ BudgetOf(allocs, Children(allocs, 0)) = total
      /\ \A i \in DOMAIN allocs : Depth(allocs)[i] <= p.maxDepth
      /\ NoTwins(allocs)

(* _resolve_allocation: the roots only, the exact key before the wildcard; *)
(* 0 when none matches.                                                    *)
Matching(allocs, m, key) ==
    {i \in Children(allocs, 0) : NodeKey(allocs[i]) = <<m.type, m.to, key>>}
Resolve(allocs, m) ==
    IF Matching(allocs, m, m.key) # {} THEN Min(Matching(allocs, m, m.key))
    ELSE IF Matching(allocs, m, AnyKey) # {} THEN Min(Matching(allocs, m, AnyKey))
    ELSE 0

(* _allocation_subtree without its root, which is what the child gets:     *)
(* the nodes below i, renumbered, the children of i as roots.              *)
Below(allocs, i) ==
    LET under[j \in 0..Len(allocs)] ==
          IF j = 0 THEN FALSE ELSE allocs[j].parent = i \/ under[allocs[j].parent]
    IN {j \in DOMAIN allocs : under[j]}
ChildAllocations(allocs, i) ==
    LET nodes == Below(allocs, i)
        Rank(j) == Cardinality({k \in nodes : k <= j})
        At(r) == CHOOSE j \in nodes : Rank(j) = r
        Parent(j) == IF allocs[j].parent = i THEN 0 ELSE Rank(allocs[j].parent)
    IN [r \in 1..Cardinality(nodes) |-> [allocs[At(r)] EXCEPT !.parent = Parent(At(r))]]
=============================================================================
