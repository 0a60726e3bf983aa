-------------------------- MODULE OrderedFinality --------------------------
(***************************************************************************)
(* What the queue promises to those who watch a contract: transactions     *)
(* become final in the order in which they were submitted, and what is     *)
(* final stays so.  A canceled transaction may be reopened, but only while *)
(* an older one of the contract is still open (a successful appeal runs    *)
(* again what came after it).                                              *)
(***************************************************************************)
EXTENDS Naturals

CONSTANTS
    N,      \* transactions, in the order of their submission
    Addr    \* the contract of each

VARIABLE phase

Phases == {"absent", "open", "final", "canceled"}
Predecessors(t) == {u \in 1..N : u < t /\ Addr[u] = Addr[t]}
Closed(t) == phase[t] \in {"final", "canceled"}

TypeOK == phase \in [1..N -> Phases]

Init == phase = [t \in 1..N |-> "absent"]

Submit(t) ==
    /\ phase[t] = "absent"
    /\ \A u \in Predecessors(t) : phase[u] # "absent"
    /\ phase' = [phase EXCEPT ![t] = "open"]

Finalize(t) ==
    /\ phase[t] = "open"
    /\ \A u \in Predecessors(t) : Closed(u)
    /\ phase' = [phase EXCEPT ![t] = "final"]

Cancel(t) ==
    /\ phase[t] = "open"
    /\ phase' = [phase EXCEPT ![t] = "canceled"]

Reopen(t) ==
    /\ phase[t] = "canceled"
    /\ \E u \in Predecessors(t) : phase[u] = "open"
    /\ phase' = [phase EXCEPT ![t] = "open"]

Next == \E t \in 1..N : Submit(t) \/ Finalize(t) \/ Cancel(t) \/ Reopen(t)

Spec == Init /\ [][Next]_phase
=============================================================================
