---------------------------- MODULE AtomicCommit ----------------------------
(***************************************************************************)
(* What an atomic cross-chain invocation promises, with no chains, events  *)
(* or relayers: a transaction is decided once per attempt, its effect on a *)
(* state contract happens at most once and only after the decision to      *)
(* commit, and it is done only when every contract has had the effect.     *)
(***************************************************************************)
CONSTANTS Tx, Contract

VARIABLES
  decision,   \* "none", "open", "commit", "abort" or "done"
  effect      \* effect[t]: the contracts transaction t took effect on

vars == <<decision, effect>>

Init ==
  /\ decision = [t \in Tx |-> "none"]
  /\ effect = [t \in Tx |-> {}]

Decide(t, from, to) ==
  /\ decision[t] \in from
  /\ decision' = [decision EXCEPT ![t] = to]
  /\ UNCHANGED effect

Begin(t)  == Decide(t, {"none", "abort", "done"}, "open")
Commit(t) == Decide(t, {"open"}, "commit")
Abort(t)  == Decide(t, {"open"}, "abort")
Finish(t) == effect[t] = Contract /\ Decide(t, {"commit"}, "done")

Apply(t, S) ==
  /\ decision[t] = "commit"
  /\ S \cap effect[t] = {}
  /\ effect' = [effect EXCEPT ![t] = @ \cup S]
  /\ UNCHANGED decision

Next ==
  \E t \in Tx :
    \/ Begin(t) \/ Commit(t) \/ Abort(t) \/ Finish(t)
    \/ \E S \in SUBSET Contract : Apply(t, S)

Spec == Init /\ [][Next]_vars
=============================================================================
