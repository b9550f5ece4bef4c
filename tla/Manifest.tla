----------------------------- MODULE Manifest -----------------------------
(***************************************************************************)
(* What a workflow manifest fixes for the relayer and the two bridges: the *)
(* transactions, the state contracts they book in and on which invoked     *)
(* chain each one lives.  The targets of the manifest and the stateContracts*)
(* of every execution are the same contracts, one target per contract.     *)
(***************************************************************************)
EXTENDS Integers, Sequences, FiniteSets, Functions

CONSTANTS
  Tx,         \* cross-chain transaction ids
  Contract,   \* the state contracts, all of them targets
  Chain,      \* the invoked chains
  ChainOf,    \* the chain a state contract is deployed on
  Batch,      \* the contracts of a chain in the order the manifest lists them
  Num         \* rooms a transaction books in a contract (lock_num, update.num)

Members(c) == {s \in Contract : ChainOf[s] = c}

ASSUME ManifestAssumption ==
  /\ IsFiniteSet(Tx)
  /\ IsFiniteSet(Contract) /\ Contract # {}
  /\ ChainOf \in [Contract -> Chain]
  /\ Batch \in [Chain -> Seq(Contract)]
  /\ \A c \in Chain :
       /\ {Batch[c][i] : i \in DOMAIN Batch[c]} = Members(c)
       /\ \A i, j \in DOMAIN Batch[c] : Batch[c][i] = Batch[c][j] => i = j
  /\ Num \in [Contract -> Nat]

(* remoteTargetKey walks the targets of the event's chain and returns at   *)
(* the first one: chain and address when that target is the contract, the  *)
(* bare chain name for every other contract of the chain.                  *)
TargetKeys == Contract \cup Chain

TargetKeyOfChain(s) == ChainOf[s]   \* mutant: every contract of a chain shares a key
TargetKey(s) == IF s = Batch[ChainOf[s]][1] THEN s ELSE ChainOf[s]
=============================================================================
