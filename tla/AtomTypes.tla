----------------------------- MODULE AtomTypes -----------------------------
(***************************************************************************)
(* What the ATOM contracts and the relayer's ATOM handlers share.          *)
(***************************************************************************)
EXTENDS Naturals, FiniteSets

CONSTANTS
  Inv,   \* invocation ids
  Ops    \* operations of the write manifest: operation k is step k

ASSUME TypesAssumption == Ops \in Nat \ {0} /\ IsFiniteSet(Inv)

Op == 1..Ops
=============================================================================
