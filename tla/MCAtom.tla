------------------------------- MODULE MCAtom -------------------------------
(***************************************************************************)
(* Model checking of Atom, in settings that each leave room for one thing. *)
(***************************************************************************)
EXTENDS Atom

CONSTANTS i1, i2, j1, j2, j3, s

MCTerms == [serverReward |-> 2, serverPenalty |-> 2, judgeReward |-> 1, judgePenalty |-> 1]
MCRooms == [op \in Op |-> 3]
MCAmount == [op \in Op |-> op]

Entry(total, need, min) == [total |-> total, need |-> need, min |-> min, service |-> 1, audit |-> 1]

Nothing == [invs |-> {i1}, judges |-> {j1}, configs |-> {Entry(2, 1, 1)}, blocks |-> 0,
            extends |-> 0, money |-> 0, faults |-> 0, restarts |-> 0]

MCScopes ==
  { [Nothing EXCEPT !.judges = {j1, j2}, !.configs = {Entry(2, 2, 2)}, !.blocks = 5, !.extends = 3],
    [Nothing EXCEPT !.blocks = 3, !.faults = 1],
    [Nothing EXCEPT !.blocks = 3, !.restarts = 1],
    [Nothing EXCEPT !.judges = {j1, j3}, !.configs = {Entry(1, 2, 2), Entry(1, 2, 1)}, !.blocks = 3],
    [Nothing EXCEPT !.judges = {j1, j3}, !.configs = {Entry(1, 2, 1)}, !.money = 2],
    [Nothing EXCEPT !.invs = {i1, i2}, !.judges = {j1, j3}, !.configs = {Entry(1, 1, 1)}],
    [Nothing EXCEPT !.invs = {i1, i2}] }

(* The invocations are interchangeable: one is enough.                     *)
MCOutcome == OutcomeIsCarriedOut(i1)
=============================================================================
