---------------------------- MODULE AtomService ----------------------------
(***************************************************************************)
(* The ATOM service contract of bc1: an invocation is served (operation    *)
(* proofs, each chained to the one before), audited (votes of the selected *)
(* judges), decided and settled, or settled by force once its deadline has *)
(* passed.  Settling moves money between bonds, pools and withdrawals.     *)
(*                                                                         *)
(* An operation proof is the sequence of the locks it rests on: its own and*)
(* those of the proofs it depends on, which is what its hash commits to.   *)
(***************************************************************************)
EXTENDS AtomTypes, Integers, Sequences, FiniteSets, SequencesExt

CONSTANTS
  Judge,          \* the active judges of the community
  Server,         \* the ATOM server, an account as the judges are
  Terms,          \* settlement terms, by serverReward ... judgePenalty
  MaxExtensions   \* MAX_EXTENSIONS (3)

ASSUME ServiceAssumption ==
  /\ IsFiniteSet(Judge)
  /\ Server \notin Judge
  /\ Terms \in [{"serverReward", "serverPenalty", "judgeReward", "judgePenalty"} -> Nat]
  /\ MaxExtensions \in Nat

VARIABLES
  inv,       \* _invocations
  vote,      \* _judgeVotes: the decision of each judge
  books,     \* bonds, pending withdrawals and the two pools
  balance,   \* the contract's ether
  block      \* block.number

invocationVars == <<inv, vote>>
moneyVars == <<books, balance>>
serviceVars == <<invocationVars, moneyVars, block>>

Participant == Judge \cup {Server}
Status == {"None", "Serving", "Auditing", "Valid", "Invalid", "Settled", "ForceSettled"}
Decision == {"None", "Valid", "Invalid"}

NoInvocation ==
  [status |-> "None", total |-> 0, min |-> 0, judges |-> <<>>, proofs |-> <<>>,
   valid |-> 0, invalid |-> 0, started |-> 0, service |-> 0, audit |-> 0, extended |-> 0]

InvocationType ==
  [status : Status, total : 0..Ops, min : Nat, judges : Seq(Judge), proofs : Seq(Nat),
   valid : Nat, invalid : Nat, started : Nat, service : Nat, audit : Nat, extended : Nat]

ServiceTypeOK ==
  /\ inv \in [Inv -> InvocationType]
  /\ vote \in [Inv -> [Judge -> Decision]]
  /\ block \in Nat

NoMoney == [bond |-> [p \in Participant |-> 0], owed |-> [p \in Participant |-> 0],
            reward |-> 0, penalty |-> 0]

ServiceInit ==
  /\ inv = [i \in Inv |-> NoInvocation]
  /\ vote = [i \in Inv |-> [j \in Judge |-> "None"]]
  /\ books = NoMoney
  /\ balance = 0
  /\ block = 0

Open == {"Serving", "Auditing"}
Decided == {"Valid", "Invalid"}
Selected(i) == ToSet(inv[i].judges)
-----------------------------------------------------------------------------
(* Serving.  c is what the entry passes on: total, need, min and the two   *)
(* windows.  The judges come in the order they were drawn.                 *)

InitInvocation(i, c, judges) ==
  /\ inv[i].status = "None"
  /\ Len(judges) = c.need
  /\ inv' = [inv EXCEPT ![i] =
       [NoInvocation EXCEPT
          !.status = "Serving", !.total = c.total, !.min = c.min, !.judges = judges,
          !.started = block,
          !.service = block + c.service,
          !.audit = block + c.service + c.audit]]
  /\ UNCHANGED <<vote, moneyVars, block>>

InTime(i) == inv[i].status = "Serving" /\ block <= inv[i].service

Extends(i, chain) ==
  Len(chain) = Len(inv[i].proofs) + 1 /\ IsPrefix(inv[i].proofs, chain)

CanSubmitProof(i, chain) ==
  InTime(i) /\ Len(chain) \in 1..inv[i].total /\ Extends(i, chain)

SubmitOperationProof(i, chain) ==
  /\ CanSubmitProof(i, chain)
  /\ inv' = [inv EXCEPT ![i].proofs = Append(@, chain[Len(chain)])]
  /\ UNCHANGED <<vote, moneyVars, block>>

CanComplete(i) == InTime(i) /\ Len(inv[i].proofs) = inv[i].total

MarkProofSubmissionComplete(i) ==
  /\ CanComplete(i)
  /\ inv' = [inv EXCEPT ![i].status = "Auditing"]
  /\ UNCHANGED <<vote, moneyVars, block>>
-----------------------------------------------------------------------------
(* Auditing: the first decision that min judges share is the outcome.      *)

\* Mutant of CanVote: a judge may vote again.
CanVoteAgain(i, j) ==
  inv[i].status = "Auditing" /\ block <= inv[i].audit /\ j \in Selected(i)
CanVote(i, j) ==
  /\ inv[i].status = "Auditing"
  /\ block <= inv[i].audit
  /\ j \in Selected(i)
  /\ vote[i][j] = "None"

SubmitJudgeVote(i, j, valid) ==
  LET count == 1 + IF valid THEN inv[i].valid ELSE inv[i].invalid
      verdict == IF valid THEN "Valid" ELSE "Invalid"
  IN /\ CanVote(i, j)
     /\ vote' = [vote EXCEPT ![i][j] = verdict]
     /\ inv' = [inv EXCEPT
          ![i].valid = IF valid THEN count ELSE @,
          ![i].invalid = IF valid THEN @ ELSE count,
          ![i].status = IF count >= inv[i].min THEN verdict ELSE @]
     /\ UNCHANGED <<moneyVars, block>>
-----------------------------------------------------------------------------
(* Money.  A reward is cut to what the pools hold, the reward pool first,  *)
(* a penalty to what is left of the bond.                                  *)

AtMost(amount, available) == IF amount > available THEN available ELSE amount

Credit(b, p, amount) ==
  LET credit == AtMost(amount, b.reward + b.penalty)
      first == AtMost(credit, b.reward)
  IN [b EXCEPT !.owed[p] = @ + credit, !.reward = @ - first, !.penalty = @ - (credit - first)]

Slash(b, p, amount) ==
  LET slash == AtMost(amount, b.bond[p])
  IN [b EXCEPT !.bond[p] = @ - slash, !.penalty = @ + slash]

Settlement(i, verdict) ==
  LET Judged(b, j) ==
        IF vote[i][j] = verdict THEN Credit(b, j, Terms.judgeReward)
        ELSE Slash(b, j, Terms.judgePenalty)
      served ==
        IF verdict = "Valid" THEN Credit(books, Server, Terms.serverReward)
        ELSE Slash(books, Server, Terms.serverPenalty)
  IN FoldLeft(Judged, served, inv[i].judges)

CanFinalize(i) == inv[i].status \in Decided

FinalizeInvocation(i) ==
  /\ CanFinalize(i)
  /\ books' = Settlement(i, inv[i].status)
  /\ inv' = [inv EXCEPT ![i].status = "Settled"]
  /\ UNCHANGED <<vote, balance, block>>

(* The extension adds each window's present length to its deadline.  The   *)
(* second may be below the first by then: the subtraction reverts.         *)
ExtendInvocation(i) ==
  LET serviceExtension == inv[i].service - inv[i].started
      auditExtension == inv[i].audit - inv[i].service
  IN /\ inv[i].status \in Open
     /\ inv[i].extended < MaxExtensions
     /\ auditExtension >= 0
     /\ inv' = [inv EXCEPT ![i].extended = @ + 1,
                           ![i].service = @ + serviceExtension,
                           ![i].audit = @ + auditExtension]
     /\ UNCHANGED <<vote, moneyVars, block>>

ForceSettle(i) ==
  /\ inv[i].status \in Open \cup Decided
  /\ block > inv[i].audit
  /\ inv' = [inv EXCEPT ![i].status = "ForceSettled"]
  /\ UNCHANGED <<vote, moneyVars, block>>

FundRewardPool(amount) ==
  /\ amount > 0
  /\ books' = [books EXCEPT !.reward = @ + amount]
  /\ balance' = balance + amount
  /\ UNCHANGED <<invocationVars, block>>

DepositBond(p, amount) ==
  /\ amount > 0
  /\ books' = [books EXCEPT !.bond[p] = @ + amount]
  /\ balance' = balance + amount
  /\ UNCHANGED <<invocationVars, block>>

WithdrawBond(p, amount) ==
  /\ amount > 0
  /\ books.bond[p] >= amount
  /\ books' = [books EXCEPT !.bond[p] = @ - amount]
  /\ balance' = balance - amount
  /\ UNCHANGED <<invocationVars, block>>

WithdrawSettlement(p) ==
  /\ books.owed[p] > 0
  /\ books' = [books EXCEPT !.owed[p] = 0]
  /\ balance' = balance - books.owed[p]
  /\ UNCHANGED <<invocationVars, block>>

MineBlock == block' = block + 1 /\ UNCHANGED <<invocationVars, moneyVars>>
-----------------------------------------------------------------------------
Voted(i, verdict) == {j \in Judge : vote[i][j] = verdict}

Outvoted(i, verdict) ==
  IF verdict = "Valid" THEN inv[i].valid = inv[i].min /\ inv[i].invalid < inv[i].min
  ELSE inv[i].invalid = inv[i].min /\ inv[i].valid < inv[i].min

(* An invocation is audited only with every operation proved.  Its outcome *)
(* is what min of the selected judges voted, each once, and fewer voted    *)
(* the other way: also after extensions, and after it is settled.          *)
VerdictIsEarned(i) ==
  /\ inv[i].status = "None" => inv[i] = NoInvocation
  /\ Len(inv[i].proofs) <= inv[i].total
  /\ inv[i].status \in {"Auditing", "Valid", "Invalid", "Settled"} =>
       Len(inv[i].proofs) = inv[i].total
  /\ inv[i].valid = Cardinality(Voted(i, "Valid"))
  /\ inv[i].invalid = Cardinality(Voted(i, "Invalid"))
  /\ Voted(i, "Valid") \cup Voted(i, "Invalid") \subseteq Selected(i)
  /\ inv[i].status \in Open => inv[i].valid < inv[i].min /\ inv[i].invalid < inv[i].min
  /\ inv[i].status \in Decided => Outvoted(i, inv[i].status)
  /\ inv[i].status = "Settled" => Outvoted(i, "Valid") \/ Outvoted(i, "Invalid")

VerdictsAreEarned == \A i \in Inv : VerdictIsEarned(i)

(* An extension never moves the service deadline back.                     *)
DeadlineAfterStart == \A i \in Inv : inv[i].started <= inv[i].service

(* The money the contract owes to anyone is the ether it holds, and no     *)
(* account or pool is overdrawn, whatever was withdrawn before a penalty   *)
(* and however many rewards met an empty pool.                             *)
BooksBalance ==
  /\ \A p \in Participant : books.bond[p] >= 0 /\ books.owed[p] >= 0
  /\ books.reward >= 0 /\ books.penalty >= 0
  /\ balance = SumFunction(books.bond) + SumFunction(books.owed) + books.reward + books.penalty
=============================================================================
