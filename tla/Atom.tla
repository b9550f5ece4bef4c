-------------------------------- MODULE Atom --------------------------------
(***************************************************************************)
(* The ATOM protocol: the service contract, the remote contracts, and the  *)
(* relayer, whose server handler locks the operations one after the other, *)
(* proves them and unlocks or undoes them, and whose judge handler votes   *)
(* and finalizes.                                                          *)
(*                                                                         *)
(* A call is an action of the scheduler: enqueued unless the checkpoint    *)
(* has it done or in flight, sent when a worker gets to it.  A call that   *)
(* reverted stays in flight until its retries are used up: they wait for   *)
(* the same transaction and never send it again.  Each log is handled once,*)
(* in any order (the relayer has one subscription per contract).           *)
(***************************************************************************)
EXTENDS AtomService, AtomRemote

CONSTANTS
  LocalJudge,   \* judges whose keys the relayer holds
  Scopes        \* the settings checked: records of the fields
                \*   invs      the invocations
                \*   judges    the active judges
                \*   configs   what the entry may pass on to initInvocation
                \*   blocks    the last block
                \*   extends   how many extensions at most
                \*   money     how many deposits and withdrawals at most
                \*   faults    how many lost receipts, sends and queries at most
                \*   restarts  how many restarts of the relayer at most

Config ==
  {c \in [total : 1..Ops, need : Nat, min : Nat \ {0}, service : Nat, audit : Nat] :
     c.min <= c.need}

ASSUME AtomAssumption ==
  /\ LocalJudge \subseteq Judge
  /\ \A s \in Scopes :
       /\ s.judges \subseteq Judge /\ s.configs \subseteq Config
       /\ {s.extends, s.money, s.faults, s.restarts} \subseteq Nat

VARIABLES
  scope,
  unseen,     \* logs the relayer has yet to handle
  pending,    \* the server's memory: what it knows of an invocation
  queued,     \* calls on their way to a chain
  refused,    \* calls that reverted and are still in flight
  done,       \* calls that succeeded
  left        \* the budget that is left of the setting

relayerVars == <<pending, queued, refused, done>>
vars == <<scope, serviceVars, remoteVars, unseen, relayerVars, left>>

Log(name, i) == [name |-> name, inv |-> i]
LockedLog(op, i, n) == [name |-> "Locked", inv |-> i, op |-> op, lock |-> n]
ProofLog(i, op) == [name |-> "OperationProofSubmitted", inv |-> i, op |-> op]
VoteLog(i, j) == [name |-> "JudgeVoteSubmitted", inv |-> i, judge |-> j]

Call(fn, i) == [fn |-> fn, inv |-> i]
RemoteCall(fn, op, i, key) == [fn |-> fn, inv |-> i, op |-> op, key |-> key]
ProofCall(i, chain) == [fn |-> "submitOperationProof", inv |-> i, chain |-> chain]
VoteCall(i, j) == [fn |-> "submitJudgeVote", inv |-> i, judge |-> j]

Logs ==
  [name : {"WriteOnlyInvocationRequested", "AllProofsSubmitted", "InvocationFinalized",
           "InvocationInvalidated", "InvocationForceSettled", "ForceSettleUndoRequired"},
   inv : Inv]
  \cup [name : {"Locked"}, inv : Inv, op : Op, lock : Nat]
  \cup [name : {"OperationProofSubmitted"}, inv : Inv, op : Op]
  \cup [name : {"JudgeVoteSubmitted"}, inv : Inv, judge : Judge]

Calls ==
  [fn : {"markProofSubmissionComplete", "finalizeInvocation"}, inv : Inv]
  \cup [fn : {"book_lock_do", "book_unlock", "book_undo_unlock"},
         inv : Inv, op : Op, key : Inv \cup {NoKey}]
  \cup [fn : {"submitOperationProof"}, inv : Inv, chain : Seq(Nat)]
  \cup [fn : {"submitJudgeVote"}, inv : Inv, judge : Judge]

RelayerTypeOK ==
  /\ scope \in Scopes
  /\ unseen \subseteq Logs
  /\ pending \in [Inv -> [key : Inv \cup {NoKey}, chain : Seq(Nat), submitted : SUBSET Op]]
  /\ queued \subseteq Calls /\ refused \subseteq Calls /\ done \subseteq Calls

\* chain: the locks of the completed operations; their proof hashes.
Unknown == [key |-> NoKey, chain |-> <<>>, submitted |-> {}]

Init ==
  /\ scope \in Scopes
  /\ ServiceInit
  /\ RemoteInit
  /\ unseen = {}
  /\ pending = [i \in Inv |-> Unknown]
  /\ queued = {} /\ refused = {} /\ done = {}
  /\ left = [extends |-> scope.extends, money |-> scope.money,
             faults |-> scope.faults, restarts |-> scope.restarts]

Spend(kind) == left[kind] > 0 /\ left' = [left EXCEPT ![kind] = @ - 1]
Emit(logs) == unseen' = unseen \cup logs
-----------------------------------------------------------------------------
(* What users, owners, other judges and passers-by do to the service.      *)

Draws(c) == {s \in [1..c.need -> scope.judges] : IsInjective(s)}

Invoke(i) ==
  /\ i \in scope.invs
  /\ \E c \in scope.configs : \E judges \in Draws(c) : InitInvocation(i, c, judges)
  /\ Emit({Log("WriteOnlyInvocationRequested", i)})
  /\ UNCHANGED <<scope, remoteVars, relayerVars, left>>

OtherJudgeVotes(i, j) ==
  /\ j \notin LocalJudge
  /\ \E valid \in BOOLEAN : SubmitJudgeVote(i, j, valid)
  /\ Emit({VoteLog(i, j)})
  /\ UNCHANGED <<scope, remoteVars, relayerVars, left>>

OutcomeLog(i) ==
  Log(IF inv[i].status = "Valid" THEN "InvocationFinalized" ELSE "InvocationInvalidated", i)

AnyoneFinalizes(i) ==
  /\ FinalizeInvocation(i)
  /\ Emit({OutcomeLog(i)})
  /\ UNCHANGED <<scope, remoteVars, relayerVars, left>>

AnyoneForceSettles(i) ==
  /\ ForceSettle(i)
  /\ Emit({Log("InvocationForceSettled", i), Log("ForceSettleUndoRequired", i)})
  /\ UNCHANGED <<scope, remoteVars, relayerVars, left>>

Extend(i) ==
  /\ Spend("extends")
  /\ ExtendInvocation(i)
  /\ UNCHANGED <<scope, remoteVars, unseen, relayerVars>>

MoneyMoves ==
  /\ Spend("money")
  /\ \/ \E amount \in 1..2 : FundRewardPool(amount)
     \/ \E p \in scope.judges \cup {Server} :
          \/ \E amount \in 1..2 : DepositBond(p, amount) \/ WithdrawBond(p, amount)
          \/ WithdrawSettlement(p)
  /\ UNCHANGED <<scope, remoteVars, unseen, relayerVars>>

Tick ==
  /\ block < scope.blocks
  /\ MineBlock
  /\ UNCHANGED <<scope, remoteVars, unseen, relayerVars, left>>
-----------------------------------------------------------------------------
(* The handlers: server.go and judge.go behind one MultiHandler.           *)

Enqueue(calls) == queued' = queued \cup (calls \ (done \cup refused))

LockCall(i, op, key) == RemoteCall("book_lock_do", op, i, key)

HandleWriteOnly(e) ==
  /\ e.name = "WriteOnlyInvocationRequested"
  /\ pending' = [pending EXCEPT ![e.inv] = [Unknown EXCEPT !.key = e.inv]]
  /\ Enqueue({LockCall(e.inv, 1, e.inv)})

(* A lock of an operation whose predecessor the server does not know of is *)
(* an error; one it has completed is ignored.  Otherwise its proof is sent *)
(* and the next operation locked.                                          *)
HandleLocked(e) ==
  LET known == pending[e.inv]
      chain == Append(known.chain, e.lock)
      next == IF e.op < inv[e.inv].total THEN {LockCall(e.inv, e.op + 1, known.key)} ELSE {}
  IN /\ e.name = "Locked"
     /\ IF e.op = Len(known.chain) + 1
        THEN /\ pending' = [pending EXCEPT ![e.inv].chain = chain]
             /\ Enqueue({ProofCall(e.inv, chain)} \cup next)
        ELSE UNCHANGED <<pending, queued>>

AllSubmitted(i, submitted) == Cardinality(submitted) >= inv[i].total

HandleOperationProofSubmitted(e) ==
  LET submitted == pending[e.inv].submitted \cup {e.op}
  IN /\ e.name = "OperationProofSubmitted"
     /\ pending' = [pending EXCEPT ![e.inv].submitted = submitted]
     /\ Enqueue(IF AllSubmitted(e.inv, submitted)
                THEN {Call("markProofSubmissionComplete", e.inv)} ELSE {})

FailureLogs == {"InvocationInvalidated", "ForceSettleUndoRequired", "InvocationForceSettled"}

\* Mutant of Undoes: a forced settlement is unlocked like a finalized one.
UndoesInvalid(e) == e.name = "InvocationInvalidated"
Undoes(e) == e.name # "InvocationFinalized"

\* Mutant of Remotes: only what the server saw locked is undone or unlocked.
CompletedRemotes(i) == DOMAIN pending[i].chain
Remotes(i) == 1..inv[i].total

HandleUnlock(e) ==
  LET fn == IF Undoes(e) THEN "book_undo_unlock" ELSE "book_unlock"
      key == pending[e.inv].key
  IN /\ e.name \in {"InvocationFinalized"} \cup FailureLogs
     /\ pending' = [pending EXCEPT ![e.inv] = Unknown]
     /\ Enqueue(IF key = NoKey THEN {}
                ELSE {RemoteCall(fn, op, e.inv, key) : op \in Remotes(e.inv)})

HandleProofsSubmitted(e) ==
  /\ e.name = "AllProofsSubmitted"
  /\ Enqueue({VoteCall(e.inv, j) : j \in Selected(e.inv) \cap LocalJudge})
  /\ UNCHANGED pending

HandleVoteSubmitted(e) ==
  /\ e.name = "JudgeVoteSubmitted"
  /\ Enqueue({Call("finalizeInvocation", e.inv)})
  /\ UNCHANGED pending

Handle(e) ==
  /\ e \in unseen
  /\ unseen' = unseen \ {e}
  /\ \/ HandleWriteOnly(e) \/ HandleLocked(e) \/ HandleOperationProofSubmitted(e)
     \/ HandleUnlock(e) \/ HandleProofsSubmitted(e) \/ HandleVoteSubmitted(e)
  /\ UNCHANGED <<scope, serviceVars, remoteVars, refused, done, left>>
-----------------------------------------------------------------------------
(* A worker sends a call: it succeeds or it reverts.                       *)

Succeeds(c) ==
  \/ c.fn = "book_lock_do" /\ CanLock(c.op, c.inv, c.key)
  \/ c.fn \in {"book_unlock", "book_undo_unlock"} /\ CanUnlock(c.op, c.inv, c.key)
  \/ c.fn = "submitOperationProof" /\ CanSubmitProof(c.inv, c.chain)
  \/ c.fn = "markProofSubmissionComplete" /\ CanComplete(c.inv)
  \/ c.fn = "submitJudgeVote" /\ CanVote(c.inv, c.judge)
  \/ c.fn = "finalizeInvocation" /\ CanFinalize(c.inv)

AtRemote(c) ==
  /\ \/ /\ c.fn = "book_lock_do"
        /\ BookLockDo(c.op, c.inv, c.key)
        /\ Emit({LockedLog(c.op, c.inv, locks[c.op][c.inv] + 1)})
     \/ c.fn = "book_unlock" /\ BookUnlock(c.op, c.inv, c.key) /\ UNCHANGED unseen
     \/ c.fn = "book_undo_unlock" /\ BookUndoUnlock(c.op, c.inv, c.key) /\ UNCHANGED unseen
  /\ UNCHANGED serviceVars

AtService(c) ==
  /\ \/ /\ c.fn = "submitOperationProof"
        /\ SubmitOperationProof(c.inv, c.chain)
        /\ Emit({ProofLog(c.inv, Len(c.chain))})
     \/ /\ c.fn = "markProofSubmissionComplete"
        /\ MarkProofSubmissionComplete(c.inv)
        /\ Emit({Log("AllProofsSubmitted", c.inv)})
     \/ /\ c.fn = "submitJudgeVote"
        /\ SubmitJudgeVote(c.inv, c.judge, TRUE)
        /\ Emit({VoteLog(c.inv, c.judge)})
     \/ /\ c.fn = "finalizeInvocation"
        /\ FinalizeInvocation(c.inv)
        /\ Emit({OutcomeLog(c.inv)})
  /\ UNCHANGED remoteVars

Send(c) ==
  /\ c \in queued
  /\ queued' = queued \ {c}
  /\ \/ /\ AtRemote(c) \/ AtService(c)
        /\ done' = done \cup {c}
        /\ UNCHANGED refused
     \/ /\ ~Succeeds(c)
        /\ refused' = refused \cup {c}
        /\ UNCHANGED <<serviceVars, remoteVars, unseen, done>>
  /\ UNCHANGED <<scope, pending, left>>

\* The retries of a reverted call are used up, or back off: a log handled now
\* sends the call anew.
Abandon(c) ==
  /\ c \in refused
  /\ refused' = refused \ {c}
  /\ UNCHANGED <<scope, serviceVars, remoteVars, unseen, pending, queued, done, left>>

\* The receipt does not come in time: the call is sent again.
Resend(c) ==
  /\ c \in done \cup refused
  /\ Spend("faults")
  /\ done' = done \ {c} /\ refused' = refused \ {c}
  /\ queued' = queued \cup {c}
  /\ UNCHANGED <<scope, serviceVars, remoteVars, unseen, pending>>

\* The log that names the judges is of another contract and not handled yet, or
\* was lost with the memory, and the query that replaces it fails: no vote.
JudgesUnknown(e) ==
  /\ e \in unseen /\ e.name = "AllProofsSubmitted"
  /\ Spend("faults")
  /\ unseen' = unseen \ {e}
  /\ UNCHANGED <<scope, serviceVars, remoteVars, relayerVars>>

\* Every attempt to send the call fails.
Lose(c) ==
  /\ c \in queued
  /\ Spend("faults")
  /\ queued' = queued \ {c}
  /\ UNCHANGED <<scope, serviceVars, remoteVars, unseen, pending, refused, done>>

(* The server's memory is gone, and the logs not handled yet are behind    *)
(* the block the new process reads from; the checkpoint keeps the calls.   *)
Restart ==
  /\ Spend("restarts")
  /\ pending' = [i \in Inv |-> Unknown]
  /\ unseen' = {}
  /\ UNCHANGED <<scope, serviceVars, remoteVars, queued, refused, done>>

Next ==
  \/ \E i \in Inv :
       \/ Invoke(i) \/ AnyoneFinalizes(i) \/ AnyoneForceSettles(i) \/ Extend(i)
       \/ \E j \in Judge : OtherJudgeVotes(i, j)
  \/ \E e \in unseen : Handle(e) \/ JudgesUnknown(e)
  \/ \E c \in queued : Send(c) \/ Lose(c)
  \/ \E c \in refused : Abandon(c)
  \/ \E c \in done \cup refused : Resend(c)
  \/ MoneyMoves \/ Tick \/ Restart

\* The event loop and the workers go on; nobody owes the system anything else.
Fairness == WF_vars(\E e \in unseen : Handle(e)) /\ WF_vars(\E c \in queued : Send(c))

Spec == Init /\ [][Next]_vars /\ Fairness
-----------------------------------------------------------------------------
(* A proof, at every stage of its way and once it is stored, rests on locks*)
(* that did happen, one of each operation in order.                        *)
Locked(i, chain) ==
  Len(chain) <= Ops /\ \A k \in DOMAIN chain : chain[k] \in 1..locks[k][i]

ProofsAreOfLocks ==
  /\ \A e \in unseen : e.name = "Locked" => e.lock \in 1..locks[e.op][e.inv]
  /\ \A i \in Inv : Locked(i, pending[i].chain) /\ Locked(i, inv[i].proofs)
  /\ \A c \in queued \cup refused \cup done :
       c.fn = "submitOperationProof" => Locked(c.inv, c.chain)

(* An unlock, at every stage of its way and once it has booked, is of an   *)
(* invocation settled as valid.                                            *)
Committed(i) == inv[i].status = "Settled" /\ Outvoted(i, "Valid")

UnlocksAreOfCommitted ==
  /\ \A e \in unseen : e.name = "InvocationFinalized" => Committed(e.inv)
  /\ \A c \in queued \cup refused \cup done : c.fn = "book_unlock" => Committed(c.inv)
  /\ \A op \in Op, i \in Inv : booked[op][i] > 0 => Committed(i)

(* Types, what makes an outcome, and what proofs and unlocks rest on: the  *)
(* inductive invariant (AtomProofs).                                       *)
TypeOK == ServiceTypeOK /\ RemoteTypeOK /\ RelayerTypeOK

IInv ==
  TypeOK /\ DeadlineAfterStart /\ VerdictsAreEarned /\ ProofsAreOfLocks /\ UnlocksAreOfCommitted

(* Nothing appears or disappears.  The ether the service holds is what it  *)
(* owes.  A remote's units are free, held or booked, an invocation's at    *)
(* most once, unless two lost receipts had it locked and unlocked again;   *)
(* but an invocation that is undone puts back the number it found, with    *)
(* whatever another invocation took since: the units add up only if no     *)
(* invocation fails or only one was ever started.                          *)
Failed(i) ==
  \/ inv[i].status = "ForceSettled"
  \/ inv[i].status = "Settled" /\ Outvoted(i, "Invalid")
Started == {i \in Inv : inv[i].status # "None"}
Held(op) == {i \in Inv : hold[op][i].locked}

UnitsAddUp ==
  (Cardinality(Started) <= 1 \/ \A i \in Inv : ~Failed(i)) =>
    \A op \in Op :
      remain[op] + Amount[op] * Cardinality(Held(op)) + SumFunction(booked[op]) = Rooms[op]

BookedOnce ==
  scope.faults < 2 => \A op \in Op, i \in Inv : booked[op][i] \in {0, Amount[op]}

Conserved == BooksBalance /\ UnitsAddUp /\ BookedOnce
-----------------------------------------------------------------------------
(* The protocol implements atomic commitment: the contract's outcome is    *)
(* the decision, the operations booked are the effect.  A booking happens  *)
(* only for an invocation found valid, whatever locks, proofs, deadlines,  *)
(* restarts and repeated calls came before.                                *)
DecisionOf(i) ==
  CASE inv[i].status = "None" -> "none"
    [] inv[i].status \in Open \cup Decided -> "open"
    [] Committed(i) -> "commit"
    [] OTHER -> "abort"

Commitment == INSTANCE AtomicCommit WITH
  Tx <- Inv, Contract <- Op,
  decision <- [i \in Inv |-> DecisionOf(i)],
  effect <- [i \in Inv |-> {op \in Op : booked[op][i] > 0}]

Implements == Commitment!Spec
-----------------------------------------------------------------------------
(* A decided invocation is settled if, when it is decided, a finalize call *)
(* is queued, or a vote is yet to be handled and no finalize call that     *)
(* came too early is still in flight (that one would swallow the next).    *)
(* An invocation settled as valid is booked everywhere; one that fails     *)
(* gives back what it holds if the server knows its key and has a log of   *)
(* the failure to handle: not what is locked later.  All this while no send*)
(* is lost, no query fails and the relayer is not restarted.               *)
Undisturbed == scope.faults = 0 /\ scope.restarts = 0

WillFinalize(i) ==
  LET finalize == Call("finalizeInvocation", i)
  IN \/ finalize \in queued
     \/ finalize \notin refused /\ \E j \in Judge : VoteLog(i, j) \in unseen

WillUndo(i) ==
  /\ pending[i].key # NoKey
  /\ \E name \in FailureLogs : Log(name, i) \in unseen

OutcomeIsCarriedOut(i) ==
  /\ Undisturbed /\ inv[i].status \in Decided /\ WillFinalize(i)
       ~> inv[i].status \in {"Settled", "ForceSettled"}
  /\ Undisturbed /\ Committed(i)
       ~> \A op \in 1..inv[i].total : booked[op][i] = Amount[op]
  /\ \A op \in Op :
       Undisturbed /\ Failed(i) /\ hold[op][i].locked /\ WillUndo(i)
         ~> ~hold[op][i].locked
=============================================================================
