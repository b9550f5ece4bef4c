----------------------------- MODULE AtomProofs -----------------------------
(***************************************************************************)
(* Proofs about Atom, for every value of its constants.                    *)
(***************************************************************************)
EXTENDS Atom, FiniteSetTheorems, SequenceTheorems, TLAPS, FunctionSums

Key == Inv \cup {NoKey}
Unlocks == {"book_unlock", "book_undo_unlock"}

LEMMA CallFields ==
  ASSUME NEW c \in Calls
  PROVE  /\ c.inv \in Inv
         /\ c.fn \in Unlocks \cup {"book_lock_do"} => c.op \in Op /\ c.key \in Key
         /\ c.fn = "submitOperationProof" => c.chain \in Seq(Nat)
         /\ c.fn = "submitJudgeVote" => c.judge \in Judge
BY DEF Calls, Unlocks, Key

LEMMA LogFields ==
  ASSUME NEW e \in Logs
  PROVE  /\ e.inv \in Inv
         /\ e.name = "Locked" => e.op \in Op /\ e.lock \in Nat
         /\ e.name = "OperationProofSubmitted" => e.op \in Op
BY DEF Logs

-----------------------------------------------------------------------------
(* What a step does to the service, and what it does to a remote contract. *)

Serves(i) ==
  \/ \E c \in Config, judges \in Seq(Judge) : InitInvocation(i, c, judges)
  \/ \E chain \in Seq(Nat) : Locked(i, chain) /\ SubmitOperationProof(i, chain)
  \/ MarkProofSubmissionComplete(i)
  \/ \E j \in Judge, valid \in BOOLEAN : SubmitJudgeVote(i, j, valid)
  \/ FinalizeInvocation(i)
  \/ ExtendInvocation(i)
  \/ ForceSettle(i)

Books(op, i, key) ==
  \/ BookLockDo(op, i, key)
  \/ Committed(i) /\ BookUnlock(op, i, key)
  \/ BookUndoUnlock(op, i, key)

LEMMA ServiceSteps ==
  ASSUME IInv, [Next]_vars
  PROVE  \/ \E i \in Inv : Serves(i)
         \/ UNCHANGED invocationVars /\ block' \in Nat
<1> USE DEF serviceVars, moneyVars, invocationVars
<1>1. ASSUME NEW i \in Inv, Invoke(i) PROVE Serves(i)
  <2>1. PICK c \in scope.configs : \E judges \in Draws(c) : InitInvocation(i, c, judges)
    BY <1>1 DEF Invoke
  <2>2. c \in Config /\ scope.judges \subseteq Judge
    BY AtomAssumption DEF IInv, TypeOK, RelayerTypeOK, AtomAssumption
  <2>3. Draws(c) \subseteq Seq(Judge)
    BY <2>2 DEF Draws, Config
  <2> QED
    BY <2>1, <2>2, <2>3 DEF Serves
<1>2. ASSUME NEW i \in Inv, NEW j \in Judge, OtherJudgeVotes(i, j) PROVE Serves(i)
  BY <1>2 DEF OtherJudgeVotes, Serves
<1>3. ASSUME NEW i \in Inv, AnyoneFinalizes(i) \/ AnyoneForceSettles(i) \/ Extend(i)
      PROVE  Serves(i)
  BY <1>3 DEF AnyoneFinalizes, AnyoneForceSettles, Extend, Serves
<1>4. ASSUME NEW c \in queued, Send(c)
      PROVE  Serves(c.inv) \/ UNCHANGED serviceVars
  <2>1. c \in Calls
    BY DEF IInv, TypeOK, RelayerTypeOK
  <2>2. ASSUME AtService(c) PROVE Serves(c.inv)
    <3>1. c.fn = "submitOperationProof" => Locked(c.inv, c.chain)
      BY DEF IInv, ProofsAreOfLocks
    <3> QED
      BY <2>1, <2>2, <3>1, CallFields DEF AtService, Serves
  <2> QED
    BY <1>4, <2>2 DEF Send, AtRemote
<1>5. ASSUME MoneyMoves PROVE UNCHANGED <<invocationVars, block>>
  BY <1>5 DEF MoneyMoves, FundRewardPool, DepositBond, WithdrawBond, WithdrawSettlement
<1>6. ASSUME Tick PROVE UNCHANGED invocationVars /\ block' \in Nat
  BY <1>6 DEF Tick, MineBlock, IInv, TypeOK, ServiceTypeOK
<1>7. ASSUME \/ \E e \in unseen : Handle(e) \/ JudgesUnknown(e)
             \/ \E c \in queued : Lose(c)
             \/ \E c \in refused : Abandon(c)
             \/ \E c \in done \cup refused : Resend(c)
             \/ Restart \/ UNCHANGED vars
      PROVE  UNCHANGED serviceVars
  BY <1>7 DEF Handle, JudgesUnknown, Lose, Abandon, Resend, Restart, vars
<1>8. block \in Nat /\ \A c \in queued : c.inv \in Inv
  BY CallFields DEF IInv, TypeOK, ServiceTypeOK, RelayerTypeOK
<1> QED
  BY <1>1, <1>2, <1>3, <1>4, <1>5, <1>6, <1>7, <1>8 DEF Next

LEMMA RemoteSteps ==
  ASSUME IInv, [Next]_vars
  PROVE  \/ \E op \in Op, i \in Inv, key \in Key : Books(op, i, key)
         \/ UNCHANGED remoteVars
<1>1. ASSUME NEW c \in queued, AtRemote(c)
      PROVE  \E op \in Op, i \in Inv, key \in Key : Books(op, i, key)
  <2>1. c \in Calls /\ (c.fn = "book_unlock" => Committed(c.inv))
    BY DEF IInv, TypeOK, RelayerTypeOK, UnlocksAreOfCommitted
  <2>2. Books(c.op, c.inv, c.key) /\ c.fn \in Unlocks \cup {"book_lock_do"}
    BY <1>1, <2>1 DEF AtRemote, Books, Unlocks
  <2> QED
    BY <2>1, <2>2, CallFields
<1>2. ASSUME NEW c \in queued, Send(c), ~AtRemote(c) PROVE UNCHANGED remoteVars
  BY <1>2 DEF Send, AtService
<1> QED
  BY <1>1, <1>2
     DEF Next, Invoke, OtherJudgeVotes, AnyoneFinalizes, AnyoneForceSettles, Extend, MoneyMoves,
         Tick, Handle, JudgesUnknown, Lose, Abandon, Resend, Restart, vars
-----------------------------------------------------------------------------
(* Type correctness, by party.                                             *)

LEMMA AppendNat ==
  \A s \in Seq(Nat), x \in Nat :
    /\ Append(s, x) \in Seq(Nat)
    /\ Len(s) \in Nat /\ Len(Append(s, x)) = Len(s) + 1
    /\ \A k \in 1..Len(s) : s[k] \in Nat /\ Append(s, x)[k] = s[k]
    /\ Append(s, x)[Len(s) + 1] = x
BY AppendProperties, LenProperties

LEMMA OneInvocation ==
  ASSUME inv \in [Inv -> InvocationType], NEW i \in Inv, NEW r \in InvocationType,
         inv' = [inv EXCEPT ![i] = r]
  PROVE  /\ inv' \in [Inv -> InvocationType]
         /\ inv'[i] = r
         /\ \A k \in Inv : k # i => inv'[k] = inv[k]
OBVIOUS

LEMMA NewInvocation ==
  ASSUME NEW c \in Config, NEW judges \in Seq(Judge), block \in Nat,
         NEW r, r = [NoInvocation EXCEPT
                       !.status = "Serving", !.total = c.total, !.min = c.min,
                       !.judges = judges, !.started = block, !.service = block + c.service,
                       !.audit = block + c.service + c.audit]
  PROVE  r \in InvocationType /\ r.started <= r.service
<1>0. /\ c.total \in 0..Ops /\ c.min \in Nat
      /\ block + c.service \in Nat /\ block + c.service + c.audit \in Nat
      /\ block <= block + c.service
  BY TypesAssumption DEF Config, TypesAssumption
<1> DEFINE Made(s) ==
             [status |-> s, total |-> c.total, min |-> c.min, judges |-> judges,
              proofs |-> <<>>, valid |-> 0, invalid |-> 0, started |-> block,
              service |-> block + c.service, audit |-> block + c.service + c.audit,
              extended |-> 0]
<1>1. ASSUME NEW s \in Status PROVE Made(s) \in InvocationType
  BY <1>0 DEF InvocationType
<1>2. r = Made("Serving")
  BY DEF NoInvocation
<1>3. "Serving" \in Status
  BY DEF Status
<1>4. r.started <= r.service
  BY <1>0, <1>2
<1> HIDE DEF Made
<1> QED
  BY <1>1, <1>2, <1>3, <1>4

LEMMA ServiceTypes ==
  ASSUME IInv, [Next]_vars
  PROVE  ServiceTypeOK' /\ DeadlineAfterStart'
<1> USE DEF IInv, TypeOK, ServiceTypeOK, DeadlineAfterStart
<1>1. ASSUME NEW i \in Inv, NEW r \in InvocationType,
             inv' = [inv EXCEPT ![i] = r], r.started <= r.service,
             vote' \in [Inv -> [Judge -> Decision]], UNCHANGED block
      PROVE  ServiceTypeOK' /\ DeadlineAfterStart'
  <2>1. \A k \in Inv : inv'[k].started <= inv'[k].service
    BY <1>1, OneInvocation
  <2> QED
    BY <1>1, <2>1, OneInvocation
<1>2. ASSUME NEW i \in Inv, NEW c \in Config, NEW judges \in Seq(Judge),
             InitInvocation(i, c, judges)
      PROVE  ServiceTypeOK' /\ DeadlineAfterStart'
  <2>1. PICK r : r = [NoInvocation EXCEPT
                        !.status = "Serving", !.total = c.total, !.min = c.min,
                        !.judges = judges, !.started = block, !.service = block + c.service,
                        !.audit = block + c.service + c.audit]
    OBVIOUS
  <2>2. r \in InvocationType /\ r.started <= r.service
    BY <2>1, NewInvocation
  <2>3. inv' = [inv EXCEPT ![i] = r] /\ UNCHANGED <<vote, block>>
    BY <1>2, <2>1 DEF InitInvocation
  <2> QED
    BY <1>1, <2>2, <2>3
<1>3. ASSUME NEW i \in Inv, NEW chain \in Seq(Nat), SubmitOperationProof(i, chain)
      PROVE  ServiceTypeOK' /\ DeadlineAfterStart'
  <2> DEFINE r == [inv[i] EXCEPT !.proofs = Append(@, chain[Len(chain)])]
  <2>1. chain[Len(chain)] \in Nat
    BY <1>3, LenProperties DEF SubmitOperationProof, CanSubmitProof
  <2>2. Append(inv[i].proofs, chain[Len(chain)]) \in Seq(Nat)
    BY <2>1, AppendNat DEF InvocationType
  <2>3. r \in InvocationType /\ r.started <= r.service
    BY <2>2 DEF InvocationType
  <2> HIDE DEF r
  <2>4. inv' = [inv EXCEPT ![i] = r] /\ UNCHANGED <<vote, block>>
    BY <1>3 DEF SubmitOperationProof, moneyVars, r
  <2> QED
    BY <1>1, <2>3, <2>4
<1>4. ASSUME NEW i \in Inv, NEW status \in Status,
             inv' = [inv EXCEPT ![i].status = status], UNCHANGED <<vote, block>>
      PROVE  ServiceTypeOK' /\ DeadlineAfterStart'
  <2> DEFINE r == [inv[i] EXCEPT !.status = status]
  <2>1. r \in InvocationType /\ r.started <= r.service
    BY DEF InvocationType
  <2>2. inv' = [inv EXCEPT ![i] = r]
    BY <1>4
  <2> HIDE DEF r
  <2> QED
    BY <1>1, <1>4, <2>1, <2>2
<1>5. ASSUME NEW i \in Inv,
             MarkProofSubmissionComplete(i) \/ FinalizeInvocation(i) \/ ForceSettle(i)
      PROVE  ServiceTypeOK' /\ DeadlineAfterStart'
  BY <1>4, <1>5 DEF MarkProofSubmissionComplete, FinalizeInvocation, ForceSettle, Status
<1>6. ASSUME NEW i \in Inv, NEW j \in Judge, NEW valid \in BOOLEAN, SubmitJudgeVote(i, j, valid)
      PROVE  ServiceTypeOK' /\ DeadlineAfterStart'
  <2> DEFINE count == 1 + IF valid THEN inv[i].valid ELSE inv[i].invalid
             verdict == IF valid THEN "Valid" ELSE "Invalid"
             r == [inv[i] EXCEPT
                     !.valid = IF valid THEN count ELSE @,
                     !.invalid = IF valid THEN @ ELSE count,
                     !.status = IF count >= inv[i].min THEN verdict ELSE @]
  <2>0. count \in Nat /\ verdict \in Status /\ inv[i] \in InvocationType
    BY DEF InvocationType, Status
  <2> HIDE DEF count, verdict
  <2>1. r \in InvocationType /\ r.started <= r.service
    BY <2>0 DEF InvocationType
  <2>2. inv' = [inv EXCEPT ![i] = r] /\ vote' \in [Inv -> [Judge -> Decision]]
    BY <1>6 DEF SubmitJudgeVote, Decision, count, verdict
  <2>3. UNCHANGED block
    BY <1>6 DEF SubmitJudgeVote
  <2> HIDE DEF r
  <2> QED
    BY <1>1, <2>1, <2>2, <2>3
<1>7. ASSUME NEW i \in Inv, ExtendInvocation(i)
      PROVE  ServiceTypeOK' /\ DeadlineAfterStart'
  <2> DEFINE r == [inv[i] EXCEPT
                     !.extended = @ + 1,
                     !.service = @ + (inv[i].service - inv[i].started),
                     !.audit = @ + (inv[i].audit - inv[i].service)]
  <2>0. /\ inv[i] \in InvocationType
        /\ inv[i].extended \in Nat /\ inv[i].started \in Nat
        /\ inv[i].service \in Nat /\ inv[i].audit \in Nat
        /\ inv[i].started <= inv[i].service /\ inv[i].audit - inv[i].service >= 0
    BY <1>7 DEF ExtendInvocation, InvocationType
  <2>1. /\ inv[i].extended + 1 \in Nat
        /\ inv[i].service + (inv[i].service - inv[i].started) \in Nat
        /\ inv[i].audit + (inv[i].audit - inv[i].service) \in Nat
        /\ inv[i].started <= inv[i].service + (inv[i].service - inv[i].started)
    BY <2>0
  <2>2. r \in InvocationType /\ r.started <= r.service
    BY <2>0, <2>1 DEF InvocationType
  <2>3. inv' = [inv EXCEPT ![i] = r] /\ UNCHANGED <<vote, block>>
    BY <1>7 DEF ExtendInvocation
  <2> HIDE DEF r
  <2> QED
    BY <1>1, <2>2, <2>3
<1>8. ASSUME UNCHANGED invocationVars, block' \in Nat
      PROVE  ServiceTypeOK' /\ DeadlineAfterStart'
  BY <1>8 DEF invocationVars
<1> QED
  BY <1>2, <1>3, <1>5, <1>6, <1>7, <1>8, ServiceSteps DEF Serves

LEMMA RemoteTypes ==
  ASSUME IInv, [Next]_vars
  PROVE  RemoteTypeOK'
<1> USE RemoteAssumption DEF IInv, TypeOK, RemoteTypeOK, RemoteAssumption, NoHold, Key
<1>1. ASSUME NEW op \in Op, NEW i \in Inv, NEW key \in Key, BookLockDo(op, i, key)
      PROVE  RemoteTypeOK'
  <2>1. remain[op] - Amount[op] \in Nat
    BY <1>1 DEF BookLockDo, CanLock
  <2> QED
    BY <1>1, <2>1 DEF BookLockDo
<1>2. ASSUME NEW op \in Op, NEW i \in Inv, NEW key \in Key, BookUnlock(op, i, key)
      PROVE  RemoteTypeOK'
  BY <1>2 DEF BookUnlock
<1>3. ASSUME NEW op \in Op, NEW i \in Inv, NEW key \in Key, BookUndoUnlock(op, i, key)
      PROVE  RemoteTypeOK'
  BY <1>3 DEF BookUndoUnlock, Released
<1>4. ASSUME UNCHANGED remoteVars PROVE RemoteTypeOK'
  BY <1>4 DEF remoteVars
<1> QED
  BY <1>1, <1>2, <1>3, <1>4, RemoteSteps DEF Books

LEMMA Learns ==
  ASSUME NEW key \in Key, NEW p, p = [Unknown EXCEPT !.key = key]
  PROVE  p \in [key : Key, chain : Seq(Nat), submitted : SUBSET Op]
<1>1. [key |-> key, chain |-> <<>>, submitted |-> {}]
        \in [key : Key, chain : Seq(Nat), submitted : SUBSET Op]
  OBVIOUS
<1>2. p = [key |-> key, chain |-> <<>>, submitted |-> {}]
  BY DEF Unknown
<1> QED
  BY <1>1, <1>2

(* What a handler enqueues are calls, and what a chain answers are logs.   *)
LEMMA HandlerCalls ==
  ASSUME IInv, NEW e \in unseen, Handle(e)
  PROVE  /\ queued' \subseteq Calls
         /\ pending' \in [Inv -> [key : Key, chain : Seq(Nat), submitted : SUBSET Op]]
<1> USE DEF IInv, TypeOK, RelayerTypeOK, Key, Enqueue
<1>0. e \in Logs /\ e.inv \in Inv
  BY LogFields
<1>1. CASE HandleWriteOnly(e)
  <2>1. LockCall(e.inv, 1, e.inv) \in Calls
    BY <1>0, TypesAssumption DEF LockCall, RemoteCall, Calls, Op, TypesAssumption
  <2>2. PICK p : p = [Unknown EXCEPT !.key = e.inv]
    OBVIOUS
  <2>3. p \in [key : Key, chain : Seq(Nat), submitted : SUBSET Op]
    BY <1>0, <2>2, Learns
  <2> QED
    BY <1>0, <1>1, <2>1, <2>2, <2>3 DEF HandleWriteOnly
<1>2. CASE HandleLocked(e)
  <2> DEFINE known == pending[e.inv]
             chain == Append(known.chain, e.lock)
  <2>1. e.op \in Op /\ e.lock \in Nat
    BY <1>0, <1>2, LogFields DEF HandleLocked
  <2>2. chain \in Seq(Nat)
    BY <1>0, <2>1, AppendNat
  <2>3. ProofCall(e.inv, chain) \in Calls
    BY <1>0, <2>2 DEF ProofCall, Calls
  <2> HIDE DEF chain
  <2>4. ASSUME e.op < inv[e.inv].total PROVE LockCall(e.inv, e.op + 1, known.key) \in Calls
    <3>1. inv[e.inv].total \in 0..Ops
      BY <1>0 DEF ServiceTypeOK, InvocationType
    <3>2. e.op + 1 \in Op
      BY <2>1, <2>4, <3>1, TypesAssumption DEF Op, TypesAssumption
    <3> QED
      BY <1>0, <3>2 DEF LockCall, RemoteCall, Calls
  <2> QED
    <3>1. CASE e.op = Len(known.chain) + 1
      <4>1. pending' = [pending EXCEPT ![e.inv].chain = chain]
        BY <1>2, <3>1 DEF HandleLocked, chain
      <4>2. queued' \subseteq
              queued \cup {ProofCall(e.inv, chain)}
                \cup (IF e.op < inv[e.inv].total THEN {LockCall(e.inv, e.op + 1, known.key)} ELSE {})
        BY <1>2, <3>1 DEF HandleLocked, chain
      <4>3. queued' \subseteq Calls
        BY <2>3, <2>4, <4>2
      <4> QED
        BY <1>0, <2>2, <4>1, <4>3
    <3>2. CASE e.op # Len(known.chain) + 1
      BY <1>2, <3>2 DEF HandleLocked
    <3> QED
      BY <3>1, <3>2
<1>3. CASE HandleOperationProofSubmitted(e)
  <2>1. e.op \in Op
    BY <1>0, <1>3, LogFields DEF HandleOperationProofSubmitted
  <2>2. Call("markProofSubmissionComplete", e.inv) \in Calls
    BY <1>0 DEF Call, Calls
  <2> QED
    BY <1>0, <1>3, <2>1, <2>2 DEF HandleOperationProofSubmitted
<1>4. CASE HandleUnlock(e)
  <2> DEFINE fn == IF Undoes(e) THEN "book_undo_unlock" ELSE "book_unlock"
  <2>1. \A op \in Op : RemoteCall(fn, op, e.inv, pending[e.inv].key) \in Calls
    BY <1>0 DEF RemoteCall, Calls
  <2>2. Remotes(e.inv) \subseteq Op
    BY <1>0, TypesAssumption DEF Remotes, Op, TypesAssumption, ServiceTypeOK, InvocationType
  <2> QED
    BY <1>0, <1>4, <2>1, <2>2 DEF HandleUnlock, Unknown
<1>5. CASE HandleProofsSubmitted(e)
  <2>1. \A j \in LocalJudge : VoteCall(e.inv, j) \in Calls
    BY <1>0, AtomAssumption DEF VoteCall, Calls, AtomAssumption
  <2> QED
    BY <1>5, <2>1 DEF HandleProofsSubmitted
<1>6. CASE HandleVoteSubmitted(e)
  <2>1. Call("finalizeInvocation", e.inv) \in Calls
    BY <1>0 DEF Call, Calls
  <2> QED
    BY <1>6, <2>1 DEF HandleVoteSubmitted
<1> QED
  BY <1>1, <1>2, <1>3, <1>4, <1>5, <1>6 DEF Handle

LEMMA ChainLogs ==
  ASSUME IInv, [Next]_vars
  PROVE  unseen' \subseteq Logs
<1> USE DEF IInv, TypeOK, RelayerTypeOK, Emit
<1>1. ASSUME NEW i \in Inv, NEW name \in {"WriteOnlyInvocationRequested", "AllProofsSubmitted",
               "InvocationFinalized", "InvocationInvalidated", "InvocationForceSettled",
               "ForceSettleUndoRequired"}
      PROVE  Log(name, i) \in Logs
  BY <1>1 DEF Log, Logs
<1>2. ASSUME NEW i \in Inv, NEW j \in Judge PROVE VoteLog(i, j) \in Logs
  BY DEF VoteLog, Logs
<1>3. ASSUME NEW i \in Inv
      PROVE  OutcomeLog(i) \in Logs
  BY <1>1 DEF OutcomeLog
<1>4. ASSUME NEW i \in Inv, Invoke(i) PROVE unseen' \subseteq Logs
  BY <1>1, <1>4 DEF Invoke
<1>5. ASSUME NEW i \in Inv, NEW j \in Judge, OtherJudgeVotes(i, j) PROVE unseen' \subseteq Logs
  BY <1>2, <1>5 DEF OtherJudgeVotes
<1>6. ASSUME NEW i \in Inv, AnyoneFinalizes(i) \/ AnyoneForceSettles(i)
      PROVE  unseen' \subseteq Logs
  BY <1>1, <1>3, <1>6 DEF AnyoneFinalizes, AnyoneForceSettles
<1>7. ASSUME NEW c \in queued, AtRemote(c) PROVE unseen' \subseteq Logs
  <2>1. c \in Calls
    OBVIOUS
  <2>2. CASE c.fn = "book_lock_do" /\ Emit({LockedLog(c.op, c.inv, locks[c.op][c.inv] + 1)})
    <3>1. c.op \in Op /\ c.inv \in Inv
      BY <2>1, <2>2, CallFields DEF Unlocks
    <3>2. LockedLog(c.op, c.inv, locks[c.op][c.inv] + 1) \in Logs
      BY <3>1 DEF LockedLog, Logs, RemoteTypeOK
    <3> QED
      BY <2>2, <3>2
  <2>3. CASE UNCHANGED unseen
    BY <2>3
  <2> QED
    BY <1>7, <2>2, <2>3 DEF AtRemote
<1>8. ASSUME NEW c \in queued, AtService(c) PROVE unseen' \subseteq Logs
  <2>1. c \in Calls /\ c.inv \in Inv
    BY CallFields
  <2>2. CASE c.fn = "submitOperationProof" /\ SubmitOperationProof(c.inv, c.chain)
             /\ Emit({ProofLog(c.inv, Len(c.chain))})
    <3>0. inv[c.inv].total \in 0..Ops /\ Len(c.chain) \in 1..inv[c.inv].total
      BY <2>1, <2>2 DEF SubmitOperationProof, CanSubmitProof, ServiceTypeOK, InvocationType
    <3>1. Len(c.chain) \in Op
      BY <3>0, TypesAssumption DEF TypesAssumption, Op
    <3>2. ProofLog(c.inv, Len(c.chain)) \in Logs
      BY <2>1, <3>1 DEF ProofLog, Logs
    <3> QED
      BY <2>2, <3>2
  <2>3. CASE c.fn = "submitJudgeVote" /\ Emit({VoteLog(c.inv, c.judge)})
    BY <1>2, <2>1, <2>3, CallFields
  <2>4. CASE Emit({Log("AllProofsSubmitted", c.inv)})
    BY <1>1, <2>1, <2>4
  <2>5. CASE Emit({OutcomeLog(c.inv)})
    BY <1>3, <2>1, <2>5
  <2> QED
    BY <1>8, <2>2, <2>3, <2>4, <2>5 DEF AtService
<1>9. ASSUME NEW c \in queued, Send(c) PROVE unseen' \subseteq Logs
  BY <1>7, <1>8, <1>9 DEF Send
<1>10. ASSUME NEW e \in unseen, Handle(e) PROVE unseen' \subseteq Logs
  BY <1>10 DEF Handle
<1> QED
  BY <1>4, <1>5, <1>6, <1>9, <1>10
     DEF Next, Extend, MoneyMoves, Tick, JudgesUnknown, Lose, Abandon, Resend, Restart, vars

LEMMA RelayerTypes ==
  ASSUME IInv, [Next]_vars
  PROVE  RelayerTypeOK'
<1> USE DEF IInv, TypeOK, RelayerTypeOK, Key
<1>1. UNCHANGED scope
  BY DEF Next, Invoke, OtherJudgeVotes, AnyoneFinalizes, AnyoneForceSettles, Extend, MoneyMoves,
         Tick, Handle, Send, JudgesUnknown, Lose, Abandon, Resend, Restart, vars
<1>2. ASSUME NEW e \in unseen, Handle(e)
      PROVE  /\ pending' \in [Inv -> [key : Key, chain : Seq(Nat), submitted : SUBSET Op]]
             /\ queued' \subseteq Calls /\ refused' \subseteq Calls /\ done' \subseteq Calls
  BY <1>2, HandlerCalls DEF Handle
<1>3. ASSUME \/ \E c \in queued : Send(c) \/ Lose(c)
             \/ \E c \in refused : Abandon(c)
             \/ \E c \in done \cup refused : Resend(c)
      PROVE  /\ UNCHANGED pending
             /\ queued' \subseteq Calls /\ refused' \subseteq Calls /\ done' \subseteq Calls
  BY <1>3 DEF Send, Lose, Abandon, Resend
<1>4. ASSUME Restart
      PROVE  /\ pending' \in [Inv -> [key : Key, chain : Seq(Nat), submitted : SUBSET Op]]
             /\ UNCHANGED <<queued, refused, done>>
  <2>1. Unknown \in [key : Key, chain : Seq(Nat), submitted : SUBSET Op]
    BY DEF Unknown
  <2> QED
    BY <1>4, <2>1 DEF Restart
<1>5. ASSUME \/ \E i \in Inv :
                  \/ Invoke(i) \/ AnyoneFinalizes(i) \/ AnyoneForceSettles(i) \/ Extend(i)
                  \/ \E j \in Judge : OtherJudgeVotes(i, j)
             \/ MoneyMoves \/ Tick \/ UNCHANGED vars
             \/ \E e \in unseen : JudgesUnknown(e)
      PROVE  UNCHANGED relayerVars
  BY <1>5 DEF JudgesUnknown, Invoke, AnyoneFinalizes, AnyoneForceSettles, Extend,
              OtherJudgeVotes, MoneyMoves,
              Tick, vars, relayerVars
<1> QED
  BY <1>1, <1>2, <1>3, <1>4, <1>5, ChainLogs DEF Next, relayerVars

-----------------------------------------------------------------------------
(* Verdicts.                                                               *)

LEMMA Unaffected ==
  ASSUME NEW k \in Inv, VerdictIsEarned(k), inv'[k] = inv[k], vote'[k] = vote[k]
  PROVE  VerdictIsEarned(k)'
BY DEF VerdictIsEarned, Voted, Outvoted, Selected

LEMMA Ballots ==
  ASSUME ServiceTypeOK, NEW i \in Inv
  PROVE  /\ \A verdict : IsFiniteSet(Voted(i, verdict))
         /\ Voted(i, "Valid") \cup Voted(i, "Invalid") = {}
              <=> Cardinality(Voted(i, "Valid")) = 0 /\ Cardinality(Voted(i, "Invalid")) = 0
<1>1. \A verdict : IsFiniteSet(Voted(i, verdict))
  BY ServiceAssumption, FS_Subset DEF ServiceAssumption, Voted
<1> QED
  BY <1>1, FS_EmptySet

LEMMA OneMoreVote ==
  ASSUME IInv, NEW i \in Inv, NEW j \in Judge, NEW valid \in BOOLEAN, SubmitJudgeVote(i, j, valid)
  PROVE  VerdictIsEarned(i)'
<1> DEFINE count == 1 + IF valid THEN inv[i].valid ELSE inv[i].invalid
           verdict == IF valid THEN "Valid" ELSE "Invalid"
           other == IF valid THEN "Invalid" ELSE "Valid"
<1>1. /\ inv[i].status = "Auditing" /\ j \in Selected(i) /\ vote[i][j] = "None"
      /\ inv[i] \in InvocationType
      /\ inv[i].min \in Nat /\ inv[i].valid \in Nat /\ inv[i].invalid \in Nat
  BY DEF SubmitJudgeVote, CanVote, IInv, TypeOK, ServiceTypeOK, InvocationType
<1>2. /\ inv'[i].valid = IF valid THEN count ELSE inv[i].valid
      /\ inv'[i].invalid = IF valid THEN inv[i].invalid ELSE count
      /\ inv'[i].status = IF count >= inv[i].min THEN verdict ELSE "Auditing"
      /\ inv'[i].min = inv[i].min /\ inv'[i].total = inv[i].total
      /\ inv'[i].proofs = inv[i].proofs /\ inv'[i].judges = inv[i].judges
  BY <1>1 DEF SubmitJudgeVote, IInv, TypeOK, ServiceTypeOK
<1>3. /\ Voted(i, verdict)' = Voted(i, verdict) \cup {j}
      /\ Voted(i, other)' = Voted(i, other)
      /\ j \notin Voted(i, verdict)
  BY <1>1 DEF SubmitJudgeVote, Voted, IInv, TypeOK, ServiceTypeOK
<1>4. Cardinality(Voted(i, verdict)') = Cardinality(Voted(i, verdict)) + 1
  BY <1>3, Ballots, FS_AddElement DEF IInv, TypeOK
<1>5. VerdictIsEarned(i)
  BY DEF IInv, VerdictsAreEarned
<1>6. /\ inv'[i].valid = Cardinality(Voted(i, "Valid")')
      /\ inv'[i].invalid = Cardinality(Voted(i, "Invalid")')
  <2>1. /\ inv[i].valid = Cardinality(Voted(i, "Valid"))
        /\ inv[i].invalid = Cardinality(Voted(i, "Invalid"))
    BY <1>5 DEF VerdictIsEarned
  <2>2. CASE valid
    BY <1>1, <1>2, <1>3, <1>4, <2>1, <2>2
  <2>3. CASE ~valid
    BY <1>1, <1>2, <1>3, <1>4, <2>1, <2>3
  <2> QED
    BY <2>2, <2>3
<1>7. (Voted(i, "Valid") \cup Voted(i, "Invalid") \subseteq Selected(i))'
  BY <1>1, <1>2, <1>3, <1>5 DEF VerdictIsEarned, Selected
<1>8. inv[i].valid < inv[i].min /\ inv[i].invalid < inv[i].min
      /\ Len(inv[i].proofs) = inv[i].total /\ Len(inv[i].proofs) <= inv[i].total
  BY <1>1, <1>5 DEF VerdictIsEarned, Open
<1>9. /\ inv'[i].status \in Open =>
            inv'[i].valid < inv'[i].min /\ inv'[i].invalid < inv'[i].min
      /\ inv'[i].status \in Decided => Outvoted(i, inv[i].status)'
      /\ inv'[i].status \notin {"None", "Settled"}
  BY <1>1, <1>2, <1>8 DEF Open, Decided, Outvoted
<1> QED
  BY <1>2, <1>6, <1>7, <1>8, <1>9 DEF VerdictIsEarned

LEMMA VerdictsStayEarned ==
  ASSUME IInv, [Next]_vars
  PROVE  VerdictsAreEarned'
<1> USE DEF IInv, TypeOK, ServiceTypeOK
<1>0. /\ \A i \in Inv : VerdictIsEarned(i) /\ inv[i] \in InvocationType
  BY DEF VerdictsAreEarned
<1>1. ASSUME NEW i \in Inv, NEW c \in Config, NEW judges \in Seq(Judge),
             InitInvocation(i, c, judges)
      PROVE  VerdictIsEarned(i)'
  <2>1. inv[i] = NoInvocation /\ vote'[i] = vote[i]
    BY <1>0, <1>1 DEF InitInvocation, VerdictIsEarned
  <2>2. Voted(i, "Valid") = {} /\ Voted(i, "Invalid") = {}
    <3>1. Cardinality(Voted(i, "Valid")) = 0 /\ Cardinality(Voted(i, "Invalid")) = 0
      BY <1>0, <2>1 DEF VerdictIsEarned, NoInvocation
    <3> QED
      BY <3>1, Ballots
  <2>3. Voted(i, "Valid")' = {} /\ Voted(i, "Invalid")' = {}
    BY <2>1, <2>2 DEF Voted
  <2>4. /\ inv'[i].status = "Serving" /\ inv'[i].proofs = <<>>
        /\ inv'[i].valid = 0 /\ inv'[i].invalid = 0
        /\ inv'[i].min = c.min /\ inv'[i].total = c.total
    BY <1>1 DEF InitInvocation, NoInvocation
  <2>5. c.min \in Nat \ {0} /\ c.total \in Nat /\ Len(<<>>) = 0
    BY TypesAssumption DEF Config, TypesAssumption
  <2>6. Cardinality(Voted(i, "Valid")') = 0 /\ Cardinality(Voted(i, "Invalid")') = 0
    BY <2>3, FS_EmptySet
  <2>7. inv'[i].status \notin {"None", "Auditing", "Valid", "Invalid", "Settled"} \cup Decided
    BY <2>4 DEF Decided
  <2>8. Len(inv'[i].proofs) <= inv'[i].total
    BY <2>4, <2>5
  <2>9. inv'[i].valid < inv'[i].min /\ inv'[i].invalid < inv'[i].min
    BY <2>4, <2>5
  <2> QED
    BY <2>3, <2>4, <2>6, <2>7, <2>8, <2>9 DEF VerdictIsEarned
<1>2. ASSUME NEW i \in Inv, NEW chain \in Seq(Nat), SubmitOperationProof(i, chain)
      PROVE  VerdictIsEarned(i)'
  <2>1. /\ inv[i].status = "Serving" /\ vote' = vote
        /\ Len(chain) = Len(inv[i].proofs) + 1 /\ Len(chain) \in 1..inv[i].total
        /\ chain[Len(chain)] \in Nat
    BY <1>2, LenProperties DEF SubmitOperationProof, CanSubmitProof, InTime, Extends
  <2>2. inv'[i] = [inv[i] EXCEPT !.proofs = Append(@, chain[Len(chain)])]
    BY <1>2 DEF SubmitOperationProof
  <2>3. Len(Append(inv[i].proofs, chain[Len(chain)])) = Len(chain)
    BY <1>0, <2>1, AppendNat DEF InvocationType
  <2>4. /\ inv'[i].status = "Serving" /\ Len(inv'[i].proofs) = Len(chain)
        /\ inv'[i].total = inv[i].total /\ inv'[i].min = inv[i].min
        /\ inv'[i].valid = inv[i].valid /\ inv'[i].invalid = inv[i].invalid
        /\ inv'[i].judges = inv[i].judges
    BY <1>0, <2>1, <2>2, <2>3 DEF InvocationType
  <2>5. inv[i].total \in 0..Ops
    BY <1>0 DEF InvocationType
  <2>6. Len(inv'[i].proofs) <= inv'[i].total
    BY <2>1, <2>4, <2>5, TypesAssumption DEF TypesAssumption
  <2> QED
    BY <1>0, <2>1, <2>4, <2>6 DEF VerdictIsEarned, Voted, Selected, Open, Decided
<1>3. ASSUME NEW i \in Inv,
             \/ MarkProofSubmissionComplete(i) \/ FinalizeInvocation(i)
             \/ ExtendInvocation(i) \/ ForceSettle(i)
      PROVE  VerdictIsEarned(i)'
  <2>1. /\ inv'[i].proofs = inv[i].proofs /\ inv'[i].judges = inv[i].judges
        /\ inv'[i].total = inv[i].total /\ inv'[i].min = inv[i].min
        /\ inv'[i].valid = inv[i].valid /\ inv'[i].invalid = inv[i].invalid
        /\ vote' = vote
    <3>1. CASE MarkProofSubmissionComplete(i)
      BY <1>0, <3>1 DEF MarkProofSubmissionComplete, InvocationType
    <3>2. CASE FinalizeInvocation(i)
      BY <1>0, <3>2 DEF FinalizeInvocation, InvocationType
    <3>3. CASE ExtendInvocation(i)
      BY <1>0, <3>3 DEF ExtendInvocation, InvocationType
    <3>4. CASE ForceSettle(i)
      BY <1>0, <3>4 DEF ForceSettle, InvocationType
    <3> QED
      BY <1>3, <3>1, <3>2, <3>3, <3>4
  <2>2. CASE MarkProofSubmissionComplete(i)
    <3>1. inv[i].status = "Serving" /\ inv'[i].status = "Auditing"
          /\ Len(inv[i].proofs) = inv[i].total
      BY <1>0, <2>2 DEF MarkProofSubmissionComplete, CanComplete, InTime, InvocationType
    <3> QED
      BY <1>0, <2>1, <3>1 DEF VerdictIsEarned, Voted, Selected, Open, Decided
  <2>3. CASE FinalizeInvocation(i)
    <3>1. inv[i].status \in Decided /\ inv'[i].status = "Settled"
      BY <1>0, <2>3 DEF FinalizeInvocation, CanFinalize, InvocationType
    <3> QED
      BY <1>0, <2>1, <3>1 DEF VerdictIsEarned, Voted, Selected, Open, Decided, Outvoted
  <2>4. CASE ExtendInvocation(i)
    <3>1. inv[i].status \in Open /\ inv'[i].status = inv[i].status
      BY <1>0, <2>4 DEF ExtendInvocation, InvocationType
    <3> QED
      BY <1>0, <2>1, <3>1 DEF VerdictIsEarned, Voted, Selected, Open, Decided, Outvoted
  <2>5. CASE ForceSettle(i)
    <3>1. inv'[i].status = "ForceSettled"
      BY <1>0, <2>5 DEF ForceSettle, InvocationType
    <3> QED
      BY <1>0, <2>1, <3>1 DEF VerdictIsEarned, Voted, Selected, Open, Decided, Outvoted
  <2> QED
    BY <1>3, <2>2, <2>3, <2>4, <2>5
<1>4. ASSUME NEW i \in Inv, Serves(i)
      PROVE  VerdictIsEarned(i)' /\ \A k \in Inv : k # i => inv'[k] = inv[k] /\ vote'[k] = vote[k]
  <2>1. VerdictIsEarned(i)'
    BY <1>1, <1>2, <1>3, <1>4, OneMoreVote DEF Serves
  <2>2. \A k \in Inv : k # i => inv'[k] = inv[k] /\ vote'[k] = vote[k]
    BY <1>4 DEF Serves, InitInvocation, SubmitOperationProof, MarkProofSubmissionComplete,
                SubmitJudgeVote, FinalizeInvocation, ExtendInvocation, ForceSettle
  <2> QED
    BY <2>1, <2>2
<1>5. ASSUME UNCHANGED invocationVars, NEW k \in Inv PROVE VerdictIsEarned(k)'
  BY <1>0, <1>5, Unaffected DEF invocationVars
<1> QED
  BY <1>0, <1>4, <1>5, ServiceSteps, Unaffected DEF VerdictsAreEarned

-----------------------------------------------------------------------------
(* What is new in a step: calls are a handler's, logs a chain's.           *)

AllCalls == queued \cup refused \cup done

LEMMA NewCalls ==
  ASSUME [Next]_vars, NEW c \in AllCalls', c \notin AllCalls
  PROVE  c \in queued' \ queued /\ \E e \in unseen : Handle(e)
BY DEF AllCalls, Next, Invoke, OtherJudgeVotes, AnyoneFinalizes, AnyoneForceSettles, Extend,
       MoneyMoves, Tick, Handle, Send, JudgesUnknown, Lose, Abandon, Resend, Restart, vars,
       relayerVars

LEMMA HandlerSends ==
  ASSUME NEW e \in unseen, Handle(e), NEW c \in queued' \ queued
  PROVE  /\ c.fn = "submitOperationProof" =>
               /\ e.name = "Locked" /\ e.op = Len(pending[e.inv].chain) + 1
               /\ c.inv = e.inv /\ c.chain = Append(pending[e.inv].chain, e.lock)
         /\ c.fn = "book_unlock" => e.name = "InvocationFinalized" /\ c.inv = e.inv
<1> USE DEF Enqueue, Call, RemoteCall, ProofCall, VoteCall, LockCall
<1>1. CASE HandleWriteOnly(e)
  BY <1>1 DEF HandleWriteOnly
<1>2. CASE HandleLocked(e)
  BY <1>2 DEF HandleLocked
<1>3. CASE HandleOperationProofSubmitted(e)
  BY <1>3 DEF HandleOperationProofSubmitted
<1>4. CASE HandleUnlock(e)
  BY <1>4 DEF HandleUnlock, Undoes
<1>5. CASE HandleProofsSubmitted(e)
  BY <1>5 DEF HandleProofsSubmitted
<1>6. CASE HandleVoteSubmitted(e)
  BY <1>6 DEF HandleVoteSubmitted
<1> QED
  BY <1>1, <1>2, <1>3, <1>4, <1>5, <1>6 DEF Handle

LEMMA NewLogs ==
  ASSUME IInv, [Next]_vars, NEW f \in unseen', f \notin unseen
  PROVE  /\ f.name = "Locked" => f.lock = locks'[f.op][f.inv] /\ f.lock # 0
         /\ f.name = "InvocationFinalized" =>
               /\ f.inv \in Inv /\ FinalizeInvocation(f.inv)
               /\ inv[f.inv].status = "Valid"
<1> USE DEF Emit, Log, VoteLog, ProofLog, OutcomeLog
<1>1. ASSUME NEW c \in queued, AtRemote(c)
      PROVE  /\ f.name = "Locked" /\ f.lock = locks'[f.op][f.inv] /\ f.lock # 0
  <2>1. CASE c.fn = "book_lock_do"
    <3>1. c.op \in Op /\ c.inv \in Inv
      BY <2>1, CallFields DEF IInv, TypeOK, RelayerTypeOK, Unlocks
    <3>2. f = LockedLog(c.op, c.inv, locks[c.op][c.inv] + 1) /\ locks[c.op][c.inv] \in Nat
      BY <1>1, <2>1, <3>1 DEF AtRemote, IInv, TypeOK, RemoteTypeOK
    <3>3. locks'[c.op][c.inv] = locks[c.op][c.inv] + 1
      BY <1>1, <2>1, <3>1 DEF AtRemote, BookLockDo, IInv, TypeOK, RemoteTypeOK
    <3> QED
      BY <3>2, <3>3 DEF LockedLog
  <2> QED
    BY <1>1, <2>1 DEF AtRemote
<1>2. ASSUME NEW c \in queued, AtService(c)
      PROVE  /\ f.name # "Locked"
             /\ f.name = "InvocationFinalized" =>
                  f.inv \in Inv /\ FinalizeInvocation(f.inv) /\ inv[f.inv].status = "Valid"
  <2>1. c.inv \in Inv
    BY CallFields DEF IInv, TypeOK, RelayerTypeOK
  <2>2. CASE f = OutcomeLog(c.inv) /\ FinalizeInvocation(c.inv)
    <3>1. f.inv = c.inv /\ f.name # "Locked"
          /\ (f.name = "InvocationFinalized" => inv[c.inv].status = "Valid")
      BY <2>2
    <3> QED
      BY <2>1, <2>2, <3>1
  <2>3. CASE \/ f = Log("AllProofsSubmitted", c.inv)
             \/ f = ProofLog(c.inv, Len(c.chain)) \/ f = VoteLog(c.inv, c.judge)
    BY <2>3
  <2>4. CASE c.fn = "finalizeInvocation"
    BY <1>2, <2>2, <2>4 DEF AtService
  <2>5. CASE c.fn # "finalizeInvocation"
    BY <1>2, <2>3, <2>5 DEF AtService
  <2> QED
    BY <2>4, <2>5
<1>3. ASSUME NEW i \in Inv,
             \/ Invoke(i) \/ AnyoneFinalizes(i) \/ AnyoneForceSettles(i)
             \/ \E j \in Judge : OtherJudgeVotes(i, j)
      PROVE  /\ f.name # "Locked"
             /\ f.name = "InvocationFinalized" =>
                  f.inv \in Inv /\ FinalizeInvocation(f.inv) /\ inv[f.inv].status = "Valid"
  BY <1>3 DEF Invoke, AnyoneFinalizes, AnyoneForceSettles, OtherJudgeVotes
<1> QED
  BY <1>1, <1>2, <1>3
     DEF Next, Extend, MoneyMoves, Tick, Handle, Send, JudgesUnknown, Lose, Abandon, Resend,
         Restart, vars

-----------------------------------------------------------------------------
(* Proofs rest on locks: no step takes a lock back.                        *)

LEMMA LocksGrow ==
  ASSUME IInv, [Next]_vars, NEW op \in Op, NEW i \in Inv
  PROVE  locks[op][i] \in Nat /\ locks'[op][i] \in Nat /\ locks[op][i] <= locks'[op][i]
<1>1. locks[op][i] \in Nat
  BY DEF IInv, TypeOK, RemoteTypeOK
<1>2. locks'[op][i] \in {locks[op][i], locks[op][i] + 1}
  <2>1. ASSUME NEW o \in Op, NEW k \in Inv, NEW key \in Key, BookLockDo(o, k, key)
        PROVE  locks'[op][i] \in {locks[op][i], locks[op][i] + 1}
    <3>1. /\ locks \in [Op -> [Inv -> Nat]]
          /\ locks' = [locks EXCEPT ![o][k] = @ + 1]
      BY <2>1 DEF BookLockDo, IInv, TypeOK, RemoteTypeOK
    <3> QED
      BY <3>1
  <2>2. (\E o \in Op, k \in Inv, key \in Key : BookLockDo(o, k, key)) \/ UNCHANGED locks
    BY RemoteSteps DEF Books, BookUnlock, BookUndoUnlock, remoteVars
  <2> QED
    BY <2>1, <2>2
<1> QED
  BY <1>1, <1>2

LEMMA ExtensionKeepsProofs ==
  ASSUME inv \in [Inv -> InvocationType], NEW i \in Inv, ExtendInvocation(i)
  PROVE  inv'[i].proofs = inv[i].proofs
<1>1. PICK x, y, z : inv' = [inv EXCEPT ![i].extended = x, ![i].service = y, ![i].audit = z]
  BY DEF ExtendInvocation
<1>2. inv[i] \in InvocationType
  OBVIOUS
<1> QED
  BY <1>1, <1>2 DEF InvocationType

LEMMA LockedStays ==
  ASSUME IInv, [Next]_vars, NEW i \in Inv, NEW chain \in Seq(Nat), Locked(i, chain)
  PROVE  Locked(i, chain)'
<1>1. \A k \in DOMAIN chain : k \in Op /\ chain[k] \in Nat
  BY LenProperties, TypesAssumption DEF Locked, Op, TypesAssumption
<1> QED
  BY <1>1, LocksGrow DEF Locked

LEMMA OneMoreLock ==
  ASSUME IInv, [Next]_vars, NEW e \in unseen, e.name = "Locked",
         NEW chain, chain = pending[e.inv].chain, e.op = Len(chain) + 1
  PROVE  Append(chain, e.lock) \in Seq(Nat) /\ Locked(e.inv, Append(chain, e.lock))'
<1>1. e.inv \in Inv /\ e.op \in Op /\ e.lock \in Nat /\ chain \in Seq(Nat)
  BY LogFields DEF IInv, TypeOK, RelayerTypeOK
<1>2. Locked(e.inv, chain) /\ e.lock \in 1..locks[e.op][e.inv]
  BY <1>1 DEF IInv, ProofsAreOfLocks
<1>3. Locked(e.inv, chain)' /\ e.lock \in 1..locks'[e.op][e.inv]
  <2>1. Locked(e.inv, chain)'
    BY <1>1, <1>2, LockedStays
  <2>2. locks[e.op][e.inv] <= locks'[e.op][e.inv] /\ locks[e.op][e.inv] \in Nat
        /\ locks'[e.op][e.inv] \in Nat
    BY <1>1, LocksGrow
  <2> QED
    BY <1>1, <1>2, <2>1, <2>2
<1> DEFINE longer == Append(chain, e.lock)
<1>4. /\ longer \in Seq(Nat) /\ Len(longer) = Len(chain) + 1 /\ Len(chain) \in Nat
      /\ \A k \in 1..Len(chain) : longer[k] = chain[k]
      /\ longer[Len(chain) + 1] = e.lock
  BY <1>1, AppendNat
<1> HIDE DEF longer
<1>5. DOMAIN longer = 1..(Len(chain) + 1) /\ DOMAIN chain = 1..Len(chain)
  BY <1>1, <1>4, LenProperties
<1>6. ASSUME NEW k \in DOMAIN longer PROVE longer[k] \in 1..locks'[k][e.inv]
  <2>1. CASE k = Len(chain) + 1
    BY <1>3, <1>4, <2>1
  <2>2. CASE k # Len(chain) + 1
    <3>1. k \in DOMAIN chain
      BY <1>4, <1>5, <2>2
    <3> QED
      BY <1>3, <1>4, <1>5, <3>1 DEF Locked
  <2> QED
    BY <2>1, <2>2
<1>7. Len(longer) <= Ops
  BY <1>1, <1>4 DEF Op
<1> QED
  BY <1>4, <1>6, <1>7 DEF Locked, longer

LEMMA ProvenNext ==
  ASSUME NEW i \in Inv, NEW before \in Seq(Nat), NEW chain \in Seq(Nat),
         Locked(i, before), Locked(i, chain), Len(chain) = Len(before) + 1
  PROVE  /\ Append(before, chain[Len(chain)]) \in Seq(Nat)
         /\ Locked(i, Append(before, chain[Len(chain)]))
<1>1. PICK n \in Nat : n = Len(before)
  BY LenProperties
<1>2. /\ DOMAIN before = 1..n /\ DOMAIN chain = 1..(n + 1)
      /\ n + 1 \in DOMAIN chain /\ chain[n + 1] \in Nat
  BY <1>1, LenProperties
<1>3. PICK longer : longer = Append(before, chain[n + 1])
  OBVIOUS
<1>4. /\ longer \in Seq(Nat) /\ Len(longer) = n + 1
      /\ \A k \in 1..n : longer[k] = before[k]
      /\ longer[n + 1] = chain[n + 1]
  BY <1>1, <1>2, <1>3, AppendNat
<1>5. DOMAIN longer = 1..(n + 1)
  BY <1>4, LenProperties
<1>6. ASSUME NEW k \in DOMAIN longer PROVE longer[k] \in 1..locks[k][i]
  <2>1. CASE k = n + 1
    BY <1>2, <1>4, <2>1 DEF Locked
  <2>2. CASE k # n + 1
    <3>1. k \in 1..n
      BY <1>5, <2>2
    <3> QED
      BY <1>2, <1>4, <3>1 DEF Locked
  <2> QED
    BY <2>1, <2>2
<1>7. Len(longer) <= Ops
  BY <1>1, <1>4 DEF Locked
<1> QED
  BY <1>1, <1>3, <1>4, <1>6, <1>7 DEF Locked

LEMMA ProofsStayOfLocks ==
  ASSUME IInv, [Next]_vars, TypeOK'
  PROVE  ProofsAreOfLocks'
<1> USE DEF IInv, TypeOK, RelayerTypeOK
<1>0. \A i \in Inv : Locked(i, <<>>)'
  BY TypesAssumption DEF Locked, TypesAssumption
<1>1. ASSUME NEW e \in unseen', e.name = "Locked" PROVE e.lock \in 1..locks'[e.op][e.inv]
  <2>1. e.inv \in Inv /\ e.op \in Op /\ e.lock \in Nat
    BY <1>1, LogFields
  <2>2. CASE e \in unseen
    <3>1. e.lock \in 1..locks[e.op][e.inv]
      BY <1>1, <2>2 DEF ProofsAreOfLocks
    <3>2. locks[e.op][e.inv] \in Nat /\ locks'[e.op][e.inv] \in Nat
          /\ locks[e.op][e.inv] <= locks'[e.op][e.inv]
      BY <2>1, LocksGrow
    <3> QED
      BY <3>1, <3>2
  <2>3. CASE e \notin unseen
    BY <1>1, <2>1, <2>3, NewLogs
  <2> QED
    BY <2>2, <2>3
<1>2. ASSUME NEW i \in Inv, NEW chain, chain = pending'[i].chain PROVE Locked(i, chain)'
  <2>1. CASE chain = pending[i].chain
    BY <1>2, <2>1, LockedStays DEF ProofsAreOfLocks
  <2>2. CASE chain = <<>>
    BY <1>0, <2>2
  <2>3. ASSUME NEW e \in unseen, Handle(e), chain # pending[i].chain, chain # <<>>
        PROVE  Locked(i, chain)'
    <3>0. /\ pending \in [Inv -> [key : Key, chain : Seq(Nat), submitted : SUBSET Op]]
          /\ pending'[i].chain \notin {<<>>, pending[i].chain} /\ Unknown.chain = <<>>
          /\ e.inv \in Inv
      BY <1>2, <2>3, LogFields DEF Key, Unknown
    <3>4. ~HandleWriteOnly(e)
      <4> PICK p : p = [Unknown EXCEPT !.key = e.inv]
        OBVIOUS
      <4>1. p.chain = <<>>
        BY <3>0 DEF Unknown
      <4> QED
        BY <3>0, <4>1 DEF HandleWriteOnly
    <3>5. ~HandleOperationProofSubmitted(e)
      <4>1. ASSUME HandleOperationProofSubmitted(e) PROVE pending'[i].chain = pending[i].chain
        <5>1. PICK submitted :
                pending' = [pending EXCEPT ![e.inv] = [@ EXCEPT !.submitted = submitted]]
          BY <4>1 DEF HandleOperationProofSubmitted
        <5>2. CASE i = e.inv
          BY <3>0, <5>1, <5>2
        <5>3. CASE i # e.inv
          BY <3>0, <5>1, <5>3
        <5> QED
          BY <5>2, <5>3
      <4> QED
        BY <3>0, <4>1
    <3>6. ~HandleUnlock(e)
      BY <3>0 DEF HandleUnlock
    <3>1. e.name = "Locked" /\ HandleLocked(e)
      BY <2>3, <3>0, <3>4, <3>5, <3>6
         DEF Handle, HandleLocked, HandleProofsSubmitted, HandleVoteSubmitted
    <3>2. PICK known : known = pending[e.inv].chain
      OBVIOUS
    <3>3. i = e.inv /\ chain = Append(known, e.lock) /\ e.op = Len(known) + 1
      BY <1>2, <2>3, <3>1, <3>2 DEF HandleLocked
    <3> QED
      BY <3>1, <3>2, <3>3, OneMoreLock
  <2>4. CASE UNCHANGED pending \/ pending' = [k \in Inv |-> Unknown]
    BY <1>2, <2>1, <2>2, <2>4 DEF Unknown
  <2> QED
    BY <2>1, <2>2, <2>3, <2>4
       DEF Next, Invoke, OtherJudgeVotes, AnyoneFinalizes, AnyoneForceSettles, Extend, MoneyMoves,
           Tick, Send, JudgesUnknown, Lose, Abandon, Resend, Restart, vars, relayerVars
<1>3. ASSUME NEW i \in Inv, NEW proofs, proofs = inv'[i].proofs PROVE Locked(i, proofs)'
  <2>0. inv[i] \in InvocationType
    BY DEF ServiceTypeOK
  <2>1. CASE proofs = inv[i].proofs
    BY <1>3, <2>0, <2>1, LockedStays DEF ProofsAreOfLocks, InvocationType
  <2>2. ASSUME NEW c \in Config, NEW judges \in Seq(Judge), InitInvocation(i, c, judges)
        PROVE  proofs = <<>>
    BY <1>3, <2>2 DEF InitInvocation, NoInvocation, ServiceTypeOK
  <2>3. ASSUME NEW chain \in Seq(Nat), Locked(i, chain), SubmitOperationProof(i, chain)
        PROVE  Locked(i, proofs)'
    <3>1. PICK before : before = inv[i].proofs
      OBVIOUS
    <3>2. before \in Seq(Nat) /\ Len(chain) = Len(before) + 1 /\ Locked(i, before)
      BY <2>0, <2>3, <3>1
         DEF SubmitOperationProof, CanSubmitProof, Extends, InvocationType, ProofsAreOfLocks
    <3>3. proofs = Append(before, chain[Len(chain)])
      BY <1>3, <2>0, <2>3, <3>1 DEF SubmitOperationProof, ServiceTypeOK, InvocationType
    <3>4. proofs \in Seq(Nat) /\ Locked(i, proofs)
      BY <2>3, <3>2, <3>3, ProvenNext
    <3> QED
      BY <3>4, LockedStays
  <2>4. ASSUME NEW k \in Inv, Serves(k), proofs # inv[i].proofs
        PROVE  \/ \E c \in Config, judges \in Seq(Judge) : InitInvocation(i, c, judges)
               \/ \E chain \in Seq(Nat) : Locked(i, chain) /\ SubmitOperationProof(i, chain)
    <3>1. CASE k # i
      BY <1>3, <2>4, <3>1
         DEF Serves, InitInvocation, SubmitOperationProof, MarkProofSubmissionComplete,
             SubmitJudgeVote, FinalizeInvocation, ExtendInvocation, ForceSettle, ServiceTypeOK
    <3>2. CASE k = i
      <4>0. inv \in [Inv -> InvocationType]
        BY DEF ServiceTypeOK
      <4>1. ~MarkProofSubmissionComplete(i)
        BY <1>3, <2>4, <4>0 DEF MarkProofSubmissionComplete, InvocationType
      <4>2. ASSUME NEW j \in Judge, NEW valid \in BOOLEAN PROVE ~SubmitJudgeVote(i, j, valid)
        <5>1. SubmitJudgeVote(i, j, valid) => inv'[i].proofs = inv[i].proofs
          BY <2>0, <4>0 DEF SubmitJudgeVote
        <5> QED
          BY <1>3, <2>4, <5>1
      <4>3. ~FinalizeInvocation(i)
        BY <1>3, <2>4, <4>0 DEF FinalizeInvocation, InvocationType
      <4>4. ~ExtendInvocation(i)
        BY <1>3, <2>4, <4>0, ExtensionKeepsProofs
      <4>5. ~ForceSettle(i)
        BY <1>3, <2>4, <4>0 DEF ForceSettle, InvocationType
      <4> QED
        BY <2>4, <3>2, <4>1, <4>2, <4>3, <4>4, <4>5 DEF Serves
    <3> QED
      BY <3>1, <3>2
  <2> QED
    BY <1>0, <1>3, <2>1, <2>2, <2>3, <2>4, ServiceSteps DEF invocationVars
<1>4. ASSUME NEW c \in AllCalls', c.fn = "submitOperationProof" PROVE Locked(c.inv, c.chain)'
  <2>1. CASE c \in AllCalls
    <3>1. c.inv \in Inv /\ c.chain \in Seq(Nat) /\ Locked(c.inv, c.chain)
      BY <1>4, <2>1, CallFields DEF AllCalls, ProofsAreOfLocks
    <3> QED
      BY <3>1, LockedStays
  <2>2. CASE c \notin AllCalls
    <3>1. PICK e \in unseen : Handle(e) /\ c \in queued' \ queued
      BY <2>2, NewCalls
    <3>2. PICK known : known = pending[e.inv].chain
      OBVIOUS
    <3>3. /\ e.name = "Locked" /\ e.op = Len(known) + 1
          /\ c.inv = e.inv /\ c.chain = Append(known, e.lock)
      BY <1>4, <3>1, <3>2, HandlerSends
    <3>4. Locked(e.inv, Append(known, e.lock))'
      BY <3>2, <3>3, OneMoreLock
    <3> QED
      BY <3>3, <3>4
  <2> QED
    BY <2>1, <2>2
<1> QED
  BY <1>1, <1>2, <1>3, <1>4 DEF ProofsAreOfLocks, AllCalls

-----------------------------------------------------------------------------
(* Unlocks are of committed invocations: no step changes a settled one.    *)

LEMMA SettledForGood ==
  ASSUME IInv, [Next]_vars, NEW i \in Inv, inv[i].status \in {"Settled", "ForceSettled"}
  PROVE  inv'[i] = inv[i]
<1>1. ASSUME NEW k \in Inv, Serves(k) PROVE inv'[i] = inv[i]
  <2>1. CASE k = i
    BY <1>1, <2>1
       DEF Serves, InitInvocation, SubmitOperationProof, CanSubmitProof, InTime,
           MarkProofSubmissionComplete, CanComplete, SubmitJudgeVote, CanVote,
           FinalizeInvocation, CanFinalize, ExtendInvocation, ForceSettle, Open, Decided
  <2>2. CASE k # i
    BY <1>1, <2>2
       DEF Serves, InitInvocation, SubmitOperationProof, MarkProofSubmissionComplete,
           SubmitJudgeVote, FinalizeInvocation, ExtendInvocation, ForceSettle,
           IInv, TypeOK, ServiceTypeOK
  <2> QED
    BY <2>1, <2>2
<1> QED
  BY <1>1, ServiceSteps DEF invocationVars

LEMMA Finalizes ==
  ASSUME IInv, NEW i \in Inv, FinalizeInvocation(i)
  PROVE  /\ inv[i].status \in Decided /\ Outvoted(i, inv[i].status)
         /\ inv'[i].status = "Settled"
         /\ \A verdict : Outvoted(i, verdict)' <=> Outvoted(i, verdict)
<1>1. inv[i] \in InvocationType /\ inv' = [inv EXCEPT ![i].status = "Settled"]
  BY DEF FinalizeInvocation, IInv, TypeOK, ServiceTypeOK
<1>2. /\ inv'[i].valid = inv[i].valid /\ inv'[i].invalid = inv[i].invalid
      /\ inv'[i].min = inv[i].min /\ inv'[i].status = "Settled"
  BY <1>1 DEF InvocationType, IInv, TypeOK, ServiceTypeOK
<1>3. inv[i].status \in Decided
  BY DEF FinalizeInvocation, CanFinalize
<1>4. VerdictIsEarned(i)
  BY DEF IInv, VerdictsAreEarned
<1>5. Outvoted(i, inv[i].status)
  BY <1>3, <1>4 DEF VerdictIsEarned
<1> QED
  BY <1>2, <1>3, <1>5 DEF Outvoted

LEMMA UnlocksStayOfCommitted ==
  ASSUME IInv, [Next]_vars, TypeOK'
  PROVE  UnlocksAreOfCommitted'
<1> USE DEF IInv, TypeOK, RelayerTypeOK
<1>1. ASSUME NEW i \in Inv, Committed(i) PROVE Committed(i)'
  BY <1>1, SettledForGood DEF Committed, Outvoted
<1>2. ASSUME NEW e \in unseen', e.name = "InvocationFinalized" PROVE Committed(e.inv)'
  <2>1. e.inv \in Inv
    BY LogFields
  <2>2. CASE e \in unseen
    BY <1>1, <1>2, <2>1, <2>2 DEF UnlocksAreOfCommitted
  <2>3. CASE e \notin unseen
    BY <1>2, <2>1, <2>3, NewLogs, Finalizes DEF Committed
  <2> QED
    BY <2>2, <2>3
<1>3. ASSUME NEW c \in AllCalls', c.fn = "book_unlock" PROVE Committed(c.inv)'
  <2>1. CASE c \in AllCalls
    BY <1>1, <1>3, <2>1, CallFields DEF AllCalls, UnlocksAreOfCommitted
  <2>2. CASE c \notin AllCalls
    <3>1. PICK e \in unseen : Handle(e) /\ c \in queued' \ queued
      BY <2>2, NewCalls
    <3>2. e.name = "InvocationFinalized" /\ c.inv = e.inv /\ e.inv \in Inv
      BY <1>3, <3>1, HandlerSends, LogFields
    <3> QED
      BY <1>1, <3>2 DEF UnlocksAreOfCommitted
  <2> QED
    BY <2>1, <2>2
<1>4. ASSUME NEW op \in Op, NEW i \in Inv, booked'[op][i] > 0 PROVE Committed(i)'
  <2>1. CASE booked[op][i] > 0
    BY <1>1, <2>1 DEF UnlocksAreOfCommitted
  <2>2. CASE booked'[op][i] # booked[op][i]
    <3>1. ASSUME NEW o \in Op, NEW k \in Inv, NEW key \in Key, BookUnlock(o, k, key)
          PROVE  o = op /\ k = i
      BY <2>2, <3>1 DEF BookUnlock, RemoteTypeOK
    <3>2. Committed(i)
      BY <2>2, <3>1, RemoteSteps DEF Books, BookLockDo, BookUndoUnlock, remoteVars
    <3> QED
      BY <1>1, <3>2
  <2> QED
    BY <1>4, <2>1, <2>2
<1> QED
  BY <1>2, <1>3, <1>4 DEF UnlocksAreOfCommitted, AllCalls

-----------------------------------------------------------------------------
LEMMA InitHolds == Init => IInv
<1> SUFFICES ASSUME Init PROVE IInv
  OBVIOUS
<1> USE TypesAssumption, RemoteAssumption
    DEF Init, ServiceInit, RemoteInit, TypesAssumption, RemoteAssumption
<1>1. NoInvocation \in InvocationType
  BY DEF NoInvocation, InvocationType, Status
<1>2. ServiceTypeOK
  BY <1>1 DEF ServiceTypeOK, Decision
<1>3. RemoteTypeOK
  BY DEF RemoteTypeOK, NoHold
<1>4. RelayerTypeOK
  BY DEF RelayerTypeOK, Unknown
<1>5. DeadlineAfterStart
  <2>1. NoInvocation.started <= NoInvocation.service
    BY DEF NoInvocation
  <2>2. \A i \in Inv : inv[i] = NoInvocation
    OBVIOUS
  <2> QED
    BY <2>1, <2>2 DEF DeadlineAfterStart
<1>6. ASSUME NEW i \in Inv PROVE VerdictIsEarned(i)
  <2>1. \A verdict \in {"Valid", "Invalid"} : Voted(i, verdict) = {}
    BY DEF Voted
  <2>2. Cardinality(Voted(i, "Valid")) = 0 /\ Cardinality(Voted(i, "Invalid")) = 0
    BY <2>1, FS_EmptySet
  <2>3. /\ inv[i] = NoInvocation /\ inv[i].status = "None" /\ inv[i].proofs = <<>>
        /\ inv[i].total = 0 /\ inv[i].valid = 0 /\ inv[i].invalid = 0
    BY DEF NoInvocation
  <2>4. Len(inv[i].proofs) <= inv[i].total
    BY <2>3
  <2> QED
    BY <2>1, <2>2, <2>3, <2>4 DEF VerdictIsEarned, Open, Decided
<1>7. ProofsAreOfLocks
  BY DEF ProofsAreOfLocks, Locked, Unknown, NoInvocation
<1>8. UnlocksAreOfCommitted
  BY DEF UnlocksAreOfCommitted
<1> QED
  BY <1>2, <1>3, <1>4, <1>5, <1>6, <1>7, <1>8 DEF IInv, TypeOK, VerdictsAreEarned

(* Verdicts are earned, proofs rest on locks and unlocks on verdicts, for  *)
(* any number of invocations, operations and judges, any windows, budgets  *)
(* of faults and restarts, and any order of the logs.                      *)
THEOREM Invariant == Spec => []IInv
<1>1. IInv /\ [Next]_vars => IInv'
  <2> SUFFICES ASSUME IInv, [Next]_vars PROVE IInv'
    OBVIOUS
  <2>1. TypeOK' /\ DeadlineAfterStart'
    BY ServiceTypes, RemoteTypes, RelayerTypes DEF TypeOK
  <2> QED
    BY <2>1, VerdictsStayEarned, ProofsStayOfLocks, UnlocksStayOfCommitted DEF IInv
<1> QED
  BY InitHolds, <1>1, PTL DEF Spec

-----------------------------------------------------------------------------
(* Refinement: the contract decides, the remotes apply.                    *)

Outcome == [i \in Inv |-> DecisionOf(i)]
Effect == [i \in Inv |-> {op \in Op : booked[op][i] > 0}]

LEMMA OneParty ==
  ASSUME [Next]_vars
  PROVE  UNCHANGED invocationVars \/ UNCHANGED remoteVars
<1>1. ASSUME NEW c \in queued, Send(c) PROVE UNCHANGED invocationVars \/ UNCHANGED remoteVars
  BY <1>1 DEF Send, AtRemote, AtService, serviceVars, invocationVars
<1> QED
  BY <1>1
     DEF Next, Invoke, OtherJudgeVotes, AnyoneFinalizes, AnyoneForceSettles, Extend, MoneyMoves,
         Tick, Handle, JudgesUnknown, Lose, Abandon, Resend, Restart, vars

LEMMA Decides ==
  ASSUME IInv, NEW i \in Inv, Serves(i)
  PROVE  /\ \/ DecisionOf(i)' = DecisionOf(i)
            \/ DecisionOf(i) = "none" /\ DecisionOf(i)' = "open"
            \/ DecisionOf(i) = "open" /\ DecisionOf(i)' \in {"commit", "abort"}
         /\ \A k \in Inv : k # i => DecisionOf(k)' = DecisionOf(k)
<1>0. inv \in [Inv -> InvocationType] /\ VerdictIsEarned(i)
  BY DEF IInv, TypeOK, ServiceTypeOK, VerdictsAreEarned
<1>1. \A k \in Inv : k # i => DecisionOf(k)' = DecisionOf(k)
  <2>1. \A k \in Inv : k # i => inv'[k] = inv[k]
    BY <1>0
       DEF Serves, InitInvocation, SubmitOperationProof, MarkProofSubmissionComplete,
           SubmitJudgeVote, FinalizeInvocation, ExtendInvocation, ForceSettle
  <2> QED
    BY <2>1 DEF DecisionOf, Committed, Outvoted
<1> USE DEF DecisionOf, Committed, Open, Decided
<1>2. ASSUME NEW c \in Config, NEW judges \in Seq(Judge), InitInvocation(i, c, judges)
      PROVE  DecisionOf(i) = "none" /\ DecisionOf(i)' = "open"
  BY <1>0, <1>2 DEF InitInvocation, NoInvocation
<1>3. ASSUME NEW chain \in Seq(Nat), SubmitOperationProof(i, chain)
      PROVE  DecisionOf(i)' = DecisionOf(i)
  <2>1. inv[i].status = "Serving" /\ inv'[i].status = inv[i].status
    BY <1>0, <1>3 DEF SubmitOperationProof, CanSubmitProof, InTime
  <2> QED
    BY <2>1
<1>4. ASSUME MarkProofSubmissionComplete(i) PROVE DecisionOf(i)' = DecisionOf(i)
  <2>1. inv[i].status = "Serving" /\ inv'[i].status = "Auditing"
    BY <1>0, <1>4 DEF MarkProofSubmissionComplete, CanComplete, InTime, InvocationType
  <2> QED
    BY <2>1
<1>5. ASSUME NEW j \in Judge, NEW valid \in BOOLEAN, SubmitJudgeVote(i, j, valid)
      PROVE  DecisionOf(i)' = DecisionOf(i)
  <2>1. inv[i].status = "Auditing" /\ inv'[i].status \in {"Auditing", "Valid", "Invalid"}
    BY <1>0, <1>5 DEF SubmitJudgeVote, CanVote
  <2> QED
    BY <2>1
<1>6. ASSUME FinalizeInvocation(i)
      PROVE  DecisionOf(i) = "open" /\ DecisionOf(i)' \in {"commit", "abort"}
  BY <1>6, Finalizes
<1>7. ASSUME ExtendInvocation(i) PROVE DecisionOf(i)' = DecisionOf(i)
  <2>1. inv[i].status \in Open /\ inv'[i].status = inv[i].status
    BY <1>0, <1>7 DEF ExtendInvocation, InvocationType
  <2> QED
    BY <2>1
<1>8. ASSUME ForceSettle(i) PROVE DecisionOf(i) = "open" /\ DecisionOf(i)' = "abort"
  <2>1. inv[i].status \in Open \cup Decided /\ inv'[i].status = "ForceSettled"
    BY <1>0, <1>8 DEF ForceSettle, InvocationType
  <2> QED
    BY <2>1
<1> QED
  BY <1>1, <1>2, <1>3, <1>4, <1>5, <1>6, <1>7, <1>8 DEF Serves

LEMMA DecisionRefines ==
  ASSUME IInv, NEW i \in Inv, Serves(i), UNCHANGED remoteVars
  PROVE  Commitment!Next \/ UNCHANGED <<Outcome, Effect>>
<1>1. UNCHANGED Effect
  BY DEF remoteVars, Effect
<1>2. /\ Outcome[i] = DecisionOf(i) /\ Outcome'[i] = DecisionOf(i)'
      /\ \A k \in Inv : k # i => Outcome'[k] = Outcome[k]
  BY Decides DEF Outcome
<1>3. Outcome' = [Outcome EXCEPT ![i] = DecisionOf(i)']
  BY <1>2 DEF Outcome
<1>4. CASE DecisionOf(i)' = DecisionOf(i)
  <2>1. Outcome' = Outcome
    BY <1>3, <1>4 DEF Outcome
  <2> QED
    BY <1>1, <2>1
<1>5. CASE DecisionOf(i) = "none" /\ DecisionOf(i)' = "open"
  <2>1. Commitment!Begin(i)
    BY <1>1, <1>2, <1>3, <1>5 DEF Commitment!Begin, Commitment!Decide, Outcome, Effect
  <2> QED
    BY <2>1 DEF Commitment!Next
<1>6. CASE DecisionOf(i) = "open" /\ DecisionOf(i)' = "commit"
  <2>1. Commitment!Commit(i)
    BY <1>1, <1>2, <1>3, <1>6 DEF Commitment!Commit, Commitment!Decide, Outcome, Effect
  <2> QED
    BY <2>1 DEF Commitment!Next
<1>7. CASE DecisionOf(i) = "open" /\ DecisionOf(i)' = "abort"
  <2>1. Commitment!Abort(i)
    BY <1>1, <1>2, <1>3, <1>7 DEF Commitment!Abort, Commitment!Decide, Outcome, Effect
  <2> QED
    BY <2>1 DEF Commitment!Next
<1> QED
  BY <1>4, <1>5, <1>6, <1>7, Decides

LEMMA EffectRefines ==
  ASSUME IInv, NEW op \in Op, NEW i \in Inv, NEW key \in Key, Books(op, i, key),
         UNCHANGED invocationVars
  PROVE  Commitment!Next \/ UNCHANGED <<Outcome, Effect>>
<1>1. UNCHANGED Outcome
  BY DEF invocationVars, Outcome, DecisionOf, Committed, Outvoted
<1>2. CASE UNCHANGED booked
  BY <1>1, <1>2 DEF Effect
<1>3. CASE Committed(i) /\ BookUnlock(op, i, key)
  <2>0. booked \in [Op -> [Inv -> Nat]] /\ Amount[op] \in Nat \ {0}
    BY RemoteAssumption DEF IInv, TypeOK, RemoteTypeOK, RemoteAssumption
  <2>1. booked' = [booked EXCEPT ![op][i] = @ + Amount[op]]
    BY <1>3 DEF BookUnlock
  <2>2. ASSUME NEW o \in Op, NEW k \in Inv
        PROVE  booked'[o][k] > 0 <=> booked[o][k] > 0 \/ (o = op /\ k = i)
    <3>1. CASE o = op /\ k = i
      <4>1. booked'[o][k] = booked[op][i] + Amount[op] /\ booked[op][i] \in Nat
        BY <2>0, <2>1, <3>1
      <4> QED
        BY <2>0, <3>1, <4>1
    <3>2. CASE ~(o = op /\ k = i)
      <4>1. booked'[o][k] = booked[o][k]
        BY <2>0, <2>1, <3>2
      <4> QED
        BY <3>2, <4>1
    <3> QED
      BY <3>1, <3>2
  <2>3. PICK S \in SUBSET Op :
          S \cap Effect[i] = {} /\ Effect[i] \cup S = Effect[i] \cup {op}
    <3>1. {op} \ Effect[i] \in SUBSET Op
      OBVIOUS
    <3> QED
      BY <3>1
  <2>4. Effect' = [Effect EXCEPT ![i] = @ \cup S]
    BY <2>2, <2>3 DEF Effect
  <2>5. Outcome[i] = "commit"
    BY <1>3 DEF Outcome, DecisionOf, Committed, Open, Decided
  <2>6. Commitment!Apply(i, S)
    BY <1>1, <2>3, <2>4, <2>5 DEF Commitment!Apply, Outcome, Effect
  <2> QED
    BY <2>3, <2>6 DEF Commitment!Next
<1> QED
  BY <1>2, <1>3 DEF Books, BookLockDo, BookUndoUnlock

(* The protocol implements atomic commitment: an invocation is decided     *)
(* once, and a remote contract books units of it only when the decision is *)
(* to commit.                                                              *)
THEOREM Refinement == Spec => Implements
<1>1. Init => Commitment!Init
  <2> SUFFICES ASSUME Init PROVE Commitment!Init
    OBVIOUS
  <2>1. ASSUME NEW i \in Inv
        PROVE  DecisionOf(i) = "none" /\ {op \in Op : booked[op][i] > 0} = {}
    <3>1. \A op \in Op : booked[op][i] = 0
      BY DEF Init, RemoteInit
    <3>2. ASSUME NEW op \in Op PROVE ~(booked[op][i] > 0)
      BY <3>1
    <3>3. inv[i] = NoInvocation /\ NoInvocation.status = "None"
      BY DEF Init, ServiceInit, NoInvocation
    <3>4. DecisionOf(i) = "none"
      BY <3>3 DEF DecisionOf, Open, Decided, Committed
    <3>5. {op \in Op : booked[op][i] > 0} = {}
      BY <3>2
    <3> QED
      BY <3>4, <3>5
  <2> QED
    BY <2>1 DEF Commitment!Init
<1>2. IInv /\ [Next]_vars => [Commitment!Next]_<<Outcome, Effect>>
  <2> SUFFICES ASSUME IInv, [Next]_vars
               PROVE  Commitment!Next \/ UNCHANGED <<Outcome, Effect>>
    OBVIOUS
  <2>1. CASE UNCHANGED remoteVars /\ \E i \in Inv : Serves(i)
    BY <2>1, DecisionRefines
  <2>2. CASE UNCHANGED invocationVars /\ \E op \in Op, i \in Inv, key \in Key : Books(op, i, key)
    BY <2>2, EffectRefines
  <2>3. CASE UNCHANGED invocationVars /\ UNCHANGED remoteVars
    BY <2>3
       DEF invocationVars, remoteVars, Outcome, Effect, DecisionOf, Committed, Outvoted
  <2> QED
    BY <2>1, <2>2, <2>3, OneParty, ServiceSteps, RemoteSteps
<1> QED
  BY Invariant, <1>1, <1>2, PTL
     DEF Spec, Implements, Commitment!Spec, Commitment!vars, Outcome, Effect

(***************************************************************************)
(* Nothing appears or disappears (Conserved of Atom), for every value of   *)
(* the constants: the service's books balance, the units of the remote     *)
(* contracts add up, and an invocation books what it asked for once.       *)
(*                                                                         *)
(* The units add up as long as no undo happens, and an undo is harmless    *)
(* while only one invocation was ever started: the number it puts back is  *)
(* its own.  That an invocation is booked once is shown by counting: every *)
(* lock and every unlock that happened has its call among those done, or   *)
(* else a fault has been spent on sending that call again.  Booking twice  *)
(* takes two locks and two unlocks, and so two faults.                     *)
(***************************************************************************)

\* The books hold natural numbers, and balance.
BookType == [bond : [Participant -> Nat], owed : [Participant -> Nat],
             reward : Nat, penalty : Nat]
Owing(b) == SumFunction(b.bond) + SumFunction(b.owed) + b.reward + b.penalty

MoneyInv == books \in BookType /\ balance = Owing(books)

\* A call is in one place at a time, and uses the key of its invocation.
Lock(op, i)   == RemoteCall("book_lock_do", op, i, i)
Unlock(op, i) == RemoteCall("book_unlock", op, i, i)
Undo(op, i)   == RemoteCall("book_undo_unlock", op, i, i)

Apart == queued \cap refused = {} /\ queued \cap done = {} /\ refused \cap done = {}

OwnKeys ==
  /\ \A i \in Inv : pending[i].key \in {i, NoKey}
  /\ \A c \in AllCalls : c.fn \in Unlocks \cup {"book_lock_do"} => c.key \in {c.inv, NoKey}
  /\ \A op \in Op, i \in Inv : hold[op][i].locked => hold[op][i].lockHash = i

\* Nothing happens of an invocation that nobody asked for, and only a failed
\* one is undone.
OfStarted ==
  /\ \A e \in unseen : e.inv \in Started
  /\ \A c \in AllCalls : c.inv \in Started
  /\ \A op \in Op : Held(op) \subseteq Started

UndoesAreOfFailed ==
  /\ \A e \in unseen : e.name \in FailureLogs => Failed(e.inv)
  /\ \A c \in AllCalls : c.fn = "book_undo_unlock" => Failed(c.inv)

\* While there is one invocation only, what it would put back is its own.
PutsBackItsOwn ==
  Cardinality(Started) <= 1 =>
    \A op \in Op : \A i \in Held(op) : hold[op][i].backup = remain[op] + Amount[op]

\* A lock or an unlock that happened left its call done, or the call was sent
\* again and a fault is spent.
Spent == scope.faults - left.faults
OneIf(b) == IF b THEN 1 ELSE 0

BookedTimes(op, i, n) ==
  /\ booked[op][i] = Amount[op] * n
  /\ n + OneIf(hold[op][i].locked) <= locks[op][i]
  /\ locks[op][i] + n <= Spent + OneIf(Lock(op, i) \in done) + OneIf(Unlock(op, i) \in done)

BookingsCounted == \A op \in Op, i \in Inv : \E n \in Nat : BookedTimes(op, i, n)

Budgets == left \in [extends : Nat, money : Nat, faults : Nat, restarts : Nat]

BalancesInv ==
  /\ MoneyInv /\ Budgets /\ Apart /\ OwnKeys /\ OfStarted /\ UndoesAreOfFailed
  /\ PutsBackItsOwn /\ UnitsAddUp /\ BookingsCounted

-----------------------------------------------------------------------------
(* Moving money within the books.                                          *)

LEMMA ParticipantsFinite == IsFiniteSet(Participant)
BY ServiceAssumption, FS_AddElement DEF ServiceAssumption, Participant

LEMMA OwingIsNat ==
  ASSUME NEW b \in BookType
  PROVE  /\ SumFunction(b.bond) \in Nat /\ SumFunction(b.owed) \in Nat
         /\ b.reward \in Nat /\ b.penalty \in Nat
BY ParticipantsFinite, FunctionSumIsNat DEF BookType

\* What becomes of the total when one account alone changes.
LEMMA OneAccount ==
  ASSUME NEW f \in [Participant -> Nat], NEW p \in Participant, NEW n \in Nat
  PROVE  /\ [f EXCEPT ![p] = n] \in [Participant -> Nat]
         /\ SumFunction([f EXCEPT ![p] = n]) = SumFunction(f) - f[p] + n
<1> DEFINE g == [f EXCEPT ![p] = n]
<1>1. g \in [Participant -> Nat] /\ g[p] = n /\ \A x \in Participant \ {p} : g[x] = f[x]
  OBVIOUS
<1> HIDE DEF g
<1>2. SumFunction(g) = SumFunction(f) - f[p] + g[p]
  BY <1>1, ParticipantsFinite, FunctionSumChange
<1>3. SumFunction(g) = SumFunction(f) - f[p] + n
  BY <1>1, <1>2
<1> QED
  BY <1>1, <1>3 DEF g

LEMMA AtMostBounds ==
  ASSUME NEW amount \in Nat, NEW available \in Nat
  PROVE  AtMost(amount, available) \in Nat /\ AtMost(amount, available) <= available
BY DEF AtMost

\* The books with some of their entries replaced.
LEMMA OwedReplaced ==
  ASSUME NEW b \in BookType, NEW x, NEW y, NEW z
  PROVE  [b EXCEPT !.owed = x, !.reward = y, !.penalty = z]
           = [bond |-> b.bond, owed |-> x, reward |-> y, penalty |-> z]
<1>1. b = [bond |-> b.bond, owed |-> b.owed, reward |-> b.reward, penalty |-> b.penalty]
  BY DEF BookType
<1>2. PICK c : c = [b EXCEPT !.owed = x]
  OBVIOUS
<1>3. PICK d : d = [c EXCEPT !.reward = y]
  OBVIOUS
<1>4. c = [bond |-> b.bond, owed |-> x, reward |-> b.reward, penalty |-> b.penalty]
  BY <1>1, <1>2
<1>5. d = [bond |-> b.bond, owed |-> x, reward |-> y, penalty |-> b.penalty]
  BY <1>3, <1>4
<1>6. [d EXCEPT !.penalty = z] = [bond |-> b.bond, owed |-> x, reward |-> y, penalty |-> z]
  BY <1>5
<1> QED
  BY <1>2, <1>3, <1>6

LEMMA BondReplaced ==
  ASSUME NEW b \in BookType, NEW x, NEW z
  PROVE  [b EXCEPT !.bond = x, !.penalty = z]
           = [bond |-> x, owed |-> b.owed, reward |-> b.reward, penalty |-> z]
<1>1. b = [bond |-> b.bond, owed |-> b.owed, reward |-> b.reward, penalty |-> b.penalty]
  BY DEF BookType
<1>2. PICK e : e = [b EXCEPT !.bond = x]
  OBVIOUS
<1>3. e = [bond |-> x, owed |-> b.owed, reward |-> b.reward, penalty |-> b.penalty]
  BY <1>1, <1>2
<1>4. [e EXCEPT !.penalty = z]
        = [bond |-> x, owed |-> b.owed, reward |-> b.reward, penalty |-> z]
  BY <1>3
<1> QED
  BY <1>2, <1>4

LEMMA CreditKeeps ==
  ASSUME NEW b \in BookType, NEW p \in Participant, NEW amount \in Nat
  PROVE  Credit(b, p, amount) \in BookType /\ Owing(Credit(b, p, amount)) = Owing(b)
<1> DEFINE credit == AtMost(amount, b.reward + b.penalty)
           first  == AtMost(credit, b.reward)
           owed   == [b.owed EXCEPT ![p] = @ + credit]
<1>1. /\ b.bond \in [Participant -> Nat] /\ b.owed \in [Participant -> Nat]
      /\ b.reward \in Nat /\ b.penalty \in Nat
      /\ b = [bond |-> b.bond, owed |-> b.owed, reward |-> b.reward, penalty |-> b.penalty]
  BY DEF BookType
<1>2. /\ credit \in Nat /\ credit <= b.reward + b.penalty
      /\ first \in Nat /\ first <= credit /\ first <= b.reward
      /\ credit - first <= b.penalty
  BY <1>1 DEF AtMost
<1>3. Credit(b, p, amount) =
        [bond |-> b.bond, owed |-> owed, reward |-> b.reward - first,
         penalty |-> b.penalty - (credit - first)]
  <2>1. PICK x, y, z : x = owed /\ y = b.reward - first /\ z = b.penalty - (credit - first)
    OBVIOUS
  <2>2. Credit(b, p, amount) = [b EXCEPT !.owed = x, !.reward = y, !.penalty = z]
    BY <2>1 DEF Credit
  <2>3. [b EXCEPT !.owed = x, !.reward = y, !.penalty = z]
          = [bond |-> b.bond, owed |-> x, reward |-> y, penalty |-> z]
    BY OwedReplaced
  <2> QED
    BY <2>1, <2>2, <2>3
<1> HIDE DEF credit, first
<1>4. b.owed[p] \in Nat /\ b.owed[p] + credit \in Nat
  BY <1>1, <1>2
<1>5. owed \in [Participant -> Nat] /\ SumFunction(owed) = SumFunction(b.owed) + credit
  <2>1. owed = [b.owed EXCEPT ![p] = b.owed[p] + credit]
    BY <1>1
  <2>2. SumFunction(owed) = SumFunction(b.owed) - b.owed[p] + (b.owed[p] + credit)
    BY <1>1, <1>4, <2>1, OneAccount
  <2>3. owed \in [Participant -> Nat]
    BY <1>1, <1>4, <2>1, OneAccount
  <2> QED
    BY <1>2, <1>4, <2>2, <2>3, OwingIsNat
<1> HIDE DEF owed
<1>6. Credit(b, p, amount) \in BookType
  BY <1>1, <1>2, <1>3, <1>5 DEF BookType
<1>7. Owing(Credit(b, p, amount)) =
        SumFunction(b.bond) + SumFunction(owed) + (b.reward - first)
          + (b.penalty - (credit - first))
  BY <1>3 DEF Owing
<1> QED
  BY <1>1, <1>2, <1>5, <1>6, <1>7, OwingIsNat DEF Owing

LEMMA SlashKeeps ==
  ASSUME NEW b \in BookType, NEW p \in Participant, NEW amount \in Nat
  PROVE  Slash(b, p, amount) \in BookType /\ Owing(Slash(b, p, amount)) = Owing(b)
<1> DEFINE slash == AtMost(amount, b.bond[p])
           bond  == [b.bond EXCEPT ![p] = @ - slash]
<1>1. /\ b.bond \in [Participant -> Nat] /\ b.owed \in [Participant -> Nat]
      /\ b.reward \in Nat /\ b.penalty \in Nat /\ b.bond[p] \in Nat
      /\ b = [bond |-> b.bond, owed |-> b.owed, reward |-> b.reward, penalty |-> b.penalty]
  BY DEF BookType
<1>2. slash \in Nat /\ slash <= b.bond[p]
  BY <1>1, AtMostBounds
<1>3. Slash(b, p, amount) =
        [bond |-> bond, owed |-> b.owed, reward |-> b.reward, penalty |-> b.penalty + slash]
  BY BondReplaced DEF Slash
<1> HIDE DEF slash
<1>4. b.bond[p] - slash \in Nat
  BY <1>1, <1>2
<1>5. bond \in [Participant -> Nat] /\ SumFunction(bond) = SumFunction(b.bond) - slash
  <2>1. bond = [b.bond EXCEPT ![p] = b.bond[p] - slash]
    BY <1>1
  <2>2. SumFunction(bond) = SumFunction(b.bond) - b.bond[p] + (b.bond[p] - slash)
    BY <1>1, <1>4, <2>1, OneAccount
  <2>3. bond \in [Participant -> Nat]
    BY <1>1, <1>4, <2>1, OneAccount
  <2> QED
    BY <1>1, <1>2, <2>2, <2>3, OwingIsNat
<1> HIDE DEF bond
<1>6. Slash(b, p, amount) \in BookType
  BY <1>1, <1>2, <1>3, <1>5 DEF BookType
<1>7. Owing(Slash(b, p, amount)) =
        SumFunction(bond) + SumFunction(b.owed) + b.reward + (b.penalty + slash)
  BY <1>3 DEF Owing
<1> QED
  BY <1>1, <1>2, <1>5, <1>6, <1>7, OwingIsNat DEF Owing


-----------------------------------------------------------------------------
(* A settlement pays or fines the judges one after the other: a fold over  *)
(* the positions of the sequence, the last one first.                      *)

Judged(i, verdict, b, j) ==
  IF vote[i][j] = verdict THEN Credit(b, j, Terms.judgeReward)
  ELSE Slash(b, j, Terms.judgePenalty)

Served(verdict) ==
  IF verdict = "Valid" THEN Credit(books, Server, Terms.serverReward)
  ELSE Slash(books, Server, Terms.serverPenalty)

\* g is the table of the books b after the judges at the positions in each subset of S.
IsSettling(g, i, verdict, b, S) ==
  g = [s \in SUBSET S |->
         IF s = {} THEN b ELSE Judged(i, verdict, g[s \ {Max(s)}], inv[i].judges[Max(s)])]

Settling(i, verdict, b, S) == CHOOSE g : IsSettling(g, i, verdict, b, S)

LEMMA SettlementIsInTable ==
  \A i, verdict :
    Settlement(i, verdict) =
      Settling(i, verdict, Served(verdict), DOMAIN inv[i].judges)[DOMAIN inv[i].judges]
BY DEF Settlement, FoldLeft, MapThenFoldSet, Settling, IsSettling, Judged, Served

LEMMA LastIsMember ==
  ASSUME NEW s \in SUBSET Nat, IsFiniteSet(s), s # {}
  PROVE  Max(s) \in s
<1> DEFINE HasLast(T) == \E x \in T : \A y \in T : x >= y
           C == {T \in SUBSET s : T # {} /\ ~HasLast(T)}
<1>1. ASSUME C # {} PROVE FALSE
  <2>1. \E T \in C : \A U \in SUBSET T : U # T => U \notin C
    <3>1. C \subseteq SUBSET s
      OBVIOUS
    <3> HIDE DEF C
    <3> QED
      BY <1>1, <3>1, SmallestSubset
  <2>2. PICK T \in C : \A U \in SUBSET T : U # T => U \notin C
    BY <2>1
  <2>3. PICK a \in T : TRUE
    BY <2>2
  <2>4. T \ {a} \in SUBSET T /\ T \ {a} # T /\ T \ {a} \notin C
    BY <2>2, <2>3
  <2>5. CASE T = {a}
    BY <2>2, <2>5
  <2>6. CASE T # {a}
    <3>1. HasLast(T \ {a})
      BY <2>2, <2>3, <2>4, <2>6
    <3>2. PICK m \in T \ {a} : \A y \in T \ {a} : m >= y
      BY <3>1
    <3>3. \A y \in T : y \in Nat
      BY <2>2
    <3>4. HasLast(T)
      <4>1. CASE a >= m
        BY <2>3, <3>2, <3>3, <4>1
      <4>2. CASE ~(a >= m)
        BY <2>3, <3>2, <3>3, <4>2
      <4> QED
        BY <4>1, <4>2
    <3> QED
      BY <2>2, <3>4
  <2> QED
    BY <2>5, <2>6
<1>2. \E x \in s : \A y \in s : x >= y
  BY <1>1
<1> QED
  BY <1>2 DEF Max

LEMMA SettlingAt ==
  ASSUME NEW i, NEW verdict, NEW b, NEW S, NEW g, IsSettling(g, i, verdict, b, S),
         NEW s \in SUBSET S
  PROVE  g[s] = IF s = {} THEN b
                ELSE Judged(i, verdict, g[s \ {Max(s)}], inv[i].judges[Max(s)])
BY Zenon DEF IsSettling

LEMMA LastOf ==
  ASSUME NEW S \in SUBSET Nat, IsFiniteSet(S), NEW s \in SUBSET S, s # {}
  PROVE  Max(s) \in s /\ s \ {Max(s)} \in SUBSET S /\ s \ {Max(s)} # s
<1>1. s \in SUBSET Nat /\ IsFiniteSet(s)
  BY FS_Subset
<1> QED
  BY <1>1, LastIsMember

LEMMA SettlingsAgree ==
  ASSUME NEW i, NEW verdict, NEW b, NEW S \in SUBSET Nat, IsFiniteSet(S), NEW T \in SUBSET S,
         NEW g, NEW h, IsSettling(g, i, verdict, b, S), IsSettling(h, i, verdict, b, T)
  PROVE  g[T] = h[T]
<1> DEFINE C == {s \in SUBSET T : g[s] # h[s]}
<1>1. ASSUME C # {} PROVE FALSE
  <2>1. C \subseteq SUBSET T /\ IsFiniteSet(T)
    BY FS_Subset
  <2>2. \E s \in C : \A u \in SUBSET s : u # s => u \notin C
    <3> HIDE DEF C
    <3> QED
      BY <1>1, <2>1, SmallestSubset
  <2>3. PICK s \in C : \A u \in SUBSET s : u # s => u \notin C
    BY <2>2
  <2>4. s \in SUBSET S /\ s \in SUBSET T
    BY <2>3
  <2>5. g[s] = IF s = {} THEN b
               ELSE Judged(i, verdict, g[s \ {Max(s)}], inv[i].judges[Max(s)])
    BY <2>4, SettlingAt
  <2>6. h[s] = IF s = {} THEN b
               ELSE Judged(i, verdict, h[s \ {Max(s)}], inv[i].judges[Max(s)])
    BY <2>4, Zenon DEF IsSettling
  <2>7. s # {}
    BY <2>3, <2>5, <2>6
  <2>8. s \ {Max(s)} \in SUBSET s /\ s \ {Max(s)} # s
    BY <2>4, <2>7, LastOf
  <2>9. g[s \ {Max(s)}] = h[s \ {Max(s)}]
    BY <2>3, <2>4, <2>8
  <2> QED
    BY <2>3, <2>5, <2>6, <2>7, <2>9
<1> QED
  BY <1>1

LEMMA SettlingExists ==
  ASSUME NEW i, NEW verdict, NEW b, NEW S \in SUBSET Nat, IsFiniteSet(S)
  PROVE  IsSettling(Settling(i, verdict, b, S), i, verdict, b, S)
<1> DEFINE Good(T) == IsSettling(Settling(i, verdict, b, T), i, verdict, b, T)
           Rest(s) == s \ {Max(s)}
           Latest(s) == inv[i].judges[Max(s)]
           C == {T \in SUBSET S : ~Good(T)}
<1> HIDE DEF Good
<1>1. ASSUME C # {} PROVE FALSE
  <2>1. \E T \in C : \A U \in SUBSET T : U # T => U \notin C
    <3>1. C \subseteq SUBSET S
      OBVIOUS
    <3> HIDE DEF C
    <3> QED
      BY <1>1, <3>1, SmallestSubset
  <2>2. PICK T \in C : \A U \in SUBSET T : U # T => U \notin C
    BY <2>1
  <2>3. T \in SUBSET S /\ T \in SUBSET Nat /\ IsFiniteSet(T) /\ ~Good(T)
    BY <2>2, FS_Subset
  <2>4. \A U \in SUBSET T : U # T => Good(U)
    BY <2>2
  <2>5. \A s \in SUBSET T : s # {} => Rest(s) \in SUBSET T /\ Rest(s) \in SUBSET s /\ Rest(s) # T
    BY <2>3, LastOf
  <2> DEFINE g == [s \in SUBSET T |->
                     IF s = {} THEN b
                     ELSE Judged(i, verdict, Settling(i, verdict, b, Rest(s))[Rest(s)], Latest(s))]
  <2>6. ASSUME NEW s \in SUBSET T, s # {}
        PROVE  g[Rest(s)] = Settling(i, verdict, b, Rest(s))[Rest(s)]
    <3>1. PICK r : r = Rest(s)
      OBVIOUS
    <3>2. r \in SUBSET T /\ r # T /\ Good(r)
      BY <2>4, <2>5, <2>6, <3>1
    <3>3. Settling(i, verdict, b, r)[r] =
            IF r = {} THEN b
            ELSE Judged(i, verdict, Settling(i, verdict, b, r)[Rest(r)], Latest(r))
      <4>1. r \in SUBSET r
        OBVIOUS
      <4> QED
        BY <3>2, <4>1, SettlingAt DEF Good
    <3>4. CASE r = {}
      BY <3>1, <3>2, <3>3, <3>4
    <3>5. CASE r # {}
      <4>1. PICK q : q = Rest(r)
        OBVIOUS
      <4>2. q \in SUBSET r /\ q \in SUBSET T /\ q # T /\ Good(q)
        BY <2>4, <2>5, <3>2, <3>5, <4>1
      <4>3. r \in SUBSET Nat /\ IsFiniteSet(r)
        BY <2>3, <3>2, FS_Subset
      <4>4. Settling(i, verdict, b, r)[q] = Settling(i, verdict, b, q)[q]
        BY <3>2, <4>2, <4>3, SettlingsAgree DEF Good
      <4>5. g[r] = Judged(i, verdict, Settling(i, verdict, b, q)[q], Latest(r))
        BY <3>2, <3>5, <4>1
      <4> QED
        BY <3>1, <3>3, <3>5, <4>1, <4>4, <4>5
    <3> QED
      BY <3>4, <3>5
  <2>7. IsSettling(g, i, verdict, b, T)
    <3>1. \A s \in SUBSET T :
            g[s] = IF s = {} THEN b ELSE Judged(i, verdict, g[Rest(s)], Latest(s))
      BY <2>6
    <3>2. g = [s \in SUBSET T |-> g[s]]
      OBVIOUS
    <3> HIDE DEF g
    <3>3. g = [s \in SUBSET T |->
                 IF s = {} THEN b ELSE Judged(i, verdict, g[Rest(s)], Latest(s))]
      BY <3>1, <3>2
    <3> QED
      BY <3>3 DEF IsSettling
  <2>8. Good(T)
    <3> HIDE DEF g
    <3> QED
      BY <2>7, Zenon DEF Good, Settling
  <2> QED
    BY <2>3, <2>8
<1>2. Good(S)
  BY <1>1
<1> QED
  BY <1>2 DEF Good

\* Settling moves money within the books.
LEMMA SettlementKeeps ==
  ASSUME ServiceTypeOK, books \in BookType, NEW i \in Inv, NEW verdict
  PROVE  Settlement(i, verdict) \in BookType /\ Owing(Settlement(i, verdict)) = Owing(books)
<1> DEFINE Kept(b) == b \in BookType /\ Owing(b) = Owing(books)
<1>1. /\ Terms.serverReward \in Nat /\ Terms.serverPenalty \in Nat
      /\ Terms.judgeReward \in Nat /\ Terms.judgePenalty \in Nat
      /\ Server \in Participant /\ Judge \subseteq Participant
  BY ServiceAssumption DEF ServiceAssumption, Participant
<1>2. Kept(Served(verdict))
  BY <1>1, CreditKeeps, SlashKeeps DEF Served
<1>3. ASSUME NEW b, Kept(b), NEW j \in Judge PROVE Kept(Judged(i, verdict, b, j))
  BY <1>1, <1>3, CreditKeeps, SlashKeeps DEF Judged
<1> HIDE DEF Kept
<1>4. PICK judges \in Seq(Judge) : judges = inv[i].judges
  BY DEF ServiceTypeOK, InvocationType
<1>5. PICK S : S = DOMAIN judges
  OBVIOUS
<1>6. S \in SUBSET Nat /\ IsFiniteSet(S) /\ \A k \in S : judges[k] \in Judge
  <2>1. Len(judges) \in Nat /\ S = 1..Len(judges) /\ judges \in [1..Len(judges) -> Judge]
    BY <1>5, LenProperties
  <2>2. IsFiniteSet(1..Len(judges))
    BY <2>1, FS_Interval
  <2> QED
    BY <2>1, <2>2
<1>7. PICK g : g = Settling(i, verdict, Served(verdict), S)
  OBVIOUS
<1>8. IsSettling(g, i, verdict, Served(verdict), S)
  BY <1>6, <1>7, SettlingExists
<1> DEFINE C == {s \in SUBSET S : ~Kept(g[s])}
<1>9. ASSUME C # {} PROVE FALSE
  <2>1. \E s \in C : \A u \in SUBSET s : u # s => u \notin C
    <3>1. C \subseteq SUBSET S
      OBVIOUS
    <3> HIDE DEF C
    <3> QED
      BY <1>6, <1>9, <3>1, SmallestSubset
  <2>2. PICK s \in C : \A u \in SUBSET s : u # s => u \notin C
    BY <2>1
  <2>3. s \in SUBSET S /\ ~Kept(g[s])
    BY <2>2
  <2>4. g[s] = IF s = {} THEN Served(verdict)
               ELSE Judged(i, verdict, g[s \ {Max(s)}], inv[i].judges[Max(s)])
    <3>1. s \in SUBSET S
      BY <2>3
    <3> QED
      BY <1>8, <3>1, Zenon DEF IsSettling
  <2>5. s # {}
    BY <1>2, <2>3, <2>4
  <2>6. Max(s) \in s /\ s \ {Max(s)} \in SUBSET S /\ s \ {Max(s)} # s
    BY <1>6, <2>3, <2>5, LastOf
  <2>7. Kept(g[s \ {Max(s)}])
    BY <2>2, <2>6
  <2>8. judges[Max(s)] \in Judge
    BY <1>6, <2>3, <2>6
  <2> QED
    BY <1>3, <1>4, <2>3, <2>4, <2>5, <2>7, <2>8
<1>10. Kept(g[S])
  BY <1>9
<1> QED
  BY <1>4, <1>5, <1>7, <1>10, SettlementIsInTable DEF Kept

-----------------------------------------------------------------------------
(* The books balance.                                                      *)

LEMMA BondChanges ==
  ASSUME NEW b \in BookType, NEW p \in Participant, NEW n \in Nat
  PROVE  /\ [b EXCEPT !.bond[p] = n] \in BookType
         /\ Owing([b EXCEPT !.bond[p] = n]) = Owing(b) - b.bond[p] + n
<1>1. PICK bond : bond = [b.bond EXCEPT ![p] = n]
  OBVIOUS
<1>2. PICK c : c = [bond |-> bond, owed |-> b.owed, reward |-> b.reward, penalty |-> b.penalty]
  OBVIOUS
<1>3. [b EXCEPT !.bond[p] = n] = c
  BY <1>1, <1>2 DEF BookType
<1>4. b.bond \in [Participant -> Nat] /\ b.owed \in [Participant -> Nat]
      /\ b.reward \in Nat /\ b.penalty \in Nat /\ b.bond[p] \in Nat
  BY DEF BookType
<1>5. bond \in [Participant -> Nat] /\ SumFunction(bond) = SumFunction(b.bond) - b.bond[p] + n
  BY <1>1, <1>4, OneAccount
<1>6. c \in BookType
  BY <1>2, <1>4, <1>5 DEF BookType
<1>7. Owing(c) = SumFunction(bond) + SumFunction(b.owed) + b.reward + b.penalty
  BY <1>2 DEF Owing
<1>8. Owing(c) = Owing(b) - b.bond[p] + n
  BY <1>4, <1>5, <1>7, OwingIsNat DEF Owing
<1> QED
  BY <1>3, <1>6, <1>8

LEMMA OwedChanges ==
  ASSUME NEW b \in BookType, NEW p \in Participant, NEW n \in Nat
  PROVE  /\ [b EXCEPT !.owed[p] = n] \in BookType
         /\ Owing([b EXCEPT !.owed[p] = n]) = Owing(b) - b.owed[p] + n
<1>1. PICK owed : owed = [b.owed EXCEPT ![p] = n]
  OBVIOUS
<1>2. PICK c : c = [bond |-> b.bond, owed |-> owed, reward |-> b.reward, penalty |-> b.penalty]
  OBVIOUS
<1>3. [b EXCEPT !.owed[p] = n] = c
  BY <1>1, <1>2 DEF BookType
<1>4. b.bond \in [Participant -> Nat] /\ b.owed \in [Participant -> Nat]
      /\ b.reward \in Nat /\ b.penalty \in Nat /\ b.owed[p] \in Nat
  BY DEF BookType
<1>5. owed \in [Participant -> Nat] /\ SumFunction(owed) = SumFunction(b.owed) - b.owed[p] + n
  BY <1>1, <1>4, OneAccount
<1>6. c \in BookType
  BY <1>2, <1>4, <1>5 DEF BookType
<1>7. Owing(c) = SumFunction(b.bond) + SumFunction(owed) + b.reward + b.penalty
  BY <1>2 DEF Owing
<1>8. Owing(c) = Owing(b) - b.owed[p] + n
  BY <1>4, <1>5, <1>7, OwingIsNat DEF Owing
<1> QED
  BY <1>3, <1>6, <1>8

LEMMA MoneySteps ==
  ASSUME IInv, [Next]_vars
  PROVE  \/ \E i \in Inv : FinalizeInvocation(i)
         \/ \E amount \in 1..2 : FundRewardPool(amount)
         \/ \E p \in Participant, amount \in 1..2 : DepositBond(p, amount) \/ WithdrawBond(p, amount)
         \/ \E p \in Participant : WithdrawSettlement(p)
         \/ UNCHANGED moneyVars
<1> USE DEF serviceVars, moneyVars, invocationVars
<1>1. ASSUME NEW i \in Inv, Invoke(i) \/ AnyoneForceSettles(i) \/ Extend(i)
             \/ \E j \in Judge : OtherJudgeVotes(i, j)
      PROVE  UNCHANGED moneyVars
  BY <1>1
     DEF Invoke, AnyoneForceSettles, Extend, OtherJudgeVotes, InitInvocation, ForceSettle,
         ExtendInvocation, SubmitJudgeVote
<1>2. ASSUME NEW i \in Inv, AnyoneFinalizes(i) PROVE FinalizeInvocation(i)
  BY <1>2 DEF AnyoneFinalizes
<1>3. ASSUME NEW c \in queued, Send(c) PROVE FinalizeInvocation(c.inv) \/ UNCHANGED moneyVars
  BY <1>3 DEF Send, AtRemote, AtService, SubmitOperationProof, MarkProofSubmissionComplete,
              SubmitJudgeVote
<1>4. scope.judges \cup {Server} \subseteq Participant
  BY AtomAssumption DEF AtomAssumption, Participant, IInv, TypeOK, RelayerTypeOK
<1>5. ASSUME MoneyMoves
      PROVE  \/ \E amount \in 1..2 : FundRewardPool(amount)
             \/ \E p \in Participant, amount \in 1..2 :
                  DepositBond(p, amount) \/ WithdrawBond(p, amount)
             \/ \E p \in Participant : WithdrawSettlement(p)
  BY <1>4, <1>5 DEF MoneyMoves
<1>6. ASSUME \/ \E e \in unseen : Handle(e) \/ JudgesUnknown(e)
             \/ \E c \in queued : Lose(c)
             \/ \E c \in refused : Abandon(c)
             \/ \E c \in done \cup refused : Resend(c)
             \/ Tick \/ Restart \/ UNCHANGED vars
      PROVE  UNCHANGED moneyVars
  BY <1>6 DEF Handle, JudgesUnknown, Lose, Abandon, Resend, Tick, MineBlock, Restart, vars
<1>7. \A c \in queued : c.inv \in Inv
  BY CallFields DEF IInv, TypeOK, RelayerTypeOK
<1> QED
  BY <1>1, <1>2, <1>3, <1>5, <1>6, <1>7 DEF Next

LEMMA MoneyStaysBalanced ==
  ASSUME IInv, MoneyInv, [Next]_vars
  PROVE  MoneyInv'
<1>0. books \in BookType /\ balance = Owing(books) /\ Owing(books) \in Nat
  BY OwingIsNat DEF MoneyInv, Owing
<1>1. ASSUME NEW i \in Inv, FinalizeInvocation(i) PROVE MoneyInv'
  <2>1. /\ Settlement(i, inv[i].status) \in BookType
        /\ Owing(Settlement(i, inv[i].status)) = Owing(books)
    BY <1>0, SettlementKeeps DEF IInv, TypeOK
  <2>2. books' = Settlement(i, inv[i].status) /\ balance' = balance
    BY <1>1 DEF FinalizeInvocation
  <2>3. books' \in BookType /\ balance' = Owing(books')
    BY <1>0, <2>1, <2>2
  <2> QED
    BY <2>3 DEF MoneyInv, Owing, BookType
<1>2. ASSUME NEW amount \in 1..2, FundRewardPool(amount) PROVE MoneyInv'
  <2>1. books' = [books EXCEPT !.reward = @ + amount] /\ balance' = balance + amount
    BY <1>2 DEF FundRewardPool
  <2>2. books.bond \in [Participant -> Nat] /\ books.owed \in [Participant -> Nat]
        /\ books.reward \in Nat /\ books.penalty \in Nat
    BY <1>0 DEF BookType
  <2>3. books' = [bond |-> books.bond, owed |-> books.owed,
                  reward |-> books.reward + amount, penalty |-> books.penalty]
    BY <1>0, <2>1 DEF BookType
  <2>4. books' \in BookType
    BY <2>2, <2>3 DEF BookType
  <2>5. Owing(books') = Owing(books) + amount
    BY <1>0, <2>2, <2>3, OwingIsNat DEF Owing
  <2> QED
    BY <1>0, <2>1, <2>4, <2>5 DEF MoneyInv, Owing, BookType
<1>3. ASSUME NEW p \in Participant, NEW amount \in 1..2,
             DepositBond(p, amount) \/ WithdrawBond(p, amount)
      PROVE  MoneyInv'
  <2>1. books.bond[p] \in Nat
    BY <1>0 DEF BookType
  <2>2. PICK n \in Nat : /\ books' = [books EXCEPT !.bond[p] = n]
                         /\ balance' = balance - books.bond[p] + n
    <3>1. CASE DepositBond(p, amount)
      <4>1. PICK n : n = books.bond[p] + amount
        OBVIOUS
      <4>2. books' = [books EXCEPT !.bond[p] = n]
        BY <3>1, <4>1 DEF DepositBond
      <4>3. n \in Nat /\ balance' = balance - books.bond[p] + n
        BY <1>0, <2>1, <3>1, <4>1 DEF DepositBond
      <4> QED
        BY <4>2, <4>3
    <3>2. CASE WithdrawBond(p, amount)
      <4>1. PICK n : n = books.bond[p] - amount
        OBVIOUS
      <4>2. books' = [books EXCEPT !.bond[p] = n]
        BY <3>2, <4>1 DEF WithdrawBond
      <4>3. n \in Nat /\ balance' = balance - books.bond[p] + n
        BY <1>0, <2>1, <3>2, <4>1 DEF WithdrawBond
      <4> QED
        BY <4>2, <4>3
    <3> QED
      BY <1>3, <3>1, <3>2
  <2>3. books' \in BookType /\ balance' = Owing(books')
    BY <1>0, <2>2, BondChanges
  <2> QED
    BY <2>3 DEF MoneyInv, Owing, BookType
<1>4. ASSUME NEW p \in Participant, WithdrawSettlement(p) PROVE MoneyInv'
  <2>1. books.owed[p] \in Nat
    BY <1>0 DEF BookType
  <2>2. books' = [books EXCEPT !.owed[p] = 0] /\ balance' = balance - books.owed[p] + 0
    BY <1>0, <1>4, <2>1 DEF WithdrawSettlement
  <2>3. books' \in BookType /\ balance' = Owing(books')
    BY <1>0, <2>2, OwedChanges
  <2> QED
    BY <2>3 DEF MoneyInv, Owing, BookType
<1>5. ASSUME UNCHANGED moneyVars PROVE MoneyInv'
  BY <1>5 DEF moneyVars, MoneyInv, Owing, BookType
<1> QED
  BY <1>1, <1>2, <1>3, <1>4, <1>5, MoneySteps

-----------------------------------------------------------------------------
(* What stays true of an invocation.                                       *)

LEMMA StartedGrows ==
  ASSUME IInv, [Next]_vars
  PROVE  Started \subseteq Started'
<1>1. \A i \in Inv : inv[i].status = "None" <=> DecisionOf(i) = "none"
  BY DEF DecisionOf, Committed, Open, Decided
<1>2. \A i \in Inv : inv'[i].status = "None" <=> DecisionOf(i)' = "none"
  BY DEF DecisionOf, Committed, Open, Decided
<1>3. ASSUME NEW i \in Inv, DecisionOf(i) # "none" PROVE DecisionOf(i)' # "none"
  <2>1. ASSUME NEW k \in Inv, Serves(k) PROVE DecisionOf(i)' # "none"
    <3>1. DecisionOf(i)' = DecisionOf(i) \/ DecisionOf(i)' \in {"open", "commit", "abort"}
      BY <2>1, Decides
    <3> QED
      BY <1>3, <3>1
  <2>2. ASSUME UNCHANGED invocationVars PROVE DecisionOf(i)' = DecisionOf(i)
    BY <2>2 DEF invocationVars, DecisionOf, Committed, Outvoted
  <2> QED
    BY <1>3, <2>1, <2>2, ServiceSteps
<1> QED
  BY <1>1, <1>2, <1>3 DEF Started

LEMMA FailedForGood ==
  ASSUME IInv, [Next]_vars, NEW i \in Inv, Failed(i)
  PROVE  Failed(i)'
BY SettledForGood DEF Failed, Outvoted

LEMMA OnlyOne ==
  ASSUME Cardinality(Started) <= 1, NEW i \in Started, NEW k \in Started
  PROVE  i = k
<1>1. IsFiniteSet(Started)
  BY TypesAssumption, FS_Subset DEF Started, TypesAssumption
<1>2. ASSUME i # k PROVE FALSE
  <2>1. /\ IsFiniteSet({i}) /\ Cardinality({i}) = 1 /\ k \notin {i}
        /\ {i, k} = {i} \cup {k} /\ {i, k} \subseteq Started
    BY <1>2, FS_Singleton
  <2>2. IsFiniteSet({i, k}) /\ Cardinality({i, k}) = 2
    BY <2>1, FS_AddElement
  <2>3. Cardinality({i, k}) <= Cardinality(Started)
    BY <1>1, <2>1, <2>2, FS_Subset
  <2>4. Cardinality(Started) \in Nat
    BY <1>1, FS_CardinalityType
  <2> QED
    BY <2>2, <2>3, <2>4
<1> QED
  BY <1>2

LEMMA FewerStarted ==
  ASSUME IInv, [Next]_vars, (Cardinality(Started) <= 1)'
  PROVE  Cardinality(Started) <= 1
<1>1. IsFiniteSet(Started')
  BY TypesAssumption, FS_Subset DEF Started, TypesAssumption
<1>2. IsFiniteSet(Started) /\ Cardinality(Started) <= Cardinality(Started')
  BY <1>1, StartedGrows, FS_Subset
<1>3. Cardinality(Started) \in Nat /\ Cardinality(Started') \in Nat
  BY <1>1, <1>2, FS_CardinalityType
<1> QED
  BY <1>2, <1>3

-----------------------------------------------------------------------------
(* What a handler sends, and what a chain answers.                         *)

LEMMA SentCalls ==
  ASSUME NEW e \in unseen, Handle(e), NEW c \in queued' \ queued
  PROVE  /\ c.inv = e.inv /\ c \notin done \cup refused
         /\ c.fn \in Unlocks \cup {"book_lock_do"} => c.key \in {e.inv, pending[e.inv].key}
         /\ c.fn = "book_undo_unlock" => e.name \in FailureLogs
<1> USE DEF Enqueue, Call, RemoteCall, ProofCall, VoteCall, LockCall, Unlocks
<1>1. CASE HandleWriteOnly(e)
  BY <1>1 DEF HandleWriteOnly
<1>2. CASE HandleLocked(e)
  BY <1>2 DEF HandleLocked
<1>3. CASE HandleOperationProofSubmitted(e)
  BY <1>3 DEF HandleOperationProofSubmitted
<1>4. CASE HandleUnlock(e)
  BY <1>4 DEF HandleUnlock, Undoes
<1>5. CASE HandleProofsSubmitted(e)
  BY <1>5 DEF HandleProofsSubmitted
<1>6. CASE HandleVoteSubmitted(e)
  BY <1>6 DEF HandleVoteSubmitted
<1> QED
  BY <1>1, <1>2, <1>3, <1>4, <1>5, <1>6 DEF Handle

LEMMA AnsweredLogs ==
  ASSUME IInv, [Next]_vars, NEW f \in unseen', f \notin unseen
  PROVE  \/ /\ f.name \notin FailureLogs
            /\ \E c \in queued : c.inv = f.inv /\ AtRemote(c)
         \/ /\ f.inv \in Inv /\ Serves(f.inv)
            /\ f.name = "InvocationInvalidated" =>
                 FinalizeInvocation(f.inv) /\ inv[f.inv].status = "Invalid"
            /\ f.name \in {"ForceSettleUndoRequired", "InvocationForceSettled"} =>
                 ForceSettle(f.inv)
<1> USE DEF Emit, Log, VoteLog, ProofLog, OutcomeLog, LockedLog, FailureLogs
<1>1. ASSUME NEW c \in queued, AtRemote(c)
      PROVE  f.name \notin FailureLogs /\ c.inv = f.inv
  BY <1>1 DEF AtRemote
<1>2. ASSUME NEW c \in queued, AtService(c)
      PROVE  /\ f.inv = c.inv
             /\ f.name = "InvocationInvalidated" =>
                  FinalizeInvocation(f.inv) /\ inv[f.inv].status # "Valid"
             /\ f.name \notin {"ForceSettleUndoRequired", "InvocationForceSettled"}
  <2>1. CASE f = OutcomeLog(c.inv) /\ FinalizeInvocation(c.inv)
    BY <2>1
  <2>2. CASE \/ f = Log("AllProofsSubmitted", c.inv)
             \/ f = ProofLog(c.inv, Len(c.chain)) \/ f = VoteLog(c.inv, c.judge)
    BY <2>2
  <2>3. CASE c.fn = "finalizeInvocation"
    BY <1>2, <2>1, <2>3 DEF AtService
  <2>4. CASE c.fn # "finalizeInvocation"
    BY <1>2, <2>2, <2>4 DEF AtService
  <2> QED
    BY <2>3, <2>4
<1>3. ASSUME NEW i \in Inv,
             \/ Invoke(i) \/ AnyoneFinalizes(i) \/ AnyoneForceSettles(i)
             \/ \E j \in Judge : OtherJudgeVotes(i, j)
      PROVE  /\ f.inv = i
             /\ f.name = "InvocationInvalidated" =>
                  FinalizeInvocation(f.inv) /\ inv[f.inv].status # "Valid"
             /\ f.name \in {"ForceSettleUndoRequired", "InvocationForceSettled"} =>
                  ForceSettle(f.inv)
  BY <1>3 DEF Invoke, AnyoneFinalizes, AnyoneForceSettles, OtherJudgeVotes
<1>4. \A i \in Inv : FinalizeInvocation(i) => inv[i].status \in {"Valid", "Invalid"}
  BY DEF FinalizeInvocation, CanFinalize, Decided
<1>5. ASSUME NEW c \in queued, AtService(c) PROVE c.inv \in Inv /\ Serves(c.inv)
  <2>1. c \in Calls
    BY DEF IInv, TypeOK, RelayerTypeOK
  <2>2. c.fn = "submitOperationProof" => Locked(c.inv, c.chain)
    BY DEF IInv, ProofsAreOfLocks
  <2> QED
    BY <1>5, <2>1, <2>2, CallFields DEF AtService, Serves
<1>6. ASSUME NEW i \in Inv,
             \/ Invoke(i) \/ AnyoneFinalizes(i) \/ AnyoneForceSettles(i)
             \/ \E j \in Judge : OtherJudgeVotes(i, j)
      PROVE  Serves(i)
  <2>1. CASE Invoke(i)
    <3>1. PICK c \in scope.configs : \E judges \in Draws(c) : InitInvocation(i, c, judges)
      BY <2>1 DEF Invoke
    <3>2. c \in Config /\ scope.judges \subseteq Judge
      BY AtomAssumption DEF IInv, TypeOK, RelayerTypeOK, AtomAssumption
    <3>3. Draws(c) \subseteq Seq(Judge)
      BY <3>2 DEF Draws, Config
    <3> QED
      BY <3>1, <3>2, <3>3 DEF Serves
  <2>2. CASE AnyoneFinalizes(i) \/ AnyoneForceSettles(i) \/ \E j \in Judge : OtherJudgeVotes(i, j)
    BY <2>2 DEF AnyoneFinalizes, AnyoneForceSettles, OtherJudgeVotes, Serves
  <2> QED
    BY <1>6, <2>1, <2>2
<1>7. \/ \E c \in queued : AtRemote(c) \/ AtService(c)
      \/ \E i \in Inv : \/ Invoke(i) \/ AnyoneFinalizes(i) \/ AnyoneForceSettles(i)
                        \/ \E j \in Judge : OtherJudgeVotes(i, j)
  BY DEF Next, Extend, MoneyMoves, Tick, Handle, Send, JudgesUnknown, Lose, Abandon, Resend,
         Restart, vars
<1> QED
  BY <1>1, <1>2, <1>3, <1>4, <1>5, <1>6, <1>7

-----------------------------------------------------------------------------
(* The calls: in one place, with their own key, of started invocations.    *)

Quiet == UNCHANGED <<remoteVars, scope, left, done>>

\* How the calls and the budget move.
CallMoves ==
  \/ Quiet /\ (UNCHANGED <<queued, refused>> \/ \E e \in unseen : Handle(e))
  \/ Quiet /\ \E c \in refused : refused' = refused \ {c} /\ queued' = queued
  \/ Quiet /\ \E c \in queued : queued' = queued \ {c} /\ refused' = refused \cup {c}
  \/ \E c \in queued : /\ queued' = queued \ {c} /\ done' = done \cup {c}
                       /\ UNCHANGED <<refused, scope, left>>
                       /\ \/ AtRemote(c) /\ UNCHANGED <<invocationVars, pending>>
                          \/ AtService(c)
  \/ /\ UNCHANGED <<remoteVars, scope>>
     /\ \E kind \in {"extends", "money", "restarts"} : Spend(kind)
     /\ UNCHANGED <<queued, refused, done>>
  \/ /\ UNCHANGED <<remoteVars, scope>> /\ Spend("faults")
     /\ \/ \E c \in queued : queued' = queued \ {c} /\ UNCHANGED <<refused, done>>
        \/ \E c \in done \cup refused :
             queued' = queued \cup {c} /\ done' = done \ {c} /\ refused' = refused \ {c}
        \/ UNCHANGED <<queued, refused, done>>

LEMMA CallsMove ==
  ASSUME [Next]_vars
  PROVE  CallMoves
<1>1. ASSUME NEW c \in queued, Send(c) PROVE CallMoves
  BY <1>1 DEF Send, AtRemote, CallMoves, Quiet, serviceVars
<1>2. ASSUME \/ \E e \in unseen : JudgesUnknown(e)
             \/ \E c \in queued : Lose(c)
             \/ \E c \in refused : Abandon(c)
             \/ \E c \in done \cup refused : Resend(c)
      PROVE  CallMoves
  BY <1>2 DEF JudgesUnknown, Lose, Abandon, Resend, CallMoves, Quiet, relayerVars
<1>3. ASSUME MoneyMoves \/ Restart \/ \E i \in Inv : Extend(i) PROVE CallMoves
  BY <1>3 DEF MoneyMoves, Restart, Extend, CallMoves, relayerVars
<1>4. ASSUME \/ \E i \in Inv : \/ Invoke(i) \/ AnyoneFinalizes(i) \/ AnyoneForceSettles(i)
                               \/ \E j \in Judge : OtherJudgeVotes(i, j)
             \/ Tick \/ UNCHANGED vars
      PROVE  CallMoves
  BY <1>4 DEF Invoke, AnyoneFinalizes, AnyoneForceSettles, OtherJudgeVotes, Tick, vars,
              relayerVars, CallMoves, Quiet
<1>5. ASSUME NEW e \in unseen, Handle(e) PROVE CallMoves
  BY <1>5 DEF Handle, CallMoves, Quiet
<1> QED
  BY <1>1, <1>2, <1>3, <1>4, <1>5 DEF Next

LEMMA ApartStays ==
  ASSUME Apart, [Next]_vars
  PROVE  Apart'
<1>1. ASSUME NEW e \in unseen, Handle(e) PROVE Apart'
  BY <1>1, SentCalls DEF Apart, Handle
<1> QED
  BY <1>1, CallsMove DEF CallMoves, Quiet, Apart

LEMMA BudgetsStay ==
  ASSUME Budgets, [Next]_vars
  PROVE  Budgets' /\ left'.faults <= left.faults
<1>1. ASSUME NEW kind \in {"extends", "money", "faults", "restarts"}, Spend(kind)
      PROVE  Budgets' /\ left'.faults <= left.faults
  BY <1>1 DEF Spend, Budgets
<1> QED
  BY <1>1, CallsMove DEF CallMoves, Quiet, Budgets

\* A step at a remote contract, of a call that has the invocation's own key.
Moves(c) == /\ c \in queued /\ queued' = queued \ {c} /\ done' = done \cup {c}
            /\ UNCHANGED <<refused, scope, left, invocationVars, pending>>

RemoteMoves(op, i) ==
  \/ Moves(Lock(op, i)) /\ BookLockDo(op, i, i)
  \/ Moves(Unlock(op, i)) /\ BookUnlock(op, i, i)
  \/ Moves(Undo(op, i)) /\ BookUndoUnlock(op, i, i) /\ Failed(i)

LEMMA RemotesMove ==
  ASSUME IInv, OwnKeys, OfStarted, UndoesAreOfFailed, [Next]_vars
  PROVE  \/ UNCHANGED remoteVars
         \/ \E op \in Op, i \in Started : RemoteMoves(op, i)
<1>1. ASSUME NEW c \in queued, AtRemote(c), Moves(c)
      PROVE  \E op \in Op, i \in Started : RemoteMoves(op, i)
  <2>1. c \in Calls /\ c \in AllCalls
    BY DEF IInv, TypeOK, RelayerTypeOK, AllCalls
  <2>2. c.fn \in Unlocks \cup {"book_lock_do"}
    BY <1>1 DEF AtRemote, Unlocks
  <2>3. c.op \in Op /\ c.inv \in Inv /\ c.inv \in Started /\ c.key \in {c.inv, NoKey}
    BY <2>1, <2>2, CallFields DEF OwnKeys, OfStarted
  <2>4. c.key # NoKey
    BY <1>1, <2>3, RemoteAssumption
       DEF AtRemote, BookLockDo, CanLock, BookUnlock, BookUndoUnlock, CanUnlock, OwnKeys,
           RemoteAssumption
  <2>5. c = RemoteCall(c.fn, c.op, c.inv, c.inv)
    BY <2>1, <2>2, <2>3, <2>4 DEF Calls, RemoteCall, Unlocks
  <2>6. RemoteMoves(c.op, c.inv)
    BY <1>1, <2>1, <2>3, <2>4, <2>5
       DEF AtRemote, RemoteMoves, Lock, Unlock, Undo, UndoesAreOfFailed
  <2> QED
    BY <2>3, <2>6
<1> QED
  BY <1>1, CallsMove DEF CallMoves, Quiet, Moves, AtService

LEMMA OwnKeysStay ==
  ASSUME IInv, OwnKeys, OfStarted, UndoesAreOfFailed, [Next]_vars
  PROVE  OwnKeys'
<1> USE DEF IInv, TypeOK, RelayerTypeOK
<1>1. ASSUME NEW i \in Inv PROVE pending'[i].key \in {i, NoKey}
  <2>1. ASSUME NEW e \in unseen, Handle(e) PROVE pending'[i].key \in {i, NoKey, pending[i].key}
    <3>1. pending \in [Inv -> [key : Key, chain : Seq(Nat), submitted : SUBSET Op]]
          /\ e.inv \in Inv
      BY LogFields DEF Key
    <3>2. CASE HandleWriteOnly(e)
      <4>1. PICK p : p = [Unknown EXCEPT !.key = e.inv]
        OBVIOUS
      <4>2. p.key = e.inv
        BY <4>1 DEF Unknown
      <4> QED
        BY <3>1, <3>2, <4>1, <4>2 DEF HandleWriteOnly
    <3>3. CASE HandleLocked(e)
      <4>1. PICK chain : pending' = [pending EXCEPT ![e.inv].chain = chain] \/ pending' = pending
        BY <3>3 DEF HandleLocked
      <4>2. CASE i = e.inv
        BY <3>1, <4>1, <4>2
      <4>3. CASE i # e.inv
        BY <3>1, <4>1, <4>3
      <4> QED
        BY <4>2, <4>3
    <3>4. CASE HandleOperationProofSubmitted(e)
      <4>1. PICK submitted : pending' = [pending EXCEPT ![e.inv].submitted = submitted]
        BY <3>4 DEF HandleOperationProofSubmitted
      <4>2. CASE i = e.inv
        BY <3>1, <4>1, <4>2
      <4>3. CASE i # e.inv
        BY <3>1, <4>1, <4>3
      <4> QED
        BY <4>2, <4>3
    <3>5. CASE HandleUnlock(e)
      BY <3>1, <3>5 DEF HandleUnlock, Unknown
    <3>6. CASE HandleProofsSubmitted(e) \/ HandleVoteSubmitted(e)
      BY <3>6 DEF HandleProofsSubmitted, HandleVoteSubmitted
    <3> QED
      BY <2>1, <3>2, <3>3, <3>4, <3>5, <3>6 DEF Handle
  <2>2. UNCHANGED pending \/ Restart \/ \E e \in unseen : Handle(e)
    BY DEF Next, Invoke, OtherJudgeVotes, AnyoneFinalizes, AnyoneForceSettles, Extend, MoneyMoves,
           Tick, Send, JudgesUnknown, Lose, Abandon, Resend, vars, relayerVars
  <2>3. Restart => pending'[i].key = NoKey
    BY DEF Restart, Unknown
  <2> QED
    BY <2>1, <2>2, <2>3 DEF OwnKeys
<1>2. ASSUME NEW c \in AllCalls', c.fn \in Unlocks \cup {"book_lock_do"}
      PROVE  c.key \in {c.inv, NoKey}
  <2>1. CASE c \in AllCalls
    BY <1>2, <2>1 DEF OwnKeys
  <2>2. CASE c \notin AllCalls
    <3>1. PICK e \in unseen : Handle(e) /\ c \in queued' \ queued
      BY <2>2, NewCalls
    <3>2. c.inv = e.inv /\ c.key \in {e.inv, pending[e.inv].key} /\ e.inv \in Inv
      BY <1>2, <3>1, SentCalls, LogFields
    <3> QED
      BY <3>2 DEF OwnKeys
  <2> QED
    BY <2>1, <2>2
<1>3. ASSUME NEW op \in Op, NEW i \in Inv, hold'[op][i].locked PROVE hold'[op][i].lockHash = i
  <2>1. CASE hold'[op][i] = hold[op][i]
    BY <1>3, <2>1 DEF OwnKeys
  <2>2. CASE hold'[op][i] # hold[op][i]
    <3>1. PICK o \in Op, k \in Inv : RemoteMoves(o, k)
      BY <2>2, RemotesMove DEF remoteVars, Started
    <3>2. hold \in [Op -> [Inv -> [locked : BOOLEAN, lockHash : Key, backup : Nat]]]
      BY DEF RemoteTypeOK, Key
    <3>3. CASE BookLockDo(o, k, k)
      <4>1. o = op /\ k = i
        BY <2>2, <3>2, <3>3 DEF BookLockDo
      <4> QED
        BY <3>2, <3>3, <4>1 DEF BookLockDo
    <3>4. CASE BookUnlock(o, k, k) \/ BookUndoUnlock(o, k, k)
      <4>1. hold' = [hold EXCEPT ![o][k] = NoHold]
        BY <3>4 DEF BookUnlock, BookUndoUnlock
      <4>2. o = op /\ k = i
        BY <2>2, <3>2, <4>1
      <4>3. hold'[op][i] = NoHold /\ NoHold.locked = FALSE
        BY <3>2, <4>1, <4>2 DEF NoHold
      <4> QED
        BY <1>3, <4>3
    <3> QED
      BY <3>1, <3>3, <3>4 DEF RemoteMoves
  <2> QED
    BY <2>1, <2>2
<1> QED
  BY <1>1, <1>2, <1>3 DEF OwnKeys, AllCalls

LEMMA ServedIsStarted ==
  ASSUME IInv, NEW i \in Inv, Serves(i)
  PROVE  i \in Started'
<1>0. inv \in [Inv -> InvocationType]
  BY DEF IInv, TypeOK, ServiceTypeOK
<1> USE <1>0 DEF Started, InvocationType, Open, Decided
<1>1. ASSUME NEW c \in Config, NEW judges \in Seq(Judge), InitInvocation(i, c, judges)
      PROVE  inv'[i].status # "None"
  BY <1>1 DEF InitInvocation, NoInvocation
<1>2. ASSUME NEW chain \in Seq(Nat), SubmitOperationProof(i, chain) PROVE inv'[i].status # "None"
  BY <1>2 DEF SubmitOperationProof, CanSubmitProof, InTime
<1>3. ASSUME MarkProofSubmissionComplete(i) PROVE inv'[i].status # "None"
  BY <1>3 DEF MarkProofSubmissionComplete
<1>4. ASSUME NEW j \in Judge, NEW valid \in BOOLEAN, SubmitJudgeVote(i, j, valid)
      PROVE  inv'[i].status # "None"
  <2>1. inv[i].status = "Auditing" /\ inv'[i].status \in {"Auditing", "Valid", "Invalid"}
    BY <1>4 DEF SubmitJudgeVote, CanVote
  <2> QED
    BY <2>1
<1>5. ASSUME FinalizeInvocation(i) \/ ForceSettle(i) PROVE inv'[i].status # "None"
  BY <1>5 DEF FinalizeInvocation, ForceSettle
<1>6. ASSUME ExtendInvocation(i) PROVE inv'[i].status # "None"
  <2>1. inv[i].status \in Open /\ inv'[i].status = inv[i].status
    BY <1>6 DEF ExtendInvocation
  <2> QED
    BY <2>1
<1> QED
  BY <1>1, <1>2, <1>3, <1>4, <1>5, <1>6 DEF Serves

LEMMA OfStartedStays ==
  ASSUME IInv, OwnKeys, OfStarted, UndoesAreOfFailed, [Next]_vars
  PROVE  OfStarted'
<1> USE DEF IInv, TypeOK, RelayerTypeOK
<1>1. ASSUME NEW e \in unseen' PROVE e.inv \in Started'
  <2>1. CASE e \in unseen
    BY <2>1, StartedGrows DEF OfStarted
  <2>2. CASE e \notin unseen
    <3>1. CASE \E c \in queued : c.inv = e.inv
      BY <3>1, StartedGrows DEF OfStarted, AllCalls
    <3>2. CASE e.inv \in Inv /\ Serves(e.inv)
      BY <3>2, ServedIsStarted
    <3> QED
      BY <2>2, <3>1, <3>2, AnsweredLogs
  <2> QED
    BY <2>1, <2>2
<1>2. ASSUME NEW c \in AllCalls' PROVE c.inv \in Started'
  <2>1. CASE c \in AllCalls
    BY <2>1, StartedGrows DEF OfStarted
  <2>2. CASE c \notin AllCalls
    <3>1. PICK e \in unseen : Handle(e) /\ c \in queued' \ queued
      BY <2>2, NewCalls
    <3>2. c.inv = e.inv
      BY <3>1, SentCalls
    <3> QED
      BY <3>2, StartedGrows DEF OfStarted
  <2> QED
    BY <2>1, <2>2
<1>3. ASSUME NEW op \in Op, NEW i \in Inv, hold'[op][i].locked PROVE i \in Started'
  <2>1. CASE hold'[op][i] = hold[op][i]
    BY <1>3, <2>1, StartedGrows DEF OfStarted, Held
  <2>2. CASE hold'[op][i] # hold[op][i]
    <3>1. PICK o \in Op, k \in Started : RemoteMoves(o, k)
      BY <2>2, RemotesMove DEF remoteVars
    <3>2. hold \in [Op -> [Inv -> [locked : BOOLEAN, lockHash : Key, backup : Nat]]]
      BY DEF RemoteTypeOK, Key
    <3>3. \E h : hold' = [hold EXCEPT ![o][k] = h]
      BY <3>1 DEF RemoteMoves, BookLockDo, BookUnlock, BookUndoUnlock
    <3>4. k = i
      BY <2>2, <3>2, <3>3
    <3> QED
      BY <3>4, StartedGrows
  <2> QED
    BY <2>1, <2>2
<1> QED
  BY <1>1, <1>2, <1>3 DEF OfStarted, AllCalls, Held

LEMMA UndoesStayOfFailed ==
  ASSUME IInv, UndoesAreOfFailed, [Next]_vars
  PROVE  UndoesAreOfFailed'
<1> USE DEF IInv, TypeOK, RelayerTypeOK
<1>1. ASSUME NEW e \in unseen', e.name \in FailureLogs PROVE Failed(e.inv)'
  <2>1. CASE e \in unseen
    BY <1>1, <2>1, FailedForGood, LogFields DEF UndoesAreOfFailed
  <2>2. CASE e \notin unseen
    <3>1. /\ e.inv \in Inv
          /\ e.name = "InvocationInvalidated" =>
               FinalizeInvocation(e.inv) /\ inv[e.inv].status = "Invalid"
          /\ e.name \in {"ForceSettleUndoRequired", "InvocationForceSettled"} =>
               ForceSettle(e.inv)
      BY <1>1, <2>2, AnsweredLogs
    <3>2. CASE e.name = "InvocationInvalidated"
      BY <3>1, <3>2, Finalizes DEF Failed
    <3>3. CASE e.name \in {"ForceSettleUndoRequired", "InvocationForceSettled"}
      <4>1. inv'[e.inv].status = "ForceSettled"
        BY <3>1, <3>3 DEF ForceSettle, ServiceTypeOK, InvocationType
      <4> QED
        BY <4>1 DEF Failed
    <3> QED
      BY <1>1, <3>2, <3>3 DEF FailureLogs
  <2> QED
    BY <2>1, <2>2
<1>2. ASSUME NEW c \in AllCalls', c.fn = "book_undo_unlock" PROVE Failed(c.inv)'
  <2>1. CASE c \in AllCalls
    BY <1>2, <2>1, CallFields, FailedForGood DEF UndoesAreOfFailed, AllCalls
  <2>2. CASE c \notin AllCalls
    <3>1. PICK e \in unseen : Handle(e) /\ c \in queued' \ queued
      BY <2>2, NewCalls
    <3>2. c.inv = e.inv /\ e.name \in FailureLogs /\ e.inv \in Inv
      BY <1>2, <3>1, SentCalls, LogFields
    <3> QED
      BY <3>2, FailedForGood DEF UndoesAreOfFailed
  <2> QED
    BY <2>1, <2>2
<1> QED
  BY <1>1, <1>2 DEF UndoesAreOfFailed, AllCalls

-----------------------------------------------------------------------------
(* The units.                                                              *)

LEMMA RemoteTypesOf ==
  ASSUME IInv, NEW op \in Op, NEW i \in Inv
  PROVE  /\ Amount[op] \in Nat \ {0} /\ remain \in [Op -> Nat] /\ remain[op] \in Nat
         /\ hold \in [Op -> [Inv -> [locked : BOOLEAN, lockHash : Key, backup : Nat]]]
         /\ hold[op][i].backup \in Nat
         /\ booked \in [Op -> [Inv -> Nat]] /\ booked[op][i] \in Nat
         /\ locks \in [Op -> [Inv -> Nat]] /\ locks[op][i] \in Nat
BY RemoteAssumption DEF IInv, TypeOK, RemoteTypeOK, RemoteAssumption, Key

\* What a step at the remote contract of op does to it, and that it leaves the others alone.
Elsewhere(op, i) ==
  \A o \in Op, k \in Inv :
    ~(o = op /\ k = i) =>
      hold'[o][k] = hold[o][k] /\ booked'[o][k] = booked[o][k] /\ locks'[o][k] = locks[o][k]

LEMMA MovesElsewhere ==
  ASSUME IInv, NEW op \in Op, NEW i \in Inv, RemoteMoves(op, i)
  PROVE  /\ Elsewhere(op, i)
         /\ \A o \in Op : o # op => remain'[o] = remain[o] /\ booked'[o] = booked[o]
<1>1. /\ hold \in [Op -> [Inv -> [locked : BOOLEAN, lockHash : Key, backup : Nat]]]
      /\ booked \in [Op -> [Inv -> Nat]] /\ locks \in [Op -> [Inv -> Nat]]
      /\ remain \in [Op -> Nat]
  BY RemoteTypesOf
<1>2. CASE BookLockDo(op, i, i)
  BY <1>1, <1>2 DEF BookLockDo, Elsewhere
<1>3. CASE BookUnlock(op, i, i)
  BY <1>1, <1>3 DEF BookUnlock, Elsewhere
<1>4. CASE BookUndoUnlock(op, i, i)
  BY <1>1, <1>4 DEF BookUndoUnlock, Elsewhere
<1> QED
  BY <1>2, <1>3, <1>4 DEF RemoteMoves

LEMMA LockDoes ==
  ASSUME IInv, NEW op \in Op, NEW i \in Inv, BookLockDo(op, i, i)
  PROVE  /\ ~hold[op][i].locked /\ hold'[op][i].locked
         /\ hold'[op][i].backup = remain[op] /\ remain'[op] = remain[op] - Amount[op]
         /\ remain'[op] \in Nat
         /\ locks'[op][i] = locks[op][i] + 1 /\ UNCHANGED booked
BY RemoteTypesOf DEF BookLockDo, CanLock

LEMMA UnlockDoes ==
  ASSUME IInv, NEW op \in Op, NEW i \in Inv, BookUnlock(op, i, i)
  PROVE  /\ hold[op][i].locked /\ ~hold'[op][i].locked /\ UNCHANGED <<remain, locks>>
         /\ booked'[op][i] = booked[op][i] + Amount[op]
BY RemoteTypesOf DEF BookUnlock, CanUnlock, NoHold

LEMMA UndoDoes ==
  ASSUME IInv, NEW op \in Op, NEW i \in Inv, BookUndoUnlock(op, i, i)
  PROVE  /\ hold[op][i].locked /\ ~hold'[op][i].locked /\ UNCHANGED <<booked, locks>>
         /\ remain'[op] = hold[op][i].backup
BY RemoteTypesOf DEF BookUndoUnlock, CanUnlock, Released, NoHold

LEMMA PutsBackItsOwnStays ==
  ASSUME IInv, OwnKeys, OfStarted, UndoesAreOfFailed, PutsBackItsOwn, [Next]_vars
  PROVE  PutsBackItsOwn'
<1> SUFFICES ASSUME (Cardinality(Started) <= 1)', NEW op \in Op, NEW i \in Inv,
                    hold'[op][i].locked
             PROVE  hold'[op][i].backup = remain'[op] + Amount[op]
  BY DEF PutsBackItsOwn, Held
<1>1. Cardinality(Started) <= 1
  BY FewerStarted
<1>2. \A k \in Inv : hold[op][k].locked => /\ k \in Started
                                          /\ hold[op][k].backup = remain[op] + Amount[op]
  BY <1>1 DEF PutsBackItsOwn, OfStarted, Held
<1>3. CASE UNCHANGED remoteVars
  BY <1>2, <1>3 DEF remoteVars
<1>4. ASSUME NEW o \in Op, NEW k \in Started, RemoteMoves(o, k)
      PROVE  hold'[op][i].backup = remain'[op] + Amount[op]
  <2>0. k \in Inv
    BY DEF Started
  <2>1. CASE o # op
    BY <1>2, <1>4, <2>0, <2>1, MovesElsewhere DEF Elsewhere
  <2>2. CASE o = op /\ k # i
    <3>1. hold'[op][i] = hold[op][i]
      BY <1>4, <2>0, <2>2, MovesElsewhere DEF Elsewhere
    <3>2. i \in Started
      BY <1>2, <3>1
    <3> QED
      BY <1>1, <2>2, <3>2, OnlyOne
  <2>3. CASE o = op /\ k = i
    <3>1. BookLockDo(op, i, i)
      BY <1>4, <2>0, <2>3, UnlockDoes, UndoDoes DEF RemoteMoves
    <3>2. /\ hold'[op][i].backup = remain[op] /\ remain'[op] = remain[op] - Amount[op]
          /\ remain[op] \in Nat /\ Amount[op] \in Nat
      BY <3>1, LockDoes, RemoteTypesOf
    <3> QED
      BY <3>2
  <2> QED
    BY <2>1, <2>2, <2>3
<1> QED
  BY <1>3, <1>4, RemotesMove

\* What a contract has: free, held and booked units.
Units(op) == remain[op] + Amount[op] * Cardinality(Held(op)) + SumFunction(booked[op])

LEMMA MovesKeepUnits ==
  ASSUME IInv, NEW op \in Op, NEW i \in Inv, RemoteMoves(op, i),
         Failed(i) /\ hold[op][i].locked => hold[op][i].backup = remain[op] + Amount[op]
  PROVE  Units(op)' = Units(op)
<1>0. IsFiniteSet(Inv) /\ IsFiniteSet(Held(op)) /\ Cardinality(Held(op)) \in Nat
  BY TypesAssumption, FS_Subset, FS_CardinalityType DEF TypesAssumption, Held
<1>1. /\ Amount[op] \in Nat /\ remain[op] \in Nat
      /\ booked[op] \in [Inv -> Nat] /\ booked[op][i] \in Nat
      /\ SumFunction(booked[op]) \in Nat
  BY <1>0, RemoteTypesOf, FunctionSumIsNat
<1>2. \A k \in Inv : k # i => hold'[op][k] = hold[op][k] /\ booked'[op][k] = booked[op][k]
  BY MovesElsewhere DEF Elsewhere
<1>3. ASSUME hold'[op][i].locked, ~hold[op][i].locked
      PROVE  Cardinality(Held(op)') = Cardinality(Held(op)) + 1
  <2>1. Held(op)' = Held(op) \cup {i} /\ i \notin Held(op)
    BY <1>2, <1>3 DEF Held
  <2> QED
    BY <1>0, <2>1, FS_AddElement
<1>4. ASSUME hold[op][i].locked, ~hold'[op][i].locked
      PROVE  Cardinality(Held(op)') = Cardinality(Held(op)) - 1
  <2>1. Held(op)' = Held(op) \ {i} /\ i \in Held(op)
    BY <1>2, <1>4 DEF Held
  <2> QED
    BY <1>0, <2>1, FS_RemoveElement
<1>5. PICK a \in Nat, n \in Nat, s \in Nat :
        a = Amount[op] /\ n = Cardinality(Held(op)) /\ s = SumFunction(booked[op])
  BY <1>0, <1>1
<1>6. a * (n + 1) = a * n + a /\ a * (n - 1) = a * n - a /\ a * n \in Nat
  OBVIOUS
<1>7. CASE BookLockDo(op, i, i)
  <2>1. /\ Cardinality(Held(op)') = n + 1 /\ remain'[op] = remain[op] - a
        /\ SumFunction(booked'[op]) = s
    BY <1>3, <1>5, <1>7, LockDoes
  <2> QED
    BY <1>1, <1>5, <1>6, <2>1 DEF Units
<1>8. CASE BookUnlock(op, i, i)
  <2>1. /\ booked'[op] \in [Inv -> Nat] /\ booked'[op][i] = booked[op][i] + a
        /\ Cardinality(Held(op)') = n - 1 /\ remain'[op] = remain[op]
    <3>1. booked' = [booked EXCEPT ![op][i] = @ + Amount[op]] /\ booked \in [Op -> [Inv -> Nat]]
      BY <1>8, RemoteTypesOf DEF BookUnlock
    <3>2. booked'[op] \in [Inv -> Nat]
      BY <1>1, <3>1
    <3> QED
      BY <1>4, <1>5, <1>8, <3>2, UnlockDoes
  <2>2. SumFunction(booked'[op]) = s + a
    <3>1. PICK f \in [Inv -> Int], g \in [Inv -> Int] : f = booked[op] /\ g = booked'[op]
      BY <1>1, <2>1
    <3>2. SumFunction(g) = SumFunction(f) - f[i] + g[i]
      <4>1. \A k \in Inv \ {i} : g[k] = f[k]
        BY <1>2, <3>1
      <4> QED
        BY <1>0, <4>1, FunctionSumChange
    <3> QED
      BY <1>1, <1>5, <2>1, <3>1, <3>2
  <2> QED
    BY <1>1, <1>5, <1>6, <2>1, <2>2 DEF Units
<1>9. CASE BookUndoUnlock(op, i, i) /\ Failed(i)
  <2>1. /\ Cardinality(Held(op)') = n - 1 /\ remain'[op] = remain[op] + a
        /\ SumFunction(booked'[op]) = s
    BY <1>4, <1>5, <1>9, UndoDoes
  <2> QED
    BY <1>1, <1>5, <1>6, <2>1 DEF Units
<1> QED
  BY <1>7, <1>8, <1>9 DEF RemoteMoves

LEMMA UnitsStayAddedUp ==
  ASSUME IInv, OwnKeys, OfStarted, UndoesAreOfFailed, PutsBackItsOwn, UnitsAddUp, [Next]_vars
  PROVE  UnitsAddUp'
<1> SUFFICES ASSUME (Cardinality(Started) <= 1 \/ \A i \in Inv : ~Failed(i))', NEW op \in Op
             PROVE  Units(op)' = Rooms[op]
  BY DEF UnitsAddUp, Units
<1>1. Cardinality(Started) <= 1 \/ \A i \in Inv : ~Failed(i)
  BY FewerStarted, FailedForGood
<1>2. Units(op) = Rooms[op]
  BY <1>1 DEF UnitsAddUp, Units
<1>3. CASE UNCHANGED remoteVars
  BY <1>2, <1>3 DEF remoteVars, Units, Held
<1>4. ASSUME NEW o \in Op, NEW i \in Started, RemoteMoves(o, i)
      PROVE  Units(op)' = Rooms[op]
  <2>0. i \in Inv
    BY DEF Started
  <2>1. CASE o # op
    <3>1. remain'[op] = remain[op] /\ \A k \in Inv : hold'[op][k] = hold[op][k]
      BY <1>4, <2>0, <2>1, MovesElsewhere DEF Elsewhere
    <3>2. booked'[op] = booked[op]
      BY <1>4, <2>0, <2>1, MovesElsewhere
    <3>3. Held(op)' = Held(op)
      BY <3>1 DEF Held
    <3> QED
      BY <1>2, <3>1, <3>2, <3>3 DEF Units
  <2>2. CASE o = op
    <3>1. Failed(i) /\ hold[op][i].locked => hold[op][i].backup = remain[op] + Amount[op]
      BY <1>1, <2>0 DEF PutsBackItsOwn, Held
    <3> QED
      BY <1>2, <1>4, <2>0, <2>2, <3>1, MovesKeepUnits
  <2> QED
    BY <2>1, <2>2
<1> QED
  BY <1>3, <1>4, RemotesMove

-----------------------------------------------------------------------------
(* Bookings are counted: locks and unlocks against calls done and faults.  *)

Accounted(op, i) == Spent + OneIf(Lock(op, i) \in done) + OneIf(Unlock(op, i) \in done)

LEMMA SpentIsInt ==
  ASSUME IInv, Budgets
  PROVE  scope.faults \in Nat /\ left.faults \in Nat /\ Spent \in Int /\ Spent <= scope.faults
<1>1. scope.faults \in Nat
  BY AtomAssumption DEF AtomAssumption, IInv, TypeOK, RelayerTypeOK
<1> QED
  BY <1>1 DEF Budgets, Spent

LEMMA AccountsGrow ==
  ASSUME IInv, Budgets, Apart, [Next]_vars, NEW op \in Op, NEW i \in Inv
  PROVE  /\ Accounted(op, i) \in Int /\ Accounted(op, i)' \in Int
         /\ Accounted(op, i) <= Accounted(op, i)'
         /\ Moves(Lock(op, i)) \/ Moves(Unlock(op, i)) =>
              Accounted(op, i)' = Accounted(op, i) + 1
<1> DEFINE L == Lock(op, i)
           U == Unlock(op, i)
<1>0. L # U
  BY DEF Lock, Unlock, RemoteCall
<1> HIDE DEF L, U
<1> DEFINE n == OneIf(L \in done) + OneIf(U \in done)
           m == OneIf(L \in done') + OneIf(U \in done')
<1>1. /\ n \in Nat /\ m \in Nat
      /\ done' = done => m = n
      /\ \A c : done' = done \cup {c} => m >= n
      /\ \A c : done' = done \ {c} => m + 1 >= n
      /\ done' = done \cup {L} /\ L \notin done => m = n + 1
      /\ done' = done \cup {U} /\ U \notin done => m = n + 1
  BY <1>0 DEF OneIf
<1>2. /\ scope' = scope /\ scope.faults \in Nat /\ left.faults \in Nat /\ left'.faults \in Nat
      /\ left'.faults <= left.faults
  <2>1. scope' = scope
    BY CallsMove DEF CallMoves, Quiet
  <2> QED
    BY <2>1, SpentIsInt, BudgetsStay DEF Budgets
<1> HIDE DEF n, m
<1>3. Accounted(op, i) = Spent + n /\ Accounted(op, i)' = Spent' + m
  BY <1>1, <1>2, SpentIsInt DEF Accounted, L, U, n, m, Spent, OneIf
<1>4. Spent = scope.faults - left.faults /\ Spent' = scope.faults - left'.faults
  BY <1>2 DEF Spent
<1>5. m >= n \/ (m + 1 >= n /\ left'.faults = left.faults - 1)
  <2>1. Spend("faults") => left'.faults = left.faults - 1
    BY DEF Spend, Budgets
  <2> QED
    BY <1>1, <2>1, CallsMove DEF CallMoves, Quiet
<1>6. Accounted(op, i) <= Accounted(op, i)' /\ Accounted(op, i) \in Int /\ Accounted(op, i)' \in Int
  BY <1>1, <1>2, <1>3, <1>4, <1>5
<1>7. ASSUME Moves(L) \/ Moves(U) PROVE Accounted(op, i)' = Accounted(op, i) + 1
  <2>1. m = n + 1 /\ left' = left
    BY <1>1, <1>7 DEF Moves, Apart
  <2> QED
    BY <1>1, <1>2, <1>3, <1>4, <2>1
<1> QED
  BY <1>6, <1>7 DEF L, U

LEMMA BookingsStayCounted ==
  ASSUME IInv, Budgets, Apart, OwnKeys, OfStarted, UndoesAreOfFailed, BookingsCounted, [Next]_vars
  PROVE  BookingsCounted'
<1> SUFFICES ASSUME NEW op \in Op, NEW i \in Inv PROVE \E n \in Nat : BookedTimes(op, i, n)'
  BY DEF BookingsCounted
<1>1. PICK n \in Nat : BookedTimes(op, i, n)
  BY DEF BookingsCounted
<1>2. PICK a, b : a = Accounted(op, i) /\ b = Accounted(op, i)'
  OBVIOUS
<1>3. /\ a \in Int /\ b \in Int /\ a <= b
      /\ Moves(Lock(op, i)) \/ Moves(Unlock(op, i)) => b = a + 1
  BY <1>2, AccountsGrow
<1>4. /\ booked[op][i] = Amount[op] * n /\ n + OneIf(hold[op][i].locked) <= locks[op][i]
      /\ locks[op][i] + n <= a
  BY <1>1, <1>2 DEF BookedTimes, Accounted
<1>5. locks[op][i] \in Nat /\ Amount[op] \in Nat
  BY RemoteTypesOf
<1>6. ASSUME NEW k \in Nat, booked'[op][i] = Amount[op] * k,
             k + OneIf(hold'[op][i].locked) <= locks'[op][i], locks'[op][i] + k <= b
      PROVE  \E j \in Nat : BookedTimes(op, i, j)'
  <2>1. BookedTimes(op, i, k)'
    BY <1>2, <1>6 DEF BookedTimes, Accounted
  <2> QED
    BY <2>1
<1>7. ASSUME booked'[op][i] = booked[op][i], hold'[op][i] = hold[op][i],
             locks'[op][i] = locks[op][i]
      PROVE  \E j \in Nat : BookedTimes(op, i, j)'
  BY <1>3, <1>4, <1>5, <1>6, <1>7
<1>8. ASSUME NEW o \in Op, NEW k \in Started, RemoteMoves(o, k)
      PROVE  \E j \in Nat : BookedTimes(op, i, j)'
  <2>0. k \in Inv
    BY DEF Started
  <2>1. CASE ~(o = op /\ k = i)
    BY <1>7, <1>8, <2>0, <2>1, MovesElsewhere DEF Elsewhere
  <2>2. CASE o = op /\ k = i
    <3>1. CASE Moves(Lock(op, i)) /\ BookLockDo(op, i, i)
      BY <1>3, <1>4, <1>5, <1>6, <3>1, LockDoes DEF OneIf
    <3>2. CASE Moves(Unlock(op, i)) /\ BookUnlock(op, i, i)
      <4>1. booked'[op][i] = Amount[op] * (n + 1)
        BY <1>4, <1>5, <3>2, UnlockDoes
      <4> QED
        BY <1>3, <1>4, <1>5, <1>6, <3>2, <4>1, UnlockDoes DEF OneIf
    <3>3. CASE BookUndoUnlock(op, i, i)
      BY <1>3, <1>4, <1>5, <1>6, <3>3, UndoDoes DEF OneIf
    <3> QED
      BY <1>8, <2>2, <3>1, <3>2, <3>3 DEF RemoteMoves
  <2> QED
    BY <2>1, <2>2
<1> QED
  BY <1>7, <1>8, RemotesMove DEF remoteVars

LEMMA FewAreBookedOnce ==
  ASSUME IInv, Budgets, BookingsCounted
  PROVE  BookedOnce
<1> SUFFICES ASSUME scope.faults < 2, NEW op \in Op, NEW i \in Inv
             PROVE  booked[op][i] \in {0, Amount[op]}
  BY DEF BookedOnce
<1>1. PICK n \in Nat : BookedTimes(op, i, n)
  BY DEF BookingsCounted
<1>2. /\ booked[op][i] = Amount[op] * n
      /\ n + OneIf(hold[op][i].locked) <= locks[op][i]
      /\ locks[op][i] + n <= Spent + OneIf(Lock(op, i) \in done) + OneIf(Unlock(op, i) \in done)
  BY <1>1 DEF BookedTimes
<1>3. locks[op][i] \in Nat /\ Amount[op] \in Nat /\ Spent \in Int /\ Spent <= 1
  BY RemoteTypesOf, SpentIsInt
<1>4. n <= locks[op][i] /\ locks[op][i] + n <= 3
  BY <1>2, <1>3 DEF OneIf
<1>5. n = 0 \/ n = 1
  BY <1>3, <1>4
<1> QED
  BY <1>2, <1>3, <1>5

-----------------------------------------------------------------------------
LEMMA BalancesStart == Init => BalancesInv
<1> SUFFICES ASSUME Init PROVE BalancesInv
  OBVIOUS
<1>1. MoneyInv
  <2>1. books = NoMoney /\ balance = 0
    BY DEF Init, ServiceInit
  <2>2. books \in BookType
    BY <2>1 DEF NoMoney, BookType
  <2>3. SumFunction(books.bond) = 0 /\ SumFunction(books.owed) = 0
    BY <2>1, ParticipantsFinite, FunctionSumOfZeros DEF NoMoney
  <2>4. books.reward = 0 /\ books.penalty = 0
    BY <2>1 DEF NoMoney
  <2> QED
    BY <2>1, <2>2, <2>3, <2>4 DEF MoneyInv, Owing
<1>2. Budgets /\ Spent = 0
  <2>1. \A n \in {scope.extends, scope.money, scope.faults, scope.restarts} : n \in Nat
    BY AtomAssumption DEF Init, AtomAssumption
  <2>2. left = [extends |-> scope.extends, money |-> scope.money,
                faults |-> scope.faults, restarts |-> scope.restarts]
    BY DEF Init
  <2> QED
    BY <2>1, <2>2 DEF Budgets, Spent
<1>3. queued = {} /\ refused = {} /\ done = {} /\ unseen = {}
  BY DEF Init
<1>4. \A op \in Op, i \in Inv : /\ hold[op][i] = NoHold /\ ~NoHold.locked
                               /\ booked[op][i] = 0 /\ locks[op][i] = 0
  BY DEF Init, RemoteInit, NoHold
<1>5. \A op \in Op : Held(op) = {}
  BY <1>4 DEF Held
<1>6. Apart /\ OfStarted /\ UndoesAreOfFailed /\ PutsBackItsOwn
  BY <1>3, <1>5 DEF Apart, OfStarted, UndoesAreOfFailed, PutsBackItsOwn, AllCalls
<1>7. OwnKeys
  <2>1. \A i \in Inv : pending[i] = Unknown /\ Unknown.key = NoKey
    BY DEF Init, Unknown
  <2> QED
    BY <1>3, <1>4, <2>1 DEF OwnKeys, AllCalls
<1>8. UnitsAddUp
  <2>1. ASSUME NEW op \in Op PROVE Units(op) = Rooms[op]
    <3>1. remain[op] = Rooms[op] /\ Rooms[op] \in Nat /\ Amount[op] \in Nat
      BY RemoteAssumption DEF RemoteAssumption, Init, RemoteInit
    <3>2. booked[op] = [i \in Inv |-> 0]
      BY DEF Init, RemoteInit
    <3>3. SumFunction(booked[op]) = 0
      BY <3>2, TypesAssumption, FunctionSumOfZeros DEF TypesAssumption
    <3>4. Cardinality(Held(op)) = 0
      BY <1>5, FS_EmptySet
    <3> QED
      BY <3>1, <3>3, <3>4 DEF Units
  <2> QED
    BY <2>1 DEF UnitsAddUp, Units
<1>9. ASSUME NEW op \in Op, NEW i \in Inv PROVE BookedTimes(op, i, 0)
  <2>1. Amount[op] \in Nat
    BY RemoteAssumption DEF RemoteAssumption
  <2> QED
    BY <1>2, <1>3, <1>4, <2>1 DEF BookedTimes, OneIf
<1>10. BookingsCounted
  BY <1>9 DEF BookingsCounted
<1> QED
  BY <1>1, <1>2, <1>6, <1>7, <1>8, <1>10 DEF BalancesInv

(* The balances, and what they rest on, hold in every state.               *)
THEOREM BalancesInvariant == Spec => []BalancesInv
<1>1. IInv /\ BalancesInv /\ [Next]_vars => BalancesInv'
  <2> SUFFICES ASSUME IInv, BalancesInv, [Next]_vars PROVE BalancesInv'
    OBVIOUS
  <2> USE DEF BalancesInv
  <2>1. MoneyInv' /\ Budgets' /\ Apart'
    BY MoneyStaysBalanced, BudgetsStay, ApartStays
  <2>2. OwnKeys' /\ OfStarted' /\ UndoesAreOfFailed'
    BY OwnKeysStay, OfStartedStays, UndoesStayOfFailed
  <2>3. PutsBackItsOwn' /\ UnitsAddUp' /\ BookingsCounted'
    BY PutsBackItsOwnStays, UnitsStayAddedUp, BookingsStayCounted
  <2> QED
    BY <2>1, <2>2, <2>3
<1> QED
  BY Invariant, BalancesStart, <1>1, PTL DEF Spec

(* Nothing appears or disappears: the service holds the ether it owes, and *)
(* a remote's units are free, held or booked, an invocation's once, for    *)
(* any invocations, judges, terms, windows, budgets of faults and restarts,*)
(* and any order of the logs.                                              *)
THEOREM NothingIsLost == Spec => []Conserved
<1>1. IInv /\ BalancesInv => Conserved
  <2> SUFFICES ASSUME IInv, BalancesInv PROVE Conserved
    OBVIOUS
  <2>1. books \in BookType /\ balance = Owing(books)
    BY DEF BalancesInv, MoneyInv
  <2>2. BooksBalance
    BY <2>1 DEF BooksBalance, Owing, BookType
  <2>3. UnitsAddUp /\ BookedOnce
    BY FewAreBookedOnce DEF BalancesInv
  <2> QED
    BY <2>2, <2>3 DEF Conserved
<1> QED
  BY Invariant, BalancesInvariant, <1>1, PTL

=============================================================================
