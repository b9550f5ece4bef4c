-------------------------- MODULE WasmDaemonProofs --------------------------
(***************************************************************************)
(* Proofs about the submit daemon, for any requests and any faults.        *)
(***************************************************************************)
EXTENDS WasmDaemon, SequenceTheorems, TLAPS

Answers == {"none", "ok", "error"}
Entries == [request : Requests, ok : BOOLEAN]

\* The final blocks are a prefix of the best chain.
ChainOK ==
  /\ blocks \in Seq(Entries)
  /\ final \in 0..Len(blocks)

DaemonOK ==
  /\ queue \in Seq(Requests)
  /\ serving \in Requests \cup {None}
  /\ answer \in [Requests -> Answers]

DaemonInv == ChainOK /\ DaemonOK /\ OkMeansFinal

-----------------------------------------------------------------------------
(* The chain: what is final stays on it, and stays final.                  *)

Grows ==
  /\ final' >= final
  /\ \A i \in 1..final : blocks'[i] = blocks[i]

LEMMA FinalStays ==
  ASSUME ChainOK, ChainOK', Grows, NEW r, NEW ok, Applied(r, final, ok)
  PROVE  Applied(r, final, ok)'
  BY DEF Applied, Grows, ChainOK

LEMMA IncludeGrows ==
  ASSUME ChainOK, NEW r \in Requests, Include(r)
  PROVE  ChainOK' /\ Grows
<1>1. PICK ok \in Results(call[r]) : blocks' = Append(blocks, [request |-> r, ok |-> ok])
  BY DEF Include
<1>2. HoldsLock(call[r].tx) \in BOOLEAN
  BY DEF HoldsLock
<1>3. ok \in BOOLEAN
  BY <1>1, <1>2 DEF Results
<1>4. final' = final
  BY DEF Include
<1>5. [request |-> r, ok |-> ok] \in Entries
  BY <1>3 DEF Entries
<1> QED
  BY <1>1, <1>4, <1>5, AppendProperties DEF ChainOK, Grows

LEMMA FinalizeGrows ==
  ASSUME ChainOK, Finalize
  PROVE  ChainOK' /\ Grows
  BY DEF ChainOK, Grows, Finalize

LEMMA RetractGrows ==
  ASSUME ChainOK, Retract
  PROVE  ChainOK' /\ Grows
<1>1. blocks' = SubSeq(blocks, 1, Len(blocks) - 1) /\ final' = final /\ final < Len(blocks)
  BY DEF Retract, Front
<1> DEFINE n == Len(blocks) - 1
<1>2. n \in Nat /\ Len(blocks) = n + 1 /\ final \in 0..n
  BY <1>1 DEF ChainOK
<1>3. \A i \in 1..n : blocks[i] \in Entries
  BY <1>2 DEF ChainOK
<1>4. blocks' = SubSeq(blocks, 1, n)
  BY <1>1
<1> HIDE DEF n
<1>5. /\ SubSeq(blocks, 1, n) \in Seq(Entries)
      /\ Len(SubSeq(blocks, 1, n)) = IF 1 <= n THEN n - 1 + 1 ELSE 0
      /\ \A i \in 1..(n - 1 + 1) : SubSeq(blocks, 1, n)[i] = blocks[1 + i - 1]
  BY <1>2, <1>3, SubSeqProperties
<1>6. /\ blocks' \in Seq(Entries)
      /\ Len(blocks') = n
      /\ \A i \in 1..n : blocks'[i] = blocks[i]
  BY <1>2, <1>4, <1>5
<1> QED
  BY <1>1, <1>2, <1>6 DEF ChainOK, Grows

\* Every other step leaves the chain alone.
LEMMA ChainStep ==
  ASSUME ChainOK, [Next]_vars
  PROVE  ChainOK' /\ Grows
<1>1. CASE UNCHANGED chainVars
  BY <1>1 DEF ChainOK, Grows, chainVars
<1>2. CASE \E r \in Requests : Include(r)
  BY <1>2, IncludeGrows
<1>3. CASE Finalize \/ Retract
  BY <1>3, FinalizeGrows, RetractGrows
<1>4. CASE \E r \in Requests : \/ Post(r) \/ ReadNonce(r) \/ Submit(r)
                               \/ SubmitRefused(r) \/ SubmitFails(r) \/ Drop(r)
  BY <1>1, <1>4 DEF Post, ReadNonce, Submit, SubmitRefused, SubmitFails, Drop
<1>5. CASE Invoke \/ Succeed \/ HeaderFails \/ DispatchError \/ Timeout \/ Restart
  BY <1>1, <1>5 DEF Invoke, Succeed, HeaderFails, DispatchError, Timeout, Restart
<1>6. CASE UNCHANGED vars
  BY <1>1, <1>6 DEF vars
<1> QED
  BY <1>2, <1>3, <1>4, <1>5, <1>6 DEF Next

-----------------------------------------------------------------------------
(* The answers: 200 is given only by Succeed.                              *)

\* A request newly answered 200 was settled.
Earned ==
  \A r \in Requests : answer'[r] = "ok" => answer[r] = "ok" \/ Settled(r)

LEMMA ReplyAnswers ==
  ASSUME DaemonOK, NEW r \in Requests, NEW text \in Answers, Reply(r, text),
         text = "ok" => Settled(r), queue' \in Seq(Requests)
  PROVE  DaemonOK' /\ Earned
  BY DEF DaemonOK, Earned, Reply

LEMMA FailsAnswers ==
  ASSUME DaemonOK, NEW r \in Requests, Fails(r)
  PROVE  DaemonOK' /\ Earned
<1>1. CASE serving = r
  <2>1. Reply(r, "error") /\ queue' = queue
    BY <1>1 DEF Fails
  <2> QED
    BY <2>1, ReplyAnswers DEF DaemonOK, Answers
<1>2. CASE serving # r
  BY <1>2 DEF Fails, DaemonOK, Earned, daemonVars
<1> QED
  BY <1>1, <1>2

LEMMA InvokeAnswers ==
  ASSUME DaemonOK, Invoke
  PROVE  DaemonOK' /\ Earned
<1> DEFINE r == Head(queue)
<1>1. r \in Requests /\ queue' \in Seq(Requests)
  BY HeadTailProperties DEF Invoke, DaemonOK
<1>2. CASE call[r].message = "malformed"
  <2>1. Reply(r, "error")
    BY <1>2 DEF Invoke
  <2> QED
    BY <1>1, <2>1, ReplyAnswers DEF Answers
<1>3. CASE call[r].message # "malformed"
  <2>1. serving' = r /\ answer' = answer
    BY <1>3 DEF Invoke
  <2> QED
    BY <1>1, <2>1 DEF DaemonOK, Earned
<1> QED
  BY <1>2, <1>3

LEMMA AnswerStep ==
  ASSUME DaemonOK, [Next]_vars
  PROVE  DaemonOK' /\ Earned
<1>1. CASE UNCHANGED daemonVars
  BY <1>1 DEF DaemonOK, Earned, daemonVars
<1>2. ASSUME NEW r \in Requests, Post(r)
      PROVE  DaemonOK' /\ Earned
  BY <1>2, AppendProperties DEF Post, DaemonOK, Earned
<1>3. ASSUME NEW r \in Requests, SubmitRefused(r) \/ SubmitFails(r)
      PROVE  DaemonOK' /\ Earned
  BY <1>3, FailsAnswers DEF SubmitRefused, SubmitFails
<1>4. ASSUME NEW r \in Requests, ReadNonce(r) \/ Submit(r) \/ Include(r) \/ Drop(r)
      PROVE  DaemonOK' /\ Earned
  BY <1>1, <1>4 DEF ReadNonce, Submit, Include, Drop
<1>5. CASE Finalize \/ Retract
  BY <1>1, <1>5 DEF Finalize, Retract
<1>6. CASE Invoke
  BY <1>6, InvokeAnswers
<1>7. CASE Succeed \/ HeaderFails \/ DispatchError \/ Timeout
  <2>1. serving \in Requests /\ queue' = queue
    BY <1>7 DEF Succeed, HeaderFails, DispatchError, Timeout, DaemonOK
  <2>2. \/ Reply(serving, "ok") /\ Settled(serving)
        \/ Reply(serving, "error")
    BY <1>7 DEF Succeed, HeaderFails, DispatchError, Timeout
  <2> QED
    BY <2>1, <2>2, ReplyAnswers DEF DaemonOK, Answers
<1>8. CASE Restart
  BY <1>8 DEF Restart, DaemonOK, Earned, Answers
<1>9. CASE UNCHANGED vars
  BY <1>1, <1>9 DEF vars
<1> QED
  BY <1>2, <1>3, <1>4, <1>5, <1>6, <1>7, <1>8, <1>9 DEF Next

-----------------------------------------------------------------------------
LEMMA InvHolds == Spec => []DaemonInv
<1>1. Init => DaemonInv
  BY WasmDaemonAssumption
  DEF Init, DaemonInv, ChainOK, DaemonOK, OkMeansFinal, Entries, Answers
<1>2. DaemonInv /\ [Next]_vars => DaemonInv'
  <2> SUFFICES ASSUME DaemonInv, [Next]_vars PROVE DaemonInv'
    OBVIOUS
  <2>1. ChainOK' /\ Grows /\ DaemonOK' /\ Earned
    BY ChainStep, AnswerStep DEF DaemonInv
  <2>2. ASSUME WaitFinalized, NEW r \in Requests, answer'[r] = "ok"
        PROVE  Applied(r, final, TRUE)'
    <3>1. Applied(r, final, TRUE)
      BY <2>1, <2>2 DEF Earned, Settled, DaemonInv, OkMeansFinal
    <3> QED
      BY <2>1, <3>1, FinalStays DEF DaemonInv
  <2> QED
    BY <2>1, <2>2 DEF DaemonInv, OkMeansFinal
<1> QED
  BY <1>1, <1>2, PTL DEF Spec

\* Type correctness of the daemon and of the chain it follows: the queue holds
\* requests, at most one is served, and the final blocks are on the best chain.
THEOREM DaemonTypes == Spec => [](ChainOK /\ DaemonOK)
  BY InvHolds, PTL DEF DaemonInv

\* Waiting for finality, the daemon answers 200 only for what is on the final
\* chain for good, for any number of requests, retractions, drops and restarts.
THEOREM OkIsFinal == Spec => []OkMeansFinal
  BY InvHolds, PTL DEF DaemonInv
=============================================================================
