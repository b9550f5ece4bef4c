----------------------------- MODULE WasmDaemon -----------------------------
(***************************************************************************)
(* The submit daemon of the WASM chain                                     *)
(* (src/scripts/xsmart/wasm-submit-daemon.ts).  It takes invocations over  *)
(* HTTP, submits them one at a time from one account, and answers each     *)
(* when its extrinsic is final, fails, or 120 seconds have passed.  The    *)
(* timer does not cancel anything: an extrinsic that was given up may      *)
(* still be submitted, applied and finalized while the next one is served. *)
(*                                                                          *)
(* The chain is the best chain, one extrinsic to a block, of which a       *)
(* prefix is final.  Blocks beyond it may be retracted, and the pool may   *)
(* drop an extrinsic.  An extrinsic's nonce is its place on the chain.     *)
(***************************************************************************)
EXTENDS Naturals, Sequences, FiniteSets, FiniteSetsExt, SequencesExt

CONSTANTS
  Requests,       \* the requests that may be posted
  Txs,            \* cross-chain transactions
  None,           \* no request
  WaitFinalized,  \* XSMART_WASM_WAIT_FINALIZED
  MaxFaults       \* how many retractions, drops, failures and restarts

ASSUME WasmDaemonAssumption ==
  None \notin Requests /\ WaitFinalized \in BOOLEAN /\ MaxFaults \in Nat

VARIABLES
  call,     \* request -> what it asks for
  phase,    \* request -> where its extrinsic is
  nonce,    \* request -> the nonce read for it
  queue,    \* requests waiting for the one before them
  serving,  \* the request being invoked, or None
  answer,   \* request -> its HTTP answer
  blocks,   \* the best chain: request and result of each extrinsic
  final,    \* how many blocks are final
  faults    \* faults so far

chainVars  == <<blocks, final>>
daemonVars == <<queue, serving, answer>>
vars == <<call, phase, nonce, daemonVars, chainVars, faults>>

Messages == {"lock", "update", "rollback", "timeout", "malformed"}
Calls    == [message : Messages, tx : Txs]
Nothing  == [message |-> "", tx |-> ""]

Init ==
  /\ call = [r \in Requests |-> Nothing]
  /\ phase = [r \in Requests |-> "new"]
  /\ nonce = [r \in Requests |-> 0]
  /\ queue = <<>> /\ serving = None
  /\ answer = [r \in Requests |-> "none"]
  /\ blocks = <<>> /\ final = 0
  /\ faults = 0

Fault == faults < MaxFaults /\ faults' = faults + 1

(***************************************************************************)
(* The HTTP side.                                                          *)
(***************************************************************************)
\* The body is read and the invocation chained behind the earlier ones.
Post(r) ==
  /\ phase[r] = "new"
  /\ \E c \in Calls : call' = [call EXCEPT ![r] = c]
  /\ phase' = [phase EXCEPT ![r] = "queued"]
  /\ queue' = Append(queue, r)
  /\ UNCHANGED <<nonce, serving, answer, chainVars, faults>>

\* The invocation ends, well or badly; the queue goes on either way.
Reply(r, text) ==
  /\ answer' = [answer EXCEPT ![r] = text]
  /\ serving' = None

\* A request that lacks its envelope, endpoint, method or arguments throws.
Invoke ==
  /\ serving = None /\ queue # <<>>
  /\ queue' = Tail(queue)
  /\ LET r == Head(queue) IN
     IF call[r].message = "malformed"
     THEN /\ Reply(r, "error")
          /\ phase' = [phase EXCEPT ![r] = "gone"]
     ELSE /\ serving' = r
          /\ phase' = [phase EXCEPT ![r] = "reading"]
          /\ UNCHANGED answer
  /\ UNCHANGED <<call, nonce, chainVars, faults>>

(***************************************************************************)
(* signAndSend: read the account's next nonce, then submit.  Both go on    *)
(* for a request that has already been given up.                           *)
(***************************************************************************)
Taken(n) == n < Len(blocks) \/ \E r \in Requests : phase[r] = "pool" /\ nonce[r] = n

NextNonce == Min({n \in 0..Cardinality(Requests) : ~Taken(n)})

ReadNonce(r) ==
  /\ phase[r] = "reading"
  /\ phase' = [phase EXCEPT ![r] = "signed"]
  /\ nonce' = [nonce EXCEPT ![r] = NextNonce]
  /\ UNCHANGED <<call, daemonVars, chainVars, faults>>

Submit(r) ==
  /\ phase[r] = "signed" /\ ~Taken(nonce[r])
  /\ phase' = [phase EXCEPT ![r] = "pool"]
  /\ UNCHANGED <<call, nonce, daemonVars, chainVars, faults>>

\* The error answers the request, unless it has been answered already.
Fails(r) ==
  IF serving = r
  THEN Reply(r, "error") /\ UNCHANGED queue
  ELSE UNCHANGED daemonVars

\* Another extrinsic has the nonce: the pool refuses this one.
SubmitRefused(r) ==
  /\ phase[r] = "signed" /\ Taken(nonce[r])
  /\ phase' = [phase EXCEPT ![r] = "gone"]
  /\ Fails(r)
  /\ UNCHANGED <<call, nonce, chainVars, faults>>

SubmitFails(r) ==
  /\ phase[r] \in {"reading", "signed"}
  /\ Fault
  /\ phase' = [phase EXCEPT ![r] = "gone"]
  /\ Fails(r)
  /\ UNCHANGED <<call, nonce, chainVars>>

(***************************************************************************)
(* The chain.                                                              *)
(***************************************************************************)
HoldsLock(t) ==
  \E i \in DOMAIN blocks :
    /\ blocks[i].ok /\ call[blocks[i].request] = [message |-> "lock", tx |-> t]
    /\ \A j \in DOMAIN blocks :
         j > i /\ blocks[j].ok => call[blocks[j].request].tx # t

\* A lock may lack remaining units, a timeout be early.
Results(c) ==
  CASE c.message = "lock"    -> IF HoldsLock(c.tx) THEN {FALSE} ELSE BOOLEAN
    [] c.message = "timeout" -> IF HoldsLock(c.tx) THEN BOOLEAN ELSE {FALSE}
    [] OTHER                 -> {HoldsLock(c.tx)}

Include(r) ==
  /\ phase[r] = "pool" /\ nonce[r] = Len(blocks)
  /\ \E ok \in Results(call[r]) : blocks' = Append(blocks, [request |-> r, ok |-> ok])
  /\ phase' = [phase EXCEPT ![r] = "chain"]
  /\ UNCHANGED <<call, nonce, daemonVars, final, faults>>

Finalize ==
  /\ final < Len(blocks)
  /\ final' = final + 1
  /\ UNCHANGED <<call, phase, nonce, daemonVars, blocks, faults>>

Retract ==
  /\ final < Len(blocks)
  /\ Fault
  /\ phase' = [phase EXCEPT ![Last(blocks).request] = "pool"]
  /\ blocks' = Front(blocks)
  /\ UNCHANGED <<call, nonce, daemonVars, final>>

Drop(r) ==
  /\ phase[r] = "pool"
  /\ Fault
  /\ phase' = [phase EXCEPT ![r] = "gone"]
  /\ UNCHANGED <<call, nonce, daemonVars, chainVars>>

(***************************************************************************)
(* The answer.  The status callback looks for a dispatch error in whatever *)
(* status comes, and for the status waited for; it takes no notice of an   *)
(* extrinsic that is dropped, retracted or invalid.                        *)
(***************************************************************************)
Applied(r, n, ok) == \E i \in 1..n : blocks[i] = [request |-> r, ok |-> ok]

\* Mutant of Settled: being in a block is enough.
InABlock(r) == Applied(r, Len(blocks), TRUE)

Settled(r) == Applied(r, IF WaitFinalized THEN final ELSE Len(blocks), TRUE)

Succeed ==
  /\ serving # None /\ Settled(serving)
  /\ Reply(serving, "ok")
  /\ UNCHANGED <<call, phase, nonce, queue, chainVars, faults>>

\* The header of the block is read before the answer is given.
HeaderFails ==
  /\ serving # None /\ Settled(serving)
  /\ Fault
  /\ Reply(serving, "error")
  /\ UNCHANGED <<call, phase, nonce, queue, chainVars>>

DispatchError ==
  /\ serving # None /\ Applied(serving, Len(blocks), FALSE)
  /\ Reply(serving, "error")
  /\ UNCHANGED <<call, phase, nonce, queue, chainVars, faults>>

\* Mutant of Timeout: there is no timer.
NoTimer == FALSE

Timeout ==
  /\ serving # None
  /\ Reply(serving, "error")
  /\ UNCHANGED <<call, phase, nonce, queue, chainVars, faults>>

\* The daemon is stopped and started: its connections close, and what it had
\* not submitted is gone.
Restart ==
  /\ Fault
  /\ LET open == {r \in Requests : phase[r] # "new" /\ answer[r] = "none"} IN
     answer' = [r \in Requests |-> IF r \in open THEN "error" ELSE answer[r]]
  /\ queue' = <<>> /\ serving' = None
  /\ phase' = [r \in Requests |->
                 IF phase[r] \in {"queued", "reading", "signed"} THEN "gone" ELSE phase[r]]
  /\ UNCHANGED <<call, nonce, chainVars>>

Next ==
  \/ \E r \in Requests : \/ Post(r) \/ ReadNonce(r) \/ Submit(r)
                         \/ SubmitRefused(r) \/ SubmitFails(r) \/ Include(r) \/ Drop(r)
  \/ Invoke \/ Finalize \/ Retract
  \/ Succeed \/ HeaderFails \/ DispatchError \/ Timeout \/ Restart

\* The event loop takes the next request and the timer goes off; nothing is
\* assumed of the node or the chain.
Fairness == WF_vars(Invoke) /\ WF_vars(Timeout)

Spec == Init /\ [][Next]_vars /\ Fairness

(***************************************************************************)
(* Properties.                                                             *)
(***************************************************************************)
\* When the daemon waits for finality, a request answered 200 was applied
\* without a dispatch error on the final chain, and stays there: the relayer
\* may act on its event whatever is retracted, dropped, given up or restarted
\* afterwards.
OkMeansFinal ==
  WaitFinalized => \A r \in Requests : answer[r] = "ok" => Applied(r, final, TRUE)

\* Every posted request is answered, also behind others that failed or that
\* the node never answers, and across restarts.
EveryRequestAnswered ==
  \A r \in Requests : phase[r] = "queued" ~> answer[r] # "none"
=============================================================================
