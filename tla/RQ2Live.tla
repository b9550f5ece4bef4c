------------------------------- MODULE RQ2Live -------------------------------
(***************************************************************************)
(* scripts/rq2/run-rq2a-vm-full.ts: every case runs on the deployed        *)
(* originals (Fabric, ink!, Solidity) and on the deployed translations.    *)
(* The contracts outlive the process: a case resets their scalars, gives   *)
(* its keys a namespace of its own, and the results file, rewritten after  *)
(* every case, tells the next process which cases to skip.                 *)
(*                                                                         *)
(* The originals are modelled by the source semantics of RQ2Models.  A     *)
(* fault is a call that reports failure, whether or not the chain applied  *)
(* it; a process may be killed between any two calls.                      *)
(***************************************************************************)
EXTENDS RQ2Cases, Sequences

CONSTANTS NCases, MaxLaunches, MaxFaults,  \* Namespaces: one per launch and case
          MaxSent     \* for each contract, how many operations are sent in all

VARIABLES
  contract,    \* the contract under test
  step,        \* where main and run<Contract> are
  launches,    \* processes started: the last one is running
  at,          \* the case main has reached
  results,     \* the results in memory
  file,        \* the results on disk
  init,        \* the initial state of the case
  original,    \* the state of the original contract
  translated,  \* the state of the translated one
  touched,     \* the keys the operations so far name
  ops,         \* operations compared in this case
  op,          \* the operation the original has answered
  answer,      \* that answer: ok and values
  outcome,     \* the result of the case, once known
  sent,        \* operations sent so far, by every process
  faults       \* faults so far

chains == <<original, translated>>
vars == <<contract, step, launches, at, results, file, init, chains, touched,
          ops, op, answer, outcome, sent, faults>>

Steps == {"off", "next", "resetOriginal", "resetTranslated", "resetTotal", "mint",
          "apply", "confirm", "record"}

Nothing == <<>>
Failed == [ok |-> FALSE, values |-> <<>>]
Answer(a) == [ok |-> a.ok, values |-> a.values]

\* Mutant: a rerun uses the namespace of the process it replaces.
FirstRunNamespace == <<1, at>>

\* runNamespace and caseId: one process, one case.
namespacedCaseId == <<launches, at>>

-----------------------------------------------------------------------------
(* The contracts as the deployment script left them.                       *)

DeployedWith(i) ==
  CASE contract \in Travel -> NewTravel(i)
    [] contract = "TokenTransfer" -> NewToken
    [] contract = "AuctionLogic" -> NewAuctions
    [] contract = "DEXSwap" -> NewDex

Init ==
  /\ contract \in Contracts
  /\ step = "off" /\ launches = 0 /\ at = 1
  /\ results = <<>> /\ file = <<>>
  /\ \E i \in Initials(contract) : original = DeployedWith(i) /\ translated = DeployedWith(i)
  /\ init = Nothing /\ op = Nothing /\ answer = Nothing /\ outcome = Nothing
  /\ touched = TouchedAtFirst(contract) /\ ops = 0 /\ sent = 0 /\ faults = 0

Fault == faults < MaxFaults /\ faults' = faults + 1
NoFault == UNCHANGED faults

\* The variables of a case are its own.
Forgotten ==
  /\ init' = Nothing /\ op' = Nothing /\ answer' = Nothing /\ outcome' = Nothing
  /\ touched' = TouchedAtFirst(contract) /\ ops' = 0

-----------------------------------------------------------------------------
(* main.                                                                   *)

\* Mutant: a failed result does not count as done.
CompletedPassed == {results[i].case : i \in {j \in DOMAIN results : results[j].pass}}

\* Every result on file counts as done, the failed ones too.
Completed == {results[i].case : i \in DOMAIN results}

\* What the filter of results keeps of the first i, those of a case of the list.
KeptOf(rs) ==
  LET kept[i \in 0..Len(rs)] ==
        IF i = 0 THEN <<>>
        ELSE IF rs[i].case \in 1..NCases THEN Append(kept[i - 1], rs[i]) ELSE kept[i - 1]
  IN kept[Len(rs)]

Launch ==
  /\ step = "off" /\ launches < MaxLaunches
  /\ launches' = launches + 1 /\ at' = 1
  /\ results' = KeptOf(file)
  /\ step' = "next"
  /\ UNCHANGED <<contract, file, init, chains, touched, ops, op, answer, outcome, sent, faults>>

SkipDone ==
  /\ step = "next" /\ at \in Completed
  /\ at' = at + 1
  /\ UNCHANGED <<contract, step, launches, results, file, init, chains, touched,
                 ops, op, answer, outcome, sent, faults>>

\* Mutant: the loop runs one case too many.
BeginCasePastTheEnd ==
  /\ step = "next" /\ at \notin Completed
  /\ init' \in Initials(contract)
  /\ step' = "resetOriginal"
  /\ UNCHANGED <<contract, launches, at, results, file, chains, touched,
                 ops, op, answer, outcome, sent, faults>>

BeginCase ==
  /\ step = "next" /\ at \in (1..NCases) \ Completed
  /\ init' \in Initials(contract)
  /\ step' = "resetOriginal"
  /\ UNCHANGED <<contract, launches, at, results, file, chains, touched,
                 ops, op, answer, outcome, sent, faults>>

EndRun ==
  /\ step = "next" /\ at > NCases
  /\ step' = "off" /\ at' = 1
  /\ UNCHANGED <<contract, launches, results, file, init, chains, touched,
                 ops, op, answer, outcome, sent, faults>>

\* The process is killed, or hangs on a transaction that never finalizes.
Die ==
  /\ step # "off"
  /\ step' = "off" /\ at' = 1 /\ Forgotten
  /\ UNCHANGED <<contract, launches, results, file, chains, sent, faults>>

-----------------------------------------------------------------------------
(* The resets.                                                             *)

ResetOf(s) ==
  CASE contract = "HotelBooking" -> ResetHotel(s, init)
    [] contract = "TrainBooking" -> ResetTrain(s, init)
    [] contract = "TokenTransfer" -> ResetToken(s)
    [] contract = "AuctionLogic" -> s
    [] contract = "DEXSwap" -> ResetDex(s)

MayApply(s, t) == {s, t}

\* The result of the case is known: main's catch, or run<Contract>'s return.
Ends(category, misread) ==
  /\ outcome' = [case |-> at, run |-> launches, pass |-> category = "none",
                 category |-> category, misread |-> misread]
  /\ step' = "record"

\* fabric and wasm.tx report a failed reset in a value nobody reads; only the
\* token's reset throws.
ResetOriginal ==
  /\ step = "resetOriginal"
  /\ \/ /\ original' = ResetOf(original)
        /\ step' = "resetTranslated"
        /\ NoFault /\ UNCHANGED outcome
     \/ /\ contract # "AuctionLogic" /\ Fault
        /\ original' \in MayApply(original, ResetOf(original))
        /\ IF contract = "TokenTransfer"
           THEN Ends("runner_exception", FALSE)
           ELSE step' = "resetTranslated" /\ UNCHANGED outcome
  /\ UNCHANGED <<contract, launches, at, results, file, init, translated, touched,
                 ops, op, answer, sent>>

\* A transaction that resets the translated contract to t: it is awaited and
\* its failure throws.
ResetTo(t, next) ==
  /\ \/ /\ translated' = t /\ step' = next
        /\ NoFault /\ UNCHANGED outcome
     \/ /\ contract # "AuctionLogic" /\ Fault
        /\ translated' \in MayApply(translated, t)
        /\ Ends("runner_exception", FALSE)
  /\ UNCHANGED <<contract, launches, at, results, file, init, original, touched,
                 ops, op, answer, sent>>

\* The hotel is reset by two transactions: its scalars, then its locked total.
ResetTranslated ==
  /\ step = "resetTranslated"
  /\ CASE contract = "HotelBooking"  -> ResetTo(ResetHotelMeta(translated, init), "resetTotal")
       [] contract = "TokenTransfer" -> ResetTo(ResetOf(translated), "mint")
       [] OTHER                      -> ResetTo(ResetOf(translated), "apply")

ResetTotal ==
  /\ step = "resetTotal"
  /\ ResetTo(ResetHotelTotal(translated), "apply")

\* The token's opening balances, minted user by user on both contracts.
MintedTo(s, users) == Minted(s, namespacedCaseId, init, users)

MintOpening ==
  /\ step = "mint"
  /\ \/ /\ original' = MintedTo(original, Users) /\ translated' = MintedTo(translated, Users)
        /\ step' = "apply" /\ NoFault /\ UNCHANGED outcome
     \/ /\ Fault
        /\ \E done \in SUBSET Users, half \in SUBSET Users :
             /\ done \subseteq half /\ Cardinality(half \ done) <= 1
             /\ original' = MintedTo(original, half)
             /\ translated' = MintedTo(translated, done)
        /\ Ends("runner_exception", FALSE)
  /\ UNCHANGED <<contract, launches, at, results, file, init, touched, ops, op, answer,
                 sent>>

-----------------------------------------------------------------------------
(* The operations: the original first, then the translated one, then the   *)
(* comparison.                                                             *)

ApplyOriginal(o) ==
  LET a == Original(contract, original, namespacedCaseId, o)
  IN /\ step = "apply" /\ sent < MaxSent[contract]
     /\ op' = o /\ sent' = sent + 1
     /\ \/ original' = a.state /\ answer' = Answer(a) /\ NoFault
        \/ original' \in MayApply(original, a.state) /\ answer' = Failed /\ Fault
     /\ step' = "confirm"
     /\ UNCHANGED <<contract, launches, at, results, file, init, translated, touched,
                    ops, outcome>>

\* The values of an operation that changes state are compared for the token
\* alone, whose operations return none; those of GetAuction never.
ComparesValues(o) == o.kind \in Views \ {"GetAuction"} \/ contract = "TokenTransfer"

compareOp(a, b, compareReturns) ==
  a.ok = b.ok /\ (a.ok /\ compareReturns => a.values = b.values)

\* b is the answer of the translated contract.
Compare(b) ==
  IF compareOp(answer, b, ComparesValues(op))
  THEN /\ touched' = Also(touched, Touched(contract, op))
       /\ ops' = ops + 1 /\ step' = "apply"
       /\ UNCHANGED outcome
  ELSE /\ Ends("operation_mismatch", FALSE)
       /\ UNCHANGED <<touched, ops>>

ApplyTranslated ==
  LET b == Translated(contract, translated, namespacedCaseId, op)
  IN /\ step = "confirm"
     /\ \/ translated' = b.state /\ Compare(Answer(b)) /\ NoFault
        \/ translated' \in MayApply(translated, b.state) /\ Compare(Failed) /\ Fault
     /\ op' = Nothing /\ answer' = Nothing
     /\ UNCHANGED <<contract, launches, at, results, file, init, original, sent>>

-----------------------------------------------------------------------------
(* The snapshots and the record.                                           *)

\* The train's original is not asked for its lock size.
LiveSnapshot ==
  OriginalSnapshot(contract,
    IF contract = "TrainBooking" THEN [original EXCEPT !.lockSize = init.lockSize] ELSE original,
    namespacedCaseId, touched)

SameSnapshots ==
  LiveSnapshot = TranslatedSnapshot(contract, translated, namespacedCaseId, init, touched)

Snapshot ==
  /\ step = "apply" /\ ops > 0
  /\ Ends(IF SameSnapshots THEN "none" ELSE "state_mismatch", FALSE) /\ NoFault
  /\ UNCHANGED <<contract, launches, at, results, file, init, chains, touched,
                 ops, op, answer, sent>>

\* A read fails.  One of the token or of a translated contract throws; one of
\* another original counts as zero, which can hide a difference or make one.
SnapshotMisread ==
  /\ step = "apply" /\ ops > 0 /\ Fault
  /\ \/ Ends("runner_exception", FALSE)
     \/ /\ contract # "TokenTransfer"
        /\ \E category \in {"none", "state_mismatch"} : Ends(category, TRUE)
  /\ UNCHANGED <<contract, launches, at, results, file, init, chains, touched,
                 ops, op, answer, sent>>

\* The file is rewritten after every case; a failed case ends the process
\* unless stop-on-fail is off.
Record ==
  /\ step = "record"
  /\ results' = Append(results, outcome)
  /\ file' = results'
  /\ \/ step' = "next" /\ at' = at + 1
     \/ ~outcome.pass /\ step' = "off" /\ at' = 1
  /\ Forgotten
  /\ UNCHANGED <<contract, launches, chains, sent, faults>>

Next ==
  \/ Launch \/ SkipDone \/ BeginCase \/ EndRun \/ Die
  \/ ResetOriginal \/ ResetTranslated \/ ResetTotal \/ MintOpening
  \/ \E o \in Operations(contract) : ApplyOriginal(o)
  \/ ApplyTranslated \/ Snapshot \/ SnapshotMisread \/ Record

Spec == Init /\ [][Next]_vars

-----------------------------------------------------------------------------
(* Properties.                                                             *)

Outcomes == [case : 1..NCases, run : 1..MaxLaunches, pass : BOOLEAN,
             category : {"none", "operation_mismatch", "state_mismatch", "runner_exception"},
             misread : BOOLEAN]

\* The runner's variables have the types main gives them, and a case is
\* inside the list whenever one is under way.
TypeOK ==
  /\ contract \in Contracts /\ step \in Steps
  /\ launches \in 0..MaxLaunches /\ at \in 1..(NCases + 1)
  /\ results \in Seq(Outcomes) /\ file \in Seq(Outcomes)
  /\ ops \in 0..sent /\ faults \in 0..MaxFaults
  /\ step = "record" => outcome \in Outcomes
  /\ step \notin {"off", "next"} => at <= NCases

\* Without a fault every recorded case passes, although the contracts keep
\* what earlier cases and killed processes left in them: the reset and the
\* namespace isolate a case (run<Contract>, namespacedCaseId).
NoFalseAlarm == faults = 0 => \A i \in DOMAIN results : results[i].pass

\* A case that passed, its reads answered, left the same state on both
\* chains: under every key of its namespace, for good, and in the scalars
\* when it was recorded.  Calls that failed on one side or on both, a lost
\* reset included, never make a pass out of two states that differ
\* (compareOp, the touched keys, the snapshots).
Mappings == {"accounts", "bookings", "locks", "balances", "allowances", "auctions",
             "pending", "shares"}
\* The train's lock size is the one scalar its snapshot does not read.
Unread == IF contract = "TrainBooking" THEN {"lockSize"} ELSE {}

SameKeys(r) == \A f \in DOMAIN original \cap Mappings :
                 original[f][<<r.run, r.case>>] = translated[f][<<r.run, r.case>>]
SameScalars == \A f \in DOMAIN original \ (Mappings \cup Unread) : original[f] = translated[f]

PassedAgree ==
  /\ \A i \in DOMAIN results : results[i].pass /\ ~results[i].misread => SameKeys(results[i])
  /\ step = "record" /\ outcome.pass /\ ~outcome.misread => SameKeys(outcome) /\ SameScalars

\* Across crashes, reruns and resumption, a result once written is never
\* lost, changed or written again: the file only grows, by one result of a
\* case it does not have (the resume branch and the rewrite of main).
RecordsNewCase ==
  file' # file =>
    \E r \in Outcomes : /\ file' = Append(file, r)
                        /\ r.case \notin {file[i].case : i \in DOMAIN file}

RecordedOnce == [][RecordsNewCase]_vars

=============================================================================
