----------------------------- MODULE Scheduler -----------------------------
(***************************************************************************)
(* The relayer's scheduler: it carries actions (calls to be made on a      *)
(* chain) through a queue, workers, retries and backoff, and records them  *)
(* in a checkpoint file that a restarted relayer resumes from.             *)
(*                                                                         *)
(* The goroutines pass copies of an action around, each with its own count *)
(* of attempts and transaction hash, and the same action may have several  *)
(* at once: every Enqueue makes one, and so does every restart.  A copy is *)
(* named <<a, n>> after its action and the n-th Enqueue of it, n = 0 being *)
(* the copy a restart reads from the file.                                 *)
(*                                                                         *)
(* The file is rewritten in place, as a whole.  A write that fails leaves  *)
(* the file as it was or cut short; cut short it reads as empty or not at  *)
(* all.  A crash in the middle of a write is one that fails and a crash.   *)
(***************************************************************************)
EXTENDS Integers, Sequences, FiniteSets

CONSTANTS
  Action,        \* actions, by id
  Evm,           \* those whose DestVM is EVM; the others go to an endpoint
  Fallback,      \* those whose endpoint client may make its answer up: a WASM
                 \* client that requires no proof, with no submitter URL and,
                 \* when it sends, no metadata file
  Unserved,      \* those for whose chain or signer no client is configured
  Workers,       \* number of workers
  QueueCap,      \* capacity of the queue channel (1024)
  MaxRetries,    \* action.MaxRetries
  MaxActions,    \* bound: how many different actions are enqueued
  MaxReceives,   \* bound: how often an action is enqueued and not skipped
  MaxFaults,     \* bound: RPC errors, timeouts and writes of the file that fail
  MaxCrashes,    \* bound: crashes of the relayer
  MaxDiskFaults  \* bound: those of them that are writes

ASSUME SchedulerAssumption ==
  /\ IsFiniteSet(Action) /\ Evm \subseteq Action
  /\ Fallback \subseteq Action \ Evm /\ Unserved \subseteq Action
  /\ Workers \in Nat \ {0} /\ QueueCap \in Nat \ {0}
  /\ MaxRetries \in Nat \ {0} /\ MaxActions \in Nat /\ MaxReceives \in Nat
  /\ MaxFaults \in Nat /\ MaxCrashes \in Nat /\ MaxDiskFaults \in Nat

VARIABLES
  store,      \* the checkpoint store: status, attempts and hash of an action
  file,       \* what its file holds
  parses,     \* the file can be read (one cut short may not be)
  running,    \* there is a relayer: one that cannot read its file exits
  copy,       \* the copies of actions and where each one is
  queue,      \* the channel the workers read
  received,   \* Enqueue calls that were not skipped, per action
  txs,        \* what was sent, for a chain or in a client's imagination; a hash
              \* is an index, 0 is none
  ready,      \* actions whose call would succeed on their chain
  applied,    \* actions whose call has succeeded: it succeeds once
  premature,  \* actions whose call was made before it could succeed
  held,       \* answers of endpoint calls, in the client's memory
  emitted,    \* answers handed to the listener as events
  dropped,    \* answers the listener had no room for, or was not there for
  faults, crashes, diskFaults

chainVars == <<txs, ready, applied, premature>>
answerVars == <<held, emitted, dropped>>
diskVars == <<file, parses, diskFaults>>
vars == <<store, copy, queue, received, chainVars, answerVars, faults, crashes,
          diskVars, running>>

CopyId == Action \X (0..MaxReceives)
ActionOf(c) == c[1]

Status == {"absent", "Pending", "InFlight", "Failed", "Done", "Abandoned"}
Terminal == {"absent", "Done", "Abandoned"}

\* Before it is a worker's ("sending", "sent", "waiting") a copy may be read
\* from the file, checked by Enqueue, on its way into the queue, or in it;
\* after a failure it backs off and is requeued.  A copy is stranded when the
\* goroutine that had it returned on a failed write, leaving the action as it is.
Place == {"none", "starting", "checked", "pushing", "queued",
          "sending", "sent", "waiting", "answered", "backoff", "requeueing",
          "stranded"}

NoCopy == [at |-> "none", attempts |-> 0, hash |-> 0]
Stranded == [NoCopy EXCEPT !.at = "stranded"]
Absent == [status |-> "absent", attempts |-> 0, hash |-> 0]

TypeOK ==
  /\ store \in [Action -> [status : Status, attempts : Nat, hash : Nat]]
  /\ file \in [Action -> [status : Status, attempts : Nat, hash : Nat]]
  /\ parses \in BOOLEAN /\ running \in BOOLEAN
  /\ copy \in [CopyId -> [at : Place, attempts : Nat, hash : Nat]]
  /\ queue \in Seq(CopyId) /\ Len(queue) <= QueueCap
  /\ received \in [Action -> 0..MaxReceives]
  /\ txs \in Seq([action : Action, outcome : {"pending", "ok", "reverted", "synthetic"}])
  /\ ready \subseteq Action /\ applied \subseteq Action /\ premature \subseteq Action
  /\ held \subseteq Action /\ emitted \subseteq Action /\ dropped \subseteq Action
  /\ faults \in 0..MaxFaults /\ crashes \in 0..MaxCrashes
  /\ diskFaults \in 0..MaxDiskFaults

Empty == [a \in Action |-> Absent]

Init ==
  /\ store = Empty /\ file = Empty /\ parses = TRUE /\ running = TRUE
  /\ copy = [c \in CopyId |-> NoCopy]
  /\ queue = <<>>
  /\ received = [a \in Action |-> 0]
  /\ txs = <<>>
  /\ ready = {} /\ applied = {} /\ premature = {}
  /\ held = {} /\ emitted = {} /\ dropped = {}
  /\ faults = 0 /\ crashes = 0 /\ diskFaults = 0
-----------------------------------------------------------------------------
(* flushLocked: the file becomes what the store is, or the write fails (on *)
(* top of an RPC error at most: a failed send whose failure is not written)*)

Flush == file' = store' /\ parses' = TRUE /\ UNCHANGED diskFaults

FlushFails ==
  /\ faults + diskFaults < MaxFaults /\ diskFaults < MaxDiskFaults
  /\ diskFaults' = diskFaults + 1
  /\ \/ UNCHANGED <<file, parses>>
     \/ file' = Empty /\ parses' \in BOOLEAN

(* A copy that writes itself to the store (Put) and moves on; one that does*)
(* so although the write fails; and one that writes its last status and is *)
(* dropped.  The store has the new record whether the file gets it or not. *)

Stores(c, status, attempts, hash) ==
  store' = [store EXCEPT ![ActionOf(c)] =
              [status |-> status, attempts |-> attempts, hash |-> hash]]

\* Also the mutant of Put: the error of the write is not looked at.
PutAnyway(c, status, next) ==
  /\ Stores(c, status, next.attempts, next.hash)
  /\ Flush \/ FlushFails
  /\ copy' = [copy EXCEPT ![c] = next]
  /\ UNCHANGED running

Put(c, status, next) ==
  /\ Stores(c, status, next.attempts, next.hash)
  /\ \/ Flush /\ copy' = [copy EXCEPT ![c] = next]
     \/ FlushFails /\ copy' = [copy EXCEPT ![c] = Stranded]
  /\ UNCHANGED running

Finish(c, status) ==
  /\ Stores(c, status, copy[c].attempts, copy[c].hash)
  /\ Flush \/ FlushFails
  /\ copy' = [copy EXCEPT ![c] = NoCopy]
  /\ UNCHANGED running

Moved(c, place) == [copy[c] EXCEPT !.at = place]

(* The event loop, one Enqueue at a time: look the action up, put a fresh  *)
(* copy in the store over whatever is there, push it.  A done action and   *)
(* one in flight are skipped.  The listener starts after the recovery.     *)
EventLoopFree == \A c \in CopyId : copy[c].at \notin {"starting", "checked", "pushing"}

Enqueued == {a \in Action : received[a] > 0}

Receive(a) ==
  LET n == received[a] + 1
  IN /\ n <= MaxReceives
     /\ Cardinality(Enqueued \cup {a}) <= MaxActions
     /\ running /\ EventLoopFree
     /\ store[a].status \notin {"Done", "InFlight"}
     /\ received' = [received EXCEPT ![a] = n]
     /\ copy' = [copy EXCEPT ![<<a, n>>] = [NoCopy EXCEPT !.at = "checked"]]
     /\ UNCHANGED <<store, queue, chainVars, answerVars, faults, crashes,
                    diskVars, running>>

Record(c) ==
  /\ copy[c].at = "checked"
  /\ Put(c, "Pending", Moved(c, "pushing"))
  /\ UNCHANGED <<queue, received, chainVars, answerVars, faults, crashes>>

(* A push blocks while the channel is full, whoever pushes.                *)
Push(c) ==
  /\ copy[c].at \in {"starting", "pushing", "requeueing"}
  /\ Len(queue) < QueueCap
  /\ queue' = Append(queue, c)
  /\ copy' = [copy EXCEPT ![c] = Moved(c, "queued")]
  /\ UNCHANGED <<store, received, chainVars, answerVars, faults, crashes,
                 diskVars, running>>
-----------------------------------------------------------------------------
(* process: a worker takes a copy and counts the attempt.                  *)

Busy == {c \in CopyId : copy[c].at \in {"sending", "sent", "waiting", "answered"}}

\* Mutant of Counted: a retry is not counted.
Uncounted(n) == IF n = 0 THEN 1 ELSE n
Counted(n) == n + 1

Take ==
  /\ queue # <<>> /\ ActionOf(Head(queue)) \notin Unserved
  /\ Cardinality(Busy) < Workers
  /\ queue' = Tail(queue)
  /\ LET c == Head(queue)
     IN Put(c, "InFlight",
            [copy[c] EXCEPT !.at = "sending", !.attempts = Counted(@)])
  /\ UNCHANGED <<received, chainVars, answerVars, faults, crashes>>

(* onFailure, for an error that is not "already handled".                  *)
GivesUpEarly(c) == copy[c].attempts + 1 >= MaxRetries   \* mutants of GivesUp
GivesUpLate(c) == copy[c].attempts > MaxRetries
GivesUp(c) == copy[c].attempts >= MaxRetries

\* Mutant of Fails: a failed action is recorded and not requeued.
FailsForGood(c, hash) == Finish(c, IF GivesUp(c) THEN "Abandoned" ELSE "Failed")

Fails(c, hash) ==
  IF GivesUp(c) THEN Finish(c, "Abandoned")
  ELSE Put(c, "Failed", [copy[c] EXCEPT !.at = "backoff", !.hash = hash])

\* clientFor finds no client for the copy: this attempt is not counted, so the
\* copy comes back for ever.
NoClient ==
  /\ queue # <<>> /\ ActionOf(Head(queue)) \in Unserved
  /\ Cardinality(Busy) < Workers
  /\ queue' = Tail(queue)
  /\ Fails(Head(queue), copy[Head(queue)].hash)
  /\ UNCHANGED <<received, chainVars, answerVars, faults, crashes>>

Fault == faults + diskFaults < MaxFaults /\ faults' = faults + 1

Transaction(c, outcome) == Append(txs, [action |-> ActionOf(c), outcome |-> outcome])

\* The copy knows a transaction: it is not sent again.
Resume(c) ==
  /\ copy[c].at = "sending"
  /\ copy[c].hash # 0
  /\ Put(c, "InFlight", Moved(c, "waiting"))
  /\ UNCHANGED <<queue, received, chainVars, answerVars, faults, crashes>>

MaySend(c) == copy[c].at = "sending" /\ copy[c].hash = 0
Sent(c, h) == copy' = [copy EXCEPT ![c] = [copy[c] EXCEPT !.at = "sent", !.hash = h]]

\* A call to an EVM chain is sent with fixed gas, whatever it will do.
SendEvm(c) ==
  /\ MaySend(c) /\ ActionOf(c) \in Evm
  /\ txs' = Transaction(c, "pending")
  /\ Sent(c, Len(txs) + 1)
  /\ UNCHANGED <<store, queue, received, ready, applied, premature, answerVars,
                 faults, crashes, diskVars, running>>

\* A call to an endpoint is executed by the send, its answer kept in memory.
SendEndpoint(c) ==
  /\ MaySend(c) /\ ActionOf(c) \in (ready \ Evm) \ applied
  /\ txs' = Transaction(c, "ok")
  /\ applied' = applied \cup {ActionOf(c)}
  /\ held' = held \cup {ActionOf(c)}
  /\ Sent(c, Len(txs) + 1)
  /\ UNCHANGED <<store, queue, received, ready, premature, emitted, dropped,
                 faults, crashes, diskVars, running>>

\* Or the client executes nothing, and keeps an answer it made up.
SendSynthetic(c) ==
  /\ MaySend(c) /\ ActionOf(c) \in Fallback
  /\ txs' = Transaction(c, "synthetic")
  /\ held' = held \cup {ActionOf(c)}
  /\ Sent(c, Len(txs) + 1)
  /\ UNCHANGED <<store, queue, received, ready, applied, premature, emitted, dropped,
                 faults, crashes, diskVars, running>>

\* An endpoint refuses a call it is not ready for, or has run before, with an
\* error like any other; so does a client that may not make an answer up ...
SendRefused(c) ==
  /\ MaySend(c) /\ ActionOf(c) \notin Evm \cup (ready \ applied)
  /\ premature' = premature \cup ({ActionOf(c)} \ ready)
  /\ Fails(c, 0)
  /\ UNCHANGED <<queue, received, txs, ready, applied, answerVars, faults, crashes>>

\* ... or with one that says that the call is already handled.
SendAlreadyHandled(c) ==
  /\ MaySend(c) /\ ActionOf(c) \in applied \ Evm
  /\ Finish(c, "Done")
  /\ UNCHANGED <<queue, received, chainVars, answerVars, faults, crashes>>

\* The send returns an error: nothing happened, or an EVM node has the
\* transaction all the same, or an endpoint ran the call and no answer is kept.
SendFails(c) ==
  /\ MaySend(c)
  /\ Fault
  /\ Fails(c, 0)
  /\ \/ UNCHANGED <<txs, applied>>
     \/ /\ ActionOf(c) \in Evm
        /\ txs' = Transaction(c, "pending")
        /\ UNCHANGED applied
     \/ /\ ActionOf(c) \in (ready \ Evm) \ applied
        /\ txs' = Transaction(c, "ok")
        /\ applied' = applied \cup {ActionOf(c)}
  /\ UNCHANGED <<queue, received, ready, premature, answerVars, crashes>>

RecordHash(c) ==
  /\ copy[c].at = "sent"
  /\ Put(c, "InFlight", Moved(c, "waiting"))
  /\ UNCHANGED <<queue, received, chainVars, answerVars, faults, crashes>>
-----------------------------------------------------------------------------
(* WaitReceipt and what follows it.                                        *)

Outcome(c) == txs[copy[c].hash].outcome
Waits(c) == copy[c].at = "waiting"

\* Mutant of Succeeds: receipt.Success is not looked at.
SucceedsOnceMined(c) ==
  /\ Waits(c) /\ ActionOf(c) \in Evm /\ Outcome(c) # "pending"
  /\ Finish(c, "Done")
  /\ UNCHANGED <<queue, received, chainVars, answerVars, faults, crashes>>

Succeeds(c) ==
  /\ Waits(c) /\ ActionOf(c) \in Evm /\ Outcome(c) = "ok"
  /\ Finish(c, "Done")
  /\ UNCHANGED <<queue, received, chainVars, answerVars, faults, crashes>>

\* The client hands the answer to the listener, whose channel may be full and
\* which after a restart subscribes only when the recovery is under way.
Answers(c) ==
  /\ Waits(c) /\ ActionOf(c) \in held
  /\ held' = held \ {ActionOf(c)}
  /\ \/ emitted' = emitted \cup {ActionOf(c)} /\ UNCHANGED dropped
     \/ dropped' = dropped \cup {ActionOf(c)} /\ UNCHANGED emitted
  /\ copy' = [copy EXCEPT ![c] = Moved(c, "answered")]
  /\ UNCHANGED <<store, queue, received, chainVars, faults, crashes, diskVars,
                 running>>

Completes(c) ==
  /\ copy[c].at = "answered"
  /\ Finish(c, "Done")
  /\ UNCHANGED <<queue, received, chainVars, answerVars, faults, crashes>>

\* A reverted transaction, and an answer the client does not have: the copy
\* keeps its hash, so the next attempt waits for the same transaction.
Reverted(c) ==
  /\ Waits(c)
  /\ \/ ActionOf(c) \in Evm /\ Outcome(c) = "reverted"
     \/ ActionOf(c) \notin Evm \cup held
  /\ Fails(c, copy[c].hash)
  /\ UNCHANGED <<queue, received, chainVars, answerVars, faults, crashes>>

\* No receipt in time: on EVM the hash is forgotten and the call sent again.
TimesOut(c) ==
  /\ Waits(c)
  /\ Fault
  /\ Fails(c, IF ActionOf(c) \in Evm THEN 0 ELSE copy[c].hash)
  /\ UNCHANGED <<queue, received, chainVars, answerVars, crashes>>

\* Mutant of WaitFails: the answer is taken from memory before it is final.
WaitFailsWithAnswer(c) ==
  /\ Waits(c)
  /\ Fault
  /\ Fails(c, copy[c].hash)
  /\ held' = held \ {ActionOf(c)}
  /\ UNCHANGED <<queue, received, chainVars, emitted, dropped, crashes>>

\* Any other error of the node: the hash is kept.
WaitFails(c) ==
  /\ Waits(c)
  /\ Fault
  /\ Fails(c, copy[c].hash)
  /\ UNCHANGED <<queue, received, chainVars, answerVars, crashes>>

BackoffEnds(c) ==
  /\ copy[c].at = "backoff"
  /\ PutAnyway(c, "Pending", Moved(c, "requeueing"))
  /\ UNCHANGED <<queue, received, chainVars, answerVars, faults, crashes>>
-----------------------------------------------------------------------------
(* The chains, and the crash.                                              *)

\* Nobody looks before the action is enqueued.
BecomesReady(a) ==
  /\ a \in Enqueued
  /\ ready' = ready \cup {a} /\ a \notin ready
  /\ UNCHANGED <<store, copy, queue, received, txs, applied, premature,
                 answerVars, faults, crashes, diskVars, running>>

Mine(h) ==
  LET a == txs[h].action
      succeeds == a \in ready \ applied
  IN /\ txs[h].outcome = "pending"
     /\ txs' = [txs EXCEPT ![h].outcome = IF succeeds THEN "ok" ELSE "reverted"]
     /\ applied' = IF succeeds THEN applied \cup {a} ELSE applied
     /\ premature' = IF a \in ready THEN premature ELSE premature \cup {a}
     /\ UNCHANGED <<store, copy, queue, received, ready, answerVars, faults,
                    crashes, diskVars, running>>

(* Everything in memory is lost.  The new process reads the file and pushes*)
(* the actions that are not finished (in order of creation; here: any).    *)
\* Mutant of Recovered: a finished action is recovered as well.
RecoveredAlways(a) ==
  IF file[a].status = "absent" THEN NoCopy
  ELSE [at |-> "starting", attempts |-> file[a].attempts, hash |-> file[a].hash]

Recovered(a) ==
  IF file[a].status \in Terminal THEN NoCopy
  ELSE [at |-> "starting", attempts |-> file[a].attempts, hash |-> file[a].hash]

Crash ==
  /\ running /\ crashes < MaxCrashes
  /\ crashes' = crashes + 1
  /\ running' = parses
  /\ store' = file
  /\ copy' = [c \in CopyId |-> IF c[2] = 0 THEN Recovered(c[1]) ELSE NoCopy]
  /\ queue' = <<>>
  /\ held' = {}
  /\ UNCHANGED <<received, chainVars, emitted, dropped, faults, diskVars>>

Block == \E h \in DOMAIN txs : Mine(h)

Sends(c) ==
  \/ Resume(c) \/ SendEvm(c) \/ SendEndpoint(c) \/ SendSynthetic(c) \/ SendRefused(c)
  \/ SendAlreadyHandled(c) \/ SendFails(c) \/ RecordHash(c)

EndsWait(c) ==
  \/ Succeeds(c) \/ Answers(c) \/ Completes(c)
  \/ Reverted(c) \/ TimesOut(c) \/ WaitFails(c)

Next ==
  \/ \E a \in Action : Receive(a) \/ BecomesReady(a)
  \/ \E c \in CopyId :
       Record(c) \/ Push(c) \/ Sends(c) \/ EndsWait(c) \/ BackoffEnds(c)
  \/ Take
  \/ NoClient
  \/ Block
  \/ Crash

Spec == Init /\ [][Next]_vars
-----------------------------------------------------------------------------
(* Fairness.  Goroutines run: the workers, the backoff timers, the recovery*)
(* and the event loop once it has looked an action up.  Chains mine what   *)
(* they were sent.  Nobody owes an event, a fault, a crash or readiness.   *)
Fairness ==
  /\ WF_vars(Take) /\ WF_vars(NoClient)
  /\ \A c \in CopyId :
       /\ WF_vars(Record(c)) /\ WF_vars(Push(c)) /\ WF_vars(Sends(c))
       /\ WF_vars(EndsWait(c)) /\ WF_vars(BackoffEnds(c))
  /\ WF_vars(Block)

FairSpec == Spec /\ Fairness
-----------------------------------------------------------------------------
(* Safety.                                                                 *)

Live(a) == {c \in CopyId : ActionOf(c) = a /\ copy[c].at # "none"}
IsStranded(a) == \E c \in Live(a) : copy[c].at = "stranded"
Carried(a) == \E c \in Live(a) : copy[c].at # "stranded"

(* Nothing is forgotten: an action the store holds as unfinished is in the *)
(* hands of some goroutine, whatever failed, crashed or was enqueued again,*)
(* or else a write of the file failed for it since the relayer started.    *)
NotStranded ==
  \A a \in Action : store[a].status \notin Terminal => Carried(a) \/ IsStranded(a)

(* An action recorded as done has taken effect on its chain, or a client   *)
(* that may do so has made its answer up: that one is done without having  *)
(* been executed.                                                          *)
MadeUp(a) == \E h \in DOMAIN txs : txs[h] = [action |-> a, outcome |-> "synthetic"]

AppliedOrMadeUp(a) == a \in applied \/ (a \in Fallback /\ MadeUp(a))

DoneIsApplied == \A a \in Action : store[a].status = "Done" => AppliedOrMadeUp(a)

(* Retries are bounded through crashes: every Enqueue allows MaxRetries    *)
(* sends, and a crash at most one more, that of the last attempt when its  *)
(* hash did not reach the store.                                           *)
SentFor(a) == {h \in DOMAIN txs : txs[h].action = a}

SendsBounded ==
  \A a \in Action : Cardinality(SentFor(a)) <= MaxRetries * received[a] + crashes

(* No send the file does not know of: as long as it has the action, and the*)
(* action was enqueued once, it has counted every attempt made, so that a  *)
(* restarted relayer goes on counting from there.                          *)
SendsCounted ==
  \A a \in Action :
    received[a] <= 1 /\ file[a].status # "absent"
      => Cardinality(SentFor(a)) <= file[a].attempts

(* An action enqueued once stays done: no backoff, recovery or repeated    *)
(* event sends it again, only a restart from a file that has not got so far*)
(* takes it up.  (With two copies the slower one may undo it.)             *)
DoneIsFinal ==
  [][\A a \in Action :
       store[a].status = "Done" /\ received[a] <= 1
         => \/ store'[a].status = "Done"
            \/ crashes' # crashes /\ file[a].status # "Done"]_vars
-----------------------------------------------------------------------------
(* The inductive invariant behind the safety theorems (SchedulerProofs).   *)

\* The channel holds the queued copies, each once.
QueueHoldsQueued ==
  /\ \A i \in DOMAIN queue : copy[queue[i]].at = "queued"
  /\ \A i, j \in DOMAIN queue : queue[i] = queue[j] => i = j

\* A copy exists only under a name that was given out.
NamesAreGiven == \A c \in CopyId : copy[c].at # "none" => c[2] <= received[c[1]]

\* An action enqueued at most once has at most one copy, and none when done.
AtMostOneCopy ==
  \A a \in Action :
    /\ received[a] = 0 => Live(a) = {} /\ store[a] = Absent
    /\ received[a] <= 1 => \A c, d \in Live(a) : c = d
    /\ received[a] <= 1 /\ store[a].status = "Done" => Live(a) = {}

\* The file is the store as it was: it is behind, never ahead.
FileIsBehind ==
  \A a \in Action :
    /\ received[a] = 0 => file[a] = Absent
    /\ file[a].status = "Done" => AppliedOrMadeUp(a)
    /\ received[a] <= 1 /\ file[a].status = "Done" => store[a].status = "Done"

\* A hash, in a copy, the store or the file, is that of a transaction for its
\* action.
OwnHash(a, h) == h # 0 => h \in DOMAIN txs /\ txs[h].action = a

HashesAreOwn ==
  /\ \A c \in CopyId :
       /\ OwnHash(ActionOf(c), copy[c].hash)
       /\ copy[c].at \in {"sent", "waiting"} => copy[c].hash # 0
  /\ \A a \in Action : OwnHash(a, store[a].hash) /\ OwnHash(a, file[a].hash)

\* What succeeded has been applied; what was answered too, or the answer is
\* made up.
EffectsAreReal ==
  /\ \A h \in DOMAIN txs : txs[h].outcome = "ok" => txs[h].action \in applied
  /\ \A a \in held : AppliedOrMadeUp(a)

AnswersAreReal == \A c \in CopyId : copy[c].at = "answered" => AppliedOrMadeUp(ActionOf(c))

\* Whoever carries an action enqueued once, and the store, know of every send;
\* a copy about to send has been counted everywhere.
Known(a, n) ==
  /\ store[a].status # "absent" => n <= store[a].attempts
  /\ file[a].status # "absent" => n <= file[a].attempts
  /\ \A c \in Live(a) : copy[c].at # "stranded" => n <= copy[c].attempts

SendsKnown ==
  \A a \in Action :
    /\ received[a] = 0 => SentFor(a) = {}
    /\ received[a] <= 1 =>
         /\ Known(a, Cardinality(SentFor(a)))
         /\ \A c \in Live(a) :
              copy[c].at = "sending" => Known(a, Cardinality(SentFor(a)) + 1)

(* The strengthening of the safety invariants that every step preserves.   *)
IInv ==
  /\ TypeOK
  /\ QueueHoldsQueued
  /\ NamesAreGiven
  /\ AtMostOneCopy
  /\ FileIsBehind
  /\ HashesAreOwn
  /\ EffectsAreReal
  /\ AnswersAreReal
  /\ NotStranded
  /\ DoneIsApplied
  /\ SendsKnown
-----------------------------------------------------------------------------
(* Liveness, under FairSpec, of a scheduler that has a client for every    *)
(* action.  One without a client is never done and never abandoned: it     *)
(* comes back for ever, and its attempts are not counted.                  *)
AllServed == Unserved = {}

(* The scheduler comes to rest: from some moment on nobody carries an      *)
(* action, and each is done or abandoned for good, but for those stranded  *)
(* by a failed write: they wait for a restart.                             *)
Settles ==
  AllServed
    => <>[](\A a \in Action :
              ~Carried(a) /\ (store[a].status \in Terminal \/ IsStranded(a)))

(* With fewer faults and crashes than MaxRetries, an action that reached   *)
(* the store, and whose client makes no answer up, is applied, unless its  *)
(* call was made before it could succeed (a reverted transaction is never  *)
(* sent again), or a failed write strands it, until the next restart, or   *)
(* lets a restart forget it.                                               *)
Delivered ==
  AllServed
    => \A a \in Action \ Fallback :
         store[a].status # "absent"
           ~> a \in premature \cup applied \/ IsStranded(a) \/ store[a].status = "absent"

(* The answer of an executed call that its client holds becomes an event,  *)
(* unless a crash or a listener that cannot take it loses it: it is nowhere*)
(* else; and nobody asks for it when a write fails for its action.         *)
(* (As above: within the budget, of a client that makes no answer up.)     *)
AnswersEmitted ==
  AllServed
    => \A a \in Action \ (Evm \cup Fallback), k \in 0..MaxCrashes :
         a \in held \ premature /\ crashes = k
           ~> a \in emitted \cup dropped \/ IsStranded(a) \/ crashes > k
=============================================================================
