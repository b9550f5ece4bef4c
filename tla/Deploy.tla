------------------------------- MODULE Deploy -------------------------------
(***************************************************************************)
(* Running the deployment scripts: one developer runs the scripts of a set *)
(* of chains one after the other, any of them again, with or without        *)
(* FORCE_REDEPLOY, and renders relayer configurations from the records.     *)
(* A run may be cut anywhere, also between a contract's creation and the    *)
(* write of the record; the bytecode check may fail; a chain may be reset   *)
(* under a record that survives, and another system's script may create     *)
(* contracts with the same deployer.                                        *)
(*                                                                          *)
(* An address is the position of a contract among those its deployer        *)
(* created on the chain (CREATE derives it from the deployer's nonce; the   *)
(* nonces other transactions use up are left out), so a reset chain hands   *)
(* out the same addresses again.                                            *)
(***************************************************************************)
EXTENDS DeployScripts, FiniteSets

CONSTANT
  Scopes  \* the settings checked: records of the fields
          \*   files    the deployment records, and so scripts, in play
          \*   modes    the proof adapter modes a run may choose
          \*   configs  the relayer configurations that are rendered
          \*   runs     how many runs at most
          \*   faults   how many forced runs and faults at most

\* What a setting names, it contains.
ASSUME ScopesAssumption ==
  \A s \in Scopes :
    /\ s.files \subseteq Records /\ s.modes \subseteq AdapterModes
    /\ s.configs \subseteq ConfigNames
    /\ s.runs \in Nat /\ s.faults \in Nat
    /\ \A f \in s.files : Peers(f) \subseteq s.files
    /\ \A name \in s.configs :
         \A a \in ConfigKeys(name) \cup OptionalKeys(name) : a[1] \in s.files

VARIABLES
  scope,    \* the setting
  record,   \* file -> the addresses recorded, by key
  chain,    \* file -> the contracts made on its chain and their settings
  run,      \* the script that is running
  last,     \* file -> proof mode of the last run
  seen,     \* file -> the other records as read when its last run started
  settled,  \* the files whose last run finished and whose state stands since
  mixed,    \* the files whose contracts may be of several generations
  wiped,    \* the files whose chain was reset
  switched, \* the files run in more than one proof mode
  cuts,     \* file -> how many runs were cut while paying deposits
  config,   \* the relayer configuration last rendered
  left      \* the runs and faults left

vars == <<scope, record, chain, run, last, seen, settled, mixed, wiped,
          switched, cuts, config, left>>

Fixed  == 0       \* a value the script itself fixes
None   == <<>>    \* a function with no keys
NoRun  == [file |-> Absent, pc |-> 0, forced |-> FALSE, mode |-> Absent, mem |-> None, sound |-> TRUE]
Fresh  == [made |-> <<>>, settings |-> {}]
Files  == scope.files

Init ==
  /\ scope \in Scopes
  /\ record = [f \in Files |-> None]
  /\ chain = [f \in Files |-> Fresh]
  /\ run = NoRun
  /\ last = [f \in Files |-> Absent]
  /\ seen = [f \in Files |-> [g \in Peers(f) |-> None]]
  /\ settled = {} /\ mixed = {} /\ wiped = {} /\ switched = {}
  /\ cuts = [f \in Files |-> 0]
  /\ config = None
  /\ left = [runs |-> scope.runs, faults |-> scope.faults]

(***************************************************************************)
(* What the running script sees.                                           *)
(***************************************************************************)
Idle     == run = NoRun
Me       == run.file
Here     == chain[Me]
Plan     == Scripts[Me][run.mode]
AtStep   == ~Idle /\ run.pc \in DOMAIN Plan
Now      == Plan[run.pc]
InRecord == Now.key \in DOMAIN run.mem

Live(f, a)    == a \in DOMAIN chain[f].made
KindOf(f, a)  == chain[f].made[a].key
Dependents(f) == {g \in Files : f \in Peers(g)}

Held(f, on, slot) ==
  {x.value : x \in {y \in chain[f].settings : y.on = on /\ y.slot = slot}}

\* The step is skipped: its flag is recorded and the run is not forced.
Flagged == Now.flag \in DOMAIN run.mem /\ ~run.forced

\* The value a setting is to get; a remote contract that is not recorded has none.
ValuesOf(step, mem, peers) ==
  IF step.key = Absent THEN {Fixed}
  ELSE LET from == IF step.from = Absent THEN mem ELSE peers[step.from]
       IN IF step.key \in DOMAIN from THEN {from[step.key]} ELSE {}

Spend(n) == left.faults >= n /\ left' = [left EXCEPT !.faults = @ - n]

(***************************************************************************)
(* Starting, finishing and breaking off a run.                             *)
(***************************************************************************)
Start(f) ==
  /\ Idle
  /\ left.runs > 0
  /\ \E forced \in BOOLEAN, mode \in Modes(f) \cap (scope.modes \cup {Absent}) :
       LET read     == [g \in Peers(f) |-> record[g]]
           switches == last[f] \notin {Absent, mode}
           modes    == IF switches THEN switched \cup {f} ELSE switched
       IN /\ forced => left.faults > 0
          /\ left' = [runs |-> left.runs - 1,
                      faults |-> left.faults - (IF forced THEN 1 ELSE 0)]
          /\ run' = [file |-> f, pc |-> 1, forced |-> forced, mode |-> mode,
                     mem |-> record[f], sound |-> TRUE]
          /\ last' = [last EXCEPT ![f] = mode]
          /\ seen' = [seen EXCEPT ![f] = read]
          /\ settled' = IF forced \/ switches \/ read # seen[f]
                        THEN settled \ {f} ELSE settled
          /\ switched' = modes
          /\ mixed' = IF f \in modes /\ (forced \/ f \in wiped) THEN mixed \cup {f} ELSE mixed
  /\ UNCHANGED <<scope, record, chain, wiped, cuts, config>>

Finish ==
  /\ ~Idle
  /\ run.pc = Len(Plan) + 1
  /\ run' = NoRun
  /\ settled' = settled \cup {Me}
  /\ mixed' = IF run.forced /\ run.sound /\ Me \notin switched
              THEN mixed \ {Me} ELSE mixed
  /\ UNCHANGED <<scope, record, chain, last, seen, wiped, switched, cuts, config, left>>

\* The run ends here.  A forced run that recorded only some of its new
\* contracts leaves two generations side by side.
BreakOff ==
  /\ run' = NoRun
  /\ settled' = settled \ {Me}
  /\ mixed' = IF run.forced /\ Eager(Me) THEN mixed \cup {Me} ELSE mixed

Cut ==
  /\ ~Idle
  /\ Spend(1)
  /\ BreakOff
  /\ cuts' = [cuts EXCEPT ![Me] =
                @ + (IF AtStep /\ Now.flag = "__settlement_seeded" THEN 1 ELSE 0)]
  /\ UNCHANGED <<scope, record, chain, last, seen, wiped, switched, config>>

(***************************************************************************)
(* Contracts.                                                              *)
(***************************************************************************)
Advance == run' = [run EXCEPT !.pc = @ + 1]

\* Mutant of Reused: the record is believed without a look at the bytecode.
ReusedUnseen == InRecord /\ ~run.forced

\* The recorded contract is used again: deployIfMissing looks for bytecode at
\* the address, the ink! script takes the record's word.
Reused ==
  InRecord /\ ~run.forced /\ (Now.op = "deploy" => Live(Me, run.mem[Now.key]))

\* deployIfMissing, first half: recorded, not forced, and bytecode there --
\* whatever contract the bytecode is of.
Keep ==
  /\ AtStep /\ Now.op = "deploy"
  /\ Reused
  /\ Advance
  /\ UNCHANGED <<scope, record, chain, last, seen, settled, mixed, wiped,
                 switched, cuts, config, left>>

NewAddress == Len(Here.made) + 1

\* The constructor of the signer registry fixes its quorum.
Created ==
  [made     |-> Append(Here.made,
                  [key |-> Now.key,
                   args |-> [i \in DOMAIN Now.needs |-> run.mem[Now.needs[i]]]]),
   settings |-> Here.settings \cup
                  (IF Now.key = "gpactSignerRegistry"
                   THEN {[on |-> NewAddress, slot |-> "quorum", value |-> Fixed]}
                   ELSE {})]

WithKey(addresses, key, a) ==
  [k \in DOMAIN addresses \cup {key} |-> IF k = key THEN a ELSE addresses[k]]

\* A record others registered remote contracts from changes under them.
Replaced(old) ==
  IF InRecord /\ run.mem[Now.key] # NewAddress THEN old \cup Dependents(Me) ELSE old

\* The contract is created and the record written when its receipt arrives.
DeployAndRecord ==
  LET mem == WithKey(run.mem, Now.key, NewAddress)
  IN /\ chain' = [chain EXCEPT ![Me] = Created]
     /\ run' = [run EXCEPT !.pc = @ + 1, !.mem = mem]
     /\ record' = [record EXCEPT ![Me] = mem]

DeployMissing ==
  /\ AtStep /\ Now.op = "deploy"
  /\ ~Reused
  /\ DeployAndRecord
  /\ mixed' = Replaced(mixed)
  /\ UNCHANGED <<scope, last, seen, settled, wiped, switched, cuts, config, left>>

\* getCode fails and counts as no bytecode: a live contract is deployed again.
DeployUnread ==
  /\ AtStep /\ Now.op = "deploy"
  /\ Reused
  /\ Spend(1)
  /\ DeployAndRecord
  /\ mixed' = Replaced(mixed \cup {Me})
  /\ settled' = settled \ {Me}
  /\ UNCHANGED <<scope, last, seen, wiped, switched, cuts, config>>

\* Mutant of ReceiptLost: the address is recorded before the receipt arrives.
RecordedTooEarly ==
  /\ AtStep /\ Now.op \in {"deploy", "instantiate"}
  /\ ~Reused
  /\ Spend(1)
  /\ record' = [record EXCEPT ![Me] = WithKey(@, Now.key, NewAddress)]
  /\ BreakOff
  /\ UNCHANGED <<scope, chain, last, seen, wiped, switched, cuts, config>>

\* The contract is on chain, but the run ends before the record is written.
ReceiptLost ==
  /\ AtStep /\ Now.op \in {"deploy", "instantiate"}
  /\ ~Reused
  /\ Spend(1)
  /\ chain' = [chain EXCEPT ![Me] = Created]
  /\ BreakOff
  /\ UNCHANGED <<scope, record, last, seen, wiped, switched, cuts, config>>

\* instantiateContract: what is recorded is used without looking at the chain.
Instantiate ==
  /\ AtStep /\ Now.op = "instantiate"
  /\ IF Reused
     THEN Advance /\ UNCHANGED chain
     ELSE /\ chain' = [chain EXCEPT ![Me] = Created]
          /\ run' = [run EXCEPT !.pc = @ + 1, !.mem = WithKey(@, Now.key, NewAddress)]
  /\ UNCHANGED <<scope, record, last, seen, settled, mixed, wiped, switched,
                 cuts, config, left>>

(***************************************************************************)
(* Settings.  Reading one from an address that holds another contract, or  *)
(* none, throws; only the enrolment of the ATOM server and judges is       *)
(* caught.                                                                 *)
(***************************************************************************)
On         == run.mem[Now.on]
OnIsRight  == Live(Me, On) /\ KindOf(Me, On) = Now.on
OnSetting  == AtStep /\ Now.op \in Settings
Values     == ValuesOf(Now, run.mem, seen[Me])
Old        == Held(Me, On, Now.slot)

WithSetting(values) ==
  {x \in Here.settings : ~(x.on = On /\ x.slot = Now.slot)}
    \cup {[on |-> On, slot |-> Now.slot, value |-> v] : v \in values}

\* callContract sends whatever the contract holds; a deposit adds up.
Overwritten == Values
Deposited   == {IF Old = {} THEN 1 ELSE 1 + CHOOSE v \in Old : TRUE}

NewValues ==
  CASE Now.op = "point"                -> Values
    [] Now.op = "call"                 -> Overwritten
    [] Now.op \in {"enlist", "enrol"}  -> Old \cup Values
    [] Now.op \in {"claim", "bind"}    -> IF Old = {} THEN Values ELSE Old
    [] Now.op = "pay"                  -> Deposited

Refused == ~OnIsRight \/ (Now.op = "bind" /\ Old \notin {{}, Values})

Configure ==
  /\ OnSetting /\ (Flagged \/ ~Refused)
  /\ chain' = IF Flagged THEN chain
              ELSE [chain EXCEPT ![Me].settings = WithSetting(NewValues)]
  /\ Advance
  /\ UNCHANGED <<scope, record, last, seen, settled, mixed, wiped, switched,
                 cuts, config, left>>

Throw ==
  /\ OnSetting /\ Now.op # "enrol" /\ ~Flagged /\ Refused
  /\ BreakOff
  /\ UNCHANGED <<scope, record, chain, last, seen, wiped, switched, cuts, config, left>>

\* The call is refused, or fails: the catch block only warns, and the flag is
\* written all the same.
EnrolFails ==
  /\ OnSetting /\ Now.op = "enrol" /\ ~Flagged
  /\ IF Refused THEN UNCHANGED left ELSE Spend(1)
  /\ run' = [run EXCEPT !.pc = @ + 1, !.sound = FALSE]
  /\ mixed' = mixed \cup {Me}
  /\ UNCHANGED <<scope, record, chain, last, seen, settled, wiped, switched, cuts, config>>

NotedKeys == {Now.needs[i] : i \in DOMAIN Now.needs}

WithNotes(addresses) ==
  [k \in DOMAIN addresses \cup NotedKeys |->
     IF k \in DOMAIN addresses THEN addresses[k] ELSE Fixed]

\* Mutant of WriteRecord: the flags stay in memory.
FlagsNotWritten ==
  /\ AtStep /\ Now.op = "note"
  /\ run' = [run EXCEPT !.pc = @ + 1, !.mem = WithNotes(@)]
  /\ UNCHANGED <<scope, record, chain, last, seen, settled, mixed, wiped, switched,
                 cuts, config, left>>

\* Mutant of WriteRecord: the script's own copy stays as it was.
NotesNotKept ==
  /\ AtStep /\ Now.op = "note"
  /\ run' = [run EXCEPT !.pc = @ + 1]
  /\ record' = [record EXCEPT ![Me] = WithNotes(run.mem)]
  /\ UNCHANGED <<scope, chain, last, seen, settled, mixed, wiped, switched,
                 cuts, config, left>>

\* Keys the script sets in the record itself, and the ink! script's only write.
WriteRecord ==
  /\ AtStep /\ Now.op = "note"
  /\ run' = [run EXCEPT !.pc = @ + 1, !.mem = WithNotes(@)]
  /\ record' = [record EXCEPT ![Me] = WithNotes(run.mem)]
  /\ UNCHANGED <<scope, chain, last, seen, settled, mixed, wiped, switched,
                 cuts, config, left>>

(***************************************************************************)
(* Between runs.                                                           *)
(***************************************************************************)
\* The chain is reset; the record is not.  Its flags still say "done", addresses
\* not in script order may come to name other contracts, and the ink! script
\* does not notice at all.
ResetChain(f) ==
  /\ Idle
  /\ chain[f] # Fresh
  /\ Spend(1)
  /\ chain' = [chain EXCEPT ![f] = Fresh]
  /\ wiped' = wiped \cup {f}
  /\ settled' = settled \ {f}
  /\ mixed' = IF DOMAIN record[f] \cap Flags # {} \/ f \in switched \/ ~Eager(f)
              THEN mixed \cup {f} ELSE mixed
  /\ UNCHANGED <<scope, record, run, last, seen, switched, cuts, config>>

\* Another system's script creates a contract, perhaps at a recorded address.
DeployOther(f) ==
  /\ Idle
  /\ Spend(1)
  /\ chain' = [chain EXCEPT ![f].made = Append(@, [key |-> "other", args |-> <<>>])]
  /\ mixed' = IF Len(chain[f].made) + 1 \in Range(record[f]) THEN mixed \cup {f} ELSE mixed
  /\ UNCHANGED <<scope, record, run, last, seen, settled, wiped, switched, cuts, config>>

\* A renderer throws unless every address it requires is recorded.
Render(name) ==
  /\ Idle
  /\ \A a \in ConfigKeys(name) : a[2] \in DOMAIN record[a[1]]
  /\ config' = [a \in ConfigKeys(name) \cup {b \in OptionalKeys(name) : b[2] \in DOMAIN record[b[1]]}
                  |-> record[a[1]][a[2]]]
  /\ UNCHANGED <<scope, record, chain, run, last, seen, settled, mixed, wiped,
                 switched, cuts, left>>

Next ==
  \/ \E f \in Files : Start(f) \/ ResetChain(f) \/ DeployOther(f)
  \/ Finish \/ Cut
  \/ Keep \/ DeployMissing \/ DeployUnread \/ ReceiptLost \/ Instantiate
  \/ Configure \/ Throw \/ EnrolFails \/ WriteRecord
  \/ \E name \in scope.configs : Render(name)

Spec == Init /\ [][Next]_vars

(***************************************************************************)
(* Properties.                                                             *)
(***************************************************************************)
Address == Nat

Addressed(m) == DOMAIN m \subseteq Name /\ m \in [DOMAIN m -> Address]

Contracts == [made     : Seq([key : Name, args : Seq(Address)]),
              settings : SUBSET [on : Address, slot : Name, value : Address]]

\* What a setting was made on exists.
SoundChain(c) == c \in Contracts /\ \A x \in c.settings : x.on \in DOMAIN c.made

RecordsTypeOK ==
  /\ DOMAIN record = Files /\ DOMAIN seen = Files
  /\ \A f \in Files :
       /\ Addressed(record[f])
       /\ DOMAIN seen[f] = Peers(f) /\ \A g \in Peers(f) : Addressed(seen[f][g])

ChainsTypeOK == DOMAIN chain = Files /\ \A f \in Files : SoundChain(chain[f])

RunTypeOK ==
  /\ run \in [file : Files \cup {Absent}, pc : Nat, forced : BOOLEAN, mode : AnyMode,
              mem : {run.mem}, sound : BOOLEAN]
  /\ Addressed(run.mem)
  /\ ~Idle => /\ Me \in Files /\ run.mode \in Modes(Me)
              /\ run.pc \in 1..(Len(Plan) + 1)
              /\ DOMAIN record[Me] \subseteq DOMAIN run.mem

HistoryTypeOK ==
  /\ last \in [Files -> AnyMode] /\ cuts \in [Files -> Nat]
  /\ settled \cup mixed \cup wiped \cup switched \subseteq Files
  /\ left \in [runs : 0..scope.runs, faults : 0..scope.faults]

\* Type correctness.  A running script's memory holds at least what it read
\* from the record, contracts' constructors took addresses, and what a setting
\* was made on exists.
TypeOK ==
  /\ scope \in Scopes
  /\ RecordsTypeOK /\ ChainsTypeOK /\ RunTypeOK /\ HistoryTypeOK

Deployed(f, step) ==
  /\ step.key \in DOMAIN record[f]
  /\ Live(f, record[f][step.key])
  /\ chain[f].made[record[f][step.key]] =
       [key |-> step.key, args |-> [i \in DOMAIN step.needs |-> record[f][step.needs[i]]]]

Holds(f, step) ==
  LET values == ValuesOf(step, record[f], seen[f])
      held   == Held(f, record[f][step.on], step.slot)
  IN CASE step.op \in {"deploy", "instantiate"}      -> Deployed(f, step)
       [] step.op \in {"point", "call", "bind", "claim"} -> values \in {held, {}}
       [] step.op \in {"enlist", "enrol"}            -> values \subseteq held
       [] step.op = "pay"                            -> \E n \in 1..(1 + cuts[f]) : held = {n}
       [] step.op = "note"                           -> TRUE

\* Once a script has finished, the recorded contracts exist, were built with
\* one another's recorded addresses and carry every setting, and a deposit was
\* paid once, plus at most once for each run that was cut while paying --
\* however many earlier runs were cut, also between a contract's creation and
\* its record, and across resets of the chain.  It is claimed of the files
\* that are not mixed: deployIfMissing takes any bytecode at a recorded address
\* for the contract, so a forced run cut short, a failed bytecode read, a reset
\* with flags recorded and the like are not repaired by running again.
WiredWhenDone ==
  \A f \in settled \ mixed :
    LET script == Scripts[f][last[f]]
    IN \A i \in DOMAIN script : Holds(f, script[i])

\* "Scripts are IDEMPOTENT ... re-run-safe" (common.ts): running a finished
\* script again, not forced and in the same mode, neither creates a contract,
\* nor changes a setting or the record, nor fails -- unless a fault is spent.
RerunIsSilent ==
  [][ \A f \in settled :
        f = Me /\ left' = left
          => record'[f] = record[f] /\ chain'[f] = chain[f] /\ f \in settled' ]_vars

\* A relayer configuration never names an address without the contract of that
\* name: an address is recorded only after the receipt of its creation, so the
\* record can be rendered at any time, also amid cut and forced runs -- unless
\* a chain was reset under its record.
ConfigNamesContracts ==
  \A a \in DOMAIN config :
    a[1] \notin wiped => Live(a[1], config[a]) /\ KindOf(a[1], config[a]) = a[2]

(***************************************************************************)
(* The inductive invariant behind ConfigNamesContracts (DeployProofs).     *)
(***************************************************************************)
\* The addresses are those of contracts of their names.
NamesContracts(c, addresses) ==
  \A k \in DOMAIN addresses \ NotAddresses :
    addresses[k] \in DOMAIN c.made /\ c.made[addresses[k]].key = k

RecordsName == \A f \in Files \ wiped : NamesContracts(chain[f], record[f])
MemoryNames == ~Idle /\ Me \notin wiped => NamesContracts(Here, run.mem)

\* A running script knows the address of every contract it is past.
KnowsMade == ~Idle => MadeBefore(Plan, run.pc) \subseteq DOMAIN run.mem

ConfigOfFiles == \A a \in DOMAIN config : a[1] \in Files

IInv ==
  /\ TypeOK
  /\ KnowsMade
  /\ RecordsName /\ MemoryNames
  /\ ConfigOfFiles /\ ConfigNamesContracts
=============================================================================
