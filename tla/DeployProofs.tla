----------------------------- MODULE DeployProofs -----------------------------
(***************************************************************************)
(* Proofs about Deploy, for every setting and for all scripts that satisfy *)
(* the assumptions of DeployScripts: no proof opens the scripts.           *)
(*                                                                         *)
(* ConfigNamesContracts.  A contract once made stays where it is until its *)
(* chain is reset, so "the record names contracts" has to be looked at     *)
(* only when an address is written.  It is written from the memory of the  *)
(* running script, which therefore names contracts too, and there a new    *)
(* address gets in only with the contract.  What a script notes are keys   *)
(* of no contract, or of contracts it knows (KnowsMade).                   *)
(*                                                                         *)
(* WiredWhenDone and RerunIsSilent.  What the steps a script is past have  *)
(* done, its later steps leave alone (RunDone, RunWired), so at the end    *)
(* all of it is done (SettledDone, SettledWired).  A step that passes over *)
(* what an earlier run left behind has to find it right: SteadyWired says  *)
(* so of the record of a file at any time, between and during runs, as far *)
(* as a record can be trusted (Steady).  A reset chain hands out recorded  *)
(* addresses again, to the right contracts, because they are recorded in   *)
(* script order (Ordered); the contracts of a forced run replace the       *)
(* recorded ones only at its end (NewInOrder, Renewed).                    *)
(***************************************************************************)
EXTENDS Deploy, TLAPS

-----------------------------------------------------------------------------
(* The contracts of a chain.                                               *)

\* Every contract of c stands on d, at the same address.
Stands(c, d) ==
  \A a \in DOMAIN c.made : a \in DOMAIN d.made /\ d.made[a].key = c.made[a].key

\* Names stay right while the contracts stand.
LEMMA NamesStand ==
  ASSUME NEW c, NEW d, NEW addresses,
         Stands(c, d), NamesContracts(c, addresses)
  PROVE  NamesContracts(d, addresses)
BY DEF Stands, NamesContracts

\* A chain with a contract more: no setting is made on it, but by the
\* constructor of the signer registry.
OneMade(c, contract, extra, d) ==
  /\ SoundChain(c) /\ contract \in [key : Name, args : Seq(Address)]
  /\ extra \subseteq {[on |-> Len(c.made) + 1, slot |-> "quorum", value |-> Fixed]}
  /\ d = [made |-> Append(c.made, contract), settings |-> c.settings \cup extra]

\* One more contract disturbs no other, and takes the next address.
LEMMA OneMore ==
  ASSUME NEW c, NEW contract, NEW extra, NEW d, OneMade(c, contract, extra, d)
  PROVE  /\ d.made \in Seq([key : Name, args : Seq(Address)])
         /\ DOMAIN d.made = DOMAIN c.made \cup {Len(c.made) + 1}
         /\ d.made[Len(c.made) + 1] = contract
         /\ \A a \in DOMAIN c.made : d.made[a] = c.made[a]
         /\ Len(c.made) + 1 \in Address
<1> DEFINE C == [key : Name, args : Seq(Address)]
<1>1. c.made \in Seq(C) /\ contract \in C /\ d.made = Append(c.made, contract)
  BY DEF OneMade, SoundChain, Contracts
<1> HIDE DEF C
<1>2. /\ d.made \in Seq(C)
      /\ DOMAIN d.made = DOMAIN c.made \cup {Len(c.made) + 1}
      /\ d.made[Len(c.made) + 1] = contract
      /\ \A a \in DOMAIN c.made : d.made[a] = c.made[a]
      /\ Len(c.made) + 1 \in Address
  BY <1>1 DEF Address
<1> QED
  BY <1>2 DEF C

\* The chain is as sound with it, and all it held stands.
LEMMA ChainGrows ==
  ASSUME NEW c, NEW contract, NEW extra, NEW d, OneMade(c, contract, extra, d)
  PROVE  /\ SoundChain(d)
         /\ Stands(c, d)
         /\ Len(c.made) + 1 \in DOMAIN d.made /\ Len(c.made) + 1 \in Address
         /\ d.made[Len(c.made) + 1] = contract
<1>0. /\ SoundChain(c)
      /\ extra \subseteq {[on |-> Len(c.made) + 1, slot |-> "quorum", value |-> Fixed]}
      /\ d.settings = c.settings \cup extra
      /\ d = [made |-> d.made, settings |-> d.settings]
  BY DEF OneMade
<1>1. /\ d.made \in Seq([key : Name, args : Seq(Address)])
      /\ DOMAIN d.made = DOMAIN c.made \cup {Len(c.made) + 1}
      /\ d.made[Len(c.made) + 1] = contract
      /\ \A a \in DOMAIN c.made : d.made[a] = c.made[a]
      /\ Len(c.made) + 1 \in Address
  BY OneMore
<1>2. Stands(c, d)
  BY <1>1 DEF Stands
<1>3. d.settings \in SUBSET [on : Address, slot : Name, value : Address]
  <2>1. \A x \in extra : x \in [on : Address, slot : Name, value : Address]
    BY <1>0, <1>1 DEF Fixed, Address, Name
  <2>2. \A x \in c.settings : x \in [on : Address, slot : Name, value : Address]
    BY <1>0 DEF SoundChain, Contracts
  <2> QED
    BY <1>0, <2>1, <2>2
<1>4. \A x \in d.settings : x.on \in DOMAIN d.made
  BY <1>0, <1>1 DEF SoundChain
<1> QED
  BY <1>0, <1>1, <1>2, <1>3, <1>4 DEF SoundChain, Contracts

-----------------------------------------------------------------------------
(* The running script.                                                     *)

\* What the assumption on the scripts says of the one that runs.
LEMMA PlanInOrder ==
  ASSUME IInv, ~Idle
  PROVE  /\ Me \in Files /\ Me \in Records
         /\ Plan \in Seq(StepType)
         /\ run.pc \in 1..(Len(Plan) + 1)
         /\ \A i \in DOMAIN Plan :
              InOrder(Plan, i) /\ Plan[i].from \in Peers(Me) \cup {Absent}
<1>1. /\ Me \in Files /\ run.mode \in Modes(Me) /\ scope \in Scopes
      /\ run.pc \in 1..(Len(Plan) + 1)
  BY DEF IInv, TypeOK, RunTypeOK
<1>2. Me \in Records
  BY <1>1, ScopesAssumption DEF Files
<1>3. Plan = Scripts[Me][run.mode]
  BY DEF Plan
<1> QED
  BY <1>1, <1>2, <1>3, ScriptsAssumption

\* The step the script is at.
LEMMA StepNow ==
  ASSUME IInv, AtStep
  PROVE  /\ ~Idle /\ Me \in Files /\ run.pc \in 1..Len(Plan)
         /\ Plan \in Seq(StepType)
         /\ Now \in StepType
         /\ InOrder(Plan, run.pc)
         /\ Now.from \in Peers(Me) \cup {Absent}
         /\ MadeBefore(Plan, run.pc) \subseteq DOMAIN run.mem
         /\ Addressed(run.mem)
<1>1. ~Idle /\ run.pc \in DOMAIN Plan
  BY DEF AtStep
<1>2. Plan \in Seq(StepType)
  BY <1>1, PlanInOrder
<1> QED
  BY <1>1, <1>2, PlanInOrder DEF Now, IInv, KnowsMade, TypeOK, RunTypeOK

\* A step adds at most its own key to what has been made.
LEMMA MadeByStep ==
  ASSUME NEW script \in Seq(StepType), NEW i \in 1..Len(script)
  PROVE  MadeBefore(script, i + 1)
           = MadeBefore(script, i) \cup (IF Makes(script[i]) THEN {script[i].key} ELSE {})
<1>1. {k \in 1..((i + 1) - 1) : Makes(script[k])}
        = {k \in 1..(i - 1) : Makes(script[k])} \cup (IF Makes(script[i]) THEN {i} ELSE {})
  <2>1. 1..((i + 1) - 1) = 1..(i - 1) \cup {i}
    OBVIOUS
  <2> QED
    BY <2>1
<1> QED
  BY <1>1 DEF MadeBefore

\* The script goes on to its next step, with a memory that holds more.
Proceeds(m) ==
  /\ run' \in [file : {Me}, pc : {run.pc + 1}, forced : {run.forced}, mode : {run.mode},
               mem : {m}, sound : BOOLEAN]
  /\ Addressed(m)
  /\ DOMAIN run.mem \subseteq DOMAIN m
  /\ Makes(Now) => Now.key \in DOMAIN m
  /\ DOMAIN record'[Me] \subseteq DOMAIN m

LEMMA RunProceeds ==
  ASSUME IInv, AtStep, scope' = scope, NEW m, Proceeds(m)
  PROVE  RunTypeOK' /\ KnowsMade' /\ Me' = Me /\ run'.mem = m
<1>1. /\ Me \in Files /\ run.pc \in 1..Len(Plan) /\ Plan \in Seq(StepType)
      /\ MadeBefore(Plan, run.pc) \subseteq DOMAIN run.mem
  BY StepNow
<1>2. /\ run'.file = Me /\ run'.pc = run.pc + 1 /\ run'.mode = run.mode /\ run'.mem = m
      /\ Me' = Me /\ Files' = Files /\ Plan' = Plan
  BY DEF Proceeds, Me, Files, Plan
<1>3. run \in [file : Files \cup {Absent}, pc : Nat, forced : BOOLEAN, mode : AnyMode,
               mem : {run.mem}, sound : BOOLEAN]
  BY DEF IInv, TypeOK, RunTypeOK
<1>4. run' \in [file : Files \cup {Absent}, pc : Nat, forced : BOOLEAN, mode : AnyMode,
                mem : {run'.mem}, sound : BOOLEAN]
  BY <1>1, <1>2, <1>3 DEF Proceeds
<1>5. run.mode \in Modes(Me)
  BY <1>1, StepNow DEF IInv, TypeOK, RunTypeOK
<1>6. run'.pc \in 1..(Len(Plan') + 1)
  BY <1>1, <1>2
<1>7. RunTypeOK'
  BY <1>1, <1>2, <1>4, <1>5, <1>6 DEF RunTypeOK, Proceeds, Addressed
<1>8. MadeBefore(Plan, run.pc + 1) \subseteq DOMAIN m
  BY <1>1, MadeByStep DEF Proceeds, Now
<1> QED
  BY <1>2, <1>7, <1>8 DEF KnowsMade

\* The script has ended.
LEMMA RunEnds ==
  ASSUME run' = NoRun
  PROVE  RunTypeOK' /\ KnowsMade' /\ Idle' /\ MemoryNames'
<1>1. Idle'
  BY DEF Idle
<1>2. run' \in [file : Files' \cup {Absent}, pc : Nat, forced : BOOLEAN, mode : AnyMode,
                mem : {run'.mem}, sound : BOOLEAN]
  BY DEF NoRun, AnyMode
<1>3. run'.mem = <<>>
  BY DEF NoRun, None
<1>4. Addressed(run.mem)'
  BY <1>3 DEF Addressed
<1> QED
  BY <1>1, <1>2, <1>4 DEF RunTypeOK, KnowsMade, MemoryNames

-----------------------------------------------------------------------------
(* What holds of everything a step leaves alone.                           *)

\* Chains change at most by contracts that are added, or are wiped.
ContractsStay ==
  /\ scope' = scope
  /\ wiped \subseteq wiped'
  /\ \A f \in Files \ wiped' : Stands(chain[f], chain'[f])

LEMMA ConfigStays ==
  ASSUME IInv, ContractsStay, config' = config
  PROVE  ConfigOfFiles' /\ ConfigNamesContracts'
<1>1. Files' = Files
  BY DEF ContractsStay, Files
<1>2. ConfigOfFiles'
  BY <1>1 DEF IInv, ConfigOfFiles
<1>3. ASSUME NEW a \in DOMAIN config', a[1] \notin wiped'
      PROVE  Live(a[1], config[a])' /\ KindOf(a[1], config[a])' = a[2]
  <2>1. a[1] \in Files \ wiped' /\ a \in DOMAIN config /\ a[1] \notin wiped
    BY <1>3 DEF IInv, ConfigOfFiles, ContractsStay
  <2>2. Live(a[1], config[a]) /\ KindOf(a[1], config[a]) = a[2]
    BY <2>1 DEF IInv, ConfigNamesContracts
  <2>3. Stands(chain[a[1]], chain'[a[1]])
    BY <2>1 DEF ContractsStay
  <2> QED
    BY <2>2, <2>3 DEF Live, KindOf, Stands
<1> QED
  BY <1>2, <1>3 DEF ConfigNamesContracts

LEMMA RecordsStay ==
  ASSUME IInv, ContractsStay, record' = record
  PROVE  RecordsName'
<1>1. Files' = Files
  BY DEF ContractsStay, Files
<1>2. ASSUME NEW f \in Files \ wiped'
      PROVE  NamesContracts(chain'[f], record[f])
  <2>1. NamesContracts(chain[f], record[f]) /\ Stands(chain[f], chain'[f])
    BY DEF IInv, RecordsName, ContractsStay
  <2> QED
    BY <2>1, NamesStand
<1> QED
  BY <1>1, <1>2 DEF RecordsName

\* Nothing happens on the chains.
LEMMA NothingOnChain ==
  ASSUME IInv, UNCHANGED <<scope, chain, wiped>>
  PROVE  ContractsStay /\ ChainsTypeOK'
BY DEF ContractsStay, Stands, IInv, TypeOK, ChainsTypeOK, Files

\* Something happens on the chain of the running script.
LEMMA OnlyHere ==
  ASSUME IInv, Me \in Files, UNCHANGED <<scope, wiped>>,
         NEW d, SoundChain(d), Stands(Here, d), chain' = [chain EXCEPT ![Me] = d]
  PROVE  ContractsStay /\ ChainsTypeOK' /\ chain'[Me] = d
<1>1. DOMAIN chain = Files /\ \A f \in Files : SoundChain(chain[f])
  BY DEF IInv, TypeOK, ChainsTypeOK
<1>2. /\ DOMAIN chain' = Files /\ chain'[Me] = d
      /\ \A f \in Files : f # Me => chain'[f] = chain[f]
  BY <1>1
<1>3. ChainsTypeOK'
  BY <1>1, <1>2 DEF ChainsTypeOK, Files
<1>4. \A f \in Files : Stands(chain[f], chain'[f])
  BY <1>2 DEF Here, Stands
<1> QED
  BY <1>2, <1>3, <1>4 DEF ContractsStay

\* The running script writes its record.
LEMMA OneRecord ==
  ASSUME IInv, Me \in Files, ContractsStay, UNCHANGED <<seen, wiped>>,
         NEW m, Addressed(m), record' = [record EXCEPT ![Me] = m],
         Me \notin wiped => NamesContracts(chain'[Me], m)
  PROVE  RecordsTypeOK' /\ RecordsName' /\ record'[Me] = m
<1>1. Files' = Files
  BY DEF ContractsStay, Files
<1>2. /\ DOMAIN record' = Files /\ record'[Me] = m
      /\ \A f \in Files : f # Me => record'[f] = record[f]
  BY DEF IInv, TypeOK, RecordsTypeOK
<1>3. RecordsTypeOK'
  BY <1>1, <1>2 DEF IInv, TypeOK, RecordsTypeOK, Addressed
<1>4. ASSUME NEW f \in Files \ wiped'
      PROVE  NamesContracts(chain'[f], record'[f])
  <2>1. CASE f = Me
    BY <1>2, <2>1
  <2>2. CASE f # Me
    <3>1. NamesContracts(chain[f], record[f]) /\ Stands(chain[f], chain'[f])
      BY DEF IInv, RecordsName, ContractsStay
    <3> QED
      BY <1>2, <2>2, <3>1, NamesStand
  <2> QED
    BY <2>1, <2>2
<1> QED
  BY <1>1, <1>2, <1>3, <1>4 DEF RecordsName

LEMMA RecordsTypeStays ==
  ASSUME IInv, UNCHANGED <<scope, record, seen>>
  PROVE  RecordsTypeOK'
BY DEF IInv, TypeOK, RecordsTypeOK, Addressed, Files

\* The counters and the sets of files.
LEMMA HistoryStays ==
  ASSUME IInv, scope' = scope, last' = last \/ last' \in [Files -> AnyMode],
         cuts' = cuts \/ cuts' \in [Files -> Nat],
         settled' \subseteq Files, mixed' \subseteq Files, wiped' \subseteq Files,
         switched' \subseteq Files,
         left' = left \/ left' \in [runs : 0..scope.runs, faults : 0..scope.faults]
  PROVE  HistoryTypeOK'
BY DEF IInv, TypeOK, HistoryTypeOK, Files

LEMMA HistoryType ==
  ASSUME IInv
  PROVE  /\ settled \subseteq Files /\ mixed \subseteq Files /\ wiped \subseteq Files
         /\ switched \subseteq Files /\ cuts \in [Files -> Nat]
         /\ last \in [Files -> AnyMode]
         /\ left \in [runs : 0..scope.runs, faults : 0..scope.faults]
         /\ scope \in Scopes /\ scope.runs \in Nat /\ scope.faults \in Nat
BY ScopesAssumption DEF IInv, TypeOK, HistoryTypeOK

LEMMA FaultSpent ==
  ASSUME IInv, Spend(1)
  PROVE  left' \in [runs : 0..scope.runs, faults : 0..scope.faults]
BY HistoryType DEF Spend

\* After a step of the script that is no creation, its memory names contracts
\* if it did.
LEMMA MemoryStays ==
  ASSUME IInv, ContractsStay, ~Idle, Me' = Me, wiped' = wiped, Me \in Files,
         run'.mem = run.mem
  PROVE  MemoryNames'
<1>1. CASE Me \in wiped
  BY <1>1 DEF MemoryNames
<1>2. CASE Me \notin wiped
  <2>1. NamesContracts(chain[Me], run.mem) /\ Stands(chain[Me], chain'[Me])
    BY <1>2 DEF IInv, MemoryNames, ContractsStay, Here
  <2>2. NamesContracts(chain'[Me], run.mem)
    BY <2>1, NamesStand
  <2> QED
    BY <2>2 DEF MemoryNames, Here
<1> QED
  BY <1>1, <1>2

-----------------------------------------------------------------------------
(* Creating a contract.                                                    *)

\* The memory of the script that has created the contract it is at.
WithNew == WithKey(run.mem, Now.key, NewAddress)

LEMMA CreatedIsSound ==
  ASSUME IInv, AtStep, Makes(Now)
  PROVE  /\ SoundChain(Created) /\ Stands(Here, Created)
         /\ NewAddress \in DOMAIN Created.made
         /\ Created.made[NewAddress].key = Now.key
         /\ NewAddress \in Address
<1>1. /\ Me \in Files /\ Now \in StepType /\ InOrder(Plan, run.pc)
      /\ MadeBefore(Plan, run.pc) \subseteq DOMAIN run.mem /\ Addressed(run.mem)
  BY StepNow
<1>2. SoundChain(Here)
  BY <1>1 DEF IInv, TypeOK, ChainsTypeOK, Here
<1>3. Now.key \in Name /\ Now.needs \in Seq(Name)
  BY <1>1 DEF StepType
<1> DEFINE args == [i \in DOMAIN Now.needs |-> run.mem[Now.needs[i]]]
<1>4. args \in Seq(Address)
  <2>1. \A i \in DOMAIN Now.needs : Now.needs[i] \in DOMAIN run.mem
    BY <1>1 DEF InOrder, Now, Range
  <2>2. \A i \in DOMAIN Now.needs : run.mem[Now.needs[i]] \in Address
    BY <1>1, <2>1 DEF Addressed
  <2>3. DOMAIN Now.needs = 1..Len(Now.needs) /\ Len(Now.needs) \in Nat
    BY <1>3
  <2> QED
    BY <2>2, <2>3
<1> DEFINE contract == [key |-> Now.key, args |-> args]
<1>5. contract \in [key : Name, args : Seq(Address)]
  BY <1>3, <1>4
<1> DEFINE extra == IF Now.key = "gpactSignerRegistry"
                    THEN {[on |-> NewAddress, slot |-> "quorum", value |-> Fixed]} ELSE {}
<1>6. extra \in SUBSET {[on |-> Len(Here.made) + 1, slot |-> "quorum", value |-> Fixed]}
  BY DEF NewAddress
<1>7. Created = [made |-> Append(Here.made, contract), settings |-> Here.settings \cup extra]
  BY DEF Created
<1>8. contract.key = Now.key
  OBVIOUS
<1> HIDE DEF contract, extra, args
<1>9. /\ SoundChain(Created) /\ Stands(Here, Created)
      /\ Len(Here.made) + 1 \in DOMAIN Created.made
      /\ Created.made[Len(Here.made) + 1] = contract /\ Len(Here.made) + 1 \in Address
  <2>1. OneMade(Here, contract, extra, Created)
    BY <1>2, <1>5, <1>6, <1>7 DEF OneMade
  <2> QED
    BY <2>1, ChainGrows
<1> QED
  BY <1>8, <1>9 DEF NewAddress

LEMMA NewIsKnown ==
  ASSUME IInv, AtStep, Makes(Now)
  PROVE  /\ Addressed(WithNew)
         /\ DOMAIN WithNew = DOMAIN run.mem \cup {Now.key}
         /\ Me \notin wiped => NamesContracts(Created, WithNew)
<1>1. /\ Me \in Files /\ Now \in StepType /\ ~Idle /\ Addressed(run.mem)
  BY StepNow
<1>2. /\ Stands(Here, Created) /\ NewAddress \in DOMAIN Created.made
      /\ Created.made[NewAddress].key = Now.key /\ NewAddress \in Address
  BY CreatedIsSound
<1>3. /\ DOMAIN WithNew = DOMAIN run.mem \cup {Now.key}
      /\ WithNew[Now.key] = NewAddress
      /\ \A k \in DOMAIN run.mem : k # Now.key => WithNew[k] = run.mem[k]
  BY DEF WithNew, WithKey
<1>4. Addressed(WithNew)
  <2>1. WithNew = [k \in DOMAIN WithNew |-> WithNew[k]]
    BY DEF WithNew, WithKey
  <2>2. \A k \in DOMAIN WithNew : WithNew[k] \in Address
    BY <1>1, <1>2, <1>3 DEF Addressed
  <2>3. DOMAIN WithNew \subseteq Name
    BY <1>1, <1>3 DEF Addressed, StepType
  <2> QED
    BY <2>1, <2>2, <2>3 DEF Addressed
<1>5. ASSUME Me \notin wiped
      PROVE  NamesContracts(Created, WithNew)
  <2>1. NamesContracts(Here, run.mem)
    BY <1>1, <1>5 DEF IInv, MemoryNames
  <2>2. NamesContracts(Created, run.mem)
    BY <1>2, <2>1, NamesStand
  <2> QED
    BY <1>2, <1>3, <2>2 DEF NamesContracts
<1> QED
  BY <1>3, <1>4, <1>5

\* The run goes on with the new contract in memory.
LEMMA GoesOnWithNew ==
  ASSUME IInv, AtStep, Makes(Now), UNCHANGED <<scope, wiped>>,
         chain' = [chain EXCEPT ![Me] = Created],
         run' = [run EXCEPT !.pc = @ + 1, !.mem = WithNew],
         DOMAIN record'[Me] \subseteq DOMAIN WithNew
  PROVE  /\ ContractsStay /\ ChainsTypeOK' /\ chain'[Me] = Created
         /\ RunTypeOK' /\ KnowsMade' /\ MemoryNames'
<1>1. Me \in Files /\ ~Idle
  BY StepNow
<1>2. ContractsStay /\ ChainsTypeOK' /\ chain'[Me] = Created
  BY <1>1, CreatedIsSound, OnlyHere
<1>3. Proceeds(WithNew)
  BY NewIsKnown DEF Proceeds, IInv, TypeOK, RunTypeOK, Me
<1>4. RunTypeOK' /\ KnowsMade' /\ Me' = Me /\ run'.mem = WithNew
  BY <1>3, RunProceeds
<1>5. MemoryNames'
  BY <1>2, <1>4, NewIsKnown DEF MemoryNames, Here
<1> QED
  BY <1>2, <1>4, <1>5

\* A new record, where the run goes on with it.
LEMMA DeployAndRecordKeeps ==
  ASSUME IInv, AtStep, Makes(Now), UNCHANGED <<scope, wiped, seen, config>>, DeployAndRecord,
         HistoryTypeOK'
  PROVE  IInv'
<1>1. /\ chain' = [chain EXCEPT ![Me] = Created]
      /\ run' = [run EXCEPT !.pc = @ + 1, !.mem = WithNew]
      /\ record' = [record EXCEPT ![Me] = WithNew]
  BY DEF DeployAndRecord, WithNew
<1>2. Me \in Files /\ Me \in DOMAIN record
  BY StepNow DEF IInv, TypeOK, RecordsTypeOK
<1>3. DOMAIN record'[Me] \subseteq DOMAIN WithNew
  BY <1>1, <1>2
<1>4. /\ ContractsStay /\ ChainsTypeOK' /\ chain'[Me] = Created
      /\ RunTypeOK' /\ KnowsMade' /\ MemoryNames'
  BY <1>1, <1>3, GoesOnWithNew
<1>5. RecordsTypeOK' /\ RecordsName'
  BY <1>1, <1>2, <1>4, NewIsKnown, OneRecord
<1>6. ConfigOfFiles' /\ ConfigNamesContracts'
  BY <1>4, ConfigStays
<1>7. scope' \in Scopes
  BY HistoryType
<1> QED
  BY <1>4, <1>5, <1>6, <1>7 DEF IInv, TypeOK

-----------------------------------------------------------------------------
(* The actions.                                                            *)

\* A step that leaves the records, and perhaps the chains, alone.
LEMMA RecordsLeftAlone ==
  ASSUME IInv, ContractsStay, ChainsTypeOK', UNCHANGED <<record, seen, config>>,
         RunTypeOK', KnowsMade', MemoryNames', HistoryTypeOK'
  PROVE  IInv'
<1>1. scope' = scope /\ scope' \in Scopes
  BY HistoryType DEF ContractsStay
<1> QED
  BY <1>1, RecordsTypeStays, RecordsStay, ConfigStays DEF IInv, TypeOK

LEMMA InitHolds ==
  ASSUME Init
  PROVE  IInv
<1>1. scope \in Scopes /\ scope.runs \in Nat /\ scope.faults \in Nat
  BY ScopesAssumption DEF Init
<1>2. Addressed(None)
  BY DEF Addressed, None
<1>3. RecordsTypeOK
  BY <1>2 DEF Init, RecordsTypeOK
<1>4. SoundChain(Fresh)
  BY DEF SoundChain, Contracts, Fresh
<1>5. ChainsTypeOK
  BY <1>4 DEF Init, ChainsTypeOK
<1>6. RunTypeOK
  BY <1>2 DEF Init, RunTypeOK, NoRun, Idle, AnyMode
<1>7. HistoryTypeOK
  BY <1>1 DEF Init, HistoryTypeOK, AnyMode
<1>8. KnowsMade /\ MemoryNames
  BY DEF Init, KnowsMade, MemoryNames, Idle
<1>9. RecordsName
  BY DEF Init, RecordsName, NamesContracts, None
<1>10. ConfigOfFiles /\ ConfigNamesContracts
  BY DEF Init, ConfigOfFiles, ConfigNamesContracts, None
<1> QED
  BY <1>1, <1>3, <1>5, <1>6, <1>7, <1>8, <1>9, <1>10 DEF IInv, TypeOK

LEMMA StartKeeps ==
  ASSUME IInv, NEW f \in Files, Start(f)
  PROVE  IInv'
<1>1. PICK forced \in BOOLEAN, mode \in Modes(f) :
        /\ left' = [runs |-> left.runs - 1,
                    faults |-> left.faults - (IF forced THEN 1 ELSE 0)]
        /\ forced => left.faults > 0
        /\ run' = [file |-> f, pc |-> 1, forced |-> forced, mode |-> mode,
                   mem |-> record[f], sound |-> TRUE]
        /\ last' = [last EXCEPT ![f] = mode]
        /\ seen' = [seen EXCEPT ![f] = [g \in Peers(f) |-> record[g]]]
        /\ settled' \subseteq settled
        /\ switched' \subseteq switched \cup {f}
        /\ mixed' \subseteq mixed \cup {f}
  BY DEF Start
<1>2. left.runs > 0 /\ UNCHANGED <<scope, record, chain, wiped, cuts, config>>
  BY DEF Start
<1>3. ContractsStay /\ ChainsTypeOK' /\ Files' = Files
  BY <1>2, NothingOnChain DEF Files
<1>4. mode \in AnyMode
  BY DEF Modes, AnyMode
<1>5. HistoryTypeOK'
  <2>1. left' \in [runs : 0..scope.runs, faults : 0..scope.faults]
    BY <1>1, <1>2, HistoryType
  <2>2. last' \in [Files -> AnyMode]
    BY <1>1, <1>4, HistoryType
  <2> QED
    BY <1>1, <1>2, <2>1, <2>2, HistoryType, HistoryStays
<1>6. scope \in Scopes /\ f \in Records /\ Peers(f) \subseteq Files
  BY HistoryType, ScopesAssumption DEF Files
<1>7. DOMAIN record = Files /\ \A g \in Files : Addressed(record[g])
  BY DEF IInv, TypeOK, RecordsTypeOK
<1>8. RecordsTypeOK'
  <2>1. DOMAIN seen' = Files
    BY <1>1 DEF IInv, TypeOK, RecordsTypeOK
  <2>2. ASSUME NEW g \in Files
        PROVE  DOMAIN seen'[g] = Peers(g) /\ \A h \in Peers(g) : Addressed(seen'[g][h])
    <3>1. CASE g = f
      BY <1>1, <1>6, <1>7, <3>1 DEF IInv, TypeOK, RecordsTypeOK
    <3>2. CASE g # f
      BY <1>1, <3>2 DEF IInv, TypeOK, RecordsTypeOK
    <3> QED
      BY <3>1, <3>2
  <2>3. DOMAIN record' = Files' /\ \A g \in Files' : Addressed(record'[g])
    BY <1>2, <1>3, <1>7
  <2> QED
    BY <1>3, <2>1, <2>2, <2>3 DEF RecordsTypeOK, Addressed
<1>9. Scripts[f][mode] \in Seq(StepType)
  BY <1>6, ScriptsAssumption
<1>10. Me' = f /\ run'.mode = mode /\ run'.pc = 1 /\ run'.mem = record[f]
  BY <1>1 DEF Me
<1>11. Plan' = Scripts[f][mode]
  BY <1>10 DEF Plan
<1>12. RunTypeOK'
  <2>1. run'.pc \in 1..(Len(Plan') + 1)
    BY <1>9, <1>10, <1>11
  <2>2. run' \in [file : Files \cup {Absent}, pc : Nat, forced : BOOLEAN, mode : AnyMode,
                  mem : {run'.mem}, sound : BOOLEAN]
    BY <1>1, <1>4
  <2> QED
    BY <1>2, <1>3, <1>7, <1>10, <2>1, <2>2 DEF RunTypeOK, Addressed
<1>13. KnowsMade'
  <2>1. MadeBefore(Plan', 1) = {}
    BY DEF MadeBefore
  <2> QED
    BY <1>10, <2>1 DEF KnowsMade
<1>14. MemoryNames'
  BY <1>2, <1>3, <1>10 DEF IInv, RecordsName, MemoryNames, Here
<1>15. RecordsName' /\ ConfigOfFiles' /\ ConfigNamesContracts'
  BY <1>2, <1>3, RecordsStay, ConfigStays
<1> QED
  BY <1>2, <1>3, <1>5, <1>6, <1>8, <1>12, <1>13, <1>14, <1>15 DEF IInv, TypeOK

LEMMA FinishKeeps ==
  ASSUME IInv, Finish
  PROVE  IInv'
<1>1. Me \in Files
  BY PlanInOrder DEF Finish
<1>2. ContractsStay /\ ChainsTypeOK'
  BY NothingOnChain DEF Finish
<1>3. HistoryTypeOK'
  BY <1>1, HistoryType, HistoryStays DEF Finish
<1>4. RunTypeOK' /\ KnowsMade' /\ MemoryNames'
  BY RunEnds DEF Finish
<1> QED
  BY <1>2, <1>3, <1>4, RecordsLeftAlone DEF Finish

LEMMA BrokenOff ==
  ASSUME IInv, Me \in Files, BreakOff
  PROVE  /\ settled' \subseteq Files /\ mixed' \subseteq Files
         /\ RunTypeOK' /\ KnowsMade' /\ MemoryNames'
BY HistoryType, RunEnds DEF BreakOff

LEMMA CutKeeps ==
  ASSUME IInv, Cut
  PROVE  IInv'
<1>1. Me \in Files
  BY PlanInOrder DEF Cut
<1>2. ContractsStay /\ ChainsTypeOK'
  BY NothingOnChain DEF Cut
<1>3. cuts' \in [Files -> Nat]
  BY <1>1, HistoryType DEF Cut
<1>4. HistoryTypeOK'
  BY <1>1, <1>3, BrokenOff, FaultSpent, HistoryType, HistoryStays DEF Cut
<1> QED
  BY <1>1, <1>2, <1>4, BrokenOff, RecordsLeftAlone DEF Cut

\* A step of the script that leaves its memory alone.
LEMMA MemoryLeftAlone ==
  ASSUME IInv, AtStep, ContractsStay, ChainsTypeOK', HistoryTypeOK',
         UNCHANGED <<record, seen, wiped, config>>,
         Makes(Now) => InRecord,
         run' \in [file : {Me}, pc : {run.pc + 1}, forced : {run.forced}, mode : {run.mode},
                   mem : {run.mem}, sound : BOOLEAN]
  PROVE  IInv'
<1>1. Me \in Files /\ ~Idle /\ scope' = scope
  BY StepNow DEF ContractsStay
<1>2. Proceeds(run.mem)
  BY <1>1 DEF Proceeds, InRecord, IInv, TypeOK, RunTypeOK
<1>3. RunTypeOK' /\ KnowsMade' /\ Me' = Me /\ run'.mem = run.mem
  BY <1>1, <1>2, RunProceeds
<1>4. MemoryNames'
  BY <1>1, <1>3, MemoryStays
<1> QED
  BY <1>3, <1>4, RecordsLeftAlone

LEMMA RunAdvances ==
  ASSUME IInv, Advance
  PROVE  run' \in [file : {Me}, pc : {run.pc + 1}, forced : {run.forced}, mode : {run.mode},
                   mem : {run.mem}, sound : BOOLEAN]
BY DEF Advance, IInv, TypeOK, RunTypeOK, Me

LEMMA KeepKeeps ==
  ASSUME IInv, Keep
  PROVE  IInv'
<1>1. ContractsStay /\ ChainsTypeOK'
  BY NothingOnChain DEF Keep
<1>2. HistoryTypeOK'
  BY HistoryType, HistoryStays DEF Keep
<1> QED
  BY <1>1, <1>2, RunAdvances, MemoryLeftAlone DEF Keep, Reused

LEMMA ReplacedFiles ==
  ASSUME NEW old \in SUBSET Files
  PROVE  Replaced(old) \subseteq Files
BY DEF Replaced, Dependents

LEMMA DeployMissingKeeps ==
  ASSUME IInv, DeployMissing
  PROVE  IInv'
<1>1. HistoryTypeOK'
  BY ReplacedFiles, HistoryType, HistoryStays DEF DeployMissing
<1> QED
  BY <1>1, DeployAndRecordKeeps DEF DeployMissing, Makes

LEMMA DeployUnreadKeeps ==
  ASSUME IInv, DeployUnread
  PROVE  IInv'
<1>1. Me \in Files
  BY StepNow DEF DeployUnread
<1>2. HistoryTypeOK'
  <2>1. mixed \cup {Me} \subseteq Files
    BY <1>1, HistoryType
  <2>2. mixed' \subseteq Files
    BY <2>1, ReplacedFiles DEF DeployUnread
  <2> QED
    BY <2>2, FaultSpent, HistoryType, HistoryStays DEF DeployUnread
<1> QED
  BY <1>2, DeployAndRecordKeeps DEF DeployUnread, Makes

LEMMA ReceiptLostKeeps ==
  ASSUME IInv, ReceiptLost
  PROVE  IInv'
<1>1. Me \in Files /\ AtStep /\ Makes(Now)
  BY StepNow DEF ReceiptLost, Makes
<1>2. ContractsStay /\ ChainsTypeOK'
  BY <1>1, CreatedIsSound, OnlyHere DEF ReceiptLost
<1>3. HistoryTypeOK'
  BY <1>1, BrokenOff, FaultSpent, HistoryType, HistoryStays DEF ReceiptLost
<1> QED
  BY <1>1, <1>2, <1>3, BrokenOff, RecordsLeftAlone DEF ReceiptLost

LEMMA InstantiateKeeps ==
  ASSUME IInv, Instantiate
  PROVE  IInv'
<1>1. Me \in Files /\ AtStep /\ Makes(Now)
  BY StepNow DEF Instantiate, Makes
<1>2. HistoryTypeOK'
  BY HistoryType, HistoryStays DEF Instantiate
<1>3. CASE Reused
  <2>1. ContractsStay /\ ChainsTypeOK'
    BY <1>3, NothingOnChain DEF Instantiate
  <2>2. Advance
    BY <1>3 DEF Instantiate
  <2> QED
    BY <1>1, <1>2, <1>3, <2>1, <2>2, RunAdvances, MemoryLeftAlone DEF Instantiate, Reused
<1>4. CASE ~Reused
  <2>1. /\ chain' = [chain EXCEPT ![Me] = Created]
        /\ run' = [run EXCEPT !.pc = @ + 1, !.mem = WithNew]
    BY <1>4 DEF Instantiate, WithNew
  <2>2. DOMAIN record'[Me] \subseteq DOMAIN WithNew
    BY <1>1, NewIsKnown, StepNow DEF Instantiate, IInv, TypeOK, RunTypeOK
  <2>3. /\ ContractsStay /\ ChainsTypeOK'
        /\ RunTypeOK' /\ KnowsMade' /\ MemoryNames'
    BY <1>1, <2>1, <2>2, GoesOnWithNew DEF Instantiate
  <2> QED
    BY <1>2, <2>3, RecordsLeftAlone DEF Instantiate
<1> QED
  BY <1>3, <1>4

\* What a setting is given are addresses.
LEMMA ValuesAreAddresses ==
  ASSUME IInv, AtStep
  PROVE  Values \subseteq Address
<1>1. Me \in Files /\ Addressed(run.mem) /\ Now.from \in Peers(Me) \cup {Absent}
  BY StepNow
<1>2. \A g \in Peers(Me) : Addressed(seen[Me][g])
  BY <1>1 DEF IInv, TypeOK, RecordsTypeOK
<1>3. ASSUME NEW m, Addressed(m), Now.key \in DOMAIN m
      PROVE  m[Now.key] \in Address
  BY <1>3 DEF Addressed
<1>4. Fixed \in Address
  BY DEF Fixed, Address
<1> QED
  BY <1>1, <1>2, <1>3, <1>4 DEF Values, ValuesOf

LEMMA NewValuesAreAddresses ==
  ASSUME IInv, OnSetting
  PROVE  NewValues \subseteq Address
<1>1. AtStep /\ Me \in Files
  BY StepNow DEF OnSetting
<1>2. Values \subseteq Address
  BY <1>1, ValuesAreAddresses
<1>3. Old \subseteq Address
  BY <1>1 DEF Old, Held, IInv, TypeOK, ChainsTypeOK, SoundChain, Contracts
<1>4. Deposited \subseteq Address
  <2>1. CASE Old = {}
    BY <2>1 DEF Deposited, Address
  <2>2. CASE Old # {}
    <3>1. (CHOOSE v \in Old : TRUE) \in Address
      BY <1>3, <2>2
    <3> QED
      BY <2>2, <3>1 DEF Deposited, Address
  <2> QED
    BY <2>1, <2>2
<1> QED
  BY <1>2, <1>3, <1>4 DEF NewValues, Overwritten, OnSetting, Settings

LEMMA ConfigureKeeps ==
  ASSUME IInv, Configure
  PROVE  IInv'
<1>1. Me \in Files /\ AtStep /\ ~Makes(Now) /\ Now \in StepType /\ Addressed(run.mem)
  BY StepNow DEF Configure, OnSetting, Settings, Makes
<1>2. HistoryTypeOK'
  BY HistoryType, HistoryStays DEF Configure
<1>3. ContractsStay /\ ChainsTypeOK'
  <2>1. CASE Flagged
    BY <2>1, NothingOnChain DEF Configure
  <2>2. CASE ~Flagged
    <3> DEFINE d == [Here EXCEPT !.settings = WithSetting(NewValues)]
    <3>1. On \in DOMAIN Here.made
      BY <2>2 DEF Configure, Refused, OnIsRight, Live, Here
    <3>2. SoundChain(Here)
      BY <1>1 DEF IInv, TypeOK, ChainsTypeOK, Here
    <3>3. On \in Address
      BY <3>1, <3>2 DEF SoundChain, Contracts, Address
    <3>4. WithSetting(NewValues) \subseteq [on : Address, slot : Name, value : Address]
      <4>1. NewValues \subseteq Address
        BY NewValuesAreAddresses DEF Configure
      <4> QED
        BY <1>1, <3>2, <3>3, <4>1 DEF WithSetting, SoundChain, Contracts, StepType
    <3>5. \A x \in WithSetting(NewValues) : x.on \in DOMAIN Here.made
      BY <3>1, <3>2 DEF WithSetting, SoundChain
    <3>6. d.made = Here.made /\ d.settings = WithSetting(NewValues)
          /\ d = [made |-> Here.made, settings |-> WithSetting(NewValues)]
      BY <3>2 DEF SoundChain, Contracts
    <3>7. SoundChain(d) /\ Stands(Here, d)
      BY <3>2, <3>4, <3>5, <3>6 DEF SoundChain, Contracts, Stands
    <3>8. chain' = [chain EXCEPT ![Me] = d]
      BY <2>2 DEF Configure, Here
    <3> HIDE DEF d
    <3> QED
      BY <1>1, <3>7, <3>8, OnlyHere DEF Configure
  <2> QED
    BY <2>1, <2>2
<1> QED
  BY <1>1, <1>2, <1>3, RunAdvances, MemoryLeftAlone DEF Configure

LEMMA ThrowKeeps ==
  ASSUME IInv, Throw
  PROVE  IInv'
<1>1. Me \in Files
  BY StepNow DEF Throw, OnSetting
<1>2. ContractsStay /\ ChainsTypeOK'
  BY NothingOnChain DEF Throw
<1>3. HistoryTypeOK'
  BY <1>1, BrokenOff, HistoryType, HistoryStays DEF Throw
<1> QED
  BY <1>1, <1>2, <1>3, BrokenOff, RecordsLeftAlone DEF Throw

LEMMA EnrolFailsKeeps ==
  ASSUME IInv, EnrolFails
  PROVE  IInv'
<1>1. Me \in Files /\ AtStep /\ ~Makes(Now)
  BY StepNow DEF EnrolFails, OnSetting, Settings, Makes
<1>2. ContractsStay /\ ChainsTypeOK'
  BY NothingOnChain DEF EnrolFails
<1>3. HistoryTypeOK'
  <2>1. left' \in [runs : 0..scope.runs, faults : 0..scope.faults]
    BY FaultSpent, HistoryType DEF EnrolFails
  <2> QED
    BY <1>1, <2>1, HistoryType, HistoryStays DEF EnrolFails
<1>4. run' \in [file : {Me}, pc : {run.pc + 1}, forced : {run.forced}, mode : {run.mode},
                mem : {run.mem}, sound : BOOLEAN]
  BY DEF EnrolFails, IInv, TypeOK, RunTypeOK, Me
<1> QED
  BY <1>1, <1>2, <1>3, <1>4, MemoryLeftAlone DEF EnrolFails

\* What is noted is known already, or is no contract's address.
LEMMA WriteRecordKeeps ==
  ASSUME IInv, WriteRecord
  PROVE  IInv'
<1> DEFINE m == WithNotes(run.mem)
<1>1. /\ Me \in Files /\ ~Idle /\ AtStep /\ Now \in StepType /\ Addressed(run.mem)
      /\ InOrder(Plan, run.pc) /\ MadeBefore(Plan, run.pc) \subseteq DOMAIN run.mem
  BY StepNow DEF WriteRecord
<1>2. /\ DOMAIN m = DOMAIN run.mem \cup NotedKeys
      /\ \A k \in DOMAIN run.mem : m[k] = run.mem[k]
      /\ \A k \in NotedKeys \ DOMAIN run.mem : m[k] = Fixed
      /\ m = [k \in DOMAIN m |-> m[k]]
  BY DEF WithNotes
<1>3. NotedKeys \subseteq Name
  BY <1>1 DEF NotedKeys, StepType
<1>4. NotedKeys \subseteq NotAddresses \cup DOMAIN run.mem
  BY <1>1 DEF NotedKeys, InOrder, Now, Range, WriteRecord
<1> HIDE DEF m
<1>5. Addressed(m)
  <2>1. \A k \in DOMAIN m : m[k] \in Address
    BY <1>1, <1>2 DEF Addressed, Fixed, Address
  <2> QED
    BY <1>1, <1>2, <1>3, <2>1 DEF Addressed
<1>6. ASSUME Me \notin wiped
      PROVE  NamesContracts(chain[Me], m)
  <2>1. NamesContracts(chain[Me], run.mem)
    BY <1>1, <1>6 DEF IInv, MemoryNames, Here
  <2> QED
    BY <1>2, <1>4, <2>1 DEF NamesContracts
<1>7. ContractsStay /\ ChainsTypeOK' /\ chain' = chain
  BY NothingOnChain DEF WriteRecord
<1>8. record' = [record EXCEPT ![Me] = m]
  BY DEF WriteRecord, m
<1>9. RecordsTypeOK' /\ RecordsName' /\ record'[Me] = m
  BY <1>1, <1>5, <1>6, <1>7, <1>8, OneRecord DEF WriteRecord
<1>10. run' = [run EXCEPT !.pc = @ + 1, !.mem = m]
  BY DEF WriteRecord, m
<1>11. Proceeds(m)
  BY <1>1, <1>2, <1>5, <1>9, <1>10 DEF Proceeds, IInv, TypeOK, RunTypeOK, Me, WriteRecord, Makes
<1>12. RunTypeOK' /\ KnowsMade' /\ Me' = Me /\ run'.mem = m
  BY <1>1, <1>11, RunProceeds DEF WriteRecord
<1>13. MemoryNames'
  BY <1>6, <1>7, <1>12 DEF MemoryNames, Here, WriteRecord
<1>14. HistoryTypeOK'
  BY HistoryType, HistoryStays DEF WriteRecord
<1>15. ConfigOfFiles' /\ ConfigNamesContracts'
  BY <1>7, ConfigStays DEF WriteRecord
<1>16. scope' \in Scopes
  BY HistoryType DEF WriteRecord
<1> QED
  BY <1>7, <1>9, <1>12, <1>13, <1>14, <1>15, <1>16 DEF IInv, TypeOK

\* Between runs nothing is to be shown of a running script.
LEMMA RunStays ==
  ASSUME IInv, Idle, UNCHANGED <<scope, run>>
  PROVE  RunTypeOK' /\ KnowsMade' /\ MemoryNames'
BY DEF Idle, IInv, TypeOK, RunTypeOK, KnowsMade, MemoryNames, Files, Addressed

LEMMA ResetChainKeeps ==
  ASSUME IInv, NEW f \in Files, ResetChain(f)
  PROVE  IInv'
<1>1. DOMAIN chain = Files /\ \A g \in Files : SoundChain(chain[g])
  BY DEF IInv, TypeOK, ChainsTypeOK
<1>2. \A g \in Files : chain'[g] = IF g = f THEN Fresh ELSE chain[g]
  BY <1>1 DEF ResetChain
<1>3. ContractsStay
  BY <1>2 DEF ResetChain, ContractsStay, Stands
<1>4. SoundChain(Fresh)
  BY DEF SoundChain, Contracts, Fresh
<1>5. ChainsTypeOK'
  BY <1>1, <1>2, <1>4 DEF ResetChain, ChainsTypeOK, Files
<1>6. HistoryTypeOK'
  BY FaultSpent, HistoryType, HistoryStays DEF ResetChain
<1> QED
  BY <1>3, <1>5, <1>6, RunStays, RecordsLeftAlone DEF ResetChain

LEMMA DeployOtherKeeps ==
  ASSUME IInv, NEW f \in Files, DeployOther(f)
  PROVE  IInv'
<1> DEFINE other == [key |-> "other", args |-> <<>>]
           d     == [chain[f] EXCEPT !.made = Append(@, other)]
<1>1. DOMAIN chain = Files /\ \A g \in Files : SoundChain(chain[g])
  BY DEF IInv, TypeOK, ChainsTypeOK
<1>2. other \in [key : Name, args : Seq(Address)]
  BY DEF Name
<1>3. d = [made |-> Append(chain[f].made, other), settings |-> chain[f].settings \cup {}]
  <2>1. PICK c : c = chain[f]
    OBVIOUS
  <2>2. c = [made |-> c.made, settings |-> c.settings]
    BY <1>1, <2>1 DEF SoundChain, Contracts
  <2>3. PICK longer : longer = Append(c.made, other)
    OBVIOUS
  <2>4. [c EXCEPT !.made = longer] = [made |-> longer, settings |-> c.settings]
    BY <2>2
  <2>5. d = [c EXCEPT !.made = longer]
    BY <2>1, <2>3
  <2> QED
    BY <2>1, <2>3, <2>4, <2>5
<1>4. chain' = [chain EXCEPT ![f] = d]
  BY DEF DeployOther
<1> HIDE DEF other, d
<1>5. SoundChain(d) /\ Stands(chain[f], d)
  <2>1. OneMade(chain[f], other, {}, d)
    BY <1>1, <1>2, <1>3 DEF OneMade
  <2> QED
    BY <2>1, ChainGrows
<1>6. \A g \in Files : chain'[g] = IF g = f THEN d ELSE chain[g]
  BY <1>1, <1>4
<1>7. ContractsStay
  <2>1. scope' = scope /\ wiped' = wiped
    BY DEF DeployOther
  <2>2. \A g \in Files : Stands(chain[g], chain'[g])
    BY <1>5, <1>6 DEF Stands
  <2> QED
    BY <2>1, <2>2 DEF ContractsStay
<1>8. ChainsTypeOK'
  BY <1>1, <1>4, <1>5, <1>6 DEF DeployOther, ChainsTypeOK, Files
<1>9. HistoryTypeOK'
  BY FaultSpent, HistoryType, HistoryStays DEF DeployOther
<1> QED
  BY <1>7, <1>8, <1>9, RunStays, RecordsLeftAlone DEF DeployOther

\* A renderer reads addresses of contracts only.
LEMMA RenderKeeps ==
  ASSUME IInv, NEW name \in scope.configs, Render(name)
  PROVE  IInv'
<1> DEFINE keys == ConfigKeys(name)
                     \cup {b \in OptionalKeys(name) : b[2] \in DOMAIN record[b[1]]}
<1>1. /\ DOMAIN config' = keys
      /\ \A a \in keys : config'[a] = record[a[1]][a[2]] /\ a[2] \in DOMAIN record[a[1]]
  BY DEF Render
<1>2. \A a \in keys : a[1] \in Files /\ a[2] \notin NotAddresses
  <2>1. scope \in Scopes /\ name \in ConfigNames
    BY HistoryType, ScopesAssumption
  <2> QED
    BY <2>1, ScopesAssumption, ConfigsAssumption DEF Files
<1> HIDE DEF keys
<1>3. ContractsStay /\ ChainsTypeOK'
  BY NothingOnChain DEF Render
<1>4. HistoryTypeOK'
  BY HistoryType, HistoryStays DEF Render
<1>5. ConfigOfFiles'
  BY <1>1, <1>2 DEF ConfigOfFiles, Render, Files
<1>6. ASSUME NEW a \in keys, a[1] \notin wiped
      PROVE  Live(a[1], config'[a]) /\ KindOf(a[1], config'[a]) = a[2]
  <2>1. NamesContracts(chain[a[1]], record[a[1]])
    BY <1>2, <1>6 DEF IInv, RecordsName
  <2> QED
    BY <1>1, <1>2, <2>1 DEF NamesContracts, Live, KindOf
<1>7. ConfigNamesContracts'
  BY <1>1, <1>6 DEF ConfigNamesContracts, Render, Live, KindOf
<1>8. RunTypeOK' /\ KnowsMade' /\ MemoryNames'
  BY RunStays DEF Render
<1>9. RecordsTypeOK' /\ RecordsName' /\ scope' \in Scopes
  BY <1>3, RecordsTypeStays, RecordsStay, HistoryType DEF Render
<1> QED
  BY <1>3, <1>4, <1>5, <1>7, <1>8, <1>9 DEF IInv, TypeOK

LEMMA StutterKeeps ==
  ASSUME IInv, UNCHANGED vars
  PROVE  IInv'
<1>1. ContractsStay /\ ChainsTypeOK'
  BY NothingOnChain DEF vars
<1>2. HistoryTypeOK'
  BY HistoryType, HistoryStays DEF vars
<1>3. RunTypeOK' /\ KnowsMade'
  BY DEF vars, IInv, TypeOK, RunTypeOK, KnowsMade, Addressed, Idle, Me, Plan, Files
<1>4. MemoryNames'
  BY DEF vars, IInv, MemoryNames, Idle, Me, Here
<1> QED
  BY <1>1, <1>2, <1>3, <1>4, RecordsLeftAlone DEF vars

-----------------------------------------------------------------------------
(* The theorems.                                                           *)

\* The records, the running script's memory and the rendered configurations name
\* contracts of the keys they use (deployIfMissing, render-config.ts).
THEOREM DeployInvariant == Spec => []IInv
<1>1. Init => IInv
  BY InitHolds
<1>2. IInv /\ [Next]_vars => IInv'
  <2> SUFFICES ASSUME IInv, [Next]_vars
               PROVE  IInv'
    OBVIOUS
  <2>1. CASE \E f \in Files : Start(f) \/ ResetChain(f) \/ DeployOther(f)
    BY <2>1, StartKeeps, ResetChainKeeps, DeployOtherKeeps
  <2>2. CASE Finish \/ Cut
    BY <2>2, FinishKeeps, CutKeeps
  <2>3. CASE Keep \/ DeployMissing \/ DeployUnread \/ ReceiptLost \/ Instantiate
    BY <2>3, KeepKeeps, DeployMissingKeeps, DeployUnreadKeeps, ReceiptLostKeeps,
       InstantiateKeeps
  <2>4. CASE Configure \/ Throw \/ EnrolFails \/ WriteRecord
    BY <2>4, ConfigureKeeps, ThrowKeeps, EnrolFailsKeeps, WriteRecordKeeps
  <2>5. CASE \E name \in scope.configs : Render(name)
    BY <2>5, RenderKeeps
  <2>6. CASE UNCHANGED vars
    BY <2>6, StutterKeeps
  <2> QED
    BY <2>1, <2>2, <2>3, <2>4, <2>5, <2>6 DEF Next
<1> QED
  BY <1>1, <1>2, PTL DEF Spec

\* The records, memories and chains of the deployment scripts (deployIfMissing,
\* saveDeployment) keep their types; what a setting was made on exists.
THEOREM DeployTypeCorrect == Spec => []TypeOK
<1>1. IInv => TypeOK
  BY DEF IInv
<1> QED
  BY <1>1, DeployInvariant, PTL

\* A rendered relayer configuration (render-config.ts) never names an address
\* without the contract of that name, unless the chain was reset under its
\* record: whatever runs were cut, forced or failed, and whatever else the
\* deployer created.
THEOREM ConfigsNameContracts == Spec => []ConfigNamesContracts
<1>1. IInv => ConfigNamesContracts
  BY DEF IInv
<1> QED
  BY <1>1, DeployInvariant, PTL
-----------------------------------------------------------------------------
(* Contracts and settings on one chain, as addresses name them.            *)

HeldAt(c, a, slot) == {x.value : x \in {y \in c.settings : y.on = a /\ y.slot = slot}}

\* The key's address is that of a contract of this name.
There(c, mem, key) ==
  /\ key \in DOMAIN mem
  /\ mem[key] \in DOMAIN c.made
  /\ c.made[mem[key]].key = key

BuiltAs(step, mem) ==
  [key |-> step.key, args |-> [i \in DOMAIN step.needs |-> mem[step.needs[i]]]]

\* What the step does is done: doing it again changes nothing.  Of a step with
\* a flag this says nothing; its flag is noted by a step of its own.
Done(c, mem, peers, step) ==
  /\ Makes(step) => /\ step.key \in DOMAIN mem
                    /\ step.op = "deploy" => mem[step.key] \in DOMAIN c.made
  /\ step.op = "note" => Range(step.needs) \subseteq DOMAIN mem
  /\ step.op \in Settings /\ step.flag = Absent =>
       LET held   == HeldAt(c, mem[step.on], step.slot)
           values == ValuesOf(step, mem, peers)
       IN /\ There(c, mem, step.on)
          /\ step.op \in {"point", "call", "bind"} => held = values
          /\ step.op \in Adding => values \subseteq held
          /\ step.op = "claim" => held # {} \/ values = {}

\* The contract is right, the setting as it should be, the deposit paid.
Wired(c, mem, peers, n, step) ==
  /\ Makes(step) => /\ There(c, mem, step.key)
                    /\ Range(step.needs) \subseteq DOMAIN mem
                    /\ c.made[mem[step.key]] = BuiltAs(step, mem)
  /\ step.op \in Settings =>
       LET held   == HeldAt(c, mem[step.on], step.slot)
           values == ValuesOf(step, mem, peers)
       IN /\ There(c, mem, step.on)
          /\ step.op \in {"point", "call", "bind", "claim"} => held = values
          /\ step.op \in Adding => values \subseteq held
          /\ step.op = "pay" => \E k \in 1..(1 + n) : held = {k}

-----------------------------------------------------------------------------
(* The invariant.                                                          *)

PlanOf(f)  == Scripts[f][last[f]]   \* the script of the last run
Run(f)     == last[f] \in Modes(f)  \* there was one
Current(f) == [g \in Peers(f) |-> record[g]]
Keys(script) == MadeBefore(script, Len(script) + 1) \cup NotAddresses

\* What the running script remembers of its start.
RunBook ==
  ~Idle =>
    /\ last[Me] = run.mode
    /\ seen[Me] = Current(Me)
    /\ Absent \notin DOMAIN run.mem
    /\ DOMAIN run.mem \subseteq DOMAIN record[Me] \cup MadeBefore(Plan, run.pc)
    /\ Eager(Me) \/ run.pc = Len(Plan) + 1 \/ Me \in settled => record[Me] = run.mem
    /\ Me \in settled => ~run.forced
    /\ ~run.forced => \A k \in DOMAIN record[Me] : run.mem[k] = record[Me][k]
    /\ run.forced /\ Me \notin mixed => run.sound /\ Me \notin switched

FileBook(f) ==
  /\ Absent \notin DOMAIN record[f]
  /\ ~Run(f) => last[f] = Absent /\ record[f] = None /\ f \notin settled
  /\ Run(f) /\ f \notin switched => DOMAIN record[f] \subseteq Keys(PlanOf(f))
  /\ f \in switched \ mixed => f \notin wiped

\* What a script has done stays done.
RunDone ==
  ~Idle => \A i \in 1..(run.pc - 1) : Done(Here, run.mem, seen[Me], Plan[i])

SettledDone(f) ==
  f \in settled =>
    \A i \in DOMAIN PlanOf(f) : Done(chain[f], record[f], seen[f], PlanOf(f)[i])

\* A run that will leave its file not mixed, if it finishes.
Tracked ==
  ~Idle /\ (Me \notin mixed \/ (run.forced /\ run.sound /\ Me \notin switched))

RunWired ==
  Tracked => \A i \in 1..(run.pc - 1) : Wired(Here, run.mem, seen[Me], cuts[Me], Plan[i])

\* A forced run's contracts are in script order, and those that are not
\* claimed yet are free.
NewInOrder ==
  Tracked /\ run.forced =>
    /\ \A i, j \in 1..(run.pc - 1) :
         i < j /\ Makes(Plan[i]) /\ Makes(Plan[j])
           => run.mem[Plan[i].key] < run.mem[Plan[j].key]
    /\ \A i \in run.pc..Len(Plan) :
         Plan[i].op \in {"claim", "pay"} /\ Plan[i].on \in MadeBefore(Plan, run.pc)
           => HeldAt(Here, run.mem[Plan[i].on], Plan[i].slot) = {}

SettledWired(f) ==
  f \in settled \ mixed =>
    \A i \in DOMAIN PlanOf(f) : Wired(chain[f], record[f], seen[f], cuts[f], PlanOf(f)[i])

\* The files whose record can be gone on with: not mixed, and no forced run is
\* replacing it.
Steady(f) == f \notin mixed /\ ~(f = Me /\ run.forced /\ Eager(f))

\* A recorded address of an existing contract is the right one.
Built(f) ==
  \A step \in StepsOf(f) :
    Makes(step) /\ step.key \in DOMAIN record[f] =>
      /\ Range(step.needs) \subseteq DOMAIN record[f]
      /\ record[f][step.key] \in DOMAIN chain[f].made
           => chain[f].made[record[f][step.key]] = BuiltAs(step, record[f])
      /\ ~Eager(f) => record[f][step.key] \in DOMAIN chain[f].made

\* Recorded addresses are in script order, so a reset chain hands them out in
\* script order again.
Ordered(f) ==
  Run(f) /\ f \notin switched /\ Eager(f) =>
    \A j \in DOMAIN PlanOf(f) :
      LET b == PlanOf(f)[j].key
      IN Makes(PlanOf(f)[j]) /\ b \in DOMAIN record[f] =>
           /\ record[f][b] > 0
           /\ \A i \in 1..(j - 1) :
                LET a == PlanOf(f)[i].key
                IN Makes(PlanOf(f)[i]) => a \in DOMAIN record[f] /\ record[f][a] < record[f][b]

\* What is claimed is claimed by the recorded contract, which exists.
Claimed(f) ==
  \A step \in StepsOf(f) :
    step.op = "claim" /\ There(chain[f], record[f], step.on) =>
      LET held == HeldAt(chain[f], record[f][step.on], step.slot)
      IN held # {} =>
           /\ held = ValuesOf(step, record[f], Current(f))
           /\ step.key # Absent /\ step.from = Absent
                => record[f][step.key] \in DOMAIN chain[f].made

\* A recorded flag tells the truth.
FlagsTrue(f) ==
  \A step \in StepsOf(f) :
    step.op \in Settings /\ step.flag \in DOMAIN record[f]
      => Wired(chain[f], record[f], seen[f], cuts[f], step)

\* A deposit was paid at most once, but for the runs that were cut.
Paying(f, step) == f = Me /\ \E i \in 1..(run.pc - 1) : Plan[i] = step

Paid(f) ==
  \A step \in StepsOf(f) :
    step.op = "pay" /\ There(chain[f], record[f], step.on) =>
      LET held == HeldAt(chain[f], record[f][step.on], step.slot)
      IN held # {} =>
           \E n \in 1..(1 + cuts[f]) :
             /\ held = {n}
             /\ n <= cuts[f] \/ step.flag \in DOMAIN record[f] \/ Paying(f, step)

SteadyWired(f) ==
  Steady(f) => Built(f) /\ Ordered(f) /\ Claimed(f) /\ FlagsTrue(f) /\ Paid(f)

FileInv(f) == FileBook(f) /\ SettledDone(f) /\ SettledWired(f) /\ SteadyWired(f)
RunInv     == RunBook /\ RunDone /\ RunWired /\ NewInOrder

WInv == RunInv /\ \A f \in Files : FileInv(f)
-----------------------------------------------------------------------------
(* Lemmas about the scripts.                                               *)

\* The keys a step looks up in the script's own memory.
Uses(step) ==
  Range(step.needs)
    \cup (({step.on} \cup (IF step.from = Absent THEN {step.key} ELSE {})) \ {Absent})

\* A script of the file, in one mode or another.
ScriptOf(f, script) == f \in Records /\ \E mode \in Modes(f) : script = Scripts[f][mode]

LEMMA ScriptFacts ==
  ASSUME NEW f, NEW script, ScriptOf(f, script)
  PROVE  /\ script \in Seq(StepType)
         /\ \A i \in DOMAIN script :
              /\ InOrder(script, i) /\ script[i].from \in Peers(f) \cup {Absent}
              /\ MadeOnce(script, i) /\ SetOnce(script, i) /\ FlagNoted(script, i)
              /\ script[i].op \in Settings \cup {"deploy", "instantiate", "note"}
         /\ \A step \in StepsOf(f) : SameInEveryMode(script, step)
         /\ IF Eager(f) THEN \A i \in DOMAIN script : script[i].op # "instantiate"
                        ELSE WritesAtEnd(script)
BY ScriptsAssumption, WiringAssumption DEF ScriptOf

LEMMA MadeEarlier ==
  ASSUME NEW f, NEW script, ScriptOf(f, script),
         NEW i \in Nat, i <= Len(script) + 1, NEW k, k \in MadeBefore(script, i)
  PROVE  \E j \in DOMAIN script : j < i /\ Makes(script[j]) /\ script[j].key = k
<1>1. script \in Seq(StepType)
  BY ScriptFacts
<1>2. PICK j \in 1..(i - 1) : Makes(script[j]) /\ script[j].key = k
  BY DEF MadeBefore
<1> QED
  BY <1>1, <1>2

LEMMA MadeNamed ==
  ASSUME NEW f, NEW script, ScriptOf(f, script),
         NEW i \in Nat, i <= Len(script) + 1, NEW k, k \in MadeBefore(script, i)
  PROVE  k # Absent /\ k \notin NotAddresses
<1>1. PICK j \in DOMAIN script : Makes(script[j]) /\ script[j].key = k
  BY MadeEarlier
<1>2. MadeOnce(script, j) /\ InOrder(script, j)
  BY ScriptFacts
<1> QED
  BY <1>1, <1>2 DEF MadeOnce, InOrder

LEMMA MadeGrows ==
  ASSUME NEW script, NEW i \in Nat, NEW j \in Nat, i <= j
  PROVE  /\ MadeBefore(script, i) \subseteq MadeBefore(script, j)
         /\ i < j /\ i >= 1 /\ Makes(script[i]) => script[i].key \in MadeBefore(script, j)
BY DEF MadeBefore

\* The steps of a file's scripts, whatever the mode.
LEMMA StepFacts ==
  ASSUME NEW f \in Records, NEW step \in StepsOf(f)
  PROVE  /\ step \in StepType /\ step.from \in Peers(f) \cup {Absent}
         /\ step.op \in Settings \cup {"deploy", "instantiate", "note"}
         /\ Makes(step) => /\ step.key # Absent /\ step.key \notin NotAddresses
                           /\ step.from = Absent
                           /\ Absent \notin Range(step.needs)
         /\ step.op \in Settings =>
              /\ step.needs = <<>> /\ step.on # Absent /\ step.on \notin NotAddresses
              /\ step.from # Absent => step.key # Absent /\ step.op = "claim"
              /\ step.from = Absent => step.key \notin NotAddresses
              /\ step.op \in {"claim", "pay"} => step.on # "gpactSignerRegistry"
         /\ step.op \in Settings /\ step.flag # Absent =>
              /\ step.flag \in Flags /\ step.op \in {"enrol", "call", "pay"}
              /\ step.key = Absent /\ step.from = Absent
         /\ step.op \in {"enrol", "pay"} => step.flag # Absent
         /\ step.op = "note" => Absent \notin Range(step.needs)
<1>1. PICK script : ScriptOf(f, script) /\ step \in Range(script)
  BY DEF StepsOf, ScriptOf
<1>2. PICK i \in DOMAIN script : script[i] = step
  BY <1>1 DEF Range
<1>3. /\ script \in Seq(StepType)
      /\ InOrder(script, i) /\ script[i].from \in Peers(f) \cup {Absent}
      /\ MadeOnce(script, i) /\ SetOnce(script, i) /\ FlagNoted(script, i)
      /\ script[i].op \in Settings \cup {"deploy", "instantiate", "note"}
  BY <1>1, <1>2, ScriptFacts
<1>4. step \in StepType /\ i \in Nat /\ i <= Len(script) + 1
  BY <1>2, <1>3
<1>5. \A k \in MadeBefore(script, i) : k # Absent /\ k \notin NotAddresses
  BY <1>1, <1>4, MadeNamed
<1>6. Absent \notin NotAddresses
  BY DEF Absent, NotAddresses, Flags
<1>7. Makes(step) => /\ step.key # Absent /\ step.key \notin NotAddresses
                     /\ step.from = Absent /\ Absent \notin Range(step.needs)
  BY <1>2, <1>3, <1>5 DEF MadeOnce, InOrder
<1>8. step.op \in Settings =>
        /\ step.needs = <<>> /\ step.on # Absent /\ step.on \notin NotAddresses
        /\ step.from # Absent => step.key # Absent /\ step.op = "claim"
        /\ step.from = Absent => step.key \notin NotAddresses
        /\ step.op \in {"claim", "pay"} => step.on # "gpactSignerRegistry"
  BY <1>2, <1>3, <1>5, <1>6 DEF SetOnce
<1>9. step.op \in Settings /\ step.flag # Absent =>
        /\ step.flag \in Flags /\ step.op \in {"enrol", "call", "pay"} /\ step.key = Absent
  BY <1>2, <1>3 DEF FlagNoted
<1>10. /\ step.op \in {"enrol", "pay"} => step.flag # Absent
       /\ step.op = "note" => Absent \notin Range(step.needs)
  BY <1>2, <1>3 DEF FlagNoted
<1> QED
  BY <1>2, <1>3, <1>4, <1>7, <1>8, <1>9, <1>10

LEMMA StepOf ==
  ASSUME NEW f, NEW script, ScriptOf(f, script), NEW i \in DOMAIN script
  PROVE  script[i] \in StepsOf(f)
BY DEF ScriptOf, StepsOf, Range

\* What a step looks up has been made, and so has what a step before it made.
LEMMA UsesMade ==
  ASSUME NEW f, NEW script, ScriptOf(f, script),
         NEW i \in DOMAIN script, script[i].op # "note"
  PROVE  Uses(script[i]) \subseteq MadeBefore(script, i + 1)
<1> DEFINE step == script[i]
<1>1. /\ script \in Seq(StepType) /\ InOrder(script, i) /\ MadeOnce(script, i)
      /\ SetOnce(script, i)
      /\ step.op \in Settings \cup {"deploy", "instantiate", "note"}
  BY ScriptFacts
<1>2. i \in Nat /\ i >= 1 /\ i + 1 \in Nat
  BY <1>1
<1>3. /\ MadeBefore(script, i) \subseteq MadeBefore(script, i + 1)
      /\ Makes(step) => step.key \in MadeBefore(script, i + 1)
  BY <1>2, MadeGrows
<1>4. CASE Makes(step)
  <2>1. step.on = Absent
    BY <1>1, <1>4, ScriptFacts DEF MadeOnce
  <2> QED
    BY <1>1, <1>3, <1>4, <2>1 DEF Uses, InOrder
<1>5. CASE step.op \in Settings
  <2>1. Range(step.needs) = {}
    BY <1>1, <1>5 DEF SetOnce, Range
  <2> QED
    BY <1>1, <1>3, <1>5, <2>1 DEF Uses, SetOnce
<1> QED
  BY <1>1, <1>4, <1>5 DEF Makes
-----------------------------------------------------------------------------
(* What is done, and wired, stays so while the chain grows.                *)

\* Every contract of c stands in d, with the settings it had.
Grows(c, d) ==
  \A a \in DOMAIN c.made :
    /\ a \in DOMAIN d.made /\ d.made[a] = c.made[a]
    /\ \A slot : HeldAt(d, a, slot) = HeldAt(c, a, slot)

\* The memory m knows what mem knows, and agrees with it on what the step uses.
Agrees(mem, m, step) ==
  /\ DOMAIN mem \subseteq DOMAIN m
  /\ step.op # "note" =>
       Uses(step) \subseteq DOMAIN mem /\ \A k \in Uses(step) : m[k] = mem[k]

LEMMA ThereStays ==
  ASSUME NEW c, NEW d, Grows(c, d), NEW mem, NEW m, NEW key, There(c, mem, key),
         key \in DOMAIN m, m[key] = mem[key]
  PROVE  There(d, m, key)
BY DEF Grows, There

LEMMA ValuesStay ==
  ASSUME NEW f \in Records, NEW step \in StepsOf(f), step.op \in Settings,
         NEW mem, NEW m, Agrees(mem, m, step), NEW peers
  PROVE  /\ m[step.on] = mem[step.on] /\ step.on \in DOMAIN m
         /\ ValuesOf(step, m, peers) = ValuesOf(step, mem, peers)
<1>1. step.on # Absent /\ step.op # "note"
  BY StepFacts DEF Settings
<1>2. step.on \in Uses(step)
  BY <1>1 DEF Uses
<1>3. step.from = Absent /\ step.key # Absent => step.key \in Uses(step)
  BY DEF Uses
<1> QED
  BY <1>1, <1>2, <1>3 DEF Agrees, ValuesOf

LEMMA DoneStays ==
  ASSUME NEW f \in Records, NEW step \in StepsOf(f),
         NEW c, NEW d, Grows(c, d), NEW mem, NEW m, Agrees(mem, m, step), NEW peers,
         Done(c, mem, peers, step)
  PROVE  Done(d, m, peers, step)
<1>1. ASSUME Makes(step)
      PROVE  step.key \in DOMAIN m /\ (step.op = "deploy" => m[step.key] \in DOMAIN d.made)
  <2>1. step.key \in Uses(step) /\ step.op # "note"
    BY <1>1, StepFacts DEF Uses, Makes
  <2> QED
    BY <1>1, <2>1 DEF Agrees, Done, Grows
<1>2. step.op = "note" => Range(step.needs) \subseteq DOMAIN m
  BY DEF Agrees, Done
<1>3. ASSUME step.op \in Settings, step.flag = Absent
      PROVE  LET held   == HeldAt(d, m[step.on], step.slot)
                 values == ValuesOf(step, m, peers)
             IN /\ There(d, m, step.on)
                /\ step.op \in {"point", "call", "bind"} => held = values
                /\ step.op \in Adding => values \subseteq held
                /\ step.op = "claim" => held # {} \/ values = {}
  <2>1. /\ m[step.on] = mem[step.on] /\ step.on \in DOMAIN m
        /\ ValuesOf(step, m, peers) = ValuesOf(step, mem, peers)
    BY <1>3, ValuesStay
  <2>2. There(c, mem, step.on)
    BY <1>3 DEF Done
  <2>3. There(d, m, step.on)
    BY <2>1, <2>2, ThereStays
  <2>4. HeldAt(d, m[step.on], step.slot) = HeldAt(c, mem[step.on], step.slot)
    BY <2>1, <2>2 DEF There, Grows
  <2> QED
    BY <1>3, <2>1, <2>3, <2>4 DEF Done
<1> QED
  BY <1>1, <1>2, <1>3 DEF Done

LEMMA WiredStays ==
  ASSUME NEW f \in Records, NEW step \in StepsOf(f),
         NEW c, NEW d, Grows(c, d), NEW mem, NEW m, Agrees(mem, m, step), NEW peers,
         NEW n \in Nat, NEW more \in Nat, n <= more,
         Wired(c, mem, peers, n, step)
  PROVE  Wired(d, m, peers, more, step)
<1>1. ASSUME Makes(step)
      PROVE  /\ There(d, m, step.key) /\ Range(step.needs) \subseteq DOMAIN m
             /\ d.made[m[step.key]] = BuiltAs(step, m)
  <2>1. step.key \in Uses(step) /\ Range(step.needs) \subseteq Uses(step) /\ step.op # "note"
    BY <1>1, StepFacts DEF Uses, Makes
  <2>2. m[step.key] = mem[step.key] /\ step.key \in DOMAIN m
    BY <2>1 DEF Agrees
  <2>3. There(d, m, step.key)
    BY <1>1, <2>2, ThereStays DEF Wired
  <2>4. BuiltAs(step, m) = BuiltAs(step, mem)
    <3>1. \A i \in DOMAIN step.needs : m[step.needs[i]] = mem[step.needs[i]]
      BY <2>1 DEF Agrees, Range
    <3> QED
      BY <3>1 DEF BuiltAs
  <2>5. d.made[m[step.key]] = c.made[mem[step.key]]
    BY <1>1, <2>2 DEF Wired, There, Grows
  <2> QED
    BY <1>1, <2>1, <2>3, <2>4, <2>5 DEF Agrees, Wired
<1>2. ASSUME step.op \in Settings
      PROVE  LET held   == HeldAt(d, m[step.on], step.slot)
                 values == ValuesOf(step, m, peers)
             IN /\ There(d, m, step.on)
                /\ step.op \in {"point", "call", "bind", "claim"} => held = values
                /\ step.op \in Adding => values \subseteq held
                /\ step.op = "pay" => \E k \in 1..(1 + more) : held = {k}
  <2>1. /\ m[step.on] = mem[step.on] /\ step.on \in DOMAIN m
        /\ ValuesOf(step, m, peers) = ValuesOf(step, mem, peers)
    BY <1>2, ValuesStay
  <2>2. There(c, mem, step.on)
    BY <1>2 DEF Wired
  <2>3. There(d, m, step.on)
    BY <2>1, <2>2, ThereStays
  <2>4. HeldAt(d, m[step.on], step.slot) = HeldAt(c, mem[step.on], step.slot)
    BY <2>1, <2>2 DEF There, Grows
  <2>5. 1..(1 + n) \subseteq 1..(1 + more)
    OBVIOUS
  <2> QED
    BY <1>2, <2>1, <2>3, <2>4, <2>5 DEF Wired
<1> QED
  BY <1>1, <1>2 DEF Wired

-----------------------------------------------------------------------------
(* A setting is made.                                                      *)

\* d is c with one slot of one contract changed.
OneSlot(c, d, a, slot) ==
  /\ d.made = c.made
  /\ \A b, other : b # a \/ other # slot => HeldAt(d, b, other) = HeldAt(c, b, other)

\* The step is not about this slot, or both only add to it.
Apart(step, on, op, slot) ==
  \/ step.on # on \/ step.slot # slot
  \/ step.op \in Adding /\ op \in Adding

\* A contract's address is not another's.
LEMMA NamedApart ==
  ASSUME NEW c, NEW mem, NEW j, NEW k, There(c, mem, j), There(c, mem, k), j # k
  PROVE  mem[j] # mem[k]
BY DEF There

LEMMA DoneBeside ==
  ASSUME NEW f \in Records, NEW step \in StepsOf(f), NEW other \in StepsOf(f),
         NEW c, NEW d, NEW mem, NEW peers, There(c, mem, other.on),
         OneSlot(c, d, mem[other.on], other.slot),
         other.op \in Adding =>
           HeldAt(c, mem[other.on], other.slot) \subseteq HeldAt(d, mem[other.on], other.slot),
         other.op \in Settings, step.op \in Settings => Apart(step, other.on, other.op, other.slot),
         Done(c, mem, peers, step)
  PROVE  Done(d, mem, peers, step)
<1>1. d.made = c.made
  BY DEF OneSlot
<1>2. ASSUME step.op \in Settings, step.flag = Absent
      PROVE  LET held   == HeldAt(d, mem[step.on], step.slot)
                 values == ValuesOf(step, mem, peers)
             IN /\ There(d, mem, step.on)
                /\ step.op \in {"point", "call", "bind"} => held = values
                /\ step.op \in Adding => values \subseteq held
                /\ step.op = "claim" => held # {} \/ values = {}
  <2>1. There(c, mem, step.on) /\ There(d, mem, step.on)
    BY <1>1, <1>2 DEF Done, There
  <2>2. CASE step.on # other.on \/ step.slot # other.slot
    <3>1. mem[step.on] # mem[other.on] \/ step.slot # other.slot
      BY <2>1, <2>2, NamedApart
    <3>2. HeldAt(d, mem[step.on], step.slot) = HeldAt(c, mem[step.on], step.slot)
      BY <3>1 DEF OneSlot
    <3> QED
      BY <1>2, <2>1, <3>2 DEF Done
  <2>3. CASE step.on = other.on /\ step.slot = other.slot
    <3>1. step.op \in Adding /\ other.op \in Adding
      BY <1>2, <2>3 DEF Apart
    <3>2. HeldAt(c, mem[step.on], step.slot) \subseteq HeldAt(d, mem[step.on], step.slot)
      BY <2>3, <3>1
    <3> QED
      BY <1>2, <2>1, <3>1, <3>2 DEF Done, Adding
  <2> QED
    BY <2>2, <2>3
<1> QED
  BY <1>1, <1>2 DEF Done

LEMMA WiredBeside ==
  ASSUME NEW f \in Records, NEW step \in StepsOf(f), NEW other \in StepsOf(f),
         NEW c, NEW d, NEW mem, NEW peers, NEW n, There(c, mem, other.on),
         OneSlot(c, d, mem[other.on], other.slot),
         other.op \in Adding =>
           HeldAt(c, mem[other.on], other.slot) \subseteq HeldAt(d, mem[other.on], other.slot),
         other.op \in Settings, step.op \in Settings => Apart(step, other.on, other.op, other.slot),
         Wired(c, mem, peers, n, step)
  PROVE  Wired(d, mem, peers, n, step)
<1>1. d.made = c.made
  BY DEF OneSlot
<1>2. ASSUME step.op \in Settings
      PROVE  LET held   == HeldAt(d, mem[step.on], step.slot)
                 values == ValuesOf(step, mem, peers)
             IN /\ There(d, mem, step.on)
                /\ step.op \in {"point", "call", "bind", "claim"} => held = values
                /\ step.op \in Adding => values \subseteq held
                /\ step.op = "pay" => \E k \in 1..(1 + n) : held = {k}
  <2>1. There(c, mem, step.on) /\ There(d, mem, step.on)
    BY <1>1, <1>2 DEF Wired, There
  <2>2. CASE step.on # other.on \/ step.slot # other.slot
    <3>1. mem[step.on] # mem[other.on] \/ step.slot # other.slot
      BY <2>1, <2>2, NamedApart
    <3>2. HeldAt(d, mem[step.on], step.slot) = HeldAt(c, mem[step.on], step.slot)
      BY <3>1 DEF OneSlot
    <3> QED
      BY <1>2, <2>1, <3>2 DEF Wired
  <2>3. CASE step.on = other.on /\ step.slot = other.slot
    <3>1. step.op \in Adding /\ other.op \in Adding
      BY <1>2, <2>3 DEF Apart
    <3>2. HeldAt(c, mem[step.on], step.slot) \subseteq HeldAt(d, mem[step.on], step.slot)
      BY <2>3, <3>1
    <3> QED
      BY <1>2, <2>1, <3>1, <3>2 DEF Wired, Adding
  <2> QED
    BY <2>2, <2>3
<1> QED
  BY <1>1, <1>2 DEF Wired, There
-----------------------------------------------------------------------------
(* The running script, and a new contract on its chain.                    *)

LEMMA RunFacts ==
  ASSUME IInv, ~Idle
  PROVE  /\ Me \in Files /\ Me \in Records /\ ScriptOf(Me, Plan)
         /\ Plan \in Seq(StepType) /\ run.pc \in 1..(Len(Plan) + 1)
         /\ \A i \in DOMAIN Plan : Plan[i] \in StepsOf(Me)
         /\ MadeBefore(Plan, run.pc) \subseteq DOMAIN run.mem
         /\ run.mode \in Modes(Me) /\ SoundChain(Here) /\ Addressed(run.mem)
<1>1. /\ Me \in Files /\ Me \in Records /\ Plan \in Seq(StepType)
      /\ run.pc \in 1..(Len(Plan) + 1)
  BY PlanInOrder
<1>2. run.mode \in Modes(Me) /\ MadeBefore(Plan, run.pc) \subseteq DOMAIN run.mem
  BY DEF IInv, TypeOK, RunTypeOK, KnowsMade
<1>3. ScriptOf(Me, Plan)
  BY <1>1, <1>2 DEF ScriptOf, Plan
<1>4. SoundChain(Here) /\ Addressed(run.mem)
  BY <1>1 DEF IInv, TypeOK, ChainsTypeOK, RunTypeOK, Here
<1> QED
  BY <1>1, <1>2, <1>3, <1>4, StepOf

LEMMA NowFacts ==
  ASSUME IInv, AtStep
  PROVE  /\ ~Idle /\ run.pc \in 1..Len(Plan) /\ run.pc \in DOMAIN Plan
         /\ Now \in StepsOf(Me) /\ Now = Plan[run.pc]
         /\ InOrder(Plan, run.pc) /\ MadeOnce(Plan, run.pc)
         /\ SetOnce(Plan, run.pc) /\ FlagNoted(Plan, run.pc)
<1>1. ~Idle /\ run.pc \in DOMAIN Plan
  BY DEF AtStep
<1>2. ScriptOf(Me, Plan) /\ Plan \in Seq(StepType) /\ \A i \in DOMAIN Plan : Plan[i] \in StepsOf(Me)
  BY <1>1, RunFacts
<1> QED
  BY <1>1, <1>2, ScriptFacts DEF Now

\* A script knows what its steps so far use.
LEMMA UsesKnown ==
  ASSUME IInv, ~Idle, NEW i \in 1..(run.pc - 1), Plan[i].op # "note"
  PROVE  Uses(Plan[i]) \subseteq MadeBefore(Plan, run.pc)
<1>1. /\ i \in DOMAIN Plan /\ i + 1 \in Nat /\ run.pc \in Nat /\ i + 1 <= run.pc
      /\ ScriptOf(Me, Plan)
  BY RunFacts
<1>2. Uses(Plan[i]) \subseteq MadeBefore(Plan, i + 1)
  BY <1>1, UsesMade
<1>3. MadeBefore(Plan, i + 1) \subseteq MadeBefore(Plan, run.pc)
  BY <1>1, MadeGrows
<1> QED
  BY <1>2, <1>3

LEMMA NowUses ==
  ASSUME IInv, AtStep, Now.op \in Settings
  PROVE  /\ Uses(Now) \subseteq MadeBefore(Plan, run.pc)
         /\ Uses(Now) \subseteq DOMAIN run.mem
         /\ Now.on \in MadeBefore(Plan, run.pc) /\ Now.on \in DOMAIN run.mem
<1>1. SetOnce(Plan, run.pc) /\ Now = Plan[run.pc] /\ ~Idle
  BY NowFacts
<1>2. Range(Now.needs) = {}
  BY <1>1 DEF SetOnce, Range
<1>3. MadeBefore(Plan, run.pc) \subseteq DOMAIN run.mem
  BY <1>1, RunFacts
<1> QED
  BY <1>1, <1>2, <1>3 DEF SetOnce, Uses

LEMMA KeyIsNew ==
  ASSUME IInv, AtStep, Makes(Now)
  PROVE  Now.key \notin MadeBefore(Plan, run.pc)
<1>1. /\ ScriptOf(Me, Plan) /\ Plan \in Seq(StepType) /\ run.pc \in Nat
      /\ run.pc <= Len(Plan) + 1 /\ MadeOnce(Plan, run.pc) /\ Now = Plan[run.pc]
  BY NowFacts, RunFacts
<1> SUFFICES ASSUME Now.key \in MadeBefore(Plan, run.pc)
             PROVE  FALSE
  OBVIOUS
<1>2. PICK j \in DOMAIN Plan : j < run.pc /\ Makes(Plan[j]) /\ Plan[j].key = Now.key
  BY <1>1, MadeEarlier
<1> QED
  BY <1>1, <1>2 DEF MadeOnce

\* Nothing is set on the contract.
Free(c, a) == \A slot : HeldAt(c, a, slot) = {}

LEMMA GrowsByOne ==
  ASSUME NEW c, NEW contract, NEW extra, NEW d, OneMade(c, contract, extra, d)
  PROVE  /\ Grows(c, d)
         /\ DOMAIN c.made = 1..Len(c.made) /\ Len(c.made) \in Nat
         /\ DOMAIN d.made = 1..(Len(c.made) + 1)
         /\ d.made[Len(c.made) + 1] = contract
         /\ extra = {} => Free(d, Len(c.made) + 1)
<1>1. /\ DOMAIN d.made = DOMAIN c.made \cup {Len(c.made) + 1}
      /\ d.made[Len(c.made) + 1] = contract
      /\ \A a \in DOMAIN c.made : d.made[a] = c.made[a]
  BY OneMore
<1>2. DOMAIN c.made = 1..Len(c.made) /\ Len(c.made) \in Nat
  BY DEF OneMade, SoundChain, Contracts
<1>3. DOMAIN d.made = 1..(Len(c.made) + 1)
  BY <1>1, <1>2
<1>4. Len(c.made) + 1 \notin DOMAIN c.made
  BY <1>2
<1>5. ASSUME NEW a \in DOMAIN c.made, NEW slot
      PROVE  HeldAt(d, a, slot) = HeldAt(c, a, slot)
  <2>1. \A x \in extra : x.on # a
    BY <1>4 DEF OneMade
  <2>2. {y \in d.settings : y.on = a /\ y.slot = slot}
          = {y \in c.settings : y.on = a /\ y.slot = slot}
    BY <2>1 DEF OneMade
  <2> QED
    BY <2>2 DEF HeldAt
<1>6. ASSUME extra = {}, NEW slot
      PROVE  HeldAt(d, Len(c.made) + 1, slot) = {}
  BY <1>4, <1>6 DEF OneMade, HeldAt, SoundChain
<1> QED
  BY <1>1, <1>2, <1>3, <1>5, <1>6 DEF Grows, Free

LEMMA CreatedGrows ==
  ASSUME IInv, AtStep, Makes(Now)
  PROVE  /\ Grows(Here, Created)
         /\ DOMAIN Here.made = 1..(NewAddress - 1) /\ NewAddress \in Nat /\ NewAddress >= 1
         /\ DOMAIN Created.made = 1..NewAddress
         /\ Created.made[NewAddress] = BuiltAs(Now, run.mem)
         /\ Now.key # "gpactSignerRegistry" => Free(Created, NewAddress)
<1>1. /\ Me \in Files /\ Now \in StepType /\ InOrder(Plan, run.pc)
      /\ MadeBefore(Plan, run.pc) \subseteq DOMAIN run.mem /\ Addressed(run.mem)
  BY StepNow
<1>2. SoundChain(Here)
  BY <1>1 DEF IInv, TypeOK, ChainsTypeOK, Here
<1>3. Now.key \in Name /\ Now.needs \in Seq(Name)
  BY <1>1 DEF StepType
<1> DEFINE args == [i \in DOMAIN Now.needs |-> run.mem[Now.needs[i]]]
<1>4. args \in Seq(Address)
  <2>1. \A i \in DOMAIN Now.needs : Now.needs[i] \in DOMAIN run.mem
    BY <1>1 DEF InOrder, Now, Range
  <2>2. \A i \in DOMAIN Now.needs : run.mem[Now.needs[i]] \in Address
    BY <1>1, <2>1 DEF Addressed
  <2>3. DOMAIN Now.needs = 1..Len(Now.needs) /\ Len(Now.needs) \in Nat
    BY <1>3
  <2> QED
    BY <2>2, <2>3
<1> DEFINE contract == [key |-> Now.key, args |-> args]
<1>5. contract \in [key : Name, args : Seq(Address)] /\ contract = BuiltAs(Now, run.mem)
  BY <1>3, <1>4 DEF BuiltAs
<1> DEFINE extra == IF Now.key = "gpactSignerRegistry"
                    THEN {[on |-> NewAddress, slot |-> "quorum", value |-> Fixed]} ELSE {}
<1>6. /\ extra \in SUBSET {[on |-> Len(Here.made) + 1, slot |-> "quorum", value |-> Fixed]}
      /\ Now.key # "gpactSignerRegistry" => extra = {}
  BY DEF NewAddress
<1>7. Created = [made |-> Append(Here.made, contract), settings |-> Here.settings \cup extra]
  BY DEF Created
<1> HIDE DEF contract, extra, args
<1>8. /\ Grows(Here, Created)
      /\ DOMAIN Here.made = 1..Len(Here.made) /\ Len(Here.made) \in Nat
      /\ DOMAIN Created.made = 1..(Len(Here.made) + 1)
      /\ Created.made[Len(Here.made) + 1] = contract
      /\ extra = {} => Free(Created, Len(Here.made) + 1)
  <2>1. OneMade(Here, contract, extra, Created)
    BY <1>2, <1>5, <1>6, <1>7 DEF OneMade
  <2> QED
    BY <2>1, GrowsByOne
<1>9. NewAddress = Len(Here.made) + 1
  BY DEF NewAddress
<1> QED
  BY <1>5, <1>6, <1>8, <1>9

\* What the script has done does not use the contract it makes now.
LEMMA NewAgrees ==
  ASSUME IInv, AtStep, Makes(Now), NEW i \in 1..(run.pc - 1)
  PROVE  Agrees(run.mem, WithNew, Plan[i])
<1>1. /\ DOMAIN WithNew = DOMAIN run.mem \cup {Now.key}
      /\ \A k \in DOMAIN run.mem : k # Now.key => WithNew[k] = run.mem[k]
  BY DEF WithNew, WithKey
<1>2. ~Idle /\ MadeBefore(Plan, run.pc) \subseteq DOMAIN run.mem
  BY StepNow
<1>3. Now.key \notin MadeBefore(Plan, run.pc)
  BY KeyIsNew
<1>4. Plan[i].op # "note" => Uses(Plan[i]) \subseteq MadeBefore(Plan, run.pc)
  BY <1>2, UsesKnown
<1> QED
  BY <1>1, <1>2, <1>3, <1>4 DEF Agrees

LEMMA NotesAgree ==
  ASSUME IInv, ~Idle, NEW i \in 1..(run.pc - 1)
  PROVE  Agrees(run.mem, WithNotes(run.mem), Plan[i]) /\ Agrees(run.mem, run.mem, Plan[i])
<1>1. /\ DOMAIN run.mem \subseteq DOMAIN WithNotes(run.mem)
      /\ \A k \in DOMAIN run.mem : WithNotes(run.mem)[k] = run.mem[k]
  BY DEF WithNotes
<1>2. Plan[i].op # "note" => Uses(Plan[i]) \subseteq DOMAIN run.mem
  BY UsesKnown, RunFacts
<1> QED
  BY <1>1, <1>2 DEF Agrees

LEMMA GrowsItself ==
  ASSUME NEW c
  PROVE  Grows(c, c)
BY DEF Grows
-----------------------------------------------------------------------------
(* A step of the running script leaves the other files alone, but for      *)
(* those that read its record.                                             *)

\* Whoever reads the record finds what was there, or is mixed now.
RecordKept ==
  \/ \A k \in DOMAIN record[Me] : k \in DOMAIN record'[Me] /\ record'[Me][k] = record[Me][k]
  \/ Dependents(Me) \subseteq mixed'

RunStep ==
  /\ ~Idle /\ UNCHANGED <<scope, seen, last, wiped, switched>>
  /\ \A f \in Files \ {Me} :
       /\ record'[f] = record[f] /\ chain'[f] = chain[f] /\ cuts'[f] = cuts[f]
       /\ f \in settled' <=> f \in settled
       /\ f \in mixed => f \in mixed'
  /\ run' = NoRun \/ Me' = Me
  /\ RecordKept

LEMMA FilesAreRecords ==
  ASSUME IInv, NEW f \in Files
  PROVE  f \in Records /\ f # Absent /\ f \notin Peers(f) /\ Peers(f) \subseteq Files
<1>1. scope \in Scopes
  BY HistoryType
<1> QED
  BY <1>1, ScopesAssumption, RecordsAssumption DEF Files

LEMMA OthersStay ==
  ASSUME IInv, WInv, RunStep, NEW f \in Files, f # Me
  PROVE  FileInv(f)'
<1>1. /\ record'[f] = record[f] /\ chain'[f] = chain[f] /\ cuts'[f] = cuts[f]
      /\ seen' = seen /\ last' = last /\ wiped' = wiped /\ switched' = switched
      /\ f \in settled' <=> f \in settled
      /\ f \in mixed => f \in mixed'
  BY DEF RunStep
<1>2. FileInv(f)
  BY DEF WInv
<1>3. PlanOf(f)' = PlanOf(f) /\ Run(f)' = Run(f)
  BY <1>1 DEF PlanOf, Run
<1>4. FileBook(f)'
  BY <1>1, <1>2, <1>3 DEF FileInv, FileBook
<1>5. SettledDone(f)'
  BY <1>1, <1>2, <1>3 DEF FileInv, SettledDone
<1>6. SettledWired(f)'
  BY <1>1, <1>2, <1>3 DEF FileInv, SettledWired
<1>7. ASSUME Steady(f)'
      PROVE  (Built(f) /\ Ordered(f) /\ Claimed(f) /\ FlagsTrue(f) /\ Paid(f))'
  <2>1. f \notin mixed' /\ f \notin mixed
    BY <1>1, <1>7 DEF Steady
  <2>2. Built(f) /\ Ordered(f) /\ Claimed(f) /\ FlagsTrue(f) /\ Paid(f)
    BY <1>2, <2>1 DEF FileInv, SteadyWired, Steady
  <2>3. Built(f)'
    BY <1>1, <2>2 DEF Built
  <2>4. Ordered(f)'
    BY <1>1, <1>3, <2>2 DEF Ordered
  <2>5. FlagsTrue(f)'
    BY <1>1, <2>2 DEF FlagsTrue
  <2>6. Paid(f)'
    <3>1. \A step : ~Paying(f, step)
      BY DEF Paying
    <3>2. SUFFICES ASSUME NEW step \in StepsOf(f), step.op = "pay",
                          There(chain[f], record[f], step.on),
                          HeldAt(chain[f], record[f][step.on], step.slot) # {}
                   PROVE  \E n \in 1..(1 + cuts[f]) :
                            /\ HeldAt(chain[f], record[f][step.on], step.slot) = {n}
                            /\ n <= cuts[f] \/ step.flag \in DOMAIN record[f]
      BY <1>1 DEF Paid
    <3> QED
      BY <2>2, <3>1, <3>2 DEF Paid
  <2>7. Claimed(f)'
    <3> SUFFICES ASSUME NEW step \in StepsOf(f), step.op = "claim",
                        There(chain[f], record[f], step.on),
                        HeldAt(chain[f], record[f][step.on], step.slot) # {}
                 PROVE  /\ HeldAt(chain[f], record[f][step.on], step.slot)
                             = ValuesOf(step, record[f], Current(f)')
                        /\ step.key # Absent /\ step.from = Absent
                             => record[f][step.key] \in DOMAIN chain[f].made
      BY <1>1 DEF Claimed
    <3> DEFINE held == HeldAt(chain[f], record[f][step.on], step.slot)
    <3>1. /\ held = ValuesOf(step, record[f], Current(f))
          /\ step.key # Absent /\ step.from = Absent
               => record[f][step.key] \in DOMAIN chain[f].made
      BY <2>2 DEF Claimed
    <3>2. CASE step.key = Absent \/ step.from = Absent
      BY <3>1, <3>2 DEF ValuesOf
    <3>3. CASE step.key # Absent /\ step.from # Absent
      <4> DEFINE g == step.from
      <4>1. g \in Peers(f) /\ g \in Files
        <5>1. f \in Records /\ Peers(f) \subseteq Files
          BY FilesAreRecords
        <5> QED
          BY <3>3, <5>1, StepFacts
      <4>2. Current(f)[g] = record[g] /\ Current(f)'[g] = record'[g]
        BY <4>1 DEF Current
      <4>3. step.key \in DOMAIN record[g] /\ held = {record[g][step.key]}
        BY <3>1, <3>3, <4>2 DEF ValuesOf
      <4>4. step.key \in DOMAIN record'[g] /\ record'[g][step.key] = record[g][step.key]
        <5>1. CASE g # Me
          BY <4>1, <4>3, <5>1 DEF RunStep
        <5>2. CASE g = Me
          <6>1. f \in Dependents(Me)
            BY <4>1, <5>2 DEF Dependents
          <6> QED
            BY <2>1, <4>3, <5>2, <6>1 DEF RunStep, RecordKept
        <5> QED
          BY <5>1, <5>2
      <4> QED
        BY <3>1, <3>3, <4>2, <4>3, <4>4 DEF ValuesOf
    <3> QED
      BY <3>2, <3>3
  <2> QED
    BY <2>3, <2>4, <2>5, <2>6, <2>7
<1> QED
  BY <1>4, <1>5, <1>6, <1>7 DEF FileInv, SteadyWired
-----------------------------------------------------------------------------
(* Running a settled script again changes nothing.                         *)

LEMMA RunsLast ==
  ASSUME IInv, WInv, ~Idle
  PROVE  /\ PlanOf(Me) = Plan /\ Run(Me) /\ FileInv(Me)
         /\ RunBook /\ RunDone /\ RunWired /\ NewInOrder
<1>1. Me \in Files /\ run.mode \in Modes(Me)
  BY RunFacts
<1> QED
  BY <1>1 DEF WInv, RunInv, RunBook, PlanOf, Run, Plan

LEMMA SettledRun ==
  ASSUME IInv, WInv, ~Idle, Me \in settled
  PROVE  /\ ~run.forced /\ record[Me] = run.mem
         /\ \A i \in DOMAIN Plan : Done(Here, run.mem, seen[Me], Plan[i])
BY RunsLast DEF FileInv, SettledDone, RunBook, Here

LEMMA SettledReuses ==
  ASSUME IInv, WInv, AtStep, Makes(Now), Me \in settled
  PROVE  Reused
<1>1. ~run.forced /\ Done(Here, run.mem, seen[Me], Now)
  BY NowFacts, SettledRun
<1> QED
  BY <1>1 DEF Done, Reused, InRecord, Live, Here

LEMMA SettledNotes ==
  ASSUME IInv, WInv, AtStep, Now.op = "note", Me \in settled
  PROVE  WithNotes(run.mem) = run.mem
<1>1. Done(Here, run.mem, seen[Me], Now) /\ ~Idle
  BY NowFacts, SettledRun
<1>2. NotedKeys \subseteq DOMAIN run.mem
  BY <1>1 DEF Done, NotedKeys, Range
<1>3. run.mem = [k \in DOMAIN run.mem |-> run.mem[k]]
  BY <1>1, RunFacts DEF Addressed
<1> QED
  BY <1>2, <1>3 DEF WithNotes

\* A slot given what it holds.
LEMMA SameValues ==
  ASSUME IInv, OnSetting
  PROVE  WithSetting(Old) = Here.settings
<1>1. Here.settings \subseteq [on : Address, slot : Name, value : Address]
  BY StepNow DEF OnSetting, IInv, TypeOK, ChainsTypeOK, SoundChain, Contracts, Here
<1>2. Old = {x.value : x \in {y \in Here.settings : y.on = On /\ y.slot = Now.slot}}
  BY DEF Old, Held, Here
<1>3. ASSUME NEW x \in WithSetting(Old)
      PROVE  x \in Here.settings
  <2>1. CASE x \in Here.settings
    BY <2>1
  <2>2. CASE x \in {[on |-> On, slot |-> Now.slot, value |-> v] : v \in Old}
    <3>1. PICK v \in Old : x = [on |-> On, slot |-> Now.slot, value |-> v]
      BY <2>2
    <3>2. PICK y \in Here.settings : y.on = On /\ y.slot = Now.slot /\ y.value = v
      BY <1>2, <3>1
    <3>3. y = [on |-> On, slot |-> Now.slot, value |-> v]
      BY <1>1, <3>2
    <3> QED
      BY <3>1, <3>2, <3>3
  <2> QED
    BY <2>1, <2>2 DEF WithSetting
<1>4. ASSUME NEW x \in Here.settings
      PROVE  x \in WithSetting(Old)
  <2>1. CASE ~(x.on = On /\ x.slot = Now.slot)
    BY <2>1 DEF WithSetting
  <2>2. CASE x.on = On /\ x.slot = Now.slot
    <3>1. x.value \in Old
      BY <1>2, <2>2
    <3>2. x = [on |-> On, slot |-> Now.slot, value |-> x.value]
      BY <1>1, <2>2
    <3> QED
      BY <3>1, <3>2 DEF WithSetting
  <2> QED
    BY <2>1, <2>2
<1> QED
  BY <1>3, <1>4

LEMMA HeldHere ==
  /\ Old = HeldAt(Here, On, Now.slot)
  /\ Values = ValuesOf(Now, run.mem, seen[Me])
BY DEF Old, Held, HeldAt, Here, Values

LEMMA SettledSets ==
  ASSUME IInv, WInv, OnSetting, ~Flagged, Me \in settled
  PROVE  ~Refused /\ NewValues = Old
<1>1. AtStep /\ Now.op \in Settings
  BY DEF OnSetting
<1>2. /\ ~run.forced /\ Done(Here, run.mem, seen[Me], Now) /\ FlagNoted(Plan, run.pc)
      /\ Now = Plan[run.pc] /\ Now \in StepsOf(Me) /\ Me \in Records
      /\ \A i \in DOMAIN Plan : Done(Here, run.mem, seen[Me], Plan[i])
  BY <1>1, NowFacts, SettledRun, RunFacts
<1>3. Now.flag \notin DOMAIN run.mem
  BY <1>2 DEF Flagged
<1>4. Now.flag = Absent
  <2> SUFFICES ASSUME Now.flag # Absent
               PROVE  FALSE
    OBVIOUS
  <2>1. PICK j \in DOMAIN Plan : Plan[j].op = "note" /\ Now.flag \in Range(Plan[j].needs)
    BY <1>1, <1>2 DEF FlagNoted
  <2> QED
    BY <1>2, <1>3, <2>1 DEF Done
<1>5. /\ There(Here, run.mem, Now.on)
      /\ Now.op \in {"point", "call", "bind"} => Old = Values
      /\ Now.op \in Adding => Values \subseteq Old
      /\ Now.op = "claim" => Old # {} \/ Values = {}
  BY <1>1, <1>2, <1>4, HeldHere DEF Done, On
<1>6. OnIsRight
  BY <1>5 DEF There, OnIsRight, Live, KindOf, On, Here
<1>7. Now.op \in {"point", "enlist", "claim", "bind", "call"}
  BY <1>1, <1>2, <1>4, StepFacts DEF Settings
<1> QED
  BY <1>5, <1>6, <1>7 DEF Refused, NewValues, Overwritten, Adding

LEMMA SettledConfigures ==
  ASSUME IInv, WInv, Configure, Me \in settled
  PROVE  chain'[Me] = chain[Me]
<1>1. CASE Flagged
  BY <1>1 DEF Configure
<1>2. CASE ~Flagged
  <2>1. OnSetting /\ Me \in Files
    BY StepNow DEF Configure, OnSetting
  <2>2. WithSetting(NewValues) = Here.settings
    BY <1>2, <2>1, SettledSets, SameValues
  <2>3. chain' = [chain EXCEPT ![Me].settings = Here.settings]
    BY <1>2, <2>2 DEF Configure
  <2>4. /\ Me \in DOMAIN chain
        /\ chain[Me] = [made |-> chain[Me].made, settings |-> chain[Me].settings]
    BY <2>1 DEF IInv, TypeOK, ChainsTypeOK, SoundChain, Contracts
  <2> QED
    BY <2>3, <2>4 DEF Here
<1> QED
  BY <1>1, <1>2
-----------------------------------------------------------------------------
(* The script goes on to its next step.                                    *)

GoesOn(m) ==
  /\ AtStep /\ RunStep
  /\ Me' = Me /\ run'.pc = run.pc + 1 /\ run'.forced = run.forced
  /\ run'.mode = run.mode /\ run'.mem = m
  /\ cuts' = cuts
  /\ Me \in settled' => Me \in settled
  /\ Me \in mixed => Me \in mixed'

LEMMA GoneOn ==
  ASSUME IInv, NEW m, GoesOn(m)
  PROVE  /\ ~Idle' /\ Me \in Files /\ Files' = Files /\ Plan' = Plan
         /\ seen' = seen /\ last' = last /\ switched' = switched /\ cuts' = cuts
         /\ Here' = chain'[Me]
         /\ 1..(run'.pc - 1) = 1..(run.pc - 1) \cup {run.pc}
         /\ run.pc \in 1..Len(Plan) /\ run'.pc = run.pc + 1
         /\ PlanOf(Me)' = PlanOf(Me) /\ Run(Me)' = Run(Me)
<1>1. Me \in Files /\ run.pc \in 1..Len(Plan)
  BY StepNow DEF GoesOn
<1>2. Me # Absent
  BY <1>1, FilesAreRecords
<1>3. ~Idle'
  BY <1>2 DEF GoesOn, Idle, NoRun, Me
<1> QED
  BY <1>1, <1>3 DEF GoesOn, RunStep, Files, Plan, Here, PlanOf, Run

LEMMA PeersUnmoved ==
  ASSUME IInv, ~Idle, RunStep
  PROVE  [g \in Peers(Me) |-> record'[g]] = Current(Me)
<1>1. \A g \in Peers(Me) : g \in Files \ {Me}
  BY RunFacts, FilesAreRecords
<1>2. \A g \in Peers(Me) : record'[g] = record[g]
  BY <1>1 DEF RunStep
<1> QED
  BY <1>2 DEF Current

LEMMA RunBookGoesOn ==
  ASSUME IInv, WInv, NEW m, GoesOn(m),
         Absent \notin DOMAIN m,
         DOMAIN record[Me] \subseteq DOMAIN record'[Me],
         \A k \in DOMAIN m :
           k \in DOMAIN run.mem \/ k \in DOMAIN record'[Me] \/ (Makes(Now) /\ k = Now.key),
         Eager(Me) \/ run.pc = Len(Plan) \/ Me \in settled' => record'[Me] = m,
         ~run.forced => \A k \in DOMAIN record'[Me] : m[k] = record'[Me][k],
         run.forced /\ Me \notin mixed' => run'.sound /\ Me \notin switched
  PROVE  RunBook'
<1>1. RunBook /\ ~Idle
  BY RunsLast, StepNow DEF GoesOn
<1>2. seen'[Me] = [g \in Peers(Me) |-> record'[g]]
  BY <1>1, PeersUnmoved DEF RunBook, GoesOn, RunStep
<1>3. /\ DOMAIN run.mem \subseteq DOMAIN record[Me] \cup MadeBefore(Plan, run.pc)
      /\ last[Me] = run.mode
      /\ Me \in settled => ~run.forced
  BY <1>1 DEF RunBook
<1>4. MadeBefore(Plan, run.pc + 1)
        = MadeBefore(Plan, run.pc) \cup (IF Makes(Now) THEN {Now.key} ELSE {})
  BY <1>1, GoneOn, PlanInOrder, MadeByStep DEF Now
<1>5. DOMAIN m \subseteq DOMAIN record'[Me] \cup MadeBefore(Plan, run.pc + 1)
  BY <1>3, <1>4
<1>6. run.pc + 1 = Len(Plan) + 1 => run.pc = Len(Plan)
  BY <1>1, GoneOn, PlanInOrder
<1>7. /\ ~Idle' /\ Me' = Me /\ Plan' = Plan /\ last' = last /\ switched' = switched
      /\ run'.pc = run.pc + 1 /\ run'.mem = m /\ run'.mode = run.mode
      /\ run'.forced = run.forced /\ (Me \in settled' => Me \in settled)
  BY GoneOn DEF GoesOn
<1>8. Current(Me)' = [g \in Peers(Me) |-> record'[g]]
  BY <1>7 DEF Current
<1> QED
  BY <1>2, <1>3, <1>5, <1>6, <1>7, <1>8 DEF RunBook

LEMMA RunDoneGoesOn ==
  ASSUME IInv, NEW m, GoesOn(m),
         \A i \in 1..(run.pc - 1) : Done(chain'[Me], m, seen[Me], Plan[i]),
         Done(chain'[Me], m, seen[Me], Now)
  PROVE  RunDone'
<1>1. \A i \in 1..(run.pc - 1) \cup {run.pc} : Done(chain'[Me], m, seen[Me], Plan[i])
  BY DEF Now
<1>2. Me' = Me /\ run'.mem = m
  BY DEF GoesOn
<1> QED
  BY <1>1, <1>2, GoneOn DEF RunDone

LEMMA RunWiredGoesOn ==
  ASSUME IInv, NEW m, GoesOn(m),
         Tracked' => /\ \A i \in 1..(run.pc - 1) : Wired(chain'[Me], m, seen[Me], cuts[Me], Plan[i])
                     /\ Wired(chain'[Me], m, seen[Me], cuts[Me], Now)
  PROVE  RunWired'
<1>1. Tracked' => \A i \in 1..(run.pc - 1) \cup {run.pc} :
                    Wired(chain'[Me], m, seen[Me], cuts[Me], Plan[i])
  BY DEF Now
<1>2. Me' = Me /\ run'.mem = m
  BY DEF GoesOn
<1> QED
  BY <1>1, <1>2, GoneOn DEF RunWired

\* A script that will be tracked after the step was tracked before.
LEMMA TrackedBefore ==
  ASSUME IInv, NEW m, GoesOn(m), Tracked', run'.sound => run.sound
  PROVE  Tracked
BY GoneOn DEF Tracked, GoesOn, RunStep, AtStep

\* A step that changes nothing: the file stays as good as it was.
LEMMA UnmovedFile ==
  ASSUME IInv, WInv, NEW m, GoesOn(m),
         record'[Me] = record[Me], chain'[Me] = chain[Me]
  PROVE  FileInv(Me)'
<1>1. /\ Me' = Me /\ ~Idle /\ seen' = seen /\ cuts' = cuts /\ last' = last
      /\ wiped' = wiped /\ switched' = switched
      /\ Me \in settled' => Me \in settled
      /\ Me \in mixed => Me \in mixed'
      /\ run'.forced = run.forced
  BY StepNow DEF GoesOn, RunStep
<1>2. FileInv(Me)
  BY <1>1, RunsLast
<1>3. PlanOf(Me)' = PlanOf(Me) /\ Run(Me)' = Run(Me)
  BY GoneOn
<1>4. Current(Me)' = Current(Me)
  BY <1>1, PeersUnmoved DEF Current, GoesOn
<1>5. FileBook(Me)' /\ SettledDone(Me)' /\ SettledWired(Me)'
  BY <1>1, <1>2, <1>3 DEF FileInv, FileBook, SettledDone, SettledWired
<1>6. \A step : Paying(Me, step) => Paying(Me, step)'
  BY <1>1, GoneOn DEF Paying
<1>7. ASSUME Steady(Me)'
      PROVE  (Built(Me) /\ Ordered(Me) /\ Claimed(Me) /\ FlagsTrue(Me) /\ Paid(Me))'
  <2>1. Built(Me) /\ Ordered(Me) /\ Claimed(Me) /\ FlagsTrue(Me) /\ Paid(Me)
    BY <1>1, <1>2, <1>7 DEF FileInv, SteadyWired, Steady
  <2>2. Built(Me)' /\ Ordered(Me)'
    BY <1>1, <1>3, <2>1 DEF Built, Ordered
  <2>3. Claimed(Me)' /\ FlagsTrue(Me)'
    BY <1>1, <1>4, <2>1 DEF Claimed, FlagsTrue
  <2>4. Paid(Me)'
    BY <1>1, <1>6, <2>1 DEF Paid
  <2> QED
    BY <2>1, <2>2, <2>3, <2>4
<1> QED
  BY <1>5, <1>7 DEF FileInv, SteadyWired
-----------------------------------------------------------------------------
(* Steps that leave the chain and the record alone.                        *)

\* The files other than the script's stay right whatever it does.
LEMMA AllStay ==
  ASSUME IInv, WInv, RunStep, RunInv', \A f \in Files : f = Me => FileInv(f)'
  PROVE  WInv'
<1>1. Files' = Files
  BY DEF RunStep, Files
<1>2. \A f \in Files : f # Me => FileInv(f)'
  BY OthersStay
<1> QED
  BY <1>1, <1>2 DEF WInv

\* A step passed over.
LEMMA Passing ==
  ASSUME IInv, WInv, GoesOn(run.mem), record' = record, chain' = chain,
         Now.op # "note", run'.sound => run.sound, run'.sound \/ ~run.sound \/ Me \in mixed',
         Done(Here, run.mem, seen[Me], Now),
         Tracked' => ~run.forced /\ Wired(Here, run.mem, seen[Me], cuts[Me], Now)
  PROVE  WInv'
<1>1. /\ ~Idle /\ AtStep /\ RunStep /\ Me' = Me /\ run'.forced = run.forced
      /\ Me \in mixed => Me \in mixed'
      /\ Me \in settled' => Me \in settled
  BY NowFacts DEF GoesOn
<1>2. RunBook /\ RunDone /\ RunWired
  BY <1>1, RunsLast
<1>3. Eager(Me) \/ run.pc # Len(Plan)
  <2>1. ScriptOf(Me, Plan) /\ Now = Plan[run.pc]
    BY <1>1, RunFacts DEF Now
  <2>2. ~Eager(Me) => WritesAtEnd(Plan)
    BY <2>1, ScriptFacts
  <2> QED
    BY <2>1, <2>2 DEF WritesAtEnd
<1>4. RunBook'
  BY <1>1, <1>2, <1>3, RunBookGoesOn DEF RunBook
<1>5. RunDone'
  BY <1>1, <1>2, RunDoneGoesOn DEF RunDone, Here
<1>6. RunWired'
  <2>1. Tracked' => Tracked
    BY TrackedBefore
  <2> QED
    BY <1>2, <2>1, RunWiredGoesOn DEF RunWired, Here
<1>7. NewInOrder'
  BY <1>1 DEF NewInOrder
<1>8. FileInv(Me)'
  BY UnmovedFile
<1> QED
  BY <1>1, <1>4, <1>5, <1>6, <1>7, <1>8, AllStay DEF RunInv

\* The run goes on, with these addresses in memory.
Advances(m) ==
  /\ run'.file = run.file /\ run'.pc = run.pc + 1 /\ run'.forced = run.forced
  /\ run'.mode = run.mode /\ run'.mem = m

LEMMA Advancing ==
  ASSUME IInv
  PROVE  /\ Advance => Advances(run.mem) /\ run'.sound = run.sound
         /\ run' = [run EXCEPT !.pc = @ + 1, !.sound = FALSE]
              => Advances(run.mem) /\ run'.sound = FALSE
         /\ \A m : run' = [run EXCEPT !.pc = @ + 1, !.mem = m]
              => Advances(m) /\ run'.sound = run.sound
<1>1. run \in [file : Files \cup {Absent}, pc : Nat, forced : BOOLEAN, mode : AnyMode,
               mem : {run.mem}, sound : BOOLEAN]
  BY DEF IInv, TypeOK, RunTypeOK
<1> QED
  BY <1>1 DEF Advance, Advances

LEMMA QuietGoesOn ==
  ASSUME IInv, AtStep, Advances(run.mem),
         UNCHANGED <<scope, record, chain, seen, last, settled, wiped, switched, cuts>>,
         mixed \subseteq mixed'
  PROVE  GoesOn(run.mem)
<1>1. ~Idle /\ Me' = Me
  BY DEF AtStep, Advances, Me
<1>2. RunStep
  BY <1>1 DEF RunStep, RecordKept
<1> QED
  BY <1>1, <1>2 DEF GoesOn, Advances

\* A run that is not forced goes on with the record, if the file is not mixed.
LEMMA TrackedSteady ==
  ASSUME IInv, WInv, ~Idle, ~run.forced, Me \notin mixed
  PROVE  /\ Built(Me) /\ Ordered(Me) /\ Claimed(Me) /\ FlagsTrue(Me) /\ Paid(Me)
         /\ Eager(Me) => record[Me] = run.mem
         /\ \A k \in DOMAIN record[Me] : k \in DOMAIN run.mem /\ run.mem[k] = record[Me][k]
<1>1. FileInv(Me) /\ RunBook /\ DOMAIN record[Me] \subseteq DOMAIN run.mem
  BY RunsLast DEF IInv, TypeOK, RunTypeOK
<1>2. Steady(Me)
  BY DEF Steady
<1> QED
  BY <1>1, <1>2 DEF FileInv, SteadyWired, RunBook

LEMMA EagerFacts ==
  ASSUME IInv, AtStep
  PROVE  /\ Now.op = "deploy" \/ Common(Now) => Eager(Me)
         /\ Now.op = "instantiate" => ~Eager(Me)
         /\ ~Eager(Me) => (Now.op = "note" <=> run.pc = Len(Plan))
<1>1. ScriptOf(Me, Plan) /\ run.pc \in DOMAIN Plan /\ Now = Plan[run.pc] /\ run.pc \in 1..Len(Plan)
      /\ Plan \in Seq(StepType)
  BY NowFacts, RunFacts
<1>2. IF Eager(Me) THEN \A i \in DOMAIN Plan : Plan[i].op # "instantiate" ELSE WritesAtEnd(Plan)
  BY <1>1, ScriptFacts
<1>3. CASE ~Eager(Me)
  <2>1. WritesAtEnd(Plan)
    BY <1>2, <1>3
  <2>2. Now.op = "note" => run.pc = Len(Plan)
    BY <1>1, <2>1 DEF WritesAtEnd
  <2> QED
    BY <1>1, <1>3, <2>1, <2>2 DEF WritesAtEnd
<1>4. CASE Eager(Me)
  BY <1>1, <1>2, <1>4
<1> QED
  BY <1>3, <1>4

LEMMA KeepWires ==
  ASSUME IInv, WInv, Keep
  PROVE  WInv'
<1>1. /\ AtStep /\ Now.op = "deploy" /\ Reused /\ Advance
      /\ UNCHANGED <<scope, record, chain, seen, last, settled, wiped, switched, cuts, mixed>>
  BY DEF Keep
<1>2. GoesOn(run.mem) /\ run'.sound = run.sound /\ Me' = Me /\ ~Idle
  BY <1>1, Advancing, QuietGoesOn DEF GoesOn, AtStep
<1>3. ~run.forced /\ Now.key \in DOMAIN run.mem /\ run.mem[Now.key] \in DOMAIN Here.made
  BY <1>1 DEF Reused, InRecord, Live, Here
<1>4. Now.op \notin Settings /\ Makes(Now) /\ Now.op # "note"
  BY <1>1 DEF Settings, Makes
<1>5. Done(Here, run.mem, seen[Me], Now)
  BY <1>3, <1>4 DEF Done
<1>6. ASSUME Tracked'
      PROVE  Wired(Here, run.mem, seen[Me], cuts[Me], Now)
  <2>1. Me \notin mixed
    BY <1>1, <1>2, <1>3, <1>6 DEF Tracked, GoesOn
  <2>2. Built(Me) /\ record[Me] = run.mem
    BY <1>1, <1>2, <1>3, <2>1, TrackedSteady, EagerFacts
  <2>3. Now \in StepsOf(Me)
    BY <1>1, NowFacts
  <2>4. Here.made[run.mem[Now.key]] = BuiltAs(Now, run.mem)
        /\ Range(Now.needs) \subseteq DOMAIN run.mem
    BY <1>3, <1>4, <2>2, <2>3 DEF Built, Here
  <2>5. Here.made[run.mem[Now.key]].key = Now.key
    BY <2>4 DEF BuiltAs
  <2> QED
    BY <1>3, <1>4, <2>4, <2>5 DEF Wired, There
<1> QED
  BY <1>1, <1>2, <1>3, <1>4, <1>5, <1>6, Passing

LEMMA InstantiatedWires ==
  ASSUME IInv, WInv, Instantiate, Reused
  PROVE  WInv'
<1>1. /\ AtStep /\ Now.op = "instantiate" /\ Advance
      /\ UNCHANGED <<scope, record, chain, seen, last, settled, wiped, switched, cuts, mixed>>
  BY DEF Instantiate
<1>2. GoesOn(run.mem) /\ run'.sound = run.sound /\ Me' = Me /\ ~Idle
  BY <1>1, Advancing, QuietGoesOn DEF GoesOn, AtStep
<1>3. ~run.forced /\ Now.key \in DOMAIN run.mem
  BY DEF Reused, InRecord
<1>4. Now.op \notin Settings /\ Makes(Now) /\ Now.op # "note" /\ Now.op # "deploy"
  BY <1>1 DEF Settings, Makes
<1>5. Done(Here, run.mem, seen[Me], Now)
  BY <1>3, <1>4 DEF Done
<1>6. ASSUME Tracked'
      PROVE  Wired(Here, run.mem, seen[Me], cuts[Me], Now)
  <2>1. Me \notin mixed
    BY <1>1, <1>2, <1>3, <1>6 DEF Tracked, GoesOn
  <2>2. /\ Built(Me) /\ ~Eager(Me)
        /\ \A k \in DOMAIN record[Me] : k \in DOMAIN run.mem /\ run.mem[k] = record[Me][k]
    BY <1>1, <1>2, <1>3, <2>1, TrackedSteady, EagerFacts
  <2>3. Now \in StepsOf(Me)
    BY <1>1, NowFacts
  <2>4. Now.key \in DOMAIN record[Me]
    BY <1>1, <1>2, <1>3, <1>4, KeyIsNew, RunsLast DEF RunBook
  <2>5. /\ record[Me][Now.key] \in DOMAIN Here.made
        /\ Here.made[record[Me][Now.key]] = BuiltAs(Now, record[Me])
        /\ Range(Now.needs) \subseteq DOMAIN record[Me]
    BY <1>4, <2>2, <2>3, <2>4 DEF Built, Here
  <2>6. BuiltAs(Now, record[Me]) = BuiltAs(Now, run.mem)
    <3>1. \A i \in DOMAIN Now.needs : record[Me][Now.needs[i]] = run.mem[Now.needs[i]]
      BY <2>2, <2>5 DEF Range
    <3> QED
      BY <3>1 DEF BuiltAs
  <2>7. Here.made[run.mem[Now.key]].key = Now.key
    BY <2>2, <2>4, <2>5 DEF BuiltAs
  <2> QED
    BY <1>3, <1>4, <2>2, <2>4, <2>5, <2>6, <2>7 DEF Wired, There
<1> QED
  BY <1>1, <1>2, <1>3, <1>4, <1>5, <1>6, Passing

LEMMA FlaggedWires ==
  ASSUME IInv, WInv, Configure, Flagged
  PROVE  WInv'
<1>1. /\ AtStep /\ Now.op \in Settings /\ Advance
      /\ UNCHANGED <<scope, record, chain, seen, last, settled, wiped, switched, cuts, mixed>>
  BY DEF Configure, OnSetting
<1>2. GoesOn(run.mem) /\ run'.sound = run.sound /\ Me' = Me /\ ~Idle
  BY <1>1, Advancing, QuietGoesOn DEF GoesOn, AtStep
<1>3. ~run.forced /\ Now.flag \in DOMAIN run.mem
  BY DEF Flagged
<1>4. ~Makes(Now) /\ Now.op # "note"
  BY <1>1 DEF Settings, Makes
<1>5. Now.flag # Absent
  BY <1>2, <1>3, RunsLast DEF RunBook
<1>6. Done(Here, run.mem, seen[Me], Now)
  BY <1>4, <1>5 DEF Done
<1>7. ASSUME Tracked'
      PROVE  Wired(Here, run.mem, seen[Me], cuts[Me], Now)
  <2>1. Me \notin mixed
    BY <1>1, <1>2, <1>3, <1>7 DEF Tracked, GoesOn
  <2>2. FlagsTrue(Me) /\ record[Me] = run.mem
    BY <1>1, <1>2, <1>3, <1>5, <2>1, TrackedSteady, EagerFacts DEF Common
  <2>3. Now \in StepsOf(Me)
    BY <1>1, NowFacts
  <2> QED
    BY <1>1, <1>3, <2>2, <2>3 DEF FlagsTrue, Here
<1> QED
  BY <1>1, <1>2, <1>3, <1>4, <1>6, <1>7, Passing

LEMMA EnrolFailsWires ==
  ASSUME IInv, WInv, EnrolFails
  PROVE  WInv'
<1>1. /\ AtStep /\ Now.op = "enrol" /\ mixed' = mixed \cup {Me}
      /\ run' = [run EXCEPT !.pc = @ + 1, !.sound = FALSE]
      /\ UNCHANGED <<scope, record, chain, seen, last, settled, wiped, switched, cuts>>
  BY DEF EnrolFails, OnSetting
<1>2. GoesOn(run.mem) /\ run'.sound = FALSE /\ Me' = Me
  BY <1>1, Advancing, QuietGoesOn DEF GoesOn
<1>3. Now.flag # Absent /\ Me \in Records /\ Now \in StepsOf(Me)
  <2>1. Now \in StepsOf(Me) /\ Me \in Records
    BY <1>1, NowFacts, RunFacts
  <2> QED
    BY <1>1, <2>1, StepFacts
<1>4. ~Makes(Now) /\ Now.op # "note"
  BY <1>1 DEF Makes
<1>5. Done(Here, run.mem, seen[Me], Now)
  BY <1>3, <1>4 DEF Done
<1>6. ~Tracked'
  BY <1>1, <1>2 DEF Tracked
<1> QED
  BY <1>1, <1>2, <1>4, <1>5, <1>6, Passing
-----------------------------------------------------------------------------
(* A new contract.                                                         *)

\* Another step that makes the contract of a key is the same step.
LEMMA SameStep ==
  ASSUME NEW f, NEW script, ScriptOf(f, script), NEW i \in DOMAIN script,
         NEW step \in StepsOf(f), Makes(step), Makes(script[i]), script[i].key = step.key
  PROVE  step = script[i]
<1>1. SameInEveryMode(script, step)
  BY ScriptFacts
<1> QED
  BY <1>1 DEF SameInEveryMode

\* What a setting is made on, and a key of its own script, some step makes.
LEMMA SetOnMade ==
  ASSUME NEW f \in Records, NEW step \in StepsOf(f), step.op \in Settings
  PROVE  /\ \E s \in StepsOf(f) : Makes(s) /\ s.key = step.on
         /\ step.from = Absent /\ step.key # Absent
              => \E s \in StepsOf(f) : Makes(s) /\ s.key = step.key
<1>1. PICK script : ScriptOf(f, script) /\ step \in Range(script)
  BY DEF StepsOf, ScriptOf
<1>2. PICK i \in DOMAIN script : script[i] = step
  BY <1>1 DEF Range
<1>3. script \in Seq(StepType) /\ SetOnce(script, i) /\ i \in Nat /\ i <= Len(script) + 1
  BY <1>1, <1>2, ScriptFacts
<1>4. ASSUME NEW k \in MadeBefore(script, i)
      PROVE  \E s \in StepsOf(f) : Makes(s) /\ s.key = k
  <2>1. PICK j \in DOMAIN script : Makes(script[j]) /\ script[j].key = k
    BY <1>1, <1>3, MadeEarlier
  <2> QED
    BY <1>1, <2>1, StepOf
<1> QED
  BY <1>2, <1>3, <1>4 DEF SetOnce

\* The contract is missing: no recorded address will come to name the new one
\* but its own, and no contract stands that was built with the missing one.
NewIsApart ==
  /\ InRecord => run.mem[Now.key] \notin DOMAIN Here.made
  /\ \A s \in StepsOf(Me) :
       Makes(s) /\ s.key # Now.key /\ s.key \in DOMAIN run.mem
       /\ run.mem[s.key] \in DOMAIN Created.made
         => run.mem[s.key] \in DOMAIN Here.made /\ Now.key \notin Range(s.needs)

LEMMA NewApart ==
  ASSUME IInv, WInv, AtStep, Now.op = "deploy", ~Reused, ~run.forced, Me \notin mixed
  PROVE  NewIsApart
<1>1. /\ ~Idle /\ Me \in Records /\ ScriptOf(Me, Plan) /\ Plan \in Seq(StepType)
      /\ run.pc \in DOMAIN Plan /\ Now = Plan[run.pc] /\ run.pc \in 1..Len(Plan)
      /\ Me \in Files /\ Now \in StepsOf(Me) /\ Makes(Now) /\ Addressed(run.mem)
  BY NowFacts, RunFacts DEF Makes
<1>2. Eager(Me) /\ record[Me] = run.mem /\ Ordered(Me) /\ Built(Me) /\ FileInv(Me)
      /\ PlanOf(Me) = Plan /\ Run(Me) /\ RunDone
  BY <1>1, EagerFacts, TrackedSteady, RunsLast
<1>3. InRecord => run.mem[Now.key] \notin DOMAIN Here.made
  BY DEF Reused, Live, Here
<1>4. /\ DOMAIN Here.made = 1..(NewAddress - 1) /\ NewAddress \in Nat /\ NewAddress >= 1
      /\ DOMAIN Created.made = 1..NewAddress
  BY <1>1, CreatedGrows
<1>5. ASSUME NEW s \in StepsOf(Me), Makes(s), s.key # Now.key, s.key \in DOMAIN run.mem,
             run.mem[s.key] \in DOMAIN Created.made
      PROVE  run.mem[s.key] \in DOMAIN Here.made /\ Now.key \notin Range(s.needs)
  <2>1. Range(s.needs) \subseteq DOMAIN run.mem
    BY <1>2, <1>5 DEF Built
  <2>2. s.key \notin NotAddresses /\ Now.key \notin NotAddresses
    BY <1>1, <1>5, StepFacts
  <2>3. CASE Me \in switched
    <3>1. Me \notin wiped
      BY <1>2, <2>3 DEF FileInv, FileBook
    <3>2. NamesContracts(chain[Me], run.mem)
      BY <1>1, <1>2, <3>1 DEF IInv, RecordsName
    <3>3. \A k \in DOMAIN run.mem \ NotAddresses : run.mem[k] \in DOMAIN Here.made
      BY <3>2 DEF NamesContracts, Here
    <3> QED
      BY <1>3, <1>5, <2>1, <2>2, <3>3 DEF InRecord
  <2>4. CASE Me \notin switched
    <3>1. s.key \in MadeBefore(Plan, Len(Plan) + 1)
      BY <1>2, <1>5, <2>2, <2>4 DEF FileInv, FileBook, Keys
    <3>2. PICK j \in DOMAIN Plan : Makes(Plan[j]) /\ Plan[j].key = s.key
      BY <1>1, <3>1, MadeEarlier
    <3>3. s = Plan[j] /\ j # run.pc
      BY <1>1, <1>5, <3>2, SameStep
    <3>4. /\ run.mem[s.key] > 0 /\ run.mem[s.key] \in Nat
          /\ \A i \in 1..(j - 1) : Makes(Plan[i]) => /\ Plan[i].key \in DOMAIN run.mem
                                                     /\ run.mem[Plan[i].key] < run.mem[s.key]
      BY <1>1, <1>2, <1>5, <2>4, <3>2 DEF Ordered, Addressed, Address
    <3>5. CASE j < run.pc
      <4>1. Done(Here, run.mem, seen[Me], s) /\ j \in 1..(run.pc - 1)
        BY <1>1, <1>2, <3>3, <3>5 DEF RunDone
      <4>2. s.op = "deploy"
        BY <1>1, <1>2, <1>5, <3>3, ScriptFacts DEF Makes
      <4>3. run.mem[s.key] \in DOMAIN Here.made
        BY <1>5, <4>1, <4>2 DEF Done
      <4>4. InOrder(Plan, j) /\ j \in Nat /\ j <= Len(Plan) + 1
        BY <1>1, <3>2, ScriptFacts
      <4>5. Now.key \notin Range(s.needs)
        <5>1. MadeBefore(Plan, j) \subseteq MadeBefore(Plan, run.pc)
          BY <1>1, <3>5, <4>4, MadeGrows
        <5> QED
          BY <1>1, <1>5, <3>3, <4>4, <5>1, KeyIsNew DEF InOrder
      <4> QED
        BY <4>3, <4>5
    <3>6. CASE j > run.pc
      <4>1. Now.key \in DOMAIN run.mem /\ run.mem[Now.key] < run.mem[s.key]
        BY <1>1, <3>4, <3>6
      <4>2. run.mem[Now.key] > 0 /\ run.mem[Now.key] \in Nat
        BY <1>1, <1>2, <2>4, <4>1 DEF Ordered, Addressed, Address
      <4>3. run.mem[Now.key] >= NewAddress
        BY <1>3, <1>4, <4>1, <4>2 DEF InRecord
      <4> QED
        BY <1>4, <1>5, <3>4, <4>1, <4>2, <4>3
    <3> QED
      BY <1>1, <3>3, <3>2, <3>5, <3>6
  <2> QED
    BY <2>3, <2>4
<1> QED
  BY <1>3, <1>5 DEF NewIsApart

LEMMA NewMemory ==
  ASSUME IInv, AtStep, Makes(Now)
  PROVE  /\ DOMAIN WithNew = DOMAIN run.mem \cup {Now.key} /\ WithNew[Now.key] = NewAddress
         /\ \A k \in DOMAIN run.mem : k # Now.key => WithNew[k] = run.mem[k]
         /\ Range(Now.needs) \subseteq DOMAIN run.mem
         /\ BuiltAs(Now, WithNew) = BuiltAs(Now, run.mem)
<1>1. /\ DOMAIN WithNew = DOMAIN run.mem \cup {Now.key} /\ WithNew[Now.key] = NewAddress
      /\ \A k \in DOMAIN run.mem : k # Now.key => WithNew[k] = run.mem[k]
  BY DEF WithNew, WithKey
<1>2. Range(Now.needs) \subseteq MadeBefore(Plan, run.pc)
      /\ MadeBefore(Plan, run.pc) \subseteq DOMAIN run.mem
  BY StepNow DEF InOrder, Now
<1>3. Now.key \notin MadeBefore(Plan, run.pc)
  BY KeyIsNew
<1>4. \A i \in DOMAIN Now.needs : WithNew[Now.needs[i]] = run.mem[Now.needs[i]]
  BY <1>1, <1>2, <1>3 DEF Range
<1> QED
  BY <1>1, <1>2, <1>4 DEF BuiltAs

\* The run has made a new contract.
MakesNew ==
  /\ AtStep /\ Makes(Now) /\ GoesOn(WithNew)
  /\ chain'[Me] = Created /\ Me \notin settled' /\ run'.sound = run.sound
  /\ Eager(Me)  => record'[Me] = WithNew
  /\ ~Eager(Me) => record'[Me] = record[Me]
  /\ Reused => Me \in mixed' /\ Now.op = "deploy"

LEMMA NewRunBook ==
  ASSUME IInv, WInv, MakesNew
  PROVE  RunBook'
<1>1. /\ AtStep /\ ~Idle /\ Makes(Now) /\ GoesOn(WithNew) /\ Me \in Records /\ Now \in StepsOf(Me)
      /\ (Me \in mixed => Me \in mixed') /\ Me \notin settled'
  BY NowFacts, RunFacts DEF MakesNew, GoesOn
<1>2. /\ DOMAIN WithNew = DOMAIN run.mem \cup {Now.key}
      /\ \A k \in DOMAIN run.mem : k # Now.key => WithNew[k] = run.mem[k]
  BY <1>1, NewMemory
<1>3. RunBook /\ DOMAIN record[Me] \subseteq DOMAIN run.mem
  BY <1>1, RunsLast DEF IInv, TypeOK, RunTypeOK
<1>4. Absent \notin DOMAIN WithNew
  BY <1>1, <1>2, <1>3, StepFacts DEF RunBook
<1>5. DOMAIN record[Me] \subseteq DOMAIN record'[Me]
  BY <1>2, <1>3 DEF MakesNew
<1>6. Eager(Me) \/ run.pc = Len(Plan) \/ Me \in settled' => record'[Me] = WithNew
  <2>1. Now.op # "note"
    BY <1>1 DEF Makes
  <2> QED
    BY <1>1, <2>1, EagerFacts DEF MakesNew
<1>7. ~run.forced => \A k \in DOMAIN record'[Me] : WithNew[k] = record'[Me][k]
  <2>1. CASE Eager(Me)
    BY <2>1 DEF MakesNew
  <2>2. CASE ~Eager(Me)
    <3>1. Now.op # "deploy" /\ record'[Me] = record[Me] /\ ~Reused
      BY <1>1, <2>2, EagerFacts DEF MakesNew
    <3>2. ~run.forced => Now.key \notin DOMAIN run.mem
      BY <3>1 DEF Reused, InRecord
    <3> QED
      BY <1>1, <1>2, <1>3, <3>1, <3>2 DEF RunBook
  <2> QED
    BY <2>1, <2>2
<1>8. run.forced /\ Me \notin mixed' => run'.sound /\ Me \notin switched
  BY <1>1, <1>3 DEF RunBook, MakesNew
<1> QED
  BY <1>1, <1>2, <1>4, <1>5, <1>6, <1>7, <1>8, RunBookGoesOn

LEMMA NewRunDone ==
  ASSUME IInv, WInv, MakesNew
  PROVE  RunDone'
<1>1. /\ AtStep /\ ~Idle /\ Makes(Now) /\ GoesOn(WithNew) /\ Me \in Records /\ Now \in StepsOf(Me)
      /\ chain'[Me] = Created
      /\ \A i \in 1..(run.pc - 1) : Plan[i] \in StepsOf(Me)
  BY NowFacts, RunFacts DEF MakesNew
<1>2. RunDone
  BY <1>1, RunsLast
<1>3. Grows(Here, Created) /\ NewAddress \in DOMAIN Created.made
  BY <1>1, CreatedGrows
<1>4. \A i \in 1..(run.pc - 1) : Done(Created, WithNew, seen[Me], Plan[i])
  BY <1>1, <1>2, <1>3, NewAgrees, DoneStays DEF RunDone
<1>5. Done(Created, WithNew, seen[Me], Now)
  BY <1>1, <1>3, NewMemory DEF Done, Makes, Settings
<1> QED
  BY <1>1, <1>4, <1>5, RunDoneGoesOn

LEMMA NewRunWired ==
  ASSUME IInv, WInv, MakesNew
  PROVE  RunWired'
<1>1. /\ AtStep /\ ~Idle /\ Makes(Now) /\ GoesOn(WithNew) /\ Me \in Records /\ Now \in StepsOf(Me)
      /\ chain'[Me] = Created /\ run'.sound = run.sound
      /\ \A i \in 1..(run.pc - 1) : Plan[i] \in StepsOf(Me)
      /\ Me \in Files
  BY NowFacts, RunFacts DEF MakesNew
<1>2. Tracked' => Tracked /\ RunWired
  BY <1>1, RunsLast, TrackedBefore
<1>3. Grows(Here, Created) /\ NewAddress \in DOMAIN Created.made
      /\ Created.made[NewAddress] = BuiltAs(Now, run.mem)
  BY <1>1, CreatedGrows
<1>4. cuts[Me] \in Nat
  BY <1>1, HistoryType
<1>5. Tracked' => \A i \in 1..(run.pc - 1) : Wired(Created, WithNew, seen[Me], cuts[Me], Plan[i])
  BY <1>1, <1>2, <1>3, <1>4, NewAgrees, WiredStays DEF RunWired
<1>6. Wired(Created, WithNew, seen[Me], cuts[Me], Now)
  <2>1. /\ DOMAIN WithNew = DOMAIN run.mem \cup {Now.key} /\ WithNew[Now.key] = NewAddress
        /\ Range(Now.needs) \subseteq DOMAIN run.mem
        /\ BuiltAs(Now, WithNew) = BuiltAs(Now, run.mem)
    BY <1>1, NewMemory
  <2>2. Now.op \notin Settings
    BY <1>1 DEF Makes, Settings
  <2>3. BuiltAs(Now, WithNew).key = Now.key
    BY DEF BuiltAs
  <2> QED
    BY <1>3, <2>1, <2>2, <2>3 DEF Wired, There
<1> QED
  BY <1>1, <1>5, <1>6, RunWiredGoesOn

\* A tracked run knows where the contracts are that it is past.
LEMMA MadeThere ==
  ASSUME IInv, WInv, Tracked, NEW k \in MadeBefore(Plan, run.pc)
  PROVE  There(Here, run.mem, k)
<1>1. ~Idle /\ RunWired
  BY RunsLast DEF Tracked
<1>2. ScriptOf(Me, Plan) /\ run.pc \in Nat /\ run.pc <= Len(Plan) + 1 /\ Plan \in Seq(StepType)
  BY <1>1, RunFacts
<1>3. PICK j \in DOMAIN Plan : j < run.pc /\ Makes(Plan[j]) /\ Plan[j].key = k
  BY <1>2, MadeEarlier
<1>4. j \in 1..(run.pc - 1)
  BY <1>2, <1>3
<1> QED
  BY <1>1, <1>3, <1>4 DEF RunWired, Wired

LEMMA NewStaysInOrder ==
  ASSUME IInv, WInv, MakesNew
  PROVE  NewInOrder'
<1>1. /\ AtStep /\ ~Idle /\ Makes(Now) /\ GoesOn(WithNew) /\ Me \in Records /\ Now \in StepsOf(Me)
      /\ chain'[Me] = Created /\ run'.sound = run.sound /\ ScriptOf(Me, Plan)
      /\ Now = Plan[run.pc] /\ run.pc \in 1..Len(Plan) /\ Plan \in Seq(StepType)
      /\ \A i \in DOMAIN Plan : Plan[i] \in StepsOf(Me)
      /\ Me' = Me /\ run'.mem = WithNew /\ run'.forced = run.forced
  BY NowFacts, RunFacts DEF MakesNew, GoesOn
<1> SUFFICES ASSUME Tracked', run.forced
             PROVE  /\ \A i, j \in 1..run.pc :
                         i < j /\ Makes(Plan[i]) /\ Makes(Plan[j])
                           => WithNew[Plan[i].key] < WithNew[Plan[j].key]
                    /\ \A i \in (run.pc + 1)..Len(Plan) :
                         Plan[i].op \in {"claim", "pay"}
                         /\ Plan[i].on \in MadeBefore(Plan, run.pc + 1)
                           => HeldAt(Created, WithNew[Plan[i].on], Plan[i].slot) = {}
  <2>1. /\ Plan' = Plan /\ Here' = Created /\ run'.pc = run.pc + 1
        /\ 1..(run'.pc - 1) = 1..run.pc
    BY <1>1, GoneOn
  <2> QED
    BY <1>1, <2>1 DEF NewInOrder
<1>2. Tracked /\ NewInOrder
  BY <1>1, RunsLast, TrackedBefore
<1>3. /\ DOMAIN WithNew = DOMAIN run.mem \cup {Now.key} /\ WithNew[Now.key] = NewAddress
      /\ \A k \in DOMAIN run.mem : k # Now.key => WithNew[k] = run.mem[k]
  BY <1>1, NewMemory
<1>4. /\ Grows(Here, Created)
      /\ DOMAIN Here.made = 1..(NewAddress - 1) /\ NewAddress \in Nat
      /\ Now.key # "gpactSignerRegistry" => Free(Created, NewAddress)
  BY <1>1, CreatedGrows
<1>5. \A k \in MadeBefore(Plan, run.pc) :
        /\ k \in DOMAIN run.mem /\ run.mem[k] \in DOMAIN Here.made /\ k # Now.key
        /\ WithNew[k] = run.mem[k]
  BY <1>1, <1>2, <1>3, MadeThere, KeyIsNew DEF There
<1>6. \A i \in 1..(run.pc - 1) : Makes(Plan[i]) => Plan[i].key \in MadeBefore(Plan, run.pc)
  BY <1>1 DEF MadeBefore
<1>7. ASSUME NEW i \in 1..run.pc, NEW j \in 1..run.pc, i < j, Makes(Plan[i]), Makes(Plan[j])
      PROVE  WithNew[Plan[i].key] < WithNew[Plan[j].key]
  <2>1. i \in 1..(run.pc - 1)
    BY <1>1, <1>7
  <2>2. CASE j = run.pc
    <3>1. WithNew[Plan[i].key] \in DOMAIN Here.made
      BY <1>5, <1>6, <1>7, <2>1
    <3> QED
      BY <1>1, <1>3, <1>4, <2>2, <3>1
  <2>3. CASE j # run.pc
    <3>1. j \in 1..(run.pc - 1)
      BY <1>1, <2>3
    <3>2. run.mem[Plan[i].key] < run.mem[Plan[j].key]
      BY <1>2, <1>7, <2>1, <3>1 DEF NewInOrder
    <3> QED
      BY <1>5, <1>6, <1>7, <2>1, <3>1, <3>2
  <2> QED
    BY <2>2, <2>3
<1>8. ASSUME NEW i \in (run.pc + 1)..Len(Plan), Plan[i].op \in {"claim", "pay"},
             Plan[i].on \in MadeBefore(Plan, run.pc + 1)
      PROVE  HeldAt(Created, WithNew[Plan[i].on], Plan[i].slot) = {}
  <2>1. i \in DOMAIN Plan /\ Plan[i] \in StepsOf(Me) /\ i \in run.pc..Len(Plan)
    BY <1>1
  <2>2. Plan[i].on # "gpactSignerRegistry"
    BY <1>1, <1>8, <2>1, StepFacts DEF Settings
  <2>3. CASE Plan[i].on = Now.key
    BY <1>3, <1>4, <2>2, <2>3 DEF Free
  <2>4. CASE Plan[i].on # Now.key
    <3>1. Plan[i].on \in MadeBefore(Plan, run.pc)
      BY <1>1, <1>8, <2>4, MadeByStep
    <3>2. HeldAt(Here, run.mem[Plan[i].on], Plan[i].slot) = {}
      BY <1>2, <1>8, <2>1, <3>1 DEF NewInOrder
    <3> QED
      BY <1>4, <1>5, <3>1, <3>2 DEF Grows
  <2> QED
    BY <2>3, <2>4
<1> QED
  BY <1>7, <1>8

\* What is set up on recorded contracts survives the new one.
LEMMA NewSteadyEager ==
  ASSUME IInv, WInv, MakesNew, Eager(Me), ~run.forced, Me \notin mixed'
  PROVE  (Built(Me) /\ Ordered(Me) /\ Claimed(Me) /\ FlagsTrue(Me) /\ Paid(Me))'
<1>1. /\ AtStep /\ ~Idle /\ Makes(Now) /\ GoesOn(WithNew) /\ Me \in Records /\ Now \in StepsOf(Me)
      /\ chain'[Me] = Created /\ ScriptOf(Me, Plan) /\ record'[Me] = WithNew
      /\ Now = Plan[run.pc] /\ run.pc \in DOMAIN Plan /\ Plan \in Seq(StepType)
      /\ run.pc \in 1..Len(Plan)
      /\ \A i \in DOMAIN Plan : Plan[i] \in StepsOf(Me)
      /\ Me' = Me /\ Me \notin mixed /\ ~Reused /\ Me \in Files /\ Addressed(run.mem)
      /\ seen' = seen /\ cuts' = cuts
  BY NowFacts, RunFacts, GoneOn DEF MakesNew, GoesOn
<1>2. /\ Built(Me) /\ Ordered(Me) /\ Claimed(Me) /\ FlagsTrue(Me) /\ Paid(Me)
      /\ record[Me] = run.mem /\ RunBook /\ RunDone
      /\ PlanOf(Me) = Plan /\ Run(Me)
  BY <1>1, TrackedSteady, RunsLast
<1>3. Now.op = "deploy"
  BY <1>1, EagerFacts DEF Makes
<1>4. NewIsApart
  BY <1>1, <1>3, NewApart
<1>5. /\ DOMAIN WithNew = DOMAIN run.mem \cup {Now.key} /\ WithNew[Now.key] = NewAddress
      /\ \A k \in DOMAIN run.mem : k # Now.key => WithNew[k] = run.mem[k]
      /\ Range(Now.needs) \subseteq DOMAIN run.mem
      /\ BuiltAs(Now, WithNew) = BuiltAs(Now, run.mem)
  BY <1>1, NewMemory
<1>6. /\ Grows(Here, Created)
      /\ DOMAIN Here.made = 1..(NewAddress - 1) /\ NewAddress \in Nat /\ NewAddress >= 1
      /\ DOMAIN Created.made = 1..NewAddress
      /\ Created.made[NewAddress] = BuiltAs(Now, run.mem)
      /\ Now.key # "gpactSignerRegistry" => Free(Created, NewAddress)
  BY <1>1, CreatedGrows
<1>7. Here = chain[Me]
  BY DEF Here
<1>8. Built(Me)'
  <2> SUFFICES ASSUME NEW s \in StepsOf(Me), Makes(s), s.key \in DOMAIN WithNew
               PROVE  /\ Range(s.needs) \subseteq DOMAIN WithNew
                      /\ WithNew[s.key] \in DOMAIN Created.made
                           => Created.made[WithNew[s.key]] = BuiltAs(s, WithNew)
    BY <1>1 DEF Built
  <2>1. CASE s.key = Now.key
    <3>1. s = Now
      BY <1>1, <2>1, SameStep
    <3> QED
      BY <1>5, <1>6, <3>1
  <2>2. CASE s.key # Now.key
    <3>1. /\ s.key \in DOMAIN run.mem /\ WithNew[s.key] = run.mem[s.key]
          /\ Range(s.needs) \subseteq DOMAIN run.mem
          /\ run.mem[s.key] \in DOMAIN Here.made => Here.made[run.mem[s.key]] = BuiltAs(s, run.mem)
      BY <1>2, <1>5, <1>7, <2>2 DEF Built
    <3>2. ASSUME run.mem[s.key] \in DOMAIN Created.made
          PROVE  Created.made[run.mem[s.key]] = BuiltAs(s, WithNew)
      <4>1. run.mem[s.key] \in DOMAIN Here.made /\ Now.key \notin Range(s.needs)
        BY <1>4, <2>2, <3>1, <3>2 DEF NewIsApart
      <4>2. \A i \in DOMAIN s.needs : WithNew[s.needs[i]] = run.mem[s.needs[i]]
        BY <1>5, <3>1, <4>1 DEF Range
      <4>3. BuiltAs(s, WithNew) = BuiltAs(s, run.mem)
        BY <4>2 DEF BuiltAs
      <4> QED
        BY <1>6, <3>1, <4>1, <4>3 DEF Grows
    <3> QED
      BY <1>5, <3>1, <3>2
  <2> QED
    BY <2>1, <2>2
<1>9. Ordered(Me)'
  <2>1. /\ PlanOf(Me)' = Plan /\ Run(Me)' = Run(Me) /\ switched' = switched
    BY <1>1, <1>2, GoneOn
  <2> SUFFICES ASSUME Me \notin switched, NEW j \in DOMAIN Plan, Makes(Plan[j]),
                      Plan[j].key \in DOMAIN WithNew
               PROVE  /\ WithNew[Plan[j].key] > 0
                      /\ \A i \in 1..(j - 1) :
                           Makes(Plan[i]) => /\ Plan[i].key \in DOMAIN WithNew
                                             /\ WithNew[Plan[i].key] < WithNew[Plan[j].key]
    BY <1>1, <2>1 DEF Ordered
  <2>2. \A i \in 1..(j - 1) : i \in DOMAIN Plan /\ i # j
    BY <1>1
  <2>3. CASE j = run.pc
    <3>1. ASSUME NEW i \in 1..(j - 1), Makes(Plan[i])
          PROVE  Plan[i].key \in DOMAIN WithNew /\ WithNew[Plan[i].key] < NewAddress
      <4>1. i \in 1..(run.pc - 1) /\ i \in DOMAIN Plan
        BY <2>2, <2>3
      <4>2. Done(Here, run.mem, seen[Me], Plan[i]) /\ Plan[i].op = "deploy"
        BY <1>1, <1>2, <3>1, <4>1, ScriptFacts DEF RunDone, Makes
      <4>3. Plan[i].key \in DOMAIN run.mem /\ run.mem[Plan[i].key] \in DOMAIN Here.made
        BY <3>1, <4>2 DEF Done
      <4>4. Plan[i].key # Now.key
        BY <1>1, <3>1, <4>1, KeyIsNew DEF MadeBefore
      <4> QED
        BY <1>5, <1>6, <4>3, <4>4
    <3> QED
      BY <1>1, <1>5, <1>6, <2>3, <3>1
  <2>4. CASE j # run.pc
    <3>1. Plan[j].key # Now.key
      <4>1. MadeOnce(Plan, run.pc)
        BY <1>1, NowFacts
      <4> QED
        BY <1>1, <2>4, <4>1 DEF MadeOnce
    <3>2. /\ Plan[j].key \in DOMAIN run.mem /\ run.mem[Plan[j].key] > 0
          /\ WithNew[Plan[j].key] = run.mem[Plan[j].key]
          /\ \A i \in 1..(j - 1) : Makes(Plan[i]) => /\ Plan[i].key \in DOMAIN run.mem
                                                     /\ run.mem[Plan[i].key] < run.mem[Plan[j].key]
      BY <1>2, <1>5, <3>1 DEF Ordered
    <3>3. ASSUME NEW i \in 1..(j - 1), Makes(Plan[i])
          PROVE  Plan[i].key \in DOMAIN WithNew /\ WithNew[Plan[i].key] < WithNew[Plan[j].key]
      <4>1. CASE Plan[i].key = Now.key
        <5>1. Now.key \in DOMAIN run.mem /\ run.mem[Now.key] < run.mem[Plan[j].key]
          BY <3>2, <3>3, <4>1
        <5>2. run.mem[Now.key] > 0 /\ run.mem[Now.key] \in Nat /\ run.mem[Plan[j].key] \in Nat
          BY <1>1, <1>2, <3>2, <5>1 DEF Ordered, Addressed, Address
        <5>3. run.mem[Now.key] >= NewAddress
          BY <1>4, <1>6, <5>1, <5>2 DEF NewIsApart, InRecord
        <5> QED
          BY <1>5, <1>6, <3>2, <4>1, <5>1, <5>2, <5>3
      <4>2. CASE Plan[i].key # Now.key
        BY <1>5, <3>2, <3>3, <4>2
      <4> QED
        BY <4>1, <4>2
    <3> QED
      BY <3>2, <3>3
  <2> QED
    BY <2>3, <2>4
<1>10. ASSUME NEW k, NEW s \in StepsOf(Me), Makes(s), s.key = k, k # Now.key,
              There(Created, WithNew, k)
       PROVE  There(Here, run.mem, k) /\ WithNew[k] = run.mem[k]
  <2>1. k \in DOMAIN run.mem /\ WithNew[k] = run.mem[k] /\ run.mem[k] \in DOMAIN Created.made
    BY <1>5, <1>10 DEF There
  <2>2. run.mem[k] \in DOMAIN Here.made
    BY <1>4, <1>10, <2>1 DEF NewIsApart
  <2> QED
    BY <1>6, <1>10, <2>1, <2>2 DEF There, Grows
<1>11. ASSUME NEW step \in StepsOf(Me), step.op \in {"claim", "pay"},
              There(Created, WithNew, step.on),
              HeldAt(Created, WithNew[step.on], step.slot) # {}
       PROVE  /\ There(Here, run.mem, step.on)
              /\ HeldAt(Created, WithNew[step.on], step.slot)
                   = HeldAt(Here, run.mem[step.on], step.slot)
  <2>1. step.op \in Settings
    BY <1>11 DEF Settings
  <2>2. step.on # Now.key
    BY <1>1, <1>5, <1>6, <1>11, <2>1, StepFacts DEF Free
  <2>3. There(Here, run.mem, step.on) /\ WithNew[step.on] = run.mem[step.on]
    BY <1>1, <1>10, <1>11, <2>1, <2>2, SetOnMade
  <2> QED
    BY <1>6, <2>3 DEF There, Grows
<1>12. Claimed(Me)'
  <2>1. Current(Me)' = Current(Me)
    BY <1>1, PeersUnmoved DEF Current, GoesOn
  <2> SUFFICES ASSUME NEW step \in StepsOf(Me), step.op = "claim",
                      There(Created, WithNew, step.on),
                      HeldAt(Created, WithNew[step.on], step.slot) # {}
               PROVE  /\ HeldAt(Created, WithNew[step.on], step.slot)
                           = ValuesOf(step, WithNew, Current(Me))
                      /\ step.key # Absent /\ step.from = Absent
                           => WithNew[step.key] \in DOMAIN Created.made
    BY <1>1, <2>1 DEF Claimed
  <2> DEFINE held == HeldAt(Here, run.mem[step.on], step.slot)
  <2>2. /\ There(Here, run.mem, step.on)
        /\ HeldAt(Created, WithNew[step.on], step.slot) = held /\ held # {}
    BY <1>11
  <2>3. /\ held = ValuesOf(step, run.mem, Current(Me))
        /\ step.key # Absent /\ step.from = Absent
             => run.mem[step.key] \in DOMAIN Here.made
    BY <1>2, <1>7, <2>2 DEF Claimed
  <2>4. CASE step.key # Absent /\ step.from = Absent
    <3>1. step.key \in DOMAIN run.mem
      BY <2>2, <2>3, <2>4 DEF ValuesOf
    <3>2. step.key # Now.key
      BY <1>4, <2>3, <2>4, <3>1 DEF NewIsApart, InRecord
    <3>3. WithNew[step.key] = run.mem[step.key] /\ step.key \in DOMAIN WithNew
      BY <1>5, <3>1, <3>2
    <3> QED
      BY <1>6, <2>2, <2>3, <2>4, <3>1, <3>3 DEF ValuesOf, Grows
  <2>5. CASE ~(step.key # Absent /\ step.from = Absent)
    BY <2>2, <2>3, <2>5 DEF ValuesOf
  <2> QED
    BY <2>4, <2>5
<1>13. FlagsTrue(Me)'
  <2> SUFFICES ASSUME NEW step \in StepsOf(Me), step.op \in Settings,
                      step.flag \in DOMAIN WithNew
               PROVE  Wired(Created, WithNew, seen[Me], cuts[Me], step)
    BY <1>1 DEF FlagsTrue
  <2>1. Now.key \notin NotAddresses /\ Now.key # Absent
    BY <1>1, StepFacts
  <2>2. step.flag # Absent => /\ step.flag \in Flags /\ step.key = Absent
                              /\ step.from = Absent
    BY <1>1, StepFacts
  <2>3. step.flag \in DOMAIN run.mem /\ step.flag # Absent
    BY <1>1, <1>2, <1>5, <2>1, <2>2 DEF RunBook, NotAddresses
  <2>4. Wired(Here, run.mem, seen[Me], cuts[Me], step)
    BY <1>2, <1>7, <2>3 DEF FlagsTrue
  <2>5. There(Here, run.mem, step.on) /\ step.needs = <<>>
    BY <1>1, <2>4, StepFacts DEF Wired
  <2>6. step.on \in DOMAIN run.mem /\ step.on # Now.key
    BY <1>4, <2>5 DEF There, NewIsApart, InRecord
  <2>7. Uses(step) \subseteq {step.on}
    BY <2>2, <2>3, <2>5 DEF Uses, Range
  <2>8. Agrees(run.mem, WithNew, step)
    BY <1>5, <2>6, <2>7 DEF Agrees
  <2>9. cuts[Me] \in Nat
    BY <1>1, HistoryType
  <2> QED
    BY <1>1, <1>6, <2>4, <2>8, <2>9, WiredStays
<1>14. Paid(Me)'
  <2> SUFFICES ASSUME NEW step \in StepsOf(Me), step.op = "pay",
                      There(Created, WithNew, step.on),
                      HeldAt(Created, WithNew[step.on], step.slot) # {}
               PROVE  \E n \in 1..(1 + cuts[Me]) :
                        /\ HeldAt(Created, WithNew[step.on], step.slot) = {n}
                        /\ n <= cuts[Me] \/ step.flag \in DOMAIN WithNew \/ Paying(Me, step)'
    BY <1>1 DEF Paid
  <2> DEFINE held == HeldAt(Here, run.mem[step.on], step.slot)
  <2>1. /\ There(Here, run.mem, step.on)
        /\ HeldAt(Created, WithNew[step.on], step.slot) = held /\ held # {}
    BY <1>11
  <2>2. \E n \in 1..(1 + cuts[Me]) :
          /\ held = {n}
          /\ n <= cuts[Me] \/ step.flag \in DOMAIN run.mem \/ Paying(Me, step)
    BY <1>2, <1>7, <2>1 DEF Paid
  <2>3. Paying(Me, step) => Paying(Me, step)'
    BY <1>1, GoneOn DEF Paying
  <2> QED
    BY <1>5, <2>1, <2>2, <2>3
<1> QED
  BY <1>8, <1>9, <1>12, <1>13, <1>14

\* The steps of a script that writes its record at the end.
LEMMA LazySteps ==
  ASSUME NEW f \in Records, ~Eager(f), NEW step \in StepsOf(f)
  PROVE  ~Common(step) /\ step.op # "pay"
<1>1. PICK script : ScriptOf(f, script) /\ step \in Range(script)
  BY DEF StepsOf, ScriptOf
<1>2. PICK i \in DOMAIN script : script[i] = step
  BY <1>1 DEF Range
<1>3. WritesAtEnd(script)
  BY <1>1, ScriptFacts
<1>4. ~Common(step)
  BY <1>2, <1>3 DEF WritesAtEnd
<1> QED
  BY <1>4, StepFacts DEF Common, Settings

\* All that can go wrong with its record is how the contracts are built.
LEMMA LazySteady ==
  ASSUME NEW f \in Records, ~Eager(f), Built(f)', Absent \notin DOMAIN record'[f]
  PROVE  (Built(f) /\ Ordered(f) /\ Claimed(f) /\ FlagsTrue(f) /\ Paid(f))'
<1>1. Ordered(f)'
  BY DEF Ordered
<1>2. Claimed(f)' /\ Paid(f)'
  BY LazySteps DEF Claimed, Paid, Common
<1>3. FlagsTrue(f)'
  BY LazySteps DEF FlagsTrue, Common
<1> QED
  BY <1>1, <1>2, <1>3

LEMMA NewFile ==
  ASSUME IInv, WInv, MakesNew
  PROVE  FileInv(Me)'
<1>1. /\ AtStep /\ ~Idle /\ Makes(Now) /\ GoesOn(WithNew) /\ Me \in Records /\ Now \in StepsOf(Me)
      /\ chain'[Me] = Created /\ Me' = Me /\ run'.forced = run.forced
      /\ run.pc \in 1..Len(Plan) /\ Plan \in Seq(StepType) /\ Now = Plan[run.pc]
      /\ Me \in mixed => Me \in mixed'
      /\ Me \notin settled' /\ wiped' = wiped /\ switched' = switched
  BY NowFacts, RunFacts DEF MakesNew, GoesOn, RunStep
<1>2. /\ PlanOf(Me) = Plan /\ Run(Me) /\ FileInv(Me)
      /\ PlanOf(Me)' = Plan /\ Run(Me)'
  BY <1>1, RunsLast, GoneOn
<1>3. DOMAIN record'[Me] \subseteq DOMAIN record[Me] \cup {Now.key}
  <2>1. CASE Eager(Me)
    <3>1. record'[Me] = WithNew /\ DOMAIN WithNew = DOMAIN run.mem \cup {Now.key}
      BY <1>1, <2>1, NewMemory DEF MakesNew
    <3>2. RunBook
      BY <1>1, RunsLast
    <3>3. record[Me] = run.mem
      BY <1>1, <2>1, <3>2 DEF RunBook
    <3> QED
      BY <3>1, <3>3
  <2>2. CASE ~Eager(Me)
    BY <2>2 DEF MakesNew
  <2> QED
    BY <2>1, <2>2
<1>4. FileBook(Me)'
  <2>1. Now.key # Absent
    BY <1>1, StepFacts
  <2>2. Now.key \in Keys(Plan)
    BY <1>1 DEF Keys, MadeBefore
  <2>3. FileBook(Me)
    BY <1>2 DEF FileInv
  <2> QED
    BY <1>1, <1>2, <1>3, <2>1, <2>2, <2>3 DEF FileBook
<1>5. SettledDone(Me)' /\ SettledWired(Me)'
  BY <1>1 DEF SettledDone, SettledWired
<1>6. SteadyWired(Me)'
  <2> SUFFICES ASSUME Me \notin mixed', ~(run.forced /\ Eager(Me))
               PROVE  (Built(Me) /\ Ordered(Me) /\ Claimed(Me) /\ FlagsTrue(Me) /\ Paid(Me))'
    BY <1>1 DEF SteadyWired, Steady
  <2>1. CASE Eager(Me)
    BY <2>1, NewSteadyEager
  <2>2. CASE ~Eager(Me)
    <3>1. Built(Me) /\ Absent \notin DOMAIN record[Me]
      BY <1>1, <1>2, <2>2 DEF FileInv, SteadyWired, Steady, FileBook
    <3>2. Grows(Here, Created) /\ record'[Me] = record[Me]
      BY <1>1, <2>2, CreatedGrows DEF MakesNew
    <3>3. Built(Me)'
      BY <1>1, <2>2, <3>1, <3>2 DEF Built, Grows, Here
    <3> QED
      BY <1>1, <2>2, <3>1, <3>2, <3>3, LazySteady
  <2> QED
    BY <2>1, <2>2
<1> QED
  BY <1>4, <1>5, <1>6 DEF FileInv

LEMMA NewWires ==
  ASSUME IInv, WInv, MakesNew
  PROVE  WInv'
<1>1. RunInv'
  BY NewRunBook, NewRunDone, NewRunWired, NewStaysInOrder DEF RunInv
<1>2. FileInv(Me)'
  BY NewFile
<1>3. RunStep /\ Me' = Me
  BY DEF MakesNew, GoesOn
<1> QED
  BY <1>1, <1>2, <1>3, AllStay

\* Whoever reads the record learns of no other contract in place of one.
LEMMA ReplacedKeeps ==
  ASSUME IInv, AtStep, Makes(Now), record'[Me] = WithNew, NEW old, mixed' = Replaced(old),
         DOMAIN record[Me] \subseteq DOMAIN run.mem,
         \A k \in DOMAIN record[Me] : record[Me][k] = run.mem[k]
  PROVE  RecordKept
<1>1. /\ DOMAIN WithNew = DOMAIN run.mem \cup {Now.key} /\ WithNew[Now.key] = NewAddress
      /\ \A k \in DOMAIN run.mem : k # Now.key => WithNew[k] = run.mem[k]
  BY NewMemory
<1>2. CASE InRecord /\ run.mem[Now.key] # NewAddress
  BY <1>2 DEF Replaced, RecordKept
<1>3. CASE ~(InRecord /\ run.mem[Now.key] # NewAddress)
  BY <1>1, <1>3 DEF InRecord, RecordKept
<1> QED
  BY <1>2, <1>3

LEMMA DeployMakesNew ==
  ASSUME IInv, WInv, DeployMissing \/ DeployUnread
  PROVE  MakesNew
<1>1. /\ AtStep /\ Now.op = "deploy" /\ DeployAndRecord
      /\ UNCHANGED <<scope, seen, last, wiped, switched, cuts>>
      /\ \E old : mixed' = Replaced(old) /\ mixed \subseteq old
      /\ settled' \in {settled, settled \ {Me}}
      /\ Reused => Me \in mixed' /\ Me \notin settled'
  BY DEF DeployMissing, DeployUnread, Replaced
<1>2. ~Idle /\ Me \in Files /\ Makes(Now)
  BY <1>1, NowFacts, RunFacts DEF Makes
<1>3. /\ chain' = [chain EXCEPT ![Me] = Created] /\ record' = [record EXCEPT ![Me] = WithNew]
      /\ run' = [run EXCEPT !.pc = @ + 1, !.mem = WithNew]
  BY <1>1 DEF DeployAndRecord, WithNew
<1>4. DOMAIN chain = Files /\ DOMAIN record = Files
  BY DEF IInv, TypeOK, ChainsTypeOK, RecordsTypeOK
<1>5. /\ chain'[Me] = Created /\ record'[Me] = WithNew
      /\ \A f \in Files \ {Me} : chain'[f] = chain[f] /\ record'[f] = record[f]
  BY <1>2, <1>3, <1>4
<1>6. Advances(WithNew) /\ run'.sound = run.sound
  BY <1>3, Advancing
<1>7. Eager(Me) /\ RunBook
  BY <1>1, <1>2, EagerFacts, RunsLast
<1>8. record[Me] = run.mem
  BY <1>2, <1>7 DEF RunBook
<1>9. mixed \subseteq mixed'
  BY <1>1 DEF Replaced
<1>10. Me' = Me
  BY <1>6 DEF Advances, Me
<1>11. RecordKept
  BY <1>1, <1>2, <1>5, <1>8, ReplacedKeeps
<1>12. RunStep
  BY <1>1, <1>2, <1>5, <1>9, <1>10, <1>11 DEF RunStep
<1>13. GoesOn(WithNew)
  BY <1>1, <1>6, <1>9, <1>10, <1>12 DEF GoesOn, Advances
<1>14. Me \notin settled'
  BY <1>1, <1>2, SettledReuses
<1> QED
  BY <1>1, <1>2, <1>5, <1>6, <1>7, <1>13, <1>14 DEF MakesNew

LEMMA InstantiateMakesNew ==
  ASSUME IInv, WInv, Instantiate, ~Reused
  PROVE  MakesNew
<1>1. /\ AtStep /\ Now.op = "instantiate" /\ chain' = [chain EXCEPT ![Me] = Created]
      /\ run' = [run EXCEPT !.pc = @ + 1, !.mem = WithNew]
      /\ UNCHANGED <<scope, record, seen, last, wiped, switched, cuts, mixed, settled>>
  BY DEF Instantiate, WithNew
<1>2. ~Idle /\ Me \in Files /\ Makes(Now)
  BY <1>1, NowFacts, RunFacts DEF Makes
<1>3. DOMAIN chain = Files
  BY DEF IInv, TypeOK, ChainsTypeOK
<1>4. chain'[Me] = Created /\ \A f \in Files \ {Me} : chain'[f] = chain[f]
  BY <1>1, <1>2, <1>3
<1>5. Advances(WithNew) /\ run'.sound = run.sound
  BY <1>1, Advancing
<1>6. Me' = Me
  BY <1>5 DEF Advances, Me
<1>7. RunStep
  BY <1>1, <1>2, <1>4, <1>6 DEF RunStep, RecordKept
<1>8. GoesOn(WithNew)
  BY <1>1, <1>5, <1>6, <1>7 DEF GoesOn, Advances
<1>9. Me \notin settled' /\ ~Eager(Me)
  BY <1>1, <1>2, SettledReuses, EagerFacts
<1> QED
  BY <1>1, <1>2, <1>4, <1>5, <1>8, <1>9 DEF MakesNew
-----------------------------------------------------------------------------
(* The record is written.                                                  *)

LEMMA NoteFacts ==
  ASSUME IInv, AtStep, Now.op = "note"
  PROVE  LET m == WithNotes(run.mem)
         IN /\ DOMAIN m = DOMAIN run.mem \cup Range(Now.needs)
            /\ \A k \in DOMAIN run.mem : m[k] = run.mem[k]
            /\ \A k \in DOMAIN m : k \notin NotAddresses => k \in DOMAIN run.mem
            /\ Range(Now.needs) \subseteq Keys(Plan) /\ Absent \notin Range(Now.needs)
            /\ ~Makes(Now)
<1>1. /\ InOrder(Plan, run.pc) /\ FlagNoted(Plan, run.pc) /\ Now = Plan[run.pc]
      /\ MadeBefore(Plan, run.pc) \subseteq DOMAIN run.mem
      /\ run.pc \in Nat /\ run.pc <= Len(Plan) + 1 /\ Len(Plan) + 1 \in Nat
  BY NowFacts, RunFacts
<1>2. MadeBefore(Plan, run.pc) \subseteq MadeBefore(Plan, Len(Plan) + 1)
  BY <1>1, MadeGrows
<1>3. NotedKeys = Range(Now.needs)
  BY DEF NotedKeys, Range
<1>4. Range(Now.needs) \subseteq NotAddresses \cup MadeBefore(Plan, run.pc)
  BY <1>1 DEF InOrder
<1> QED
  BY <1>1, <1>2, <1>3, <1>4 DEF WithNotes, Keys, FlagNoted, Makes

LEMMA WriteGoesOn ==
  ASSUME IInv, WInv, WriteRecord
  PROVE  /\ GoesOn(WithNotes(run.mem)) /\ record'[Me] = WithNotes(run.mem)
         /\ chain'[Me] = Here /\ run'.sound = run.sound
         /\ UNCHANGED <<settled, mixed>>
<1>1. /\ AtStep /\ Now.op = "note" /\ record' = [record EXCEPT ![Me] = WithNotes(run.mem)]
      /\ run' = [run EXCEPT !.pc = @ + 1, !.mem = WithNotes(run.mem)]
      /\ UNCHANGED <<scope, chain, seen, last, wiped, switched, cuts, mixed, settled>>
  BY DEF WriteRecord
<1>2. ~Idle /\ Me \in Files /\ DOMAIN record = Files /\ Me \in Records
  BY <1>1, NowFacts, RunFacts DEF IInv, TypeOK, RecordsTypeOK
<1>3. record'[Me] = WithNotes(run.mem) /\ \A f \in Files \ {Me} : record'[f] = record[f]
  BY <1>1, <1>2
<1>4. Advances(WithNotes(run.mem)) /\ run'.sound = run.sound
  BY <1>1, Advancing
<1>5. Me' = Me
  BY <1>4 DEF Advances, Me
<1>6. RecordKept
  <2>1. CASE Eager(Me)
    <3>1. record[Me] = run.mem
      BY <1>2, <2>1, RunsLast DEF RunBook
    <3> QED
      BY <1>1, <1>3, <3>1, NoteFacts DEF RecordKept
  <2>2. CASE ~Eager(Me)
    <3>1. \A g \in Files : Me \notin Peers(g)
      BY <2>2, FilesAreRecords, RecordsAssumption
    <3> QED
      BY <3>1 DEF RecordKept, Dependents
  <2> QED
    BY <2>1, <2>2
<1>7. RunStep
  BY <1>1, <1>2, <1>3, <1>5, <1>6 DEF RunStep
<1> QED
  BY <1>1, <1>3, <1>4, <1>5, <1>7 DEF GoesOn, Advances, Here

LEMMA WriteRunInv ==
  ASSUME IInv, WInv, WriteRecord
  PROVE  RunInv'
<1> DEFINE m == WithNotes(run.mem)
<1>1. /\ AtStep /\ ~Idle /\ Now.op = "note" /\ Me \in Records /\ Me \in Files
      /\ \A i \in DOMAIN Plan : Plan[i] \in StepsOf(Me)
      /\ Plan \in Seq(StepType) /\ run.pc \in 1..Len(Plan) /\ Now = Plan[run.pc]
      /\ ScriptOf(Me, Plan)
  BY NowFacts, RunFacts DEF WriteRecord
<1>2. /\ GoesOn(m) /\ record'[Me] = m /\ chain'[Me] = Here /\ run'.sound = run.sound
      /\ UNCHANGED <<settled, mixed>>
  BY WriteGoesOn
<1>3. /\ DOMAIN m = DOMAIN run.mem \cup Range(Now.needs) /\ Absent \notin Range(Now.needs)
      /\ \A k \in DOMAIN run.mem : m[k] = run.mem[k]
      /\ ~Makes(Now)
  BY <1>1, NoteFacts
<1>4. /\ RunBook /\ RunDone /\ RunWired /\ NewInOrder
      /\ DOMAIN record[Me] \subseteq DOMAIN run.mem /\ cuts[Me] \in Nat
      /\ Grows(Here, Here)
  BY <1>1, RunsLast, HistoryType, GrowsItself DEF IInv, TypeOK, RunTypeOK
<1> HIDE DEF m
<1>5. \A i \in 1..(run.pc - 1) : i \in DOMAIN Plan /\ Agrees(run.mem, m, Plan[i])
  BY <1>1, NotesAgree DEF m
<1>6. RunBook'
  BY <1>1, <1>2, <1>3, <1>4, RunBookGoesOn DEF RunBook
<1>7. RunDone'
  <2>1. \A i \in 1..(run.pc - 1) : Done(Here, m, seen[Me], Plan[i])
    BY <1>1, <1>4, <1>5, DoneStays DEF RunDone
  <2>2. Done(Here, m, seen[Me], Now)
    BY <1>1, <1>3 DEF Done, Makes, Settings
  <2> QED
    BY <1>2, <2>1, <2>2, RunDoneGoesOn
<1>8. Tracked' => Tracked
  BY <1>2, TrackedBefore
<1>9. RunWired'
  <2>1. Tracked => \A i \in 1..(run.pc - 1) : Wired(Here, m, seen[Me], cuts[Me], Plan[i])
    BY <1>1, <1>4, <1>5, WiredStays DEF RunWired
  <2>2. Wired(Here, m, seen[Me], cuts[Me], Now)
    BY <1>1 DEF Wired, Makes, Settings
  <2> QED
    BY <1>2, <1>8, <2>1, <2>2, RunWiredGoesOn
<1>10. NewInOrder'
  <2> SUFFICES ASSUME Tracked, run.forced
               PROVE  /\ \A i, j \in 1..run.pc :
                           i < j /\ Makes(Plan[i]) /\ Makes(Plan[j])
                             => m[Plan[i].key] < m[Plan[j].key]
                      /\ \A i \in (run.pc + 1)..Len(Plan) :
                           Plan[i].op \in {"claim", "pay"}
                           /\ Plan[i].on \in MadeBefore(Plan, run.pc + 1)
                             => HeldAt(Here, m[Plan[i].on], Plan[i].slot) = {}
    <3>1. /\ Plan' = Plan /\ Here' = Here /\ run'.pc = run.pc + 1
          /\ 1..(run'.pc - 1) = 1..run.pc
      BY <1>1, <1>2, GoneOn
    <3>2. run'.mem = m /\ run'.forced = run.forced
      BY <1>2 DEF GoesOn
    <3> QED
      BY <1>8, <3>1, <3>2 DEF NewInOrder
  <2>1. MadeBefore(Plan, run.pc + 1) = MadeBefore(Plan, run.pc)
    <3>1. MadeBefore(Plan, run.pc + 1)
            = MadeBefore(Plan, run.pc) \cup (IF Makes(Plan[run.pc]) THEN {Plan[run.pc].key} ELSE {})
      BY <1>1, MadeByStep
    <3> QED
      BY <1>1, <1>3, <3>1
  <2>2. \A k \in MadeBefore(Plan, run.pc) : m[k] = run.mem[k]
    BY <1>1, <1>3, RunFacts
  <2>3. \A i \in 1..run.pc : Makes(Plan[i]) => /\ i \in 1..(run.pc - 1)
                                               /\ Plan[i].key \in MadeBefore(Plan, run.pc)
    <3>1. \A i \in 1..run.pc : i # run.pc => i \in 1..(run.pc - 1)
      BY <1>1
    <3> QED
      BY <1>1, <1>3, <3>1 DEF MadeBefore
  <2>4. (run.pc + 1)..Len(Plan) \subseteq run.pc..Len(Plan)
    BY <1>1
  <2> QED
    BY <1>4, <2>1, <2>2, <2>3, <2>4 DEF NewInOrder
<1> QED
  BY <1>6, <1>7, <1>9, <1>10 DEF RunInv

\* An eager script's record grows by what is no address.
LEMMA WriteSteadyEager ==
  ASSUME IInv, WInv, WriteRecord, Eager(Me), ~run.forced, Me \notin mixed
  PROVE  (Built(Me) /\ Ordered(Me) /\ Claimed(Me) /\ FlagsTrue(Me) /\ Paid(Me))'
<1> DEFINE m == WithNotes(run.mem)
<1>1. /\ AtStep /\ ~Idle /\ Now.op = "note" /\ Me \in Records /\ Me \in Files
      /\ \A i \in DOMAIN Plan : Plan[i] \in StepsOf(Me) /\ InOrder(Plan, i)
      /\ Plan \in Seq(StepType) /\ run.pc \in 1..Len(Plan) /\ Now = Plan[run.pc]
      /\ run.pc \in DOMAIN Plan
      /\ ScriptOf(Me, Plan) /\ cuts[Me] \in Nat
  BY NowFacts, RunFacts, ScriptFacts, HistoryType DEF WriteRecord
<1>2. /\ GoesOn(m) /\ record'[Me] = m /\ chain'[Me] = Here /\ Here = chain[Me]
      /\ UNCHANGED <<settled, mixed>> /\ Me' = Me
  BY WriteGoesOn DEF GoesOn, Here
<1>3. /\ DOMAIN m = DOMAIN run.mem \cup Range(Now.needs) /\ Absent \notin Range(Now.needs)
      /\ \A k \in DOMAIN run.mem : m[k] = run.mem[k]
      /\ \A k \in DOMAIN m : k \notin NotAddresses => k \in DOMAIN run.mem
  BY <1>1, NoteFacts
<1> HIDE DEF m
<1>4. /\ Built(Me) /\ Ordered(Me) /\ Claimed(Me) /\ FlagsTrue(Me) /\ Paid(Me)
      /\ record[Me] = run.mem
  BY <1>1, TrackedSteady
<1>5. /\ PlanOf(Me) = Plan /\ Run(Me) /\ PlanOf(Me)' = Plan /\ switched' = switched
      /\ seen' = seen /\ cuts' = cuts /\ Current(Me)' = Current(Me)
  BY <1>1, <1>2, RunsLast, GoneOn, PeersUnmoved DEF Current, GoesOn
<1>6. Built(Me)'
  <2> SUFFICES ASSUME NEW s \in StepsOf(Me), Makes(s), s.key \in DOMAIN m
               PROVE  /\ Range(s.needs) \subseteq DOMAIN m
                      /\ m[s.key] \in DOMAIN Here.made => Here.made[m[s.key]] = BuiltAs(s, m)
    BY <1>1, <1>2 DEF Built
  <2>1. s.key \in DOMAIN run.mem /\ m[s.key] = run.mem[s.key]
    BY <1>1, <1>3, StepFacts
  <2>2. /\ Range(s.needs) \subseteq DOMAIN run.mem
        /\ run.mem[s.key] \in DOMAIN Here.made => Here.made[run.mem[s.key]] = BuiltAs(s, run.mem)
    BY <1>2, <1>4, <2>1 DEF Built
  <2>3. BuiltAs(s, m) = BuiltAs(s, run.mem)
    <3>1. \A i \in DOMAIN s.needs : m[s.needs[i]] = run.mem[s.needs[i]]
      BY <1>3, <2>2 DEF Range
    <3> QED
      BY <3>1 DEF BuiltAs
  <2> QED
    BY <1>3, <2>1, <2>2, <2>3
<1>7. Ordered(Me)'
  <2> SUFFICES ASSUME Me \notin switched, NEW j \in DOMAIN Plan, Makes(Plan[j]),
                      Plan[j].key \in DOMAIN m
               PROVE  /\ m[Plan[j].key] > 0
                      /\ \A i \in 1..(j - 1) :
                           Makes(Plan[i]) => /\ Plan[i].key \in DOMAIN m
                                             /\ m[Plan[i].key] < m[Plan[j].key]
    BY <1>1, <1>2, <1>5 DEF Ordered
  <2>1. Plan[j].key \in DOMAIN run.mem /\ m[Plan[j].key] = run.mem[Plan[j].key]
    BY <1>1, <1>3, StepFacts
  <2> QED
    BY <1>1, <1>3, <1>4, <1>5, <2>1 DEF Ordered
<1>8. ASSUME NEW step \in StepsOf(Me), step.op \in Settings, There(Here, m, step.on)
      PROVE  There(Here, run.mem, step.on) /\ m[step.on] = run.mem[step.on]
  BY <1>1, <1>3, <1>8, StepFacts DEF There
<1>9. Claimed(Me)'
  <2> SUFFICES ASSUME NEW step \in StepsOf(Me), step.op = "claim", There(Here, m, step.on),
                      HeldAt(Here, m[step.on], step.slot) # {}
               PROVE  /\ HeldAt(Here, m[step.on], step.slot) = ValuesOf(step, m, Current(Me))
                      /\ step.key # Absent /\ step.from = Absent
                           => m[step.key] \in DOMAIN Here.made
    BY <1>1, <1>2, <1>5 DEF Claimed
  <2>1. step.op \in Settings
    BY DEF Settings
  <2>2. There(Here, run.mem, step.on) /\ m[step.on] = run.mem[step.on]
    BY <1>8, <2>1
  <2>3. /\ HeldAt(Here, m[step.on], step.slot) = ValuesOf(step, run.mem, Current(Me))
        /\ step.key # Absent /\ step.from = Absent => run.mem[step.key] \in DOMAIN Here.made
    BY <1>2, <1>4, <2>2 DEF Claimed
  <2>4. CASE step.key # Absent /\ step.from = Absent
    <3>1. step.key \in DOMAIN run.mem
      BY <2>3, <2>4 DEF ValuesOf
    <3> QED
      BY <1>3, <2>3, <2>4, <3>1 DEF ValuesOf
  <2>5. CASE ~(step.key # Absent /\ step.from = Absent)
    BY <2>3, <2>5 DEF ValuesOf
  <2> QED
    BY <2>4, <2>5
<1>10. FlagsTrue(Me)'
  <2> SUFFICES ASSUME NEW step \in StepsOf(Me), step.op \in Settings, step.flag \in DOMAIN m
               PROVE  Wired(Here, m, seen[Me], cuts[Me], step)
    BY <1>1, <1>2, <1>5 DEF FlagsTrue
  <2>1. Wired(Here, run.mem, seen[Me], cuts[Me], step)
    <3>1. CASE step.flag \in DOMAIN run.mem
      BY <1>2, <1>4, <3>1 DEF FlagsTrue
    <3>2. CASE step.flag \notin DOMAIN run.mem
      <4>1. step.flag \in Range(Now.needs) /\ step.flag # Absent
        BY <1>3, <3>2
      <4>2. SameInEveryMode(Plan, step)
        BY <1>1, ScriptFacts
      <4>3. PICK j \in DOMAIN Plan : Plan[j] = step
        BY <4>1, <4>2 DEF SameInEveryMode, Common, Range
      <4>4. FlagNoted(Plan, run.pc)
        BY <1>1, NowFacts
      <4>5. j < run.pc
        BY <1>1, <4>1, <4>3, <4>4 DEF FlagNoted
      <4>6. Tracked /\ RunWired
        BY <1>1, RunsLast DEF Tracked
      <4> QED
        BY <1>1, <4>3, <4>5, <4>6 DEF RunWired
    <3> QED
      BY <3>1, <3>2
  <2>2. There(Here, run.mem, step.on) /\ step.needs = <<>>
    BY <1>1, <2>1, StepFacts DEF Wired
  <2>3. step.flag # Absent => step.key = Absent
    BY <1>1, StepFacts
  <2>4. step.flag # Absent
    BY <1>1, <1>3, <1>4, RunsLast DEF RunBook
  <2>5. Uses(step) \subseteq {step.on} /\ step.on \in DOMAIN run.mem
    BY <2>2, <2>3, <2>4 DEF Uses, Range, There
  <2>6. Agrees(run.mem, m, step)
    BY <1>3, <2>5 DEF Agrees
  <2> QED
    BY <1>1, <2>1, <2>6, WiredStays, GrowsItself
<1>11. Paid(Me)'
  <2> SUFFICES ASSUME NEW step \in StepsOf(Me), step.op = "pay", There(Here, m, step.on),
                      HeldAt(Here, m[step.on], step.slot) # {}
               PROVE  \E n \in 1..(1 + cuts[Me]) :
                        /\ HeldAt(Here, m[step.on], step.slot) = {n}
                        /\ n <= cuts[Me] \/ step.flag \in DOMAIN m \/ Paying(Me, step)'
    BY <1>1, <1>2, <1>5 DEF Paid
  <2>1. step.op \in Settings
    BY DEF Settings
  <2>2. There(Here, run.mem, step.on) /\ m[step.on] = run.mem[step.on]
    BY <1>8, <2>1
  <2>3. \E n \in 1..(1 + cuts[Me]) :
          /\ HeldAt(Here, m[step.on], step.slot) = {n}
          /\ n <= cuts[Me] \/ step.flag \in DOMAIN run.mem \/ Paying(Me, step)
    BY <1>2, <1>4, <2>2 DEF Paid
  <2>4. Paying(Me, step) => Paying(Me, step)'
    BY <1>1, <1>2, GoneOn DEF Paying
  <2> QED
    BY <1>3, <2>3, <2>4
<1> QED
  BY <1>6, <1>7, <1>9, <1>10, <1>11

\* The record written at the end names what this run made, or what was recorded.
LEMMA WriteBuiltLazy ==
  ASSUME IInv, WInv, WriteRecord, ~Eager(Me), Me \notin mixed
  PROVE  Built(Me)'
<1> DEFINE m == WithNotes(run.mem)
<1>1. /\ AtStep /\ ~Idle /\ Now.op = "note" /\ Me \in Records
      /\ \A i \in DOMAIN Plan : Plan[i] \in StepsOf(Me)
      /\ Plan \in Seq(StepType) /\ run.pc = Len(Plan) /\ Now = Plan[run.pc]
      /\ run.pc \in Nat /\ run.pc <= Len(Plan) + 1 /\ ScriptOf(Me, Plan)
  BY NowFacts, RunFacts, EagerFacts DEF WriteRecord
<1>2. /\ record'[Me] = m /\ chain'[Me] = Here /\ Here = chain[Me] /\ Me' = Me
  BY WriteGoesOn DEF GoesOn, Here
<1>3. /\ \A k \in DOMAIN run.mem : k \in DOMAIN m /\ m[k] = run.mem[k]
      /\ \A k \in DOMAIN m : k \notin NotAddresses => k \in DOMAIN run.mem
      /\ ~Makes(Now)
  BY <1>1, NoteFacts
<1> HIDE DEF m
<1>4. /\ RunBook /\ RunWired /\ Tracked /\ FileInv(Me) /\ PlanOf(Me) = Plan /\ Run(Me)
      /\ Built(Me) /\ FileBook(Me)
  BY <1>1, RunsLast DEF Tracked, FileInv, SteadyWired, Steady
<1> SUFFICES ASSUME NEW s \in StepsOf(Me), Makes(s), s.key \in DOMAIN m
             PROVE  /\ Range(s.needs) \subseteq DOMAIN m
                    /\ m[s.key] \in DOMAIN Here.made
                    /\ Here.made[m[s.key]] = BuiltAs(s, m)
  BY <1>1, <1>2 DEF Built
<1>5. s.key \in DOMAIN run.mem /\ m[s.key] = run.mem[s.key] /\ s.key \notin NotAddresses
  BY <1>1, <1>3, StepFacts
<1>6. /\ Range(s.needs) \subseteq DOMAIN run.mem
      /\ run.mem[s.key] \in DOMAIN Here.made
      /\ Here.made[run.mem[s.key]] = BuiltAs(s, run.mem)
  <2>1. CASE s.key \in MadeBefore(Plan, run.pc)
    <3>1. PICK j \in DOMAIN Plan : j < run.pc /\ Makes(Plan[j]) /\ Plan[j].key = s.key
      BY <1>1, <2>1, MadeEarlier
    <3>2. Plan[j] = s /\ j \in 1..(run.pc - 1)
      BY <1>1, <3>1, SameStep
    <3>3. Wired(Here, run.mem, seen[Me], cuts[Me], s)
      BY <1>4, <3>2 DEF RunWired
    <3> QED
      BY <3>3 DEF Wired, There
  <2>2. CASE s.key \notin MadeBefore(Plan, run.pc)
    <3>1. s.key \in DOMAIN record[Me]
      BY <1>1, <1>4, <1>5, <2>2 DEF RunBook
    <3>2. ~run.forced
      <4> SUFFICES ASSUME run.forced
                   PROVE  FALSE
        OBVIOUS
      <4>1. Me \notin switched
        BY <1>1, <1>4 DEF RunBook
      <4>2. s.key \in MadeBefore(Plan, Len(Plan) + 1)
        BY <1>4, <1>5, <3>1, <4>1 DEF FileBook, Keys
      <4>3. MadeBefore(Plan, Len(Plan) + 1) = MadeBefore(Plan, run.pc)
        <5>1. MadeBefore(Plan, run.pc + 1)
                = MadeBefore(Plan, run.pc)
                    \cup (IF Makes(Plan[run.pc]) THEN {Plan[run.pc].key} ELSE {})
          BY <1>1, NowFacts, MadeByStep
        <5> QED
          BY <1>1, <1>3, <5>1
      <4> QED
        BY <2>2, <4>2, <4>3
    <3>3. /\ Range(s.needs) \subseteq DOMAIN record[Me]
          /\ record[Me][s.key] \in DOMAIN Here.made
          /\ Here.made[record[Me][s.key]] = BuiltAs(s, record[Me])
      BY <1>2, <1>4, <3>1 DEF Built
    <3>4. \A k \in DOMAIN record[Me] : k \in DOMAIN run.mem /\ run.mem[k] = record[Me][k]
      BY <1>1, <1>4, <3>2, TrackedSteady
    <3>5. BuiltAs(s, record[Me]) = BuiltAs(s, run.mem)
      <4>1. \A i \in DOMAIN s.needs : record[Me][s.needs[i]] = run.mem[s.needs[i]]
        BY <3>3, <3>4 DEF Range
      <4> QED
        BY <4>1 DEF BuiltAs
    <3> QED
      BY <3>1, <3>3, <3>4, <3>5
  <2> QED
    BY <2>1, <2>2
<1>7. BuiltAs(s, m) = BuiltAs(s, run.mem)
  <2>1. \A i \in DOMAIN s.needs : m[s.needs[i]] = run.mem[s.needs[i]]
    BY <1>3, <1>6 DEF Range
  <2> QED
    BY <2>1 DEF BuiltAs
<1> QED
  BY <1>3, <1>5, <1>6, <1>7

LEMMA WriteWires ==
  ASSUME IInv, WInv, WriteRecord
  PROVE  WInv'
<1> DEFINE m == WithNotes(run.mem)
<1>1. /\ AtStep /\ ~Idle /\ Now.op = "note" /\ Me \in Records
      /\ Plan \in Seq(StepType) /\ run.pc \in Nat /\ run.pc <= Len(Plan) + 1
      /\ Len(Plan) + 1 \in Nat
  BY NowFacts, RunFacts DEF WriteRecord
<1>2. /\ GoesOn(m) /\ record'[Me] = m /\ chain'[Me] = Here /\ Here = chain[Me]
      /\ UNCHANGED <<settled, mixed>> /\ Me' = Me /\ run'.forced = run.forced /\ RunStep
  BY WriteGoesOn DEF GoesOn, Here
<1>3. RunInv'
  BY WriteRunInv
<1>4. FileInv(Me)'
  <2>1. CASE Me \in settled
    <3>1. m = record[Me]
      BY <1>1, <2>1, SettledNotes, SettledRun
    <3> QED
      BY <1>2, <3>1, UnmovedFile
  <2>2. CASE Me \notin settled
    <3>1. SettledDone(Me)' /\ SettledWired(Me)'
      BY <1>2, <2>2 DEF SettledDone, SettledWired
    <3>2. /\ DOMAIN m = DOMAIN run.mem \cup Range(Now.needs)
          /\ Range(Now.needs) \subseteq Keys(Plan) /\ Absent \notin Range(Now.needs)
      BY <1>1, NoteFacts
    <3>3. /\ RunBook /\ FileBook(Me) /\ PlanOf(Me) = Plan /\ Run(Me)
          /\ PlanOf(Me)' = Plan /\ Run(Me)' /\ wiped' = wiped /\ switched' = switched
      BY <1>1, <1>2, RunsLast, GoneOn DEF FileInv, RunStep
    <3>4. MadeBefore(Plan, run.pc) \subseteq Keys(Plan)
      BY <1>1, MadeGrows DEF Keys
    <3>5. FileBook(Me)'
      BY <1>1, <1>2, <2>2, <3>2, <3>3, <3>4 DEF FileBook, RunBook
    <3>6. SteadyWired(Me)'
      <4> SUFFICES ASSUME Me \notin mixed, ~(run.forced /\ Eager(Me))
                   PROVE  (Built(Me) /\ Ordered(Me) /\ Claimed(Me) /\ FlagsTrue(Me) /\ Paid(Me))'
        BY <1>2 DEF SteadyWired, Steady
      <4>1. Absent \notin DOMAIN record'[Me]
        BY <1>2, <3>5 DEF FileBook
      <4> QED
        BY <1>1, <1>2, <4>1, WriteSteadyEager, WriteBuiltLazy, LazySteady
    <3> QED
      BY <3>1, <3>5, <3>6 DEF FileInv
  <2> QED
    BY <2>1, <2>2
<1> QED
  BY <1>2, <1>3, <1>4, AllStay
-----------------------------------------------------------------------------
(* A setting.                                                              *)

\* The run has made the setting it is at.
Sets ==
  /\ AtStep /\ Now.op \in Settings /\ ~Flagged /\ ~Refused /\ GoesOn(run.mem)
  /\ UNCHANGED <<record, settled, mixed>> /\ run'.sound = run.sound
  /\ OneSlot(Here, chain'[Me], On, Now.slot)
  /\ HeldAt(chain'[Me], On, Now.slot) = NewValues
  /\ Me \in settled => chain'[Me] = chain[Me]

\* d is c with these values in a slot.
SlotSet(c, d, a, slot, values) ==
  d = [made     |-> c.made,
       settings |-> {x \in c.settings : ~(x.on = a /\ x.slot = slot)}
                      \cup {[on |-> a, slot |-> slot, value |-> v] : v \in values}]

LEMMA SlotIsSet ==
  ASSUME NEW c, NEW d, NEW a, NEW slot, NEW values, SlotSet(c, d, a, slot, values)
  PROVE  OneSlot(c, d, a, slot) /\ HeldAt(d, a, slot) = values
<1>1. d.made = c.made
  BY DEF SlotSet
<1>2. ASSUME NEW b, NEW other, b # a \/ other # slot
      PROVE  HeldAt(d, b, other) = HeldAt(c, b, other)
  <2>1. {y \in d.settings : y.on = b /\ y.slot = other}
          = {y \in c.settings : y.on = b /\ y.slot = other}
    BY <1>2 DEF SlotSet
  <2> QED
    BY <2>1 DEF HeldAt
<1>3. ASSUME NEW v \in HeldAt(d, a, slot)
      PROVE  v \in values
  BY DEF HeldAt, SlotSet
<1>4. ASSUME NEW v \in values
      PROVE  v \in HeldAt(d, a, slot)
  <2> DEFINE x == [on |-> a, slot |-> slot, value |-> v]
  <2>1. x \in d.settings /\ x.on = a /\ x.slot = slot /\ x.value = v
    BY DEF SlotSet
  <2> QED
    BY <2>1 DEF HeldAt
<1> QED
  BY <1>1, <1>2, <1>3, <1>4 DEF OneSlot

LEMMA ConfigureSets ==
  ASSUME IInv, WInv, Configure, ~Flagged
  PROVE  Sets
<1>1. /\ AtStep /\ Now.op \in Settings /\ ~Refused /\ Advance
      /\ chain' = [chain EXCEPT ![Me].settings = WithSetting(NewValues)]
      /\ UNCHANGED <<scope, record, seen, last, settled, mixed, wiped, switched, cuts>>
  BY DEF Configure, OnSetting
<1>2. ~Idle /\ Me \in Files /\ DOMAIN chain = Files
      /\ chain[Me] = [made |-> Here.made, settings |-> Here.settings]
  BY <1>1, NowFacts, RunFacts DEF IInv, TypeOK, ChainsTypeOK, SoundChain, Contracts, Here
<1>3. /\ chain'[Me] = [made |-> Here.made, settings |-> WithSetting(NewValues)]
      /\ \A f \in Files \ {Me} : chain'[f] = chain[f]
  BY <1>1, <1>2
<1>4. Advances(run.mem) /\ run'.sound = run.sound
  BY <1>1, Advancing
<1>5. Me' = Me
  BY <1>4 DEF Advances, Me
<1>6. RunStep
  BY <1>1, <1>2, <1>3, <1>5 DEF RunStep, RecordKept
<1>7. GoesOn(run.mem)
  BY <1>1, <1>4, <1>5, <1>6 DEF GoesOn, Advances
<1>8. /\ OneSlot(Here, chain'[Me], On, Now.slot)
      /\ HeldAt(chain'[Me], On, Now.slot) = NewValues
  <2>1. SlotSet(Here, chain'[Me], On, Now.slot, NewValues)
    BY <1>3 DEF SlotSet, WithSetting
  <2> QED
    BY <2>1, SlotIsSet
<1> QED
  BY <1>1, <1>4, <1>7, <1>8, SettledConfigures DEF Sets

LEMMA SetsFacts ==
  ASSUME IInv, WInv, Sets
  PROVE  /\ AtStep /\ ~Idle /\ Me \in Files /\ Me \in Records /\ Now \in StepsOf(Me)
         /\ Now.op \in Settings /\ ~Makes(Now) /\ Now.op # "note"
         /\ Now = Plan[run.pc] /\ run.pc \in 1..Len(Plan) /\ run.pc \in DOMAIN Plan
         /\ Plan \in Seq(StepType)
         /\ ScriptOf(Me, Plan) /\ SetOnce(Plan, run.pc) /\ cuts[Me] \in Nat
         /\ \A i \in DOMAIN Plan : Plan[i] \in StepsOf(Me)
         /\ There(Here, run.mem, Now.on) /\ There(chain'[Me], run.mem, Now.on)
         /\ Now.on \in MadeBefore(Plan, run.pc)
         /\ On = run.mem[Now.on] /\ Old = HeldAt(Here, On, Now.slot)
         /\ Values = ValuesOf(Now, run.mem, seen[Me])
         /\ Now.op \in Adding => Old \subseteq NewValues
         /\ \A i \in DOMAIN Plan \ {run.pc} :
              Plan[i].op \in Settings => Apart(Plan[i], Now.on, Now.op, Now.slot)
<1>1. AtStep /\ Now.op \in Settings /\ ~Refused /\ OneSlot(Here, chain'[Me], On, Now.slot)
  BY DEF Sets
<1>2. There(Here, run.mem, Now.on) /\ There(chain'[Me], run.mem, Now.on)
  BY <1>1, NowUses DEF Refused, OnIsRight, Live, KindOf, There, On, Here, OneSlot
<1>3. Now.op \in Adding => Old \subseteq NewValues
  BY DEF Adding, NewValues
<1>4. SetOnce(Plan, run.pc) /\ Now = Plan[run.pc]
  BY <1>1, NowFacts
<1>5. \A i \in DOMAIN Plan \ {run.pc} :
        Plan[i].op \in Settings => Apart(Plan[i], Now.on, Now.op, Now.slot)
  BY <1>1, <1>4 DEF SetOnce, Apart
<1>6. ~Makes(Now) /\ Now.op # "note"
  BY <1>1 DEF Makes, Settings
<1> QED
  BY <1>1, <1>2, <1>3, <1>4, <1>5, <1>6, NowFacts, RunFacts, NowUses, HeldHere, HistoryType DEF On

LEMMA SetNow ==
  ASSUME IInv, WInv, Sets
  PROVE  /\ Done(chain'[Me], run.mem, seen[Me], Now)
         /\ Tracked => Wired(chain'[Me], run.mem, seen[Me], cuts[Me], Now)
<1> DEFINE d == chain'[Me]
<1>1. /\ AtStep /\ ~Idle /\ Me \in Records /\ Now \in StepsOf(Me) /\ Now.op \in Settings
      /\ Now = Plan[run.pc] /\ run.pc \in 1..Len(Plan) /\ run.pc \in DOMAIN Plan
      /\ ~Makes(Now) /\ Now.op # "note" /\ SetOnce(Plan, run.pc) /\ cuts[Me] \in Nat
      /\ There(Here, run.mem, Now.on) /\ There(d, run.mem, Now.on)
      /\ Now.on \in MadeBefore(Plan, run.pc)
      /\ On = run.mem[Now.on] /\ Old = HeldAt(Here, On, Now.slot)
      /\ Values = ValuesOf(Now, run.mem, seen[Me])
      /\ Plan \in Seq(StepType)
  BY SetsFacts
<1>2. HeldAt(d, run.mem[Now.on], Now.slot) = NewValues /\ ~Refused /\ ~Flagged
  BY <1>1 DEF Sets
<1> HIDE DEF d
<1>3. /\ Now.op \in {"point", "call", "bind"} => NewValues = Values
      /\ Now.op \in Adding => Values \subseteq NewValues
      /\ Now.op = "claim" => NewValues = (IF Old = {} THEN Values ELSE Old)
  BY <1>2 DEF NewValues, Overwritten, Refused, Adding
<1>4. Done(d, run.mem, seen[Me], Now)
  BY <1>1, <1>2, <1>3 DEF Done
<1>5. ASSUME Tracked
      PROVE  Wired(d, run.mem, seen[Me], cuts[Me], Now)
  <2>1. RunBook /\ NewInOrder
    BY <1>1, RunsLast
  <2>2. ASSUME Now.op \in {"claim", "pay"}, Old # {}
        PROVE  ~run.forced /\ Me \notin mixed /\ Claimed(Me) /\ Paid(Me) /\ record[Me] = run.mem
               /\ Here = chain[Me] /\ Common(Now)
    <3>1. ~run.forced
      <4>1. run.pc \in run.pc..Len(Plan)
        BY <1>1
      <4>2. Plan[run.pc].op \in {"claim", "pay"} /\ Plan[run.pc].on \in MadeBefore(Plan, run.pc)
        BY <1>1, <2>2
      <4>3. run.forced => HeldAt(Here, run.mem[Plan[run.pc].on], Plan[run.pc].slot) = {}
        BY <1>5, <2>1, <4>1, <4>2 DEF NewInOrder
      <4> QED
        BY <1>1, <2>2, <4>3
    <3>2. Me \notin mixed
      BY <1>5, <3>1 DEF Tracked
    <3>3. Common(Now)
      BY <1>1, <2>2, StepFacts DEF Common
    <3> QED
      BY <1>1, <3>1, <3>2, <3>3, TrackedSteady, EagerFacts DEF Here
  <2>3. Now.op = "claim" => NewValues = Values
    <3> SUFFICES ASSUME Now.op = "claim", Old # {}
                 PROVE  Old = Values
      BY <1>3
    <3>1. Claimed(Me) /\ record[Me] = run.mem /\ Here = chain[Me] /\ seen[Me] = Current(Me)
      BY <1>1, <2>1, <2>2 DEF RunBook
    <3> QED
      BY <1>1, <3>1 DEF Claimed
  <2>4. Now.op = "pay" => \E k \in 1..(1 + cuts[Me]) : NewValues = {k}
    <3> SUFFICES ASSUME Now.op = "pay"
                 PROVE  \E k \in 1..(1 + cuts[Me]) : NewValues = {k}
      OBVIOUS
    <3>1. NewValues = Deposited
      BY DEF NewValues
    <3>2. CASE Old = {}
      <4>1. NewValues = {1} /\ 1 \in 1..(1 + cuts[Me])
        BY <1>1, <3>1, <3>2 DEF Deposited
      <4> QED
        BY <4>1
    <3>3. CASE Old # {}
      <4>1. /\ Paid(Me) /\ record[Me] = run.mem /\ Here = chain[Me] /\ ~run.forced
        BY <2>2, <3>3
      <4>2. PICK n \in 1..(1 + cuts[Me]) :
              /\ Old = {n}
              /\ n <= cuts[Me] \/ Now.flag \in DOMAIN run.mem \/ Paying(Me, Now)
        BY <1>1, <3>3, <4>1 DEF Paid
      <4>3. Now.flag \notin DOMAIN run.mem
        BY <1>2, <4>1 DEF Flagged
      <4>4. ~Paying(Me, Now)
        <5> SUFFICES ASSUME NEW i \in 1..(run.pc - 1), Plan[i] = Now
                     PROVE  FALSE
          BY DEF Paying
        <5>1. i \in DOMAIN Plan \ {run.pc}
          BY <1>1
        <5> QED
          BY <1>1, <5>1 DEF SetOnce, Adding
      <4>5. n <= cuts[Me] /\ n \in Nat
        BY <4>2, <4>3, <4>4
      <4>6. NewValues = {1 + n} /\ 1 + n \in 1..(1 + cuts[Me])
        BY <1>1, <3>1, <3>3, <4>2, <4>5 DEF Deposited
      <4> QED
        BY <4>6
    <3> QED
      BY <3>2, <3>3
  <2> QED
    BY <1>1, <1>2, <1>3, <2>3, <2>4 DEF Wired
<1> QED
  BY <1>4, <1>5 DEF d

LEMMA SetsRunInv ==
  ASSUME IInv, WInv, Sets
  PROVE  RunInv'
<1> DEFINE d == chain'[Me]
<1>1. /\ AtStep /\ ~Idle /\ Me \in Records /\ Now \in StepsOf(Me) /\ Now.op \in Settings
      /\ Now = Plan[run.pc] /\ run.pc \in 1..Len(Plan) /\ run.pc \in DOMAIN Plan
      /\ ~Makes(Now) /\ Now.op # "note" /\ SetOnce(Plan, run.pc)
      /\ There(Here, run.mem, Now.on) /\ On = run.mem[Now.on]
      /\ Old = HeldAt(Here, On, Now.slot) /\ (Now.op \in Adding => Old \subseteq NewValues)
      /\ Plan \in Seq(StepType)
      /\ \A i \in DOMAIN Plan : Plan[i] \in StepsOf(Me)
      /\ \A i \in DOMAIN Plan \ {run.pc} :
           Plan[i].op \in Settings => Apart(Plan[i], Now.on, Now.op, Now.slot)
  BY SetsFacts
<1>2. /\ GoesOn(run.mem) /\ UNCHANGED <<record, settled, mixed>> /\ run'.sound = run.sound
      /\ OneSlot(Here, d, On, Now.slot) /\ HeldAt(d, On, Now.slot) = NewValues
      /\ run'.forced = run.forced /\ run'.mem = run.mem
  BY DEF Sets, GoesOn
<1>3. /\ RunBook /\ RunDone /\ RunWired /\ NewInOrder
      /\ DOMAIN record[Me] \subseteq DOMAIN run.mem
  BY <1>1, RunsLast DEF IInv, TypeOK, RunTypeOK
<1>4. Eager(Me) \/ run.pc # Len(Plan)
  BY <1>1, EagerFacts
<1>5. RunBook'
  BY <1>1, <1>2, <1>3, <1>4, RunBookGoesOn DEF RunBook
<1>6. Tracked' => Tracked
  BY <1>2, TrackedBefore
<1>7. \A i \in 1..(run.pc - 1) : i \in DOMAIN Plan \ {run.pc}
  BY <1>1
<1>8. RunDone'
  <2>1. ASSUME NEW i \in 1..(run.pc - 1)
        PROVE  Done(d, run.mem, seen[Me], Plan[i])
    <3>1. Done(Here, run.mem, seen[Me], Plan[i]) /\ Plan[i] \in StepsOf(Me)
          /\ (Plan[i].op \in Settings => Apart(Plan[i], Now.on, Now.op, Now.slot))
      BY <1>1, <1>3, <1>7 DEF RunDone
    <3> HIDE DEF d
    <3> QED
      BY <1>1, <1>2, <3>1, DoneBeside
  <2> QED
    BY <1>2, <2>1, SetNow, RunDoneGoesOn
<1>9. RunWired'
  <2>1. ASSUME Tracked, NEW i \in 1..(run.pc - 1)
        PROVE  Wired(d, run.mem, seen[Me], cuts[Me], Plan[i])
    <3>1. Wired(Here, run.mem, seen[Me], cuts[Me], Plan[i]) /\ Plan[i] \in StepsOf(Me)
          /\ (Plan[i].op \in Settings => Apart(Plan[i], Now.on, Now.op, Now.slot))
      BY <1>1, <1>3, <1>7, <2>1 DEF RunWired
    <3> HIDE DEF d
    <3> QED
      BY <1>1, <1>2, <3>1, WiredBeside
  <2> QED
    BY <1>2, <1>6, <2>1, SetNow, RunWiredGoesOn
<1>10. NewInOrder'
  <2> SUFFICES ASSUME Tracked, run.forced
               PROVE  /\ \A i, j \in 1..run.pc :
                           i < j /\ Makes(Plan[i]) /\ Makes(Plan[j])
                             => run.mem[Plan[i].key] < run.mem[Plan[j].key]
                      /\ \A i \in (run.pc + 1)..Len(Plan) :
                           Plan[i].op \in {"claim", "pay"}
                           /\ Plan[i].on \in MadeBefore(Plan, run.pc + 1)
                             => HeldAt(d, run.mem[Plan[i].on], Plan[i].slot) = {}
    <3>1. /\ Plan' = Plan /\ Here' = d /\ run'.pc = run.pc + 1
          /\ 1..(run'.pc - 1) = 1..run.pc
      BY <1>1, <1>2, GoneOn
    <3> QED
      BY <1>2, <1>6, <3>1 DEF NewInOrder
  <2>1. MadeBefore(Plan, run.pc + 1) = MadeBefore(Plan, run.pc)
    <3>1. MadeBefore(Plan, run.pc + 1)
            = MadeBefore(Plan, run.pc) \cup (IF Makes(Plan[run.pc]) THEN {Plan[run.pc].key} ELSE {})
      BY <1>1, MadeByStep
    <3> QED
      BY <1>1, <3>1
  <2>2. \A i \in 1..run.pc : Makes(Plan[i]) => i \in 1..(run.pc - 1)
    BY <1>1
  <2>3. ASSUME NEW i \in (run.pc + 1)..Len(Plan), Plan[i].op \in {"claim", "pay"},
               Plan[i].on \in MadeBefore(Plan, run.pc)
        PROVE  HeldAt(d, run.mem[Plan[i].on], Plan[i].slot) = {}
    <3>1. i \in run.pc..Len(Plan) /\ i \in DOMAIN Plan \ {run.pc}
      BY <1>1
    <3>2. HeldAt(Here, run.mem[Plan[i].on], Plan[i].slot) = {}
      BY <1>3, <2>3, <3>1 DEF NewInOrder
    <3>3. Plan[i].on # Now.on \/ Plan[i].slot # Now.slot
      BY <1>1, <2>3, <3>1 DEF Apart, Settings, Adding
    <3>4. There(Here, run.mem, Plan[i].on)
      BY <2>3, MadeThere
    <3>5. run.mem[Plan[i].on] # On \/ Plan[i].slot # Now.slot
      BY <1>1, <3>3, <3>4, NamedApart
    <3> QED
      BY <1>2, <3>2, <3>5 DEF OneSlot
  <2> QED
    BY <1>3, <2>1, <2>2, <2>3 DEF NewInOrder
<1> QED
  BY <1>5, <1>8, <1>9, <1>10 DEF RunInv

\* A step that does not depend on the mode is this one, or apart from it.
LEMMA SetsApart ==
  ASSUME IInv, WInv, Sets, NEW step \in StepsOf(Me), step.op \in Settings, Common(step)
  PROVE  step = Now \/ Apart(step, Now.on, Now.op, Now.slot)
<1>1. /\ ScriptOf(Me, Plan)
      /\ \A i \in DOMAIN Plan \ {run.pc} :
           Plan[i].op \in Settings => Apart(Plan[i], Now.on, Now.op, Now.slot)
      /\ Now = Plan[run.pc]
  BY SetsFacts
<1>2. SameInEveryMode(Plan, step)
  BY <1>1, ScriptFacts
<1>3. PICK j \in DOMAIN Plan : Plan[j] = step
  BY <1>2 DEF SameInEveryMode, Range
<1> QED
  BY <1>1, <1>3

LEMMA SetsSteady ==
  ASSUME IInv, WInv, Sets, Eager(Me), ~run.forced, Me \notin mixed
  PROVE  (Built(Me) /\ Ordered(Me) /\ Claimed(Me) /\ FlagsTrue(Me) /\ Paid(Me))'
<1> DEFINE d == chain'[Me]
<1>1. /\ AtStep /\ ~Idle /\ Me \in Records /\ Now \in StepsOf(Me) /\ Now.op \in Settings
      /\ Now = Plan[run.pc] /\ run.pc \in 1..Len(Plan) /\ run.pc \in DOMAIN Plan
      /\ SetOnce(Plan, run.pc)
      /\ There(Here, run.mem, Now.on) /\ On = run.mem[Now.on]
      /\ Old = HeldAt(Here, On, Now.slot) /\ (Now.op \in Adding => Old \subseteq NewValues)
  BY SetsFacts
<1>2. /\ GoesOn(run.mem) /\ record' = record /\ Here = chain[Me] /\ ~Flagged
      /\ OneSlot(Here, d, On, Now.slot) /\ HeldAt(d, On, Now.slot) = NewValues /\ Me' = Me
  BY DEF Sets, GoesOn, Here
<1>3. /\ Built(Me) /\ Ordered(Me) /\ Claimed(Me) /\ FlagsTrue(Me) /\ Paid(Me)
      /\ record[Me] = run.mem /\ seen[Me] = Current(Me) /\ Absent \notin DOMAIN run.mem
  BY <1>1, TrackedSteady, RunsLast DEF RunBook
<1>4. /\ PlanOf(Me)' = PlanOf(Me) /\ Run(Me)' = Run(Me) /\ switched' = switched
      /\ seen' = seen /\ cuts' = cuts /\ Current(Me)' = Current(Me)
  BY <1>1, <1>2, GoneOn, PeersUnmoved DEF Current, GoesOn
<1>5. Tracked /\ Wired(d, run.mem, seen[Me], cuts[Me], Now)
  BY <1>1, SetNow DEF Tracked
<1> HIDE DEF d
<1>6. d.made = Here.made
  BY <1>2 DEF OneSlot
<1>7. Built(Me)'
  BY <1>2, <1>3, <1>6 DEF Built, d
<1>8. Ordered(Me)'
  BY <1>2, <1>3, <1>4 DEF Ordered
<1>9. ASSUME NEW step \in StepsOf(Me), step.op \in Settings, There(d, run.mem, step.on),
             step.op \notin Adding, Common(step), step # Now
      PROVE  HeldAt(d, run.mem[step.on], step.slot) = HeldAt(Here, run.mem[step.on], step.slot)
  <2>1. step.on # Now.on \/ step.slot # Now.slot
    BY <1>9, SetsApart DEF Apart
  <2>2. There(Here, run.mem, step.on)
    BY <1>6, <1>9 DEF There
  <2>3. run.mem[step.on] # On \/ step.slot # Now.slot
    BY <1>1, <2>1, <2>2, NamedApart
  <2> QED
    BY <1>2, <2>3 DEF OneSlot
<1>10. Claimed(Me)'
  <2> SUFFICES ASSUME NEW step \in StepsOf(Me), step.op = "claim", There(d, run.mem, step.on),
                      HeldAt(d, run.mem[step.on], step.slot) # {}
               PROVE  /\ HeldAt(d, run.mem[step.on], step.slot) = ValuesOf(step, run.mem, seen[Me])
                      /\ step.key # Absent /\ step.from = Absent
                           => run.mem[step.key] \in DOMAIN d.made
    BY <1>2, <1>3, <1>4 DEF Claimed, d
  <2>1. step.op \in Settings /\ step.op \notin Adding /\ Common(step)
    BY DEF Settings, Adding, Common
  <2>2. CASE step = Now
    <3>1. HeldAt(d, run.mem[step.on], step.slot) = ValuesOf(step, run.mem, seen[Me])
      BY <1>5, <2>1, <2>2 DEF Wired
    <3>2. ASSUME step.key # Absent, step.from = Absent
          PROVE  run.mem[step.key] \in DOMAIN d.made
      <4>1. step.key \in MadeBefore(Plan, run.pc)
        BY <1>1, <2>2, <3>2 DEF SetOnce
      <4>2. There(Here, run.mem, step.key)
        BY <1>5, <4>1, MadeThere
      <4> QED
        BY <1>6, <4>2 DEF There
    <3> QED
      BY <3>1, <3>2
  <2>3. CASE step # Now
    <3>1. HeldAt(d, run.mem[step.on], step.slot) = HeldAt(Here, run.mem[step.on], step.slot)
      BY <1>9, <2>1, <2>3
    <3>2. There(Here, run.mem, step.on)
      BY <1>6 DEF There
    <3> QED
      BY <1>2, <1>3, <1>6, <3>1, <3>2 DEF Claimed
  <2> QED
    BY <2>2, <2>3
<1>11. FlagsTrue(Me)'
  <2> SUFFICES ASSUME NEW step \in StepsOf(Me), step.op \in Settings, step.flag \in DOMAIN run.mem
               PROVE  Wired(d, run.mem, seen[Me], cuts[Me], step)
    BY <1>2, <1>3, <1>4 DEF FlagsTrue, d
  <2>1. Wired(Here, run.mem, seen[Me], cuts[Me], step)
    BY <1>2, <1>3 DEF FlagsTrue
  <2>2. Common(step) /\ step # Now
    BY <1>1, <1>2, <1>3 DEF Common, Flagged
  <2>3. Apart(step, Now.on, Now.op, Now.slot)
    BY <2>2, SetsApart
  <2> QED
    BY <1>1, <1>2, <2>1, <2>3, WiredBeside
<1>12. Paid(Me)'
  <2> SUFFICES ASSUME NEW step \in StepsOf(Me), step.op = "pay", There(d, run.mem, step.on),
                      HeldAt(d, run.mem[step.on], step.slot) # {}
               PROVE  \E n \in 1..(1 + cuts[Me]) :
                        /\ HeldAt(d, run.mem[step.on], step.slot) = {n}
                        /\ n <= cuts[Me] \/ step.flag \in DOMAIN run.mem \/ Paying(Me, step)'
    BY <1>2, <1>3, <1>4 DEF Paid, d
  <2>1. step.op \in Settings /\ step.op \notin Adding
    BY DEF Settings, Adding
  <2>2. Common(step)
    BY <1>1, <2>1, StepFacts DEF Common
  <2>3. /\ 1..(run'.pc - 1) = 1..(run.pc - 1) \cup {run.pc} /\ Plan' = Plan
    BY <1>2, GoneOn
  <2>4. CASE step = Now
    <3>1. Paying(Me, step)'
      BY <1>1, <1>2, <2>3, <2>4 DEF Paying
    <3>2. \E n \in 1..(1 + cuts[Me]) : HeldAt(d, run.mem[step.on], step.slot) = {n}
      BY <1>5, <2>1, <2>4 DEF Wired
    <3> QED
      BY <3>1, <3>2
  <2>5. CASE step # Now
    <3>1. HeldAt(d, run.mem[step.on], step.slot) = HeldAt(Here, run.mem[step.on], step.slot)
      BY <1>9, <2>1, <2>2, <2>5
    <3>2. There(Here, run.mem, step.on)
      BY <1>6 DEF There
    <3>3. \E n \in 1..(1 + cuts[Me]) :
            /\ HeldAt(d, run.mem[step.on], step.slot) = {n}
            /\ n <= cuts[Me] \/ step.flag \in DOMAIN run.mem \/ Paying(Me, step)
      BY <1>2, <1>3, <3>1, <3>2 DEF Paid
    <3>4. Paying(Me, step) => Paying(Me, step)'
      BY <1>2, <2>3 DEF Paying
    <3> QED
      BY <3>3, <3>4
  <2> QED
    BY <2>4, <2>5
<1> QED
  BY <1>7, <1>8, <1>10, <1>11, <1>12

LEMMA SetsWires ==
  ASSUME IInv, WInv, Sets
  PROVE  WInv'
<1>1. /\ AtStep /\ ~Idle /\ Me \in Records /\ GoesOn(run.mem) /\ RunStep /\ Me' = Me
      /\ UNCHANGED <<record, settled, mixed, seen, cuts, last, wiped, switched>>
      /\ run'.forced = run.forced
      /\ Me \in settled => chain'[Me] = chain[Me]
      /\ chain'[Me].made = Here.made
  BY NowFacts, RunFacts DEF Sets, GoesOn, RunStep, OneSlot
<1>2. /\ FileInv(Me) /\ PlanOf(Me)' = PlanOf(Me) /\ Run(Me)' = Run(Me)
  BY <1>1, RunsLast, GoneOn
<1>3. FileBook(Me)' /\ SettledDone(Me)' /\ SettledWired(Me)'
  BY <1>1, <1>2 DEF FileInv, FileBook, SettledDone, SettledWired
<1>4. SteadyWired(Me)'
  <2> SUFFICES ASSUME Me \notin mixed, ~(run.forced /\ Eager(Me))
               PROVE  (Built(Me) /\ Ordered(Me) /\ Claimed(Me) /\ FlagsTrue(Me) /\ Paid(Me))'
    BY <1>1 DEF SteadyWired, Steady
  <2>1. CASE Eager(Me)
    BY <2>1, SetsSteady
  <2>2. CASE ~Eager(Me)
    <3>1. Built(Me) /\ Absent \notin DOMAIN record[Me]
      BY <1>1, <1>2, <2>2 DEF FileInv, SteadyWired, Steady, FileBook
    <3>2. Built(Me)'
      BY <1>1, <3>1 DEF Built, Here
    <3> QED
      BY <1>1, <2>2, <3>1, <3>2, LazySteady
  <2> QED
    BY <2>1, <2>2
<1>5. FileInv(Me)'
  BY <1>3, <1>4 DEF FileInv
<1> QED
  BY <1>1, <1>5, SetsRunInv, AllStay
-----------------------------------------------------------------------------
(* The run ends.                                                           *)

LEMMA NoRunNow ==
  ASSUME run' = NoRun
  PROVE  RunInv' /\ Idle' /\ Me' = Absent /\ ~run'.forced
<1>1. Idle' /\ Me' = Absent /\ ~run'.forced
  BY DEF Idle, NoRun, Me
<1>2. ~Tracked'
  BY <1>1 DEF Tracked
<1> QED
  BY <1>1, <1>2 DEF RunInv, RunBook, RunDone, RunWired, NewInOrder

\* The chain has grown under a record that is not written: what is recorded is
\* right if the contracts that came to stand at recorded addresses are.
LEMMA ChainSteady ==
  ASSUME NEW f \in Records, record'[f] = record[f], Absent \notin DOMAIN record[f],
         Built(f), Ordered(f), Claimed(f), FlagsTrue(f), Paid(f),
         UNCHANGED <<seen, last, switched>>, Current(f)' = Current(f),
         Grows(chain[f], chain'[f]), cuts[f] \in Nat, cuts'[f] \in Nat, cuts[f] <= cuts'[f],
         Built(f)',
         \A step \in StepsOf(f) :
           step.op \in {"claim", "pay"} /\ There(chain'[f], record[f], step.on)
           /\ HeldAt(chain'[f], record[f][step.on], step.slot) # {}
             => There(chain[f], record[f], step.on),
         \A step \in StepsOf(f) :
           step.op = "pay" /\ Paying(f, step)
             => step.flag \in DOMAIN record[f] \/ 1 + cuts[f] <= cuts'[f]
  PROVE  (Built(f) /\ Ordered(f) /\ Claimed(f) /\ FlagsTrue(f) /\ Paid(f))'
<1>1. Ordered(f)'
  BY DEF Ordered, Run, PlanOf
<1>2. ASSUME NEW step \in StepsOf(f), step.op \in {"claim", "pay"},
             There(chain'[f], record[f], step.on),
             HeldAt(chain'[f], record[f][step.on], step.slot) # {}
      PROVE  /\ There(chain[f], record[f], step.on)
             /\ HeldAt(chain'[f], record[f][step.on], step.slot)
                  = HeldAt(chain[f], record[f][step.on], step.slot)
  BY <1>2 DEF There, Grows
<1>3. Claimed(f)'
  <2> SUFFICES ASSUME NEW step \in StepsOf(f), step.op = "claim",
                      There(chain'[f], record[f], step.on),
                      HeldAt(chain'[f], record[f][step.on], step.slot) # {}
               PROVE  /\ HeldAt(chain'[f], record[f][step.on], step.slot)
                           = ValuesOf(step, record[f], Current(f))
                      /\ step.key # Absent /\ step.from = Absent
                           => record[f][step.key] \in DOMAIN chain'[f].made
    BY DEF Claimed
  <2>1. /\ There(chain[f], record[f], step.on)
        /\ HeldAt(chain'[f], record[f][step.on], step.slot)
             = HeldAt(chain[f], record[f][step.on], step.slot)
    BY <1>2
  <2> QED
    BY <2>1 DEF Claimed, Grows
<1>4. FlagsTrue(f)'
  <2> SUFFICES ASSUME NEW step \in StepsOf(f), step.op \in Settings,
                      step.flag \in DOMAIN record[f]
               PROVE  Wired(chain'[f], record[f], seen[f], cuts'[f], step)
    BY DEF FlagsTrue
  <2>1. Wired(chain[f], record[f], seen[f], cuts[f], step)
    BY DEF FlagsTrue
  <2>2. step.flag # Absent /\ step.key = Absent /\ step.needs = <<>>
    BY StepFacts
  <2>3. Uses(step) \subseteq {step.on}
    BY <2>2 DEF Uses, Range
  <2>4. step.on \in DOMAIN record[f]
    BY <2>1 DEF Wired, There
  <2>5. Agrees(record[f], record[f], step)
    BY <2>3, <2>4 DEF Agrees
  <2> QED
    BY <2>1, <2>5, WiredStays
<1>5. Paid(f)'
  <2> SUFFICES ASSUME NEW step \in StepsOf(f), step.op = "pay",
                      There(chain'[f], record[f], step.on),
                      HeldAt(chain'[f], record[f][step.on], step.slot) # {}
               PROVE  \E n \in 1..(1 + cuts'[f]) :
                        /\ HeldAt(chain'[f], record[f][step.on], step.slot) = {n}
                        /\ n <= cuts'[f] \/ step.flag \in DOMAIN record[f]
    BY DEF Paid
  <2>1. /\ There(chain[f], record[f], step.on)
        /\ HeldAt(chain'[f], record[f][step.on], step.slot)
             = HeldAt(chain[f], record[f][step.on], step.slot)
    BY <1>2
  <2>2. PICK n \in 1..(1 + cuts[f]) :
          /\ HeldAt(chain[f], record[f][step.on], step.slot) = {n}
          /\ n <= cuts[f] \/ step.flag \in DOMAIN record[f] \/ Paying(f, step)
    BY <2>1 DEF Paid
  <2>3. n \in 1..(1 + cuts'[f]) /\ (n <= cuts'[f] \/ step.flag \in DOMAIN record[f])
    BY <2>2
  <2> QED
    BY <2>1, <2>2, <2>3
<1> QED
  BY <1>1, <1>3, <1>4, <1>5

\* Deposits are under way only between their steps and the end of the script,
\* or their flag is recorded.
LEMMA PayingNow ==
  ASSUME IInv, WInv, ~Idle, NEW step, step.op = "pay", Paying(Me, step)
  PROVE  /\ Eager(Me)
         /\ AtStep => Now.op \in {"pay", "note"} /\ Now.flag = "__settlement_seeded"
         /\ ~AtStep => step.flag \in DOMAIN run.mem
<1>1. PICK i \in 1..(run.pc - 1) : Plan[i] = step
  BY DEF Paying
<1>2. /\ i \in DOMAIN Plan /\ Me \in Records /\ step \in StepsOf(Me) /\ Plan \in Seq(StepType)
      /\ run.pc \in 1..(Len(Plan) + 1) /\ FlagNoted(Plan, i) /\ ScriptOf(Me, Plan)
  BY <1>1, RunFacts, ScriptFacts
<1>3. Eager(Me)
  BY <1>2, LazySteps
<1>4. \A j \in i..Len(Plan) :
        Plan[j].op \in {"pay", "note"} /\ Plan[j].flag = "__settlement_seeded"
  BY <1>1, <1>2 DEF FlagNoted
<1>5. AtStep => run.pc \in i..Len(Plan)
  BY <1>1, <1>2, NowFacts
<1>6. ASSUME ~AtStep
      PROVE  step.flag \in DOMAIN run.mem
  <2>1. run.pc = Len(Plan) + 1
    BY <1>2, <1>6 DEF AtStep
  <2>2. step.op \in Settings /\ step.flag # Absent
    BY <1>2, StepFacts DEF Settings
  <2>3. PICK j \in DOMAIN Plan : Plan[j].op = "note" /\ step.flag \in Range(Plan[j].needs)
    BY <1>1, <1>2, <2>2 DEF FlagNoted
  <2>4. j \in 1..(run.pc - 1)
    BY <1>2, <2>1
  <2> QED
    BY <2>3, <2>4, RunsLast DEF RunDone, Done
<1> QED
  BY <1>3, <1>4, <1>5, <1>6 DEF Now

\* A run broken off, for whatever reason.
BreaksOff ==
  /\ ~Idle /\ BreakOff /\ UNCHANGED <<scope, record, seen, last, wiped, switched>>
  /\ \A f \in Files \ {Me} : chain'[f] = chain[f] /\ cuts'[f] = cuts[f]

LEMMA BrokenOffWires ==
  ASSUME IInv, WInv, BreaksOff,
         \A f : f = Me /\ Steady(f)
           => (Built(f) /\ Ordered(f) /\ Claimed(f) /\ FlagsTrue(f) /\ Paid(f))'
  PROVE  WInv'
<1>1. /\ ~Idle /\ run' = NoRun /\ settled' = settled \ {Me} /\ mixed \subseteq mixed'
      /\ run.forced /\ Eager(Me) => Me \in mixed'
      /\ UNCHANGED <<scope, record, seen, last, wiped, switched>>
      /\ \A f \in Files \ {Me} : chain'[f] = chain[f] /\ cuts'[f] = cuts[f]
  BY DEF BreaksOff, BreakOff
<1>2. RunStep
  BY <1>1 DEF RunStep, RecordKept
<1>3. RunInv'
  BY <1>1, NoRunNow
<1>4. ASSUME NEW f \in Files, f = Me
      PROVE  FileInv(f)'
  <2>1. FileInv(f)
    BY DEF WInv
  <2>2. FileBook(f)'
    BY <1>1, <2>1 DEF FileInv, FileBook, Run, PlanOf
  <2>3. SettledDone(f)' /\ SettledWired(f)'
    BY <1>1, <1>4 DEF SettledDone, SettledWired
  <2>4. SteadyWired(f)'
    BY <1>1, <1>4 DEF SteadyWired, Steady
  <2> QED
    BY <2>2, <2>3, <2>4 DEF FileInv
<1> QED
  BY <1>2, <1>3, <1>4, AllStay

\* Where the file's record can be gone on with, and the run writes it as it goes.
LEMMA SteadyNow ==
  ASSUME IInv, WInv, ~Idle, NEW f, f = Me, Steady(f)
  PROVE  /\ f \in Files /\ f \in Records /\ f \notin mixed /\ Absent \notin DOMAIN record[f]
         /\ Built(f) /\ Ordered(f) /\ Claimed(f) /\ FlagsTrue(f) /\ Paid(f)
         /\ Eager(f) => ~run.forced /\ record[f] = run.mem
<1>1. FileInv(f) /\ RunBook /\ f \in Files /\ f \in Records
  BY RunsLast, RunFacts
<1>2. f \notin mixed /\ (Eager(f) => ~run.forced)
  BY DEF Steady
<1> QED
  BY <1>1, <1>2 DEF FileInv, SteadyWired, FileBook, RunBook

LEMMA CutWires ==
  ASSUME IInv, WInv, Cut
  PROVE  WInv'
<1>1. /\ ~Idle /\ BreakOff /\ UNCHANGED <<scope, record, chain, seen, last, wiped, switched>>
      /\ cuts' = [cuts EXCEPT ![Me] =
                    @ + (IF AtStep /\ Now.flag = "__settlement_seeded" THEN 1 ELSE 0)]
  BY DEF Cut
<1>2. cuts \in [Files -> Nat] /\ Me \in Files
  BY <1>1, HistoryType, RunFacts
<1>3. /\ \A f \in Files \ {Me} : cuts'[f] = cuts[f]
      /\ cuts'[Me] = cuts[Me] + (IF AtStep /\ Now.flag = "__settlement_seeded" THEN 1 ELSE 0)
  BY <1>1, <1>2
<1>4. BreaksOff
  BY <1>1, <1>3 DEF BreaksOff
<1>5. ASSUME NEW f, f = Me, Steady(f)
      PROVE  (Built(f) /\ Ordered(f) /\ Claimed(f) /\ FlagsTrue(f) /\ Paid(f))'
  <2>1. /\ f \in Files /\ f \in Records /\ Absent \notin DOMAIN record[f]
        /\ Built(f) /\ Ordered(f) /\ Claimed(f) /\ FlagsTrue(f) /\ Paid(f)
        /\ Eager(f) => record[f] = run.mem
    BY <1>1, <1>5, SteadyNow
  <2>2. Current(f)' = Current(f) /\ Built(f)' /\ Grows(chain[f], chain'[f])
    BY <1>1, <2>1 DEF Current, Built, Grows
  <2>3. cuts[f] \in Nat /\ cuts'[f] \in Nat /\ cuts[f] <= cuts'[f]
    BY <1>2, <1>3, <1>5
  <2>4. ASSUME NEW step \in StepsOf(f), step.op = "pay", Paying(f, step)
        PROVE  step.flag \in DOMAIN record[f] \/ 1 + cuts[f] <= cuts'[f]
    <3>1. /\ Eager(Me) /\ (AtStep => Now.flag = "__settlement_seeded")
          /\ ~AtStep => step.flag \in DOMAIN run.mem
      BY <1>1, <1>5, <2>4, PayingNow
    <3> QED
      BY <1>2, <1>3, <1>5, <2>1, <3>1
  <2> QED
    BY <1>1, <2>1, <2>2, <2>3, <2>4, ChainSteady
<1> QED
  BY <1>4, <1>5, BrokenOffWires

LEMMA ThrowWires ==
  ASSUME IInv, WInv, Throw
  PROVE  WInv'
<1>1. /\ ~Idle /\ AtStep /\ Now.op \in Settings /\ ~Flagged /\ Refused /\ BreakOff
      /\ UNCHANGED <<scope, record, chain, seen, last, wiped, switched, cuts>>
  BY NowFacts DEF Throw, OnSetting
<1>2. BreaksOff
  BY <1>1 DEF BreaksOff
<1>3. ASSUME NEW f, f = Me, Steady(f)
      PROVE  (Built(f) /\ Ordered(f) /\ Claimed(f) /\ FlagsTrue(f) /\ Paid(f))'
  <2>1. /\ f \in Files /\ f \in Records /\ Absent \notin DOMAIN record[f] /\ f \notin mixed
        /\ Built(f) /\ Ordered(f) /\ Claimed(f) /\ FlagsTrue(f) /\ Paid(f)
    BY <1>1, <1>3, SteadyNow
  <2>2. Current(f)' = Current(f) /\ Built(f)' /\ Grows(chain[f], chain'[f])
    BY <1>1, <2>1 DEF Current, Built, Grows
  <2>3. cuts[f] \in Nat
    BY <2>1, HistoryType
  <2>4. \A step : step.op = "pay" => ~Paying(f, step)
    <3> SUFFICES ASSUME NEW step, step.op = "pay", Paying(Me, step)
                 PROVE  FALSE
      BY <1>3
    <3>1. Now.op = "pay"
      BY <1>1, PayingNow DEF Settings
    <3>2. Tracked
      BY <1>1, <1>3, <2>1 DEF Tracked
    <3>3. There(Here, run.mem, Now.on)
      BY <1>1, <3>2, MadeThere, NowUses
    <3>4. OnIsRight
      BY <3>3 DEF There, OnIsRight, Live, KindOf, On, Here
    <3> QED
      BY <1>1, <3>1, <3>4 DEF Refused
  <2> QED
    BY <1>1, <2>1, <2>2, <2>3, <2>4, ChainSteady
<1> QED
  BY <1>2, <1>3, BrokenOffWires

LEMMA ReceiptLostWires ==
  ASSUME IInv, WInv, ReceiptLost
  PROVE  WInv'
<1>1. /\ ~Idle /\ AtStep /\ Makes(Now) /\ ~Reused /\ BreakOff
      /\ chain' = [chain EXCEPT ![Me] = Created]
      /\ UNCHANGED <<scope, record, seen, last, wiped, switched, cuts>>
  BY NowFacts DEF ReceiptLost, Makes
<1>2. DOMAIN chain = Files /\ Me \in Files
  BY <1>1, RunFacts DEF IInv, TypeOK, ChainsTypeOK
<1>3. chain'[Me] = Created /\ \A f \in Files \ {Me} : chain'[f] = chain[f]
  BY <1>1, <1>2
<1>4. BreaksOff
  BY <1>1, <1>3 DEF BreaksOff
<1>5. /\ Grows(Here, Created)
      /\ DOMAIN Here.made = 1..(NewAddress - 1) /\ NewAddress \in Nat
      /\ DOMAIN Created.made = 1..NewAddress
      /\ Created.made[NewAddress] = BuiltAs(Now, run.mem)
      /\ Now.key # "gpactSignerRegistry" => Free(Created, NewAddress)
  BY <1>1, CreatedGrows
<1>6. Here = chain[Me]
  BY DEF Here
<1>7. ASSUME NEW f, f = Me, Steady(f)
      PROVE  (Built(f) /\ Ordered(f) /\ Claimed(f) /\ FlagsTrue(f) /\ Paid(f))'
  <2>1. /\ f \in Files /\ f \in Records /\ Absent \notin DOMAIN record[f] /\ f \notin mixed
        /\ Built(f) /\ Ordered(f) /\ Claimed(f) /\ FlagsTrue(f) /\ Paid(f)
        /\ Eager(f) => ~run.forced /\ record[f] = run.mem
    BY <1>1, <1>7, SteadyNow
  <2>2. CASE ~Eager(f)
    <3>1. Built(f)'
      <4>1. Grows(chain[f], chain'[f]) /\ record'[f] = record[f] /\ Built(f)
        BY <1>1, <1>3, <1>5, <1>6, <1>7, <2>1
      <4> QED
        BY <2>2, <4>1 DEF Built, Grows
    <3> QED
      BY <1>1, <2>1, <2>2, <3>1, LazySteady
  <2>3. CASE Eager(f)
    <3>1. Now.op = "deploy" /\ ScriptOf(Me, Plan) /\ run.pc \in DOMAIN Plan /\ Now = Plan[run.pc]
      BY <1>1, <1>7, <2>3, EagerFacts, RunFacts, NowFacts DEF Makes
    <3>2. NewIsApart
      BY <1>1, <1>7, <2>1, <2>3, <3>1, NewApart
    <3>3. Built(f)'
      <4> SUFFICES ASSUME NEW s \in StepsOf(Me), Makes(s), s.key \in DOMAIN run.mem,
                          run.mem[s.key] \in DOMAIN Created.made
                   PROVE  Created.made[run.mem[s.key]] = BuiltAs(s, run.mem)
        BY <1>1, <1>3, <1>7, <2>1, <2>3 DEF Built
      <4>1. CASE s.key = Now.key
        <5>1. s = Now
          BY <1>1, <3>1, <4>1, SameStep
        <5>2. run.mem[s.key] \notin DOMAIN Here.made
          BY <3>2, <4>1 DEF NewIsApart, InRecord
        <5>3. run.mem[s.key] = NewAddress
          BY <1>5, <5>2
        <5> QED
          BY <1>5, <5>1, <5>3
      <4>2. CASE s.key # Now.key
        <5>1. run.mem[s.key] \in DOMAIN Here.made
          BY <3>2, <4>2 DEF NewIsApart
        <5>2. Here.made[run.mem[s.key]] = BuiltAs(s, run.mem)
          BY <1>6, <1>7, <2>1, <2>3, <5>1 DEF Built
        <5> QED
          BY <1>5, <5>1, <5>2 DEF Grows
      <4> QED
        BY <4>1, <4>2
    <3>4. ASSUME NEW step \in StepsOf(f), step.op \in {"claim", "pay"},
                 There(Created, run.mem, step.on),
                 HeldAt(Created, run.mem[step.on], step.slot) # {}
          PROVE  There(Here, run.mem, step.on)
      <4>1. step.op \in Settings
        BY <3>4 DEF Settings
      <4>2. PICK s \in StepsOf(f) : Makes(s) /\ s.key = step.on
        BY <2>1, <4>1, SetOnMade
      <4>3. CASE step.on # Now.key
        <5>1. run.mem[step.on] \in DOMAIN Here.made
          BY <1>7, <3>2, <3>4, <4>2, <4>3 DEF NewIsApart, There
        <5> QED
          BY <1>5, <3>4, <5>1 DEF There, Grows
      <4>4. CASE step.on = Now.key
        <5>1. run.mem[step.on] = NewAddress
          BY <1>5, <3>2, <3>4, <4>4 DEF NewIsApart, InRecord, There
        <5>2. Now.key # "gpactSignerRegistry"
          BY <2>1, <3>4, <4>1, <4>4, StepFacts
        <5> QED
          BY <1>5, <3>4, <5>1, <5>2 DEF Free
      <4> QED
        BY <4>3, <4>4
    <3>5. Current(f)' = Current(f) /\ cuts[f] \in Nat
      BY <1>1, <2>1, HistoryType DEF Current
    <3>6. \A step : step.op = "pay" => ~Paying(f, step)
      BY <1>1, <1>7, <3>1, PayingNow
    <3> QED
      <4>1. /\ Grows(chain[f], chain'[f]) /\ chain'[f] = Created /\ chain[f] = Here
            /\ record[f] = run.mem
        BY <1>3, <1>5, <1>6, <1>7, <2>1, <2>3
      <4>2. \A step \in StepsOf(f) :
              step.op \in {"claim", "pay"} /\ There(chain'[f], record[f], step.on)
              /\ HeldAt(chain'[f], record[f][step.on], step.slot) # {}
                => There(chain[f], record[f], step.on)
        BY <3>4, <4>1
      <4>3. record'[f] = record[f] /\ cuts'[f] = cuts[f]
        BY <1>1
      <4> QED
        BY <1>1, <2>1, <3>3, <3>5, <3>6, <4>1, <4>2, <4>3, ChainSteady
  <2> QED
    BY <2>2, <2>3
<1> QED
  BY <1>4, <1>7, BrokenOffWires

\* A forced run that got to its end has made everything anew.
Renewed ==
  /\ ~Idle /\ run.pc = Len(Plan) + 1 /\ run.forced /\ Tracked /\ Me \notin switched
  /\ record[Me] = run.mem

LEMMA RenewedSteady ==
  ASSUME IInv, WInv, Renewed
  PROVE  Built(Me) /\ Ordered(Me) /\ Claimed(Me) /\ FlagsTrue(Me) /\ Paid(Me)
<1>1. /\ ~Idle /\ run.pc = Len(Plan) + 1 /\ run.forced /\ Tracked /\ Me \notin switched
      /\ record[Me] = run.mem /\ Me \in Records /\ Plan \in Seq(StepType) /\ ScriptOf(Me, Plan)
      /\ \A i \in DOMAIN Plan : Plan[i] \in StepsOf(Me)
      /\ SoundChain(Here) /\ Here = chain[Me] /\ run.pc \in Nat
  BY RunFacts DEF Renewed, Here
<1>2. /\ RunBook /\ RunDone /\ RunWired /\ NewInOrder /\ FileBook(Me)
      /\ PlanOf(Me) = Plan /\ Run(Me)
  BY <1>1, RunsLast DEF FileInv
<1>3. DOMAIN Plan = 1..(run.pc - 1)
  BY <1>1
<1>4. \A i \in DOMAIN Plan : Wired(Here, run.mem, seen[Me], cuts[Me], Plan[i])
  BY <1>1, <1>2, <1>3 DEF RunWired
<1>5. seen[Me] = Current(Me)
  BY <1>1, <1>2 DEF RunBook
<1>6. ASSUME NEW s \in StepsOf(Me), Makes(s), s.key \in DOMAIN run.mem
      PROVE  Wired(Here, run.mem, seen[Me], cuts[Me], s)
  <2>1. s.key \in MadeBefore(Plan, run.pc)
    BY <1>1, <1>2, <1>6, StepFacts DEF FileBook, Keys
  <2>2. PICK j \in DOMAIN Plan : Makes(Plan[j]) /\ Plan[j].key = s.key
    BY <1>1, <2>1, MadeEarlier
  <2> QED
    BY <1>1, <1>4, <1>6, <2>2, SameStep
<1>7. Built(Me)
  BY <1>1, <1>6 DEF Built, Wired, There
<1>8. Ordered(Me)
  <2> SUFFICES ASSUME NEW j \in DOMAIN Plan, Makes(Plan[j])
               PROVE  /\ run.mem[Plan[j].key] > 0
                      /\ \A i \in 1..(j - 1) :
                           Makes(Plan[i]) => /\ Plan[i].key \in DOMAIN run.mem
                                             /\ run.mem[Plan[i].key] < run.mem[Plan[j].key]
    BY <1>1, <1>2 DEF Ordered
  <2>1. run.mem[Plan[j].key] \in DOMAIN Here.made
    BY <1>4 DEF Wired, There
  <2>2. DOMAIN Here.made = 1..Len(Here.made) /\ Len(Here.made) \in Nat
    BY <1>1 DEF SoundChain, Contracts
  <2>3. \A i \in 1..(j - 1) : i \in 1..(run.pc - 1) /\ i < j
    BY <1>1, <1>3
  <2>4. \A i \in 1..(j - 1) : Makes(Plan[i]) =>
          Plan[i].key \in DOMAIN run.mem /\ run.mem[Plan[i].key] < run.mem[Plan[j].key]
    BY <1>1, <1>2, <1>3, <1>4, <2>3 DEF NewInOrder, Wired, There
  <2> QED
    BY <2>1, <2>2, <2>4
<1>9. ASSUME NEW step \in StepsOf(Me), Common(step)
      PROVE  \E j \in DOMAIN Plan : Plan[j] = step
  <2>1. SameInEveryMode(Plan, step)
    BY <1>1, ScriptFacts
  <2> QED
    BY <1>9, <2>1 DEF SameInEveryMode, Range
<1>10. Claimed(Me)
  <2> SUFFICES ASSUME NEW step \in StepsOf(Me), step.op = "claim"
               PROVE  /\ HeldAt(Here, run.mem[step.on], step.slot)
                           = ValuesOf(step, run.mem, seen[Me])
                      /\ step.key # Absent /\ step.from = Absent
                           => run.mem[step.key] \in DOMAIN Here.made
    BY <1>1, <1>5 DEF Claimed
  <2>1. PICK j \in DOMAIN Plan : Plan[j] = step
    BY <1>9 DEF Common
  <2>2. step.op \in Settings /\ SetOnce(Plan, j) /\ j \in Nat /\ j <= run.pc
    BY <1>1, <2>1, ScriptFacts DEF Settings
  <2>3. MadeBefore(Plan, j) \subseteq MadeBefore(Plan, run.pc)
    BY <1>1, <2>2, MadeGrows
  <2>4. ASSUME step.key # Absent, step.from = Absent
        PROVE  run.mem[step.key] \in DOMAIN Here.made
    <3>1. step.key \in MadeBefore(Plan, run.pc)
      BY <2>1, <2>2, <2>3, <2>4 DEF SetOnce
    <3>2. There(Here, run.mem, step.key)
      BY <1>1, <3>1, MadeThere
    <3> QED
      BY <3>2 DEF There
  <2> QED
    BY <1>4, <2>1, <2>2, <2>4 DEF Wired
<1>11. FlagsTrue(Me)
  <2> SUFFICES ASSUME NEW step \in StepsOf(Me), step.op \in Settings, step.flag \in DOMAIN run.mem
               PROVE  Wired(Here, run.mem, seen[Me], cuts[Me], step)
    BY <1>1 DEF FlagsTrue
  <2>1. Common(step)
    BY <1>1, <1>2 DEF Common, FileBook
  <2> QED
    BY <1>4, <1>9, <2>1
<1>12. Paid(Me)
  <2> SUFFICES ASSUME NEW step \in StepsOf(Me), step.op = "pay"
               PROVE  /\ \E n \in 1..(1 + cuts[Me]) :
                           HeldAt(Here, run.mem[step.on], step.slot) = {n}
                      /\ step.flag \in DOMAIN run.mem
    BY <1>1 DEF Paid
  <2>1. step.op \in Settings /\ Common(step) /\ step.flag # Absent
    BY <1>1, StepFacts DEF Settings, Common
  <2>2. PICK j \in DOMAIN Plan : Plan[j] = step
    BY <1>9, <2>1
  <2>3. FlagNoted(Plan, j)
    BY <1>1, ScriptFacts
  <2>4. PICK i \in DOMAIN Plan : Plan[i].op = "note" /\ step.flag \in Range(Plan[i].needs)
    BY <2>1, <2>2, <2>3 DEF FlagNoted
  <2>5. step.flag \in DOMAIN run.mem
    BY <1>1, <1>2, <1>3, <2>4 DEF RunDone, Done
  <2> QED
    BY <1>4, <2>1, <2>2, <2>5 DEF Wired
<1> QED
  BY <1>7, <1>8, <1>10, <1>11, <1>12

LEMMA FinishWires ==
  ASSUME IInv, WInv, Finish
  PROVE  WInv'
<1>1. /\ ~Idle /\ run.pc = Len(Plan) + 1 /\ run' = NoRun /\ settled' = settled \cup {Me}
      /\ mixed' = IF run.forced /\ run.sound /\ Me \notin switched THEN mixed \ {Me} ELSE mixed
      /\ UNCHANGED <<scope, record, chain, seen, last, wiped, switched, cuts>>
  BY DEF Finish
<1>2. RunStep /\ RunInv' /\ Me' = Absent
  BY <1>1, NoRunNow DEF RunStep, RecordKept
<1>3. /\ RunBook /\ RunDone /\ RunWired /\ FileInv(Me) /\ PlanOf(Me) = Plan /\ Run(Me)
      /\ Me \in Files /\ Me \in Records /\ Plan \in Seq(StepType)
  BY <1>1, RunsLast, RunFacts
<1>4. record[Me] = run.mem /\ DOMAIN Plan = 1..(run.pc - 1) /\ Here = chain[Me] /\ ~AtStep
  BY <1>1, <1>3 DEF RunBook, Here, AtStep
<1>5. ASSUME NEW f \in Files, f = Me
      PROVE  FileInv(f)'
  <2>1. PlanOf(f)' = Plan /\ Run(f)' /\ FileBook(f)
    BY <1>1, <1>3, <1>5 DEF PlanOf, Run, FileInv
  <2>2. FileBook(f)'
    BY <1>1, <1>3, <1>5, <2>1 DEF FileBook
  <2>3. SettledDone(f)'
    BY <1>1, <1>3, <1>4, <1>5, <2>1 DEF SettledDone, RunDone
  <2>4. f \notin mixed' => Tracked
    BY <1>1, <1>5 DEF Tracked
  <2>5. SettledWired(f)'
    BY <1>1, <1>3, <1>4, <1>5, <2>1, <2>4 DEF SettledWired, RunWired
  <2>6. SteadyWired(f)'
    <3> SUFFICES ASSUME f \notin mixed'
                 PROVE  (Built(f) /\ Ordered(f) /\ Claimed(f) /\ FlagsTrue(f) /\ Paid(f))'
      BY DEF SteadyWired, Steady
    <3>1. Current(f)' = Current(f) /\ Grows(chain[f], chain'[f]) /\ cuts[f] \in Nat
      BY <1>1, HistoryType DEF Current, Grows
    <3>2. \A step \in StepsOf(f) :
            step.op = "pay" /\ Paying(f, step) => step.flag \in DOMAIN record[f]
      BY <1>1, <1>4, <1>5, PayingNow
    <3>3. Built(f) /\ Ordered(f) /\ Claimed(f) /\ FlagsTrue(f) /\ Paid(f)
      <4>1. CASE Steady(f)
        BY <1>1, <1>5, <4>1, SteadyNow
      <4>2. CASE ~Steady(f)
        <5>1. run.forced /\ Me \notin switched
          BY <1>1, <1>3, <1>5, <4>2 DEF Steady, RunBook
        <5>2. Renewed
          BY <1>1, <1>4, <2>4, <5>1 DEF Renewed
        <5> QED
          BY <1>5, <5>2, RenewedSteady
      <4> QED
        BY <4>1, <4>2
    <3>4. Built(f)' /\ Absent \notin DOMAIN record[f]
      BY <1>1, <2>1, <3>3 DEF Built, FileBook
    <3>5. f \in Records /\ cuts'[f] = cuts[f] /\ record'[f] = record[f] /\ chain'[f] = chain[f]
      BY <1>1, <1>3, <1>5
    <3> QED
      BY <1>1, <3>1, <3>2, <3>3, <3>4, <3>5, ChainSteady
  <2> QED
    BY <2>2, <2>3, <2>5, <2>6 DEF FileInv
<1> QED
  BY <1>2, <1>5, AllStay
-----------------------------------------------------------------------------
(* Between runs.                                                           *)

LEMMA NobodyRuns ==
  ASSUME Idle
  PROVE  Me = Absent /\ ~run.forced /\ ~Tracked
BY DEF Idle, NoRun, Me, Tracked

LEMMA StillNoRun ==
  ASSUME Idle, run' = run
  PROVE  RunInv' /\ Me' = Absent /\ ~run'.forced
BY NoRunNow DEF Idle

\* The step is about another file.
LeftAlone(f) ==
  /\ record'[f] = record[f] /\ chain'[f] = chain[f] /\ cuts'[f] = cuts[f]
  /\ last'[f] = last[f] /\ seen'[f] = seen[f] /\ Current(f)' = Current(f)
  /\ f \in wiped' <=> f \in wiped
  /\ f \in switched' <=> f \in switched
  /\ f \in settled' <=> f \in settled
  /\ f \in mixed => f \in mixed'

LEMMA LeftAloneStays ==
  ASSUME IInv, WInv, Idle, NEW f \in Files, LeftAlone(f)
  PROVE  FileInv(f)'
<1>1. FileInv(f) /\ f # Me /\ ~run.forced
  BY NobodyRuns, FilesAreRecords DEF WInv
<1>2. PlanOf(f)' = PlanOf(f) /\ Run(f)' = Run(f)
  BY DEF LeftAlone, PlanOf, Run
<1>3. FileBook(f)' /\ SettledDone(f)' /\ SettledWired(f)'
  BY <1>1, <1>2 DEF FileInv, FileBook, SettledDone, SettledWired, LeftAlone
<1>4. ASSUME Steady(f)'
      PROVE  (Built(f) /\ Ordered(f) /\ Claimed(f) /\ FlagsTrue(f) /\ Paid(f))'
  <2>1. Built(f) /\ Ordered(f) /\ Claimed(f) /\ FlagsTrue(f) /\ Paid(f)
    BY <1>1, <1>4 DEF FileInv, SteadyWired, Steady, LeftAlone
  <2>2. Built(f)' /\ Ordered(f)'
    BY <1>2, <2>1 DEF Built, Ordered, LeftAlone
  <2>3. Claimed(f)' /\ FlagsTrue(f)'
    BY <2>1 DEF Claimed, FlagsTrue, LeftAlone
  <2>4. Paid(f)'
    <3>1. \A step : ~Paying(f, step)
      BY <1>1 DEF Paying
    <3> QED
      BY <2>1, <3>1 DEF Paid, LeftAlone
  <2> QED
    BY <2>2, <2>3, <2>4
<1> QED
  BY <1>3, <1>4 DEF FileInv, SteadyWired

\* The steady facts of a file that no step of its script touches.
LEMMA SteadyBetween ==
  ASSUME IInv, WInv, Idle, NEW f \in Files, f \notin mixed
  PROVE  /\ Built(f) /\ Ordered(f) /\ Claimed(f) /\ FlagsTrue(f) /\ Paid(f)
         /\ \A step : ~Paying(f, step)
<1>1. FileInv(f) /\ f # Me /\ ~run.forced
  BY NobodyRuns, FilesAreRecords DEF WInv
<1> QED
  BY <1>1 DEF FileInv, SteadyWired, Steady, Paying

\* A run begins: in this mode, forced or not.
Starts(f, forced, mode) ==
  /\ Idle /\ mode \in Modes(f)
  /\ run' = [file |-> f, pc |-> 1, forced |-> forced, mode |-> mode,
             mem |-> record[f], sound |-> TRUE]
  /\ last' = [last EXCEPT ![f] = mode]
  /\ seen' = [seen EXCEPT ![f] = Current(f)]
  /\ f \in settled' => f \in settled /\ ~forced /\ last[f] \in {Absent, mode}
                       /\ Current(f) = seen[f]
  /\ f \notin switched' => last[f] \in {Absent, mode} /\ f \notin switched
  /\ f \in switched' /\ (forced \/ f \in wiped) => f \in mixed'
  /\ f \in mixed => f \in mixed'
  /\ \A g \in Files \ {f} : /\ g \in switched' <=> g \in switched
                            /\ g \in settled' <=> g \in settled
                            /\ g \in mixed => g \in mixed'
  /\ UNCHANGED <<scope, record, chain, wiped, cuts>>

LEMMA StartStarts ==
  ASSUME NEW f, Start(f)
  PROVE  \E forced \in BOOLEAN : \E mode \in Modes(f) : Starts(f, forced, mode)
BY DEF Start, Starts, Current

LEMMA StartedRun ==
  ASSUME IInv, WInv, NEW f \in Files, NEW forced \in BOOLEAN, NEW mode \in Modes(f),
         Starts(f, forced, mode)
  PROVE  RunInv'
<1>1. /\ ~Idle' /\ Me' = f /\ run'.pc = 1 /\ run'.forced = forced /\ run'.mode = mode
      /\ run'.mem = record[f] /\ run'.sound /\ record' = record /\ f # Absent
  BY FilesAreRecords DEF Starts, Idle, NoRun, Me
<1>2. last'[f] = mode /\ seen'[f] = Current(f) /\ Current(f)' = Current(f)
  <2>1. f \in DOMAIN last /\ f \in DOMAIN seen
    BY HistoryType DEF IInv, TypeOK, RecordsTypeOK
  <2> QED
    BY <2>1 DEF Starts, Current
<1>3. Absent \notin DOMAIN record[f]
  BY DEF WInv, FileInv, FileBook
<1>4. 1..(run'.pc - 1) = {}
  BY <1>1
<1>5. RunBook'
  BY <1>1, <1>2, <1>3 DEF RunBook, Starts
<1>6. RunDone' /\ RunWired'
  BY <1>4 DEF RunDone, RunWired
<1>7. NewInOrder'
  <2>1. MadeBefore(Plan', run'.pc) = {}
    BY <1>4 DEF MadeBefore
  <2> QED
    BY <1>4, <2>1 DEF NewInOrder
<1> QED
  BY <1>5, <1>6, <1>7 DEF RunInv

LEMMA StartedFile ==
  ASSUME IInv, WInv, NEW f \in Files, NEW forced \in BOOLEAN, NEW mode \in Modes(f),
         Starts(f, forced, mode)
  PROVE  FileInv(f)'
<1>1. /\ Idle /\ UNCHANGED <<scope, record, chain, wiped, cuts>>
      /\ f \in Records /\ FileInv(f) /\ FileBook(f)
      /\ Current(f)' = Current(f)
  BY FilesAreRecords DEF Starts, WInv, FileInv, Current
<1>2. last'[f] = mode /\ seen'[f] = Current(f)
  <2>1. f \in DOMAIN last /\ f \in DOMAIN seen
    BY HistoryType DEF IInv, TypeOK, RecordsTypeOK
  <2> QED
    BY <2>1 DEF Starts
<1>3. Run(f)' /\ PlanOf(f)' = Scripts[f][mode]
  BY <1>2 DEF Run, PlanOf
<1>4. ASSUME last[f] \in {Absent, mode}, Run(f)
      PROVE  last[f] = mode /\ PlanOf(f)' = PlanOf(f)
  <2>1. last[f] = mode
    BY <1>4 DEF Run, Modes, AdapterModes, Absent
  <2> QED
    BY <1>3, <2>1 DEF PlanOf
<1>5. FileBook(f)'
  BY <1>1, <1>3, <1>4 DEF FileBook, None, Starts
<1>6. f \in settled' =>
        PlanOf(f)' = PlanOf(f) /\ seen'[f] = seen[f] /\ f \in settled
  BY <1>1, <1>2, <1>4 DEF Starts, FileBook
<1>7. SettledDone(f)' /\ SettledWired(f)'
  BY <1>1, <1>6 DEF FileInv, SettledDone, SettledWired, Starts
<1>8. ASSUME f \notin mixed'
      PROVE  (Built(f) /\ Ordered(f) /\ Claimed(f) /\ FlagsTrue(f) /\ Paid(f))'
  <2>1. /\ Built(f) /\ Ordered(f) /\ Claimed(f) /\ FlagsTrue(f) /\ Paid(f)
        /\ \A step : ~Paying(f, step)
    BY <1>1, <1>8, SteadyBetween DEF Starts
  <2>2. Built(f)' /\ Claimed(f)'
    BY <1>1, <2>1 DEF Built, Claimed
  <2>3. Paid(f)'
    BY <1>1, <2>1 DEF Paid
  <2>4. Ordered(f)'
    <3> SUFFICES ASSUME f \notin switched', Eager(f), record[f] # None
                 PROVE  Ordered(f)'
      BY <1>1 DEF Ordered, None
    <3>1. Run(f) /\ f \notin switched /\ PlanOf(f)' = PlanOf(f)
      BY <1>1, <1>4 DEF FileBook, Starts
    <3> QED
      BY <1>1, <2>1, <3>1 DEF Ordered
  <2>5. FlagsTrue(f)'
    <3> SUFFICES ASSUME NEW step \in StepsOf(f), step.op \in Settings,
                        step.flag \in DOMAIN record[f]
                 PROVE  Wired(chain[f], record[f], Current(f), cuts[f], step)
      BY <1>1, <1>2 DEF FlagsTrue
    <3>1. Wired(chain[f], record[f], seen[f], cuts[f], step)
      BY <2>1 DEF FlagsTrue
    <3>2. step.key = Absent
      BY <1>1, StepFacts DEF FileBook
    <3>3. ValuesOf(step, record[f], Current(f)) = ValuesOf(step, record[f], seen[f])
      BY <3>2 DEF ValuesOf
    <3> QED
      BY <3>1, <3>3 DEF Wired
  <2> QED
    BY <2>2, <2>3, <2>4, <2>5
<1>9. SteadyWired(f)'
  BY <1>8 DEF SteadyWired, Steady
<1> QED
  BY <1>5, <1>7, <1>9 DEF FileInv

LEMMA StartWires ==
  ASSUME IInv, WInv, NEW f \in Files, Start(f)
  PROVE  WInv'
<1>1. PICK forced \in BOOLEAN, mode \in Modes(f) : Starts(f, forced, mode)
  BY StartStarts
<1>2. RunInv' /\ FileInv(f)' /\ Files' = Files
  BY <1>1, StartedRun, StartedFile DEF Starts, Files
<1>3. ASSUME NEW g \in Files, g # f
      PROVE  FileInv(g)'
  <2>1. last'[g] = last[g] /\ seen'[g] = seen[g]
    BY <1>1, <1>3 DEF Starts
  <2>2. LeftAlone(g)
    BY <1>1, <1>3, <2>1 DEF LeftAlone, Starts, Current
  <2> QED
    BY <1>1, <2>2, LeftAloneStays DEF Starts
<1> QED
  BY <1>2, <1>3 DEF WInv
LEMMA ResetChainWires ==
  ASSUME IInv, WInv, NEW f \in Files, ResetChain(f)
  PROVE  WInv'
<1>1. /\ Idle /\ run' = run /\ chain' = [chain EXCEPT ![f] = Fresh]
      /\ wiped' = wiped \cup {f} /\ settled' = settled \ {f}
      /\ mixed' = IF DOMAIN record[f] \cap Flags # {} \/ f \in switched \/ ~Eager(f)
                  THEN mixed \cup {f} ELSE mixed
      /\ UNCHANGED <<scope, record, last, seen, switched, cuts>>
  BY DEF ResetChain
<1>2. chain'[f] = Fresh /\ \A g \in Files \ {f} : chain'[g] = chain[g]
  BY <1>1 DEF IInv, TypeOK, ChainsTypeOK
<1>3. RunInv' /\ Files' = Files /\ f \in Records
  BY <1>1, StillNoRun, FilesAreRecords DEF Files
<1>4. ASSUME NEW g \in Files, g # f
      PROVE  FileInv(g)'
  <2>1. LeftAlone(g)
    BY <1>1, <1>2, <1>4 DEF LeftAlone, Current
  <2> QED
    BY <1>1, <2>1, LeftAloneStays
<1>5. FileBook(f) /\ PlanOf(f)' = PlanOf(f) /\ Run(f)' = Run(f)
  BY <1>1 DEF WInv, FileInv, PlanOf, Run
<1>6. FileBook(f)' /\ SettledDone(f)' /\ SettledWired(f)'
  BY <1>1, <1>5 DEF FileBook, SettledDone, SettledWired
<1>7. ASSUME f \notin mixed'
      PROVE  (Built(f) /\ Ordered(f) /\ Claimed(f) /\ FlagsTrue(f) /\ Paid(f))'
  <2>1. /\ f \notin mixed /\ f \notin switched /\ Eager(f)
        /\ DOMAIN record[f] \cap Flags = {}
    BY <1>1, <1>7
  <2>2. Built(f) /\ Ordered(f)
    BY <1>1, <2>1, SteadyBetween
  <2>3. DOMAIN chain'[f].made = {}
    BY <1>2 DEF Fresh
  <2>4. Built(f)' /\ Ordered(f)'
    BY <1>1, <1>5, <2>1, <2>2, <2>3 DEF Built, Ordered
  <2>5. Claimed(f)' /\ Paid(f)'
    BY <2>3 DEF Claimed, Paid, There
  <2>6. FlagsTrue(f)'
    <3>1. \A step \in StepsOf(f) : step.op \in Settings => step.flag \notin DOMAIN record[f]
      BY <1>3, <1>5, <2>1, StepFacts DEF FileBook
    <3> QED
      BY <1>1, <3>1 DEF FlagsTrue
  <2> QED
    BY <2>4, <2>5, <2>6
<1>8. FileInv(f)'
  BY <1>6, <1>7 DEF FileInv, SteadyWired, Steady
<1> QED
  BY <1>3, <1>4, <1>8 DEF WInv

\* What a finished script's steps use is recorded.
LEMMA SettledUses ==
  ASSUME IInv, WInv, NEW f \in Files, f \in settled, NEW i \in DOMAIN PlanOf(f)
  PROVE  /\ f \in Records /\ ScriptOf(f, PlanOf(f)) /\ PlanOf(f)[i] \in StepsOf(f)
         /\ Agrees(record[f], record[f], PlanOf(f)[i])
<1>1. f \in Records /\ Run(f) /\ SettledDone(f)
  BY FilesAreRecords DEF WInv, FileInv, FileBook
<1>2. ScriptOf(f, PlanOf(f))
  BY <1>1 DEF ScriptOf, PlanOf, Run
<1>3. i \in Nat /\ i + 1 \in Nat /\ i + 1 <= Len(PlanOf(f)) + 1
  BY <1>2, ScriptFacts
<1>4. ASSUME NEW k, k \in MadeBefore(PlanOf(f), i + 1)
      PROVE  k \in DOMAIN record[f]
  <2>1. PICK j \in DOMAIN PlanOf(f) : Makes(PlanOf(f)[j]) /\ PlanOf(f)[j].key = k
    BY <1>2, <1>3, <1>4, MadeEarlier
  <2> QED
    BY <1>1, <2>1 DEF SettledDone, Done
<1>5. PlanOf(f)[i].op # "note" => Uses(PlanOf(f)[i]) \subseteq DOMAIN record[f]
  BY <1>2, <1>4, UsesMade
<1> QED
  BY <1>1, <1>2, <1>5, StepOf DEF Agrees

LEMMA DeployOtherWires ==
  ASSUME IInv, WInv, NEW f \in Files, DeployOther(f)
  PROVE  WInv'
<1> DEFINE other == [key |-> "other", args |-> <<>>]
           new   == Len(chain[f].made) + 1
<1>1. /\ Idle /\ run' = run /\ chain' = [chain EXCEPT ![f].made = Append(@, other)]
      /\ mixed' = IF new \in Range(record[f]) THEN mixed \cup {f} ELSE mixed
      /\ UNCHANGED <<scope, record, last, seen, settled, wiped, switched, cuts>>
  BY DEF DeployOther
<1>2. DOMAIN chain = Files /\ SoundChain(chain[f]) /\ cuts \in [Files -> Nat]
  BY HistoryType DEF IInv, TypeOK, ChainsTypeOK
<1>3. \A g \in Files \ {f} : chain'[g] = chain[g]
  BY <1>1, <1>2
<1>4. OneMade(chain[f], other, {}, chain'[f])
  <2>1. other \in [key : Name, args : Seq(Address)]
    BY DEF Name
  <2>2. chain'[f] = [chain[f] EXCEPT !.made = Append(@, other)]
    BY <1>1, <1>2
  <2>3. chain[f] \in [made     : Seq([key : Name, args : Seq(Address)]),
                      settings : SUBSET [on : Address, slot : Name, value : Address]]
    BY <1>2 DEF SoundChain, Contracts
  <2>4. chain'[f] = [made |-> Append(chain[f].made, other), settings |-> chain[f].settings \cup {}]
    BY <2>2, <2>3
  <2> QED
    BY <1>2, <2>1, <2>4 DEF OneMade
<1> HIDE DEF other
<1>5. /\ Grows(chain[f], chain'[f])
      /\ DOMAIN chain[f].made = 1..Len(chain[f].made) /\ Len(chain[f].made) \in Nat
      /\ DOMAIN chain'[f].made = 1..new
  BY <1>4, GrowsByOne
<1>6. RunInv' /\ Files' = Files /\ f \in Records
  BY <1>1, StillNoRun, FilesAreRecords DEF Files
<1>7. ASSUME NEW g \in Files, g # f
      PROVE  FileInv(g)'
  <2>1. LeftAlone(g)
    BY <1>1, <1>3, <1>7 DEF LeftAlone, Current
  <2> QED
    BY <1>1, <2>1, LeftAloneStays
<1>8. /\ FileBook(f) /\ SettledDone(f) /\ SettledWired(f)
      /\ PlanOf(f)' = PlanOf(f) /\ Run(f)' = Run(f) /\ cuts[f] \in Nat
  BY <1>1, <1>2 DEF WInv, FileInv, PlanOf, Run
<1>9. FileBook(f)'
  BY <1>1, <1>8 DEF FileBook
<1>10. SettledDone(f)'
  <2> SUFFICES ASSUME f \in settled, NEW i \in DOMAIN PlanOf(f)
               PROVE  Done(chain'[f], record[f], seen[f], PlanOf(f)[i])
    BY <1>1, <1>8 DEF SettledDone
  <2>1. Done(chain[f], record[f], seen[f], PlanOf(f)[i])
    BY <1>8 DEF SettledDone
  <2> QED
    BY <1>5, <2>1, SettledUses, DoneStays
<1>11. SettledWired(f)'
  <2> SUFFICES ASSUME f \in settled \ mixed, NEW i \in DOMAIN PlanOf(f)
               PROVE  Wired(chain'[f], record[f], seen[f], cuts[f], PlanOf(f)[i])
    BY <1>1, <1>8 DEF SettledWired
  <2>1. Wired(chain[f], record[f], seen[f], cuts[f], PlanOf(f)[i])
    BY <1>8 DEF SettledWired
  <2>2. cuts[f] <= cuts[f]
    BY <1>8
  <2> QED
    BY <1>5, <1>8, <2>1, <2>2, SettledUses, WiredStays
<1>12. ASSUME f \notin mixed'
       PROVE  (Built(f) /\ Ordered(f) /\ Claimed(f) /\ FlagsTrue(f) /\ Paid(f))'
  <2>1. /\ Built(f) /\ Ordered(f) /\ Claimed(f) /\ FlagsTrue(f) /\ Paid(f)
        /\ \A step : ~Paying(f, step)
    BY <1>1, <1>12, SteadyBetween
  <2>2. \A k \in DOMAIN record[f] :
          record[f][k] \in DOMAIN chain'[f].made => record[f][k] \in DOMAIN chain[f].made
    <3>1. \A k \in DOMAIN record[f] : record[f][k] # new
      BY <1>1, <1>12 DEF Range
    <3> QED
      BY <1>5, <3>1
  <2>3. Built(f)'
    BY <1>1, <1>5, <2>1, <2>2 DEF Built, Grows
  <2>4. \A step : There(chain'[f], record[f], step.on) => There(chain[f], record[f], step.on)
    BY <1>5, <2>2 DEF There, Grows
  <2>5. /\ record'[f] = record[f] /\ Absent \notin DOMAIN record[f]
        /\ Current(f)' = Current(f) /\ cuts'[f] = cuts[f] /\ cuts[f] <= cuts'[f]
    BY <1>1, <1>8 DEF FileBook, Current
  <2>6. UNCHANGED <<seen, last, switched>>
    BY <1>1
  <2> QED
    BY <1>5, <1>6, <1>8, <2>1, <2>3, <2>4, <2>5, <2>6, ChainSteady
<1>13. FileInv(f)'
  BY <1>9, <1>10, <1>11, <1>12 DEF FileInv, SteadyWired, Steady
<1> QED
  BY <1>6, <1>7, <1>13 DEF WInv

\* Rendering a configuration, or nothing at all.
LEMMA StutterWires ==
  ASSUME WInv,
         UNCHANGED <<scope, record, chain, run, last, seen, settled, mixed, wiped,
                     switched, cuts>>
  PROVE  WInv'
<1>1. /\ Me' = Me /\ Idle' = Idle /\ Plan' = Plan /\ Here' = Here /\ Tracked' = Tracked
      /\ Files' = Files
  BY DEF Me, Idle, Plan, Here, Tracked, Files
<1>2. /\ \A f \in Files : PlanOf(f)' = PlanOf(f) /\ Run(f)' = Run(f) /\ Current(f)' = Current(f)
      /\ \A f \in Files : Steady(f)' = Steady(f)
  BY <1>1 DEF PlanOf, Run, Current, Steady
<1>3. Current(Me)' = Current(Me)
  BY <1>1 DEF Current
<1>4. RunBook'
  BY <1>1, <1>3 DEF WInv, RunInv, RunBook
<1>5. RunDone' /\ RunWired' /\ NewInOrder'
  BY <1>1 DEF WInv, RunInv, RunDone, RunWired, NewInOrder
<1>6. ASSUME NEW f \in Files
      PROVE  FileInv(f)'
  <2>1. FileBook(f)' /\ SettledDone(f)' /\ SettledWired(f)'
    BY <1>2 DEF WInv, FileInv, FileBook, SettledDone, SettledWired
  <2>2. ASSUME Steady(f)'
        PROVE  (Built(f) /\ Ordered(f) /\ Claimed(f) /\ FlagsTrue(f) /\ Paid(f))'
    <3>1. Built(f) /\ Ordered(f) /\ Claimed(f) /\ FlagsTrue(f) /\ Paid(f)
      BY <1>2, <2>2 DEF WInv, FileInv, SteadyWired
    <3>2. Built(f)' /\ Ordered(f)' /\ Claimed(f)' /\ FlagsTrue(f)'
      BY <1>2, <3>1 DEF Built, Ordered, Claimed, FlagsTrue
    <3>3. Paid(f)'
      BY <1>1, <3>1 DEF Paid, Paying
    <3> QED
      BY <3>2, <3>3
  <2> QED
    BY <2>1, <2>2 DEF FileInv, SteadyWired
<1> QED
  BY <1>1, <1>4, <1>5, <1>6 DEF WInv, RunInv

LEMMA InitWires ==
  ASSUME Init
  PROVE  WInv
<1>1. Idle /\ ~Tracked
  BY DEF Init, Idle, Tracked
<1>2. RunInv
  BY <1>1 DEF RunInv, RunBook, RunDone, RunWired, NewInOrder
<1>3. ASSUME NEW f \in Files
      PROVE  FileInv(f)
  <2>1. /\ record[f] = None /\ last[f] = Absent /\ f \notin settled /\ f \notin switched
        /\ DOMAIN record[f] = {}
    BY DEF Init, None
  <2>2. FileBook(f) /\ SettledDone(f) /\ SettledWired(f)
    BY <2>1 DEF FileBook, SettledDone, SettledWired
  <2>3. SteadyWired(f)
    BY <2>1 DEF SteadyWired, Built, Ordered, Claimed, FlagsTrue, Paid, There
  <2> QED
    BY <2>2, <2>3 DEF FileInv
<1> QED
  BY <1>2, <1>3 DEF WInv
-----------------------------------------------------------------------------
(* The theorems about what the scripts leave behind.                       *)

LEMMA NextWires ==
  ASSUME IInv, WInv, [Next]_vars
  PROVE  WInv'
<1>1. CASE \E f \in Files : Start(f) \/ ResetChain(f) \/ DeployOther(f)
  BY <1>1, StartWires, ResetChainWires, DeployOtherWires
<1>2. CASE Finish \/ Cut \/ Throw \/ ReceiptLost
  BY <1>2, FinishWires, CutWires, ThrowWires, ReceiptLostWires
<1>3. CASE Keep \/ EnrolFails \/ WriteRecord
  BY <1>3, KeepWires, EnrolFailsWires, WriteWires
<1>4. CASE DeployMissing \/ DeployUnread
  BY <1>4, DeployMakesNew, NewWires
<1>5. CASE Instantiate
  <2>1. CASE Reused
    BY <1>5, <2>1, InstantiatedWires
  <2>2. CASE ~Reused
    BY <1>5, <2>2, InstantiateMakesNew, NewWires
  <2> QED
    BY <2>1, <2>2
<1>6. CASE Configure
  <2>1. CASE Flagged
    BY <1>6, <2>1, FlaggedWires
  <2>2. CASE ~Flagged
    BY <1>6, <2>2, ConfigureSets, SetsWires
  <2> QED
    BY <2>1, <2>2
<1>7. CASE \E name \in scope.configs : Render(name)
  BY <1>7, StutterWires DEF Render
<1>8. CASE UNCHANGED vars
  BY <1>8, StutterWires DEF vars
<1> QED
  BY <1>1, <1>2, <1>3, <1>4, <1>5, <1>6, <1>7, <1>8 DEF Next

\* What the scripts (deployIfMissing, the setters and saveDeployment) have done
\* so far is right, in every file that is not mixed.
THEOREM WiringInvariant == Spec => []WInv
<1>1. Init => WInv
  BY InitWires
<1>2. IInv /\ WInv /\ [Next]_vars => WInv'
  BY NextWires
<1> QED
  BY <1>1, <1>2, DeployInvariant, PTL DEF Spec

LEMMA WiredHolds ==
  ASSUME NEW f, NEW step,
         step.op \in Settings \cup {"deploy", "instantiate", "note"},
         Wired(chain[f], record[f], seen[f], cuts[f], step)
  PROVE  Holds(f, step)
<1> DEFINE values == ValuesOf(step, record[f], seen[f])
           held   == Held(f, record[f][step.on], step.slot)
<1>1. HeldAt(chain[f], record[f][step.on], step.slot) = held
  BY DEF HeldAt, Held
<1>2. CASE Makes(step)
  <2>1. Deployed(f, step)
    BY <1>2 DEF Wired, There, BuiltAs, Deployed, Live
  <2> QED
    BY <1>2, <2>1 DEF Holds, Makes
<1>3. CASE step.op \in {"point", "call", "bind", "claim"}
  BY <1>1, <1>3 DEF Holds, Wired, Settings
<1>4. CASE step.op \in Adding
  BY <1>1, <1>4 DEF Holds, Wired, Settings, Adding
<1>5. CASE step.op = "pay"
  BY <1>1, <1>5 DEF Holds, Wired, Settings
<1>6. CASE step.op = "note"
  BY <1>6 DEF Holds
<1> QED
  BY <1>2, <1>3, <1>4, <1>5, <1>6 DEF Makes, Settings, Adding

\* When a deployment script has finished (main of deploy-bc1.ts and the
\* others), the contracts its record names exist, were built with one another's
\* addresses and carry every setting, and each deposit was paid once, plus at
\* most once for each run cut while paying -- unless the file is mixed.
THEOREM ScriptsWire == Spec => []WiredWhenDone
<1>1. IInv /\ WInv => WiredWhenDone
  <2> SUFFICES ASSUME IInv, WInv, NEW f \in settled \ mixed, NEW i \in DOMAIN PlanOf(f)
               PROVE  Holds(f, PlanOf(f)[i])
    BY DEF WiredWhenDone, PlanOf
  <2>1. f \in Files
    BY HistoryType
  <2>2. Wired(chain[f], record[f], seen[f], cuts[f], PlanOf(f)[i])
    BY <2>1 DEF WInv, FileInv, SettledWired
  <2>3. PlanOf(f)[i].op \in Settings \cup {"deploy", "instantiate", "note"}
    BY <2>1, SettledUses, StepFacts
  <2> QED
    BY <2>2, <2>3, WiredHolds
<1> QED
  BY <1>1, DeployInvariant, WiringInvariant, PTL

\* A step of a finished script run again, not forced and in the same mode.
Silent ==
  \A f \in settled :
    f = Me /\ left' = left
      => record'[f] = record[f] /\ chain'[f] = chain[f] /\ f \in settled'

LEMMA FaultsShow ==
  ASSUME IInv, Spend(1)
  PROVE  left' # left
<1>1. left \in [runs : 0..scope.runs, faults : 0..scope.faults]
  BY HistoryType
<1>2. left.faults \in Nat /\ left'.faults = left.faults - 1
  BY <1>1, HistoryType, ScopesAssumption DEF Spend
<1> QED
  BY <1>2

LEMMA StepsAreSilent ==
  ASSUME IInv, WInv, Next
  PROVE  Silent
<1> SUFFICES ASSUME Me \in settled, left' = left
             PROVE  /\ record'[Me] = record[Me] /\ chain'[Me] = chain[Me]
                    /\ Me \in settled'
  BY DEF Silent
<1>1. Me \in Files /\ ~Idle
  BY HistoryType, FilesAreRecords, NobodyRuns
<1>2. ~Spend(1)
  BY FaultsShow
<1>3. CASE Finish \/ Keep
  BY <1>3 DEF Finish, Keep
<1>4. CASE DeployMissing
  BY <1>4, SettledReuses DEF DeployMissing, Makes
<1>5. CASE Instantiate
  BY <1>5, SettledReuses DEF Instantiate, Makes
<1>6. CASE Configure
  BY <1>6, SettledConfigures DEF Configure
<1>7. CASE Throw
  BY <1>7, SettledSets DEF Throw
<1>8. CASE WriteRecord
  <2>1. WithNotes(run.mem) = record[Me]
    BY <1>1, <1>8, SettledNotes, SettledRun DEF WriteRecord
  <2>2. Me \in DOMAIN record
    BY <1>1 DEF IInv, TypeOK, RecordsTypeOK
  <2> QED
    BY <1>8, <2>1, <2>2 DEF WriteRecord
<1>9. CASE EnrolFails
  BY <1>2, <1>9, SettledSets DEF EnrolFails
<1> QED
  BY <1>1, <1>2, <1>3, <1>4, <1>5, <1>6, <1>7, <1>8, <1>9
     DEF Next, Start, ResetChain, DeployOther, Render, Cut, DeployUnread, ReceiptLost

\* A finished script run again (deployIfMissing and the setters of common.ts,
\* "re-run-safe"), not forced and in the same mode, creates no contract, changes
\* neither a setting nor the record and does not fail, unless a fault is spent.
THEOREM RerunsChangeNothing == Spec => RerunIsSilent
<1>1. IInv /\ WInv /\ [Next]_vars => [Silent]_vars
  BY StepsAreSilent
<1>2. RerunIsSilent <=> [][Silent]_vars
  BY DEF RerunIsSilent, Silent
<1> QED
  BY <1>1, <1>2, DeployInvariant, WiringInvariant, PTL DEF Spec
=============================================================================
