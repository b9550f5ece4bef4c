--------------------------- MODULE DeployScripts ---------------------------
(***************************************************************************)
(* The deployment scripts (src/scripts/{xsmart,integratex,gpact,atom}) as  *)
(* data: the sequence of steps each one performs on its chain.  A script is *)
(* named by the deployment record it keeps (deployments/<system>/<net>).    *)
(* Deploy.tla interprets the steps.                                         *)
(*                                                                          *)
(* A step names the contract it acts on by its key in the record:           *)
(*   deploy       deployIfMissing(key), constructor given the keys in needs *)
(*   instantiate  the ink! counterpart, recorded only at the end            *)
(*   point        set slot of "on" to key's address if it differs           *)
(*   enlist       add key's address to the set in slot of "on" if absent    *)
(*   claim        set slot only while it is empty                           *)
(*   bind         as claim, and throw if it holds something else            *)
(*   call         set slot, whatever it holds                               *)
(*   enrol        enlist in a try/catch that only warns                     *)
(*   pay          send a deposit                                            *)
(*   note         write the keys in needs to the record                     *)
(* An absent key stands for the value the script itself fixes.  A step with  *)
(* a flag runs only if the record lacks the flag or the run is forced.      *)
(***************************************************************************)
EXTENDS Naturals, Sequences, Functions

Absent == "none"  \* what a step, a run or a record does not name

Step(op) == [op |-> op, key |-> Absent, on |-> Absent, slot |-> Absent,
             needs |-> <<>>, from |-> Absent, flag |-> Absent]

Make(key, needs)       == [Step("deploy") EXCEPT !.key = key, !.needs = needs]
Put(op, on, slot, key) == [Step(op) EXCEPT !.on = on, !.slot = slot, !.key = key]
Note(keys)             == [Step("note") EXCEPT !.needs = keys]
Unless(flag, steps)    == [i \in DOMAIN steps |-> [steps[i] EXCEPT !.flag = flag]]

(***************************************************************************)
(* XSmart on the EVM chains.                                               *)
(***************************************************************************)
AdapterModes == {"component", "substrate", "fabric", "both", "sp1", "risc0", "production"}

\* deploySelectedProofAdapter: the contracts of a proof mode, and the one the
\* bridge is to use; in production mode it is an address from outside.
Adapter(mode) ==
  LET component == Make("componentVerifiedAdapter", <<"lightClient">>)
      substrate == Make("substrateStateProofAdapter", <<"lightClient">>)
      fabric    == Make("fabricStateProofAdapter", <<"lightClient">>)
  IN CASE mode = "component"  -> <<component>>
       [] mode = "substrate"  -> <<substrate>>
       [] mode = "fabric"     -> <<fabric>>
       [] mode = "both"       -> << component, substrate, fabric,
                                    Make("compositeProofAdapter",
                                         << "componentVerifiedAdapter",
                                            "substrateStateProofAdapter",
                                            "fabricStateProofAdapter" >>) >>
       [] mode = "sp1"        -> << Make("sp1ZkProofAdapter", <<>>) >>
       [] mode = "risc0"      -> << Make("risc0ZkProofAdapter", <<>>) >>
       [] mode = "production" -> <<>>

SelectedAdapter(mode) ==
  IF mode = "production" THEN Absent ELSE Adapter(mode)[Len(Adapter(mode))].key

XBridge(mode) ==
  << Make("lightClient", <<>>), Make("relayerManager", <<>>), Make("ubtlRegistry", <<>>) >>
    \o Adapter(mode)
    \o << Make("xBridgingContract", <<"lightClient", "relayerManager">>) >>

Logic(keys) == [i \in DOMAIN keys |-> Make(keys[i], <<>>)]

States(bridge, keys, logic) ==
  [i \in DOMAIN keys |-> Make(keys[i], <<logic[i], bridge>>)]

Registered(bridge, keys) ==
  [i \in DOMAIN keys |-> Put("enlist", bridge, "registeredStateContracts", keys[i])]

\* setSelectedProofAdapter is the last of the three.
XConfigured(mode) ==
  << Put("enlist", "relayerManager", "relayers", Absent),
     Put("point", "xBridgingContract", "ubtlRegistry", "ubtlRegistry"),
     Put("point", "xBridgingContract", "proofAdapter", SelectedAdapter(mode)) >>

XTravel ==
  << Put("claim", "xBridgingContract", "travel", "hotelBookingTranslated"),
     Put("enlist", "xBridgingContract", "verified", Absent) >>

\* registerHotelTranslation.  The registry also refuses to bind one translated
\* contract under two keys, which cannot arise with the single key used here.
XTranslation == << Put("bind", "ubtlRegistry", "hotel", "hotelBookingTranslated") >>

XSmartBc1(mode) ==
  XBridge(mode) \o Logic(<<"lHotel", "lTrain">>)
    \o States("xBridgingContract", <<"sHotel", "sTrain">>, <<"lHotel", "lTrain">>)
    \o Logic(<<"hotelBookingTranslated">>)
    \o XConfigured(mode) \o Registered("xBridgingContract", <<"sHotel", "sTrain">>)
    \o XTravel \o XTranslation

\* The 1a hub also gives the translated hotel its price, before the binding.
XSmartBc1For1a(mode) ==
  LET hub == XSmartBc1(mode)
      n   == Len(hub)
  IN SubSeq(hub, 1, n - 1)
       \o << Put("claim", "hotelBookingTranslated", "META", Absent) >> \o <<hub[n]>>

\* deploy-evm-1a serves both peers: bc2 also has flights, bc3 taxis.
XSmartPeer(mode, extra, extraLogic) ==
  LET states == <<"sHotel", extra, "sTrain">>
  IN XBridge(mode) \o Logic(<<"lHotel", "lTrain", "lFlight", "lTaxi">>)
       \o States("xBridgingContract", states, <<"lHotel", extraLogic, "lTrain">>)
       \o XConfigured(mode)
       \o Registered("xBridgingContract", <<"sHotel", "sTrain", extra>>)

\* The ink! contracts of bc2: the bridge is set on every run, and the record
\* is written once, at the end.
XSmartBc2 ==
  << [Make("trainBooking", <<>>) EXCEPT !.op = "instantiate"],
     [Make("xBridgeBc2", <<"trainBooking">>) EXCEPT !.op = "instantiate"],
     Put("call", "trainBooking", "bridge", "xBridgeBc2"),
     Note(<<"trainBooking", "xBridgeBc2">>) >>

(***************************************************************************)
(* IntegrateX.                                                             *)
(***************************************************************************)
IntegrateXBridge ==
  << Make("lightClient", <<>>), Make("relayerManager", <<>>),
     Make("bridgingContract", <<"lightClient", "relayerManager">>) >>

IntegrateXConfigured ==
  << Put("enlist", "relayerManager", "relayers", Absent),
     Put("point", "relayerManager", "bridgingContract", "bridgingContract") >>

IntegrateXBc1 ==
  IntegrateXBridge \o Logic(<<"lHotel", "lTrain", "lFlight", "lTaxi">>)
    \o << Make("travelDApp", <<"bridgingContract", "lHotel", "lTrain">>),
          Make("travelDepthDApp",
               <<"bridgingContract", "lHotel", "lTrain", "lFlight", "lTaxi">>) >>
    \o IntegrateXConfigured

\* Each state contract follows its own logic contract.
IntegrateXPeer(near, nearLogic, far, farLogic) ==
  IntegrateXBridge
    \o Logic(<<nearLogic>>) \o States("bridgingContract", <<near>>, <<nearLogic>>)
    \o Logic(<<farLogic>>) \o States("bridgingContract", <<far>>, <<farLogic>>)
    \o IntegrateXConfigured \o Registered("bridgingContract", <<near, far>>)

IntegrateXBc2 == IntegrateXPeer("sHotel", "lHotel", "sFlight", "lFlight")
IntegrateXBc3 == IntegrateXPeer("sTrain", "lTrain", "sTaxi", "lTaxi")

(***************************************************************************)
(* GPACT.  Ownership of the control contract is handed over last.          *)
(***************************************************************************)
GpactConfigured ==
  << Put("enlist", "gpactSignerRegistry", "signer1", Absent),
     Put("enlist", "gpactSignerRegistry", "signer2", Absent),
     Put("enlist", "gpactSignerRegistry", "signer3", Absent),
     Put("point", "gpactSignerRegistry", "quorum", Absent) >>

Gpact(services) ==
  << Make("gpactSignerRegistry", <<>>),
     Make("gpactCrosschainControl", <<"gpactSignerRegistry">>) >>
    \o [i \in DOMAIN services |-> Make(services[i], <<"gpactCrosschainControl">>)]
    \o GpactConfigured
    \o << Put("point", "gpactCrosschainControl", "owner", Absent),
          Note(<<"gpactRelayer", "gpactSigners", "gpactQuorum">>) >>

GpactBc1 == Gpact(<<"gpactTravelRoot">>)
GpactBc2 == Gpact(<<"gpactHotel", "gpactFlight">>)
GpactBc3 == Gpact(<<"gpactTrain", "gpactTaxi">>)

(***************************************************************************)
(* ATOM.  The hub reads the two other records when it starts and registers *)
(* the remote functions whose contracts they name.                         *)
(***************************************************************************)
Remote(slot, file, key) ==
  [Put("claim", "atomRemoteRegistry", slot, key) EXCEPT !.from = file]

AtomEntry(key) == Make(key, <<"atomService", "atomRemoteRegistry">>)

AtomBc1 ==
  << Make("atomCommunity", <<>>), Make("atomService", <<"atomCommunity">>),
     Make("atomRemoteRegistry", <<>>) >>
    \o Unless("__server_registered",
              << Put("enrol", "atomCommunity", "server", Absent),
                 Put("enrol", "atomCommunity", "judge1", Absent),
                 Put("enrol", "atomCommunity", "judge2", Absent),
                 Put("enrol", "atomCommunity", "judge3", Absent),
                 Note(<<"__server_registered", "atomServer", "atomJudges">>) >>)
    \o << AtomEntry("atomTravelEntry"), AtomEntry("atomTravelDepthEntry"),
          Remote("hotel-read", "atom/bc2", "atomHotel"),
          Remote("hotel-write", "atom/bc2", "atomHotel"),
          Remote("train-write", "atom/bc3", "atomTrain"),
          Remote("flight-write", "atom/bc2", "atomFlight"),
          Remote("taxi-write", "atom/bc3", "atomTaxi") >>
    \o Unless("__settlement_seeded",
              << Put("call", "atomService", "terms", Absent),
                 Put("pay", "atomService", "rewardPool", Absent),
                 Put("pay", "atomService", "serverBond", Absent),
                 Put("pay", "atomService", "judgeBond1", Absent),
                 Put("pay", "atomService", "judgeBond2", Absent),
                 Put("pay", "atomService", "judgeBond3", Absent),
                 Note(<<"__settlement_seeded">>) >>)

AtomPeer(near, far) ==
  Logic(<<near, far>>) \o << Note(<<"atomServer">>) >>

AtomBc2 == AtomPeer("atomHotel", "atomFlight")
AtomBc3 == AtomPeer("atomTrain", "atomTaxi")

(***************************************************************************)
(* Which script keeps which record, and which records it reads.            *)
(***************************************************************************)
Script(file, mode) ==
  CASE file = "xsmart/bc1"     -> XSmartBc1(mode)
    [] file = "xsmart/bc1-1a"  -> XSmartBc1For1a(mode)
    [] file = "xsmart/bc2-evm" -> XSmartPeer(mode, "sFlight", "lFlight")
    [] file = "xsmart/bc3-evm" -> XSmartPeer(mode, "sTaxi", "lTaxi")
    [] file = "xsmart/bc2"     -> XSmartBc2
    [] file = "integratex/bc1" -> IntegrateXBc1
    [] file = "integratex/bc2" -> IntegrateXBc2
    [] file = "integratex/bc3" -> IntegrateXBc3
    [] file = "gpact/bc1"      -> GpactBc1
    [] file = "gpact/bc2"      -> GpactBc2
    [] file = "gpact/bc3"      -> GpactBc3
    [] file = "atom/bc1"       -> AtomBc1
    [] file = "atom/bc2"       -> AtomBc2
    [] file = "atom/bc3"       -> AtomBc3

Flags == {"__server_registered", "__settlement_seeded"}

\* A proof mode is only a choice of the XSmart scripts for EVM chains.
HasAdapter(file) ==
  file \in {"xsmart/bc1", "xsmart/bc1-1a", "xsmart/bc2-evm", "xsmart/bc3-evm"}

Modes(file) == IF HasAdapter(file) THEN AdapterModes ELSE {Absent}
AnyMode == AdapterModes \cup {Absent}

Records == { "xsmart/bc1", "xsmart/bc1-1a", "xsmart/bc2-evm", "xsmart/bc3-evm", "xsmart/bc2",
             "integratex/bc1", "integratex/bc2", "integratex/bc3",
             "gpact/bc1", "gpact/bc2", "gpact/bc3", "atom/bc1", "atom/bc2", "atom/bc3" }

\* The scripts as one constant.
Scripts == [file \in Records |-> [mode \in Modes(file) |-> Script(file, mode)]]

Peers(file) == IF file = "atom/bc1" THEN {"atom/bc2", "atom/bc3"} ELSE {}

\* The ink! script writes its record at the end, the others as they go.
Eager(file) == file # "xsmart/bc2"

(***************************************************************************)
(* The relayer configurations and manifests rendered from the records: the *)
(* addresses each one requires (requireContractAddress).                   *)
(***************************************************************************)
Of(file, keys) == {<<file, key>> : key \in keys}

XSmartHubKeys == {"hotelBookingTranslated", "xBridgingContract", "ubtlRegistry",
                  "relayerManager", "lightClient"}

XSmartConfig   == Of("xsmart/bc1", XSmartHubKeys)
XSmartConfig1a == Of("xsmart/bc1-1a", XSmartHubKeys)
                    \cup Of("xsmart/bc2-evm", {"xBridgingContract", "sHotel"})
                    \cup Of("xsmart/bc3-evm", {"xBridgingContract", "sTrain"})
XSmartConfig1b == Of("xsmart/bc1-1a", XSmartHubKeys)
                    \cup Of("xsmart/bc2-evm", {"xBridgingContract", "sHotel", "sFlight"})
                    \cup Of("xsmart/bc3-evm", {"xBridgingContract", "sTrain", "sTaxi"})

IntegrateXConfig   == Of("integratex/bc1", {"bridgingContract", "travelDApp"})
                        \cup Of("integratex/bc2", {"bridgingContract", "sHotel"})
                        \cup Of("integratex/bc3", {"bridgingContract", "sTrain"})
IntegrateXConfig1b == Of("integratex/bc1", {"bridgingContract", "travelDepthDApp"})
                        \cup Of("integratex/bc2", {"bridgingContract", "sHotel", "sFlight"})
                        \cup Of("integratex/bc3", {"bridgingContract", "sTrain", "sTaxi"})

GpactConfig   == Of("gpact/bc1", {"gpactCrosschainControl", "gpactTravelRoot"})
                   \cup Of("gpact/bc2", {"gpactCrosschainControl", "gpactHotel"})
                   \cup Of("gpact/bc3", {"gpactCrosschainControl", "gpactTrain"})
GpactManifest == Of("gpact/bc2", {"gpactHotel"}) \cup Of("gpact/bc3", {"gpactTrain"})
GpactConfig1b == Of("gpact/bc1", {"gpactCrosschainControl", "gpactTravelRoot"})
                   \cup Of("gpact/bc2", {"gpactCrosschainControl", "gpactHotel", "gpactFlight"})
                   \cup Of("gpact/bc3", {"gpactCrosschainControl", "gpactTrain", "gpactTaxi"})

AtomConfig1b == Of("atom/bc1", {"atomService", "atomTravelDepthEntry",
                                "atomRemoteRegistry", "atomCommunity"})
                  \cup Of("atom/bc2", {"atomHotel", "atomFlight"})
                  \cup Of("atom/bc3", {"atomTrain", "atomTaxi"})

ConfigKeys(name) ==
  CASE name = "xsmart"         -> XSmartConfig
    [] name = "xsmart-1a"      -> XSmartConfig1a
    [] name = "xsmart-1b"      -> XSmartConfig1b
    [] name = "integratex"     -> IntegrateXConfig
    [] name = "integratex-1b"  -> IntegrateXConfig1b
    [] name = "gpact"          -> GpactConfig
    [] name = "gpact-manifest" -> GpactManifest
    [] name = "gpact-1b"       -> GpactConfig1b
    [] name = "atom-1b"        -> AtomConfig1b

\* An XSmart configuration names the ink! chain only if its record does.
OptionalKeys(name) ==
  IF name = "xsmart" THEN Of("xsmart/bc2", {"trainBooking", "xBridgeBc2"}) ELSE {}

(***************************************************************************)
(* What the scripts have in common.  These are facts about the data above, *)
(* which TLC evaluates; the proofs about Deploy rest on them alone.        *)
(***************************************************************************)
\* Keys of a record that hold something else than a contract's address.
NotAddresses == Flags \cup {"gpactRelayer", "gpactSigners", "gpactQuorum",
                            "atomServer", "atomJudges"}

\* The strings, of which the provers know only those they are told.
Name == STRING \cup {Absent, "other", "quorum"}

StepType == [op : STRING, key : Name, on : Name, slot : Name,
             needs : Seq(Name), from : STRING, flag : STRING]

Makes(step) == step.op \in {"deploy", "instantiate"}
MadeBefore(script, i) == {script[j].key : j \in {k \in 1..(i - 1) : Makes(script[k])}}

\* A constructor is given contracts made by earlier steps, and what a script
\* notes is one of those or no address at all.
InOrder(script, i) ==
  LET step == script[i]
  IN /\ Makes(step) => /\ step.key \notin NotAddresses
                       /\ Range(step.needs) \subseteq MadeBefore(script, i)
     /\ step.op = "note" =>
          Range(step.needs) \subseteq NotAddresses \cup MadeBefore(script, i)

ASSUME ScriptsAssumption ==
  \A file \in Records : \A mode \in Modes(file) :
    LET script == Scripts[file][mode]
    IN /\ script \in Seq(StepType)
       /\ \A i \in DOMAIN script :
            InOrder(script, i) /\ script[i].from \in Peers(file) \cup {Absent}

Settings == {"point", "enlist", "claim", "bind", "call", "enrol", "pay"}
Adding   == {"enlist", "enrol"}

StepsOf(file) == UNION {Range(Scripts[file][mode]) : mode \in Modes(file)}

\* Steps that do not depend on the mode.
Common(step) == step.op = "claim" \/ (step.op \in Settings /\ step.flag # Absent)

\* A script makes a contract once.
MadeOnce(script, i) ==
  LET step == script[i]
  IN Makes(step) =>
       /\ step.key # Absent /\ step.from = Absent /\ step.on = Absent
       /\ \A j \in DOMAIN script : Makes(script[j]) /\ script[j].key = step.key => j = i

\* A setting is made on a contract made before, of one made before or of one
\* from another record, and is disturbed by no other step.
SetOnce(script, i) ==
  LET step == script[i]
  IN step.op \in Settings =>
       /\ step.needs = <<>>
       /\ step.on \in MadeBefore(script, i)
       /\ IF step.from = Absent THEN step.key \in {Absent} \cup MadeBefore(script, i)
          ELSE step.key # Absent /\ step.op = "claim"
       /\ step.op \in {"claim", "pay"} => step.on # "gpactSignerRegistry"
       /\ \A j \in DOMAIN script \ {i} :
            script[j].op \in Settings /\ script[j].on = step.on /\ script[j].slot = step.slot
              => step.op \in Adding /\ script[j].op \in Adding

\* A flag is noted after the steps it stands for, and deposits come last.
FlagNoted(script, i) ==
  LET step == script[i]
  IN /\ step.op \in Settings /\ step.flag # Absent =>
          /\ step.flag \in Flags /\ step.op \in {"enrol", "call", "pay"} /\ step.key = Absent
          /\ \E j \in DOMAIN script : script[j].op = "note" /\ step.flag \in Range(script[j].needs)
     /\ step.op \in {"enrol", "pay"} => step.flag # Absent
     /\ step.op = "note" =>
          /\ Absent \notin Range(step.needs)
          /\ \A j \in DOMAIN script :
               script[j].op \in Settings /\ script[j].flag \in Range(step.needs) => j < i
     /\ step.op = "pay" =>
          \A j \in i..Len(script) :
            script[j].op \in {"pay", "note"} /\ script[j].flag = "__settlement_seeded"

\* Whatever the mode, the same contract is made the same way.
SameInEveryMode(script, step) ==
  /\ Common(step) => step \in Range(script)
  /\ Makes(step) =>
       \A i \in DOMAIN script : Makes(script[i]) /\ script[i].key = step.key => script[i] = step

\* The record of an ink! script is written by its last step.
WritesAtEnd(script) ==
  /\ script # <<>> /\ script[Len(script)].op = "note"
  /\ \A i \in DOMAIN script : ~Common(script[i]) /\ script[i].op # "deploy"
  /\ \A i \in 1..(Len(script) - 1) : script[i].op # "note"

ASSUME WiringAssumption ==
  \A file \in Records : \A mode \in Modes(file) :
    LET script == Scripts[file][mode]
    IN /\ \A i \in DOMAIN script :
            /\ MadeOnce(script, i) /\ SetOnce(script, i) /\ FlagNoted(script, i)
            /\ script[i].op \in Settings \cup {"deploy", "instantiate", "note"}
       /\ \A step \in StepsOf(file) : SameInEveryMode(script, step)
       /\ IF Eager(file) THEN \A i \in DOMAIN script : script[i].op # "instantiate"
                         ELSE WritesAtEnd(script)

ASSUME RecordsAssumption ==
  /\ Absent \notin Records
  /\ \A file \in Records : file \notin Peers(file) /\ \A g \in Peers(file) : Eager(g)

ConfigNames == {"xsmart", "xsmart-1a", "xsmart-1b", "integratex", "integratex-1b",
                "gpact", "gpact-manifest", "gpact-1b", "atom-1b"}

ASSUME ConfigsAssumption ==
  \A name \in ConfigNames : \A a \in ConfigKeys(name) \cup OptionalKeys(name) :
    a[1] \in Records /\ a[2] \notin NotAddresses
=============================================================================
