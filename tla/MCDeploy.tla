------------------------------ MODULE MCDeploy ------------------------------
(***************************************************************************)
(* Model checking of Deploy: records alone with more runs and faults, and  *)
(* the records a configuration is rendered from together, with one fault.  *)
(***************************************************************************)
EXTENDS Deploy

Alone(file, modes, runs) ==
  [files |-> {file}, modes |-> modes, configs |-> {}, runs |-> runs, faults |-> 2]

Together(files, configs) ==
  [files |-> files, modes |-> {"component"}, configs |-> configs,
   runs |-> Cardinality(files) + 1, faults |-> 1]

MCScopes ==
  { Alone("xsmart/bc1", {"component", "both"}, 3),
    Alone("xsmart/bc2", {}, 4),
    Alone("integratex/bc2", {}, 3),
    Alone("gpact/bc2", {}, 3),
    [Alone("xsmart/bc2-evm", AdapterModes, 2) EXCEPT !.faults = 1],
    Together({"xsmart/bc1", "xsmart/bc2"}, {"xsmart"}),
    Together({"xsmart/bc1-1a", "xsmart/bc2-evm", "xsmart/bc3-evm"}, {"xsmart-1a", "xsmart-1b"}),
    Together({"integratex/bc1", "integratex/bc2", "integratex/bc3"},
             {"integratex", "integratex-1b"}),
    Together({"gpact/bc1", "gpact/bc2", "gpact/bc3"},
             {"gpact", "gpact-manifest", "gpact-1b"}),
    Together({"atom/bc1", "atom/bc2", "atom/bc3"}, {"atom-1b"}) }
=============================================================================
