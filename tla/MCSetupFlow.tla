----------------------------- MODULE MCSetupFlow -----------------------------
(* Small instances of SetupFlow for TLC.                                    *)
EXTENDS SetupFlow

\* Every place where a run can be killed
Anywhere == PC \ {"idle", "exited"}

\* The downloads, and the steps that only count keys or look at the machine
Downloads == {"fetch", "fetchRuntime", "connect", "model", "keys", "up"}
=============================================================================
