------------------------- MODULE MCBackendLifecycle -------------------------
(* Instances of BackendLifecycle for TLC.                                    *)
EXTENDS BackendLifecycle, TLC

(* Processes are interchangeable, and so are plugins. *)
Symmetric == Permutations(Processes) \cup Permutations(Plugins)
=============================================================================
