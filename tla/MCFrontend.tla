----------------------------- MODULE MCFrontend -----------------------------
(***************************************************************************)
(* FrontendConnection and CrashListeners for TLC.  They share no variable, *)
(* and no property is about both, so that their steps need not be          *)
(* interleaved: a behaviour is one of the first or one of the second.      *)
(***************************************************************************)
EXTENDS FrontendConnection, CrashListeners

VARIABLE part

MCInit ==
    /\ part \in {"connection", "listeners"}
    /\ Init /\ ListenersInit

MCNext ==
    \/ part = "connection" /\ Next /\ UNCHANGED <<part, listenersVars>>
    \/ part = "listeners" /\ ListenersNext /\ UNCHANGED <<part, vars>>

MCSpec == MCInit /\ [][MCNext]_<<part, vars, listenersVars>> /\ Fairness
=============================================================================
