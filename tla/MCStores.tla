------------------------------- MODULE MCStores -------------------------------
(* The fork choice store and the proposal history, which share no state, each   *)
(* in an instance of its own, for one run of TLC: a behaviour picks one of them *)
(* at the start, and only that one takes steps.                                 *)
EXTENDS MCProtoArray, ProposerProtection

VARIABLE picked

storesVars == <<picked, vars, proposeVars>>

StoresInit ==
    /\ picked \in {"fork choice", "proposals"}
    /\ Init /\ ProposeInit
    /\ picked = "proposals" \/ imported = {}

StoresNext ==
    \/ picked = "fork choice" /\ AnyCall /\ UNCHANGED <<picked, proposeVars>>
    \/ picked = "proposals" /\ ProposeNext /\ UNCHANGED <<picked, vars>>

StoresSpec == StoresInit /\ [][StoresNext]_storesVars
===============================================================================
