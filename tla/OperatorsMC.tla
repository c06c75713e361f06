---------------------------- MODULE OperatorsMC ----------------------------
(***************************************************************************)
(* The small components of the project checked together, side by side:   *)
(* pack/check over every action list of at most MaxLen entries            *)
(* (ActionsMC), the sync worker's handling of every abstract message with *)
(* every unit loaded (SyncRequest), the heap ownership of buffer items    *)
(* through constructions, moves and destructions (BufferItem), the units' *)
(* conversion of an address string into a node identifier (AddressParse), *)
(* the transceivers' request endpoint into the port they listen on        *)
(* (EndpointParse) and the bobwire unit's stream of bases (BasisStream).  *)
(* They share no state, so a behaviour exercises one of them while the    *)
(* others keep their initial state: the reachable states are the sum of   *)
(* the six state spaces rather than their product.                     *)
(***************************************************************************)
EXTENDS ActionsMC, SyncRequest, BufferItem, AddressParse, EndpointParse, BasisStream, TLC

VARIABLE part   \* the component this behaviour exercises

OpInit ==
    /\ part \in {"actions", "sync", "items", "address", "endpoint", "basis"}
    /\ Init /\ SRInit /\ BIInit /\ APInit /\ EPInit /\ BSInit
    /\ part # "basis" => file = <<>>   \* one bases file for the other parts

OpNext ==
    \/ part = "actions" /\ Next /\ UNCHANGED <<part, srVars, biVars, apVars, bsVars, epVars>>
    \/ part = "sync" /\ SRNext /\ UNCHANGED <<part, acts, biVars, apVars, bsVars, epVars>>
    \/ part = "items" /\ BINext /\ UNCHANGED <<part, acts, srVars, apVars, bsVars, epVars>>
    \/ part = "address" /\ APNext /\ UNCHANGED <<part, acts, srVars, biVars, bsVars, epVars>>
    \/ part = "endpoint" /\ EPNext /\ UNCHANGED <<part, acts, srVars, biVars, apVars, bsVars>>
    \/ part = "basis" /\ BSNext /\ UNCHANGED <<part, acts, srVars, biVars, apVars, epVars>>

OpSpec == OpInit /\ [][OpNext]_<<part, acts, srVars, biVars, apVars, bsVars, epVars>>

\* Item slots are interchangeable: no definition names one.
SlotSymmetry == Permutations(Slots)

\* Port texts " 80", "+80", "-1", "80x" and "x".
MCOddPorts == {<<32, 56, 48>>, <<43, 56, 48>>, <<45, 49>>, <<56, 48, 120>>, <<120>>}

=============================================================================
