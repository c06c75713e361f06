-------------------------- MODULE CirculatorSwitch --------------------------
(***************************************************************************)
(* trabea's circulator_switch, served through iswitch_proc_unit: the unit  *)
(* keeps the chirality it believes the simulated switch has and changes    *)
(* the switch through the simulation dispatcher (a REQ socket).            *)
(*                                                                         *)
(* simState is the chirality of the switch inside the simulator, which     *)
(* outlives the unit: it is arbitrary at start and kept when armish_fire- *)
(* place is run again, which loads the unit anew (MaxLoads runs).         *)
(* The module manager's stateMutex and iswitch_proc_unit's stateMutex make *)
(* every request one step.                                                 *)
(***************************************************************************)
EXTENDS Naturals

CONSTANTS
    PortCount,    \* circulator_switch::portCount (option "p")
    Faults,       \* subset of {"error", "abort"}: what a dispatcher call may do
    MaxRequests,  \* bound: get_state and configure requests
    MaxLoads      \* bound: loads of the unit

Chiralities == {"cw", "ccw"}

\* Port numbers a request may carry: every port and one past the last.
PortArgs == 0..PortCount

\* The value of the member `state` before string_initialize_parameters.
Unset == "unset"

NoReply == [op |-> "none", in |-> 0, out |-> 0, res |-> "none"]

VARIABLES
    phase,     \* "unloaded" or "loaded" (loadedProcUnit of the module)
    state,     \* circulator_switch::state
    simState,  \* the simulated switch's chirality
    zreq,      \* dispatcher REQ socket: "ready", or "awaiting" a reply
    nreq,      \* requests served
    nload,     \* loads done
    last       \* the last operation and its result

vars == <<phase, state, simState, zreq, nreq, nload, last>>

\* The chirality get/set_switch_state associate with the port pair:
\* cw when outPort follows inPort or inPort is the last port, else ccw.
NeededChirality(in, out) ==
    IF in + 1 = out \/ in + 1 = PortCount THEN "cw" ELSE "ccw"

\* Reference: which ports a circulator of PortCount ports connects.
Connects(in, out, c) ==
    /\ in < PortCount /\ out < PortCount
    /\ IF c = "cw" THEN out = (in + 1) % PortCount
                   ELSE in = (out + 1) % PortCount

\* dispatcher->call: a send on a socket awaiting a reply fails (EFSM) and
\* throws; otherwise the simulator answers ok or error, or the recv fails
\* after the simulator acted ("abort"), which throws too.
CallOutcomes ==
    IF zreq = "awaiting" THEN {"efsm"}
    ELSE {"ok"} \cup (Faults \cap {"error", "abort"})

Applied(o) == o \in {"ok", "abort"}

\* A result as the reply carries it: "true", "false", or "throw".
Result(b) == IF b THEN "true" ELSE "false"

CallResult(o) == IF o \in {"ok", "error"} THEN Result(o = "ok") ELSE "throw"

CallZreq(o) == IF o = "ok" \/ o = "error" THEN "ready" ELSE "awaiting"

Init ==
    /\ phase = "unloaded"
    /\ state = Unset
    /\ simState \in Chiralities
    /\ zreq = "ready"
    /\ nreq = 0
    /\ nload = 0
    /\ last = NoReply

-----------------------------------------------------------------------------
\* main's moduleManager.load_proc_unit, once per run of armish_fireplace:
\* imodule::load_proc_unit makes a new circulator_switch, then
\* string_initialize_parameters: a new dispatcher, state = ccw, and the
\* configure_qswitch call.  An error reply or a failed call throws out of
\* load_proc_unit before the server is told; main catches it and exits,
\* so the unit never serves and the next run starts unloaded again.
initialize ==
    /\ phase = "unloaded" /\ nload < MaxLoads
    /\ \E o \in {"ok"} \cup (Faults \cap {"error", "abort"}) :
          /\ simState' = IF Applied(o) THEN "ccw" ELSE simState
          /\ last' = [NoReply EXCEPT !.op = "init", !.res = CallResult(o)]
          /\ phase' = IF o = "ok" THEN "loaded" ELSE "unloaded"
          /\ state' = IF o = "ok" THEN "ccw" ELSE Unset
    /\ zreq' = "ready"
    /\ nload' = nload + 1
    /\ UNCHANGED nreq

\* The run ends (a signal; ~module_manager unloads and deletes the unit,
\* the dispatcher is leaked); the simulator keeps its switch.
unload ==
    /\ phase = "loaded"
    /\ phase' = "unloaded"
    /\ state' = Unset
    /\ UNCHANGED <<simState, zreq, nreq, nload, last>>

\* proc_act_request "get_state": get_switch_state(inPort, outPort).
get_state(in, out) ==
    /\ phase = "loaded" /\ nreq < MaxRequests
    /\ last' = [op |-> "get", in |-> in, out |-> out,
                res |-> Result(state = NeededChirality(in, out))]
    /\ nreq' = nreq + 1
    /\ UNCHANGED <<phase, state, simState, zreq, nload>>

\* proc_act_push "configure": set_switch_state with a port out of range.
configure_out_of_range(in, out) ==
    /\ phase = "loaded" /\ nreq < MaxRequests
    /\ in >= PortCount \/ out >= PortCount
    /\ last' = [op |-> "set", in |-> in, out |-> out, res |-> "false"]
    /\ nreq' = nreq + 1
    /\ UNCHANGED <<phase, state, simState, zreq, nload>>

\* "We are already in the state we need to be": true, no call.
configure_unchanged(in, out) ==
    /\ phase = "loaded" /\ nreq < MaxRequests
    /\ in < PortCount /\ out < PortCount
    /\ NeededChirality(in, out) = state
    /\ last' = [op |-> "set", in |-> in, out |-> out, res |-> "true"]
    /\ nreq' = nreq + 1
    /\ UNCHANGED <<phase, state, simState, zreq, nload>>

\* A different chirality is needed: state = newState, then the
\* configure_qswitch call; the reply's error flag is the result, and a
\* failed send or recv throws (sync_work answers with an error).
configure_switch(in, out) ==
    /\ phase = "loaded" /\ nreq < MaxRequests
    /\ in < PortCount /\ out < PortCount
    /\ NeededChirality(in, out) # state
    /\ state' = NeededChirality(in, out)
    /\ \E o \in CallOutcomes :
          /\ simState' = IF Applied(o) THEN NeededChirality(in, out) ELSE simState
          /\ zreq' = CallZreq(o)
          /\ last' = [op |-> "set", in |-> in, out |-> out, res |-> CallResult(o)]
    /\ nreq' = nreq + 1
    /\ UNCHANGED <<phase, nload>>

\* The program keeps running after the last load bound is spent.
Done ==
    /\ phase = "unloaded" /\ nload = MaxLoads
    /\ UNCHANGED vars

Next ==
    \/ initialize \/ unload
    \/ \E in, out \in PortArgs :
          \/ get_state(in, out)
          \/ configure_out_of_range(in, out)
          \/ configure_unchanged(in, out)
          \/ configure_switch(in, out)
    \/ Done

Spec == Init /\ [][Next]_vars

-----------------------------------------------------------------------------
\* A loaded unit holds a chirality: string_initialize_parameters sets
\* `state` before the unit serves any request.
TypeOK ==
    /\ phase \in {"unloaded", "loaded"}
    /\ state \in IF phase = "loaded" THEN Chiralities ELSE {Unset}
    /\ simState \in Chiralities
    /\ zreq \in {"ready", "awaiting"}
    /\ nreq \in 0..MaxRequests /\ nload \in 0..MaxLoads
    /\ last.op \in {"none", "init", "get", "set"}
    /\ last.res \in {"none", "true", "false", "throw"}

\* A configure that returns true ("connected") leaves the simulator's
\* switch in the chirality set_switch_state chose for the pair.
SetTrueMeansConfigured ==
    (last.op = "set" /\ last.res = "true")
        => simState = NeededChirality(last.in, last.out)

\* get_switch_state "returns whether or not two ports are currently
\* connected": true only for a pair the circulator joins.
ConnectedMeansAdjacent ==
    (last.op = "get" /\ last.res = "true") => Connects(last.in, last.out, state)
=============================================================================
